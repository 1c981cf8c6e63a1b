----------------------------- MODULE TokenProofs -----------------------------
(***************************************************************************)
(* Proofs about ACE_Token for every set of threads, every bound on the     *)
(* nesting and both kinds of queue entry.                                  *)
(***************************************************************************)
EXTENDS Token, TLAPS

(***************************************************************************)
(* insert_entry keeps what is linked, adds the new entry once, and leaves  *)
(* the head of a queue alone when it inserts at the tail.                  *)
(***************************************************************************)
LEMMA InsertEntry ==
  ASSUME NEW S, NEW q \in Seq(S), NEW t \in S, NEW p \in Int
  PROVE  LET r == insert_entry(q, t, p)
         IN  /\ r \in Seq(S)
             /\ Len(r) = Len(q) + 1
             /\ Linked(r) = Linked(q) \cup {t}
             /\ NoDuplicates(q) /\ t \notin Linked(q) => NoDuplicates(r)
             /\ p = -1 /\ q # <<>> => Head(r) = Head(q)
<1> DEFINE k == Skipped(q, p)
           r == insert_entry(q, t, p)
<1>1. k \in 0..Len(q)
  BY DEF Skipped
<1>2. r = [i \in 1..(Len(q) + 1) |->
             IF i <= k THEN q[i] ELSE IF i = k + 1 THEN t ELSE q[i - 1]]
  BY DEF insert_entry
<1> HIDE DEF k, r
<1>3. r \in Seq(S) /\ Len(r) = Len(q) + 1
  BY <1>1, <1>2
<1>4. Linked(r) = Linked(q) \cup {t}
  <2>1. ASSUME NEW x \in Linked(r) PROVE x \in Linked(q) \cup {t}
    <3>1. PICK i \in 1..Len(r) : x = r[i]
      BY DEF Linked
    <3>2. CASE i <= k
      BY <1>1, <1>2, <1>3, <3>1, <3>2 DEF Linked
    <3>3. CASE i = k + 1
      BY <1>1, <1>2, <1>3, <3>1, <3>3
    <3>4. CASE i > k + 1
      <4>1. i - 1 \in 1..Len(q) /\ x = q[i - 1]
        BY <1>1, <1>2, <1>3, <3>1, <3>4
      <4>2. QED BY <4>1 DEF Linked
    <3>5. QED BY <1>1, <1>3, <3>2, <3>3, <3>4
  <2>2. t \in Linked(r)
    <3>1. k + 1 \in 1..Len(r) /\ r[k + 1] = t
      BY <1>1, <1>2, <1>3
    <3>2. QED BY <3>1 DEF Linked
  <2>3. ASSUME NEW x \in Linked(q) PROVE x \in Linked(r)
    <3>1. PICK i \in 1..Len(q) : x = q[i]
      BY DEF Linked
    <3>2. CASE i <= k
      <4>1. i \in 1..Len(r) /\ r[i] = x
        BY <1>1, <1>2, <1>3, <3>1, <3>2
      <4>2. QED BY <4>1 DEF Linked
    <3>3. CASE i > k
      <4>1. i + 1 \in 1..Len(r) /\ r[i + 1] = x
        BY <1>1, <1>2, <1>3, <3>1, <3>3
      <4>2. QED BY <4>1 DEF Linked
    <3>4. QED BY <1>1, <3>2, <3>3
  <2>4. QED BY <2>1, <2>2, <2>3
<1>5. ASSUME NoDuplicates(q), t \notin Linked(q) PROVE NoDuplicates(r)
  <2>1. \A i \in 1..Len(q) : q[i] # t
    BY <1>5 DEF Linked
  <2>2. SUFFICES ASSUME NEW i \in 1..Len(r), NEW j \in 1..Len(r), r[i] = r[j], i < j
                 PROVE  FALSE
    BY <1>3 DEF NoDuplicates
  <2>3. QED BY <1>1, <1>2, <1>3, <1>5, <2>1, <2>2 DEF NoDuplicates
<1>6. ASSUME p = -1, q # <<>> PROVE Head(r) = Head(q)
  <2>1. k = Len(q) /\ Len(q) > 0
    BY <1>6 DEF k, Skipped
  <2>2. r[1] = q[1]
    BY <1>2, <2>1
  <2>3. QED BY <1>3, <2>1, <2>2
<1>7. QED
  BY <1>3, <1>4, <1>5, <1>6 DEF r

(***************************************************************************)
(* remove_entry unlinks exactly the given entry of a queue without         *)
(* duplicates.                                                             *)
(***************************************************************************)
LEMMA RemoveEntry ==
  ASSUME NEW S, NEW q \in Seq(S), NoDuplicates(q), NEW t \in Linked(q)
  PROVE  LET r == remove_entry(q, t)
         IN  /\ r \in Seq(S)
             /\ Len(r) = Len(q) - 1
             /\ Linked(r) = Linked(q) \ {t}
             /\ NoDuplicates(r)
<1> DEFINE k == CHOOSE i \in 1..Len(q) : q[i] = t
           r == remove_entry(q, t)
<1>1. \E i \in 1..Len(q) : q[i] = t
  BY DEF Linked
<1>2. k \in 1..Len(q) /\ q[k] = t
  BY <1>1
<1>3. r = [i \in 1..(Len(q) - 1) |-> IF i < k THEN q[i] ELSE q[i + 1]]
  BY <1>1 DEF remove_entry
<1> HIDE DEF k, r
<1>4. r \in Seq(S) /\ Len(r) = Len(q) - 1
  BY <1>2, <1>3
<1>5. \A i \in 1..Len(q) : q[i] = t => i = k
  BY <1>2 DEF NoDuplicates
<1>6. Linked(r) = Linked(q) \ {t}
  <2>1. ASSUME NEW x \in Linked(r) PROVE x \in Linked(q) \ {t}
    <3>1. PICK i \in 1..Len(r) : x = r[i]
      BY DEF Linked
    <3>2. CASE i < k
      <4>1. i \in 1..Len(q) /\ x = q[i] /\ i # k
        BY <1>2, <1>3, <1>4, <3>1, <3>2
      <4>2. QED BY <1>5, <4>1 DEF Linked
    <3>3. CASE ~(i < k)
      <4>1. i + 1 \in 1..Len(q) /\ x = q[i + 1] /\ i + 1 # k
        BY <1>2, <1>3, <1>4, <3>1, <3>3
      <4>2. QED BY <1>5, <4>1 DEF Linked
    <3>4. QED BY <3>2, <3>3
  <2>2. ASSUME NEW x \in Linked(q), x # t PROVE x \in Linked(r)
    <3>1. PICK i \in 1..Len(q) : x = q[i]
      BY DEF Linked
    <3>2. CASE i < k
      <4>1. i \in 1..Len(r) /\ r[i] = x
        BY <1>2, <1>3, <1>4, <3>1, <3>2
      <4>2. QED BY <4>1 DEF Linked
    <3>3. CASE i > k
      <4>1. i - 1 \in 1..Len(r) /\ r[i - 1] = x
        BY <1>2, <1>3, <1>4, <3>1, <3>3
      <4>2. QED BY <4>1 DEF Linked
    <3>4. QED BY <1>2, <2>2, <3>1, <3>2, <3>3
  <2>3. QED BY <2>1, <2>2
<1>7. NoDuplicates(r)
  <2>1. SUFFICES ASSUME NEW i \in 1..Len(r), NEW j \in 1..Len(r), r[i] = r[j], i < j
                 PROVE  FALSE
    BY <1>4 DEF NoDuplicates
  <2>2. QED BY <1>2, <1>3, <1>4, <2>1 DEF NoDuplicates
<1>8. QED
  BY <1>4, <1>6, <1>7 DEF r

\* The head of a non-empty queue is one of its entries.
LEMMA HeadLinked ==
  ASSUME NEW S, NEW q \in Seq(S), q # <<>>
  PROVE  Head(q) \in Linked(q) /\ Len(q) > 0
BY DEF Linked

\* A queue in which nothing is linked is empty, and vice versa.
LEMMA EmptyQueue ==
  ASSUME NEW S, NEW q \in Seq(S)
  PROVE  /\ Linked(q) = {} <=> q = <<>>
         /\ Linked(q) \subseteq S
         /\ Len(q) = 0 <=> q = <<>>
<1>1. ASSUME q # <<>> PROVE Linked(q) # {}
  BY <1>1, HeadLinked
<1>2. Linked(<<>>) = {}
  BY DEF Linked
<1>3. Linked(q) \subseteq S
  BY DEF Linked
<1>4. QED BY <1>1, <1>2, <1>3

-----------------------------------------------------------------------------
(***************************************************************************)
(* The inductive invariant: the properties of Token, tied together by what *)
(* a free token looks like, by the nesting level being zero while the new  *)
(* owner is still asleep, and by what a blocked renew has put aside.       *)
(***************************************************************************)
FreeOrOwned ==
  /\ in_use = 0 <=> owner = NULL_thread
  /\ in_use = 0 => nesting_level = 0
  /\ \A t \in Threads : Blocked(t) /\ owner = t => nesting_level = 0

PutAside ==
  \A t \in Threads : /\ frame[t].call = "acquire" => held[t] = 0
                     /\ frame[t].call = "renew" => held[t] = frame[t].saved + 1

\* Between calls a thread has no my_entry; the next one starts as not runable.
Dormant ==
  \A t \in Threads : ~Blocked(t) => ~runable[t] /\ ~signaled[t]

IInv == /\ TypeOK /\ EntriesOfBlockedCalls
        /\ FreeOrOwned /\ PutAside /\ Dormant
        /\ MutualExclusion /\ NestingMatches
        /\ NoStrandedWaiters /\ OwnerIsRunable

(***************************************************************************)
(* wakeup_next_waiter frees the token when both queues are empty, and      *)
(* otherwise makes exactly one of the linked threads owner and runable.    *)
(***************************************************************************)
LEMMA WakeupNextWaiter ==
  ASSUME NEW run \in [Threads -> BOOLEAN], NEW sig \in [Threads -> BOOLEAN],
         writers' \in Seq(Threads), readers' \in Seq(Threads),
         wakeup_next_waiter(run, sig)
  PROVE  /\ runable' \in [Threads -> BOOLEAN]
         /\ signaled' \in [Threads -> BOOLEAN]
         /\ \/ /\ writers' = <<>> /\ readers' = <<>>
               /\ owner' = NULL_thread /\ in_use' = 0
               /\ runable' = run /\ signaled' = sig
            \/ /\ owner' \in Linked(writers') \cup Linked(readers')
               /\ owner' \in Threads
               /\ owner' = IF writers' # <<>> THEN Head(writers') ELSE Head(readers')
               /\ in_use' \in OpTypes /\ in_use' # 0
               /\ runable' = [run EXCEPT ![owner'] = TRUE]
               /\ signaled' = [sig EXCEPT ![owner'] = UsesSemaphore \/ Blocked(owner')]
<1>1. CASE writers' = <<>> /\ readers' = <<>>
  BY <1>1 DEF wakeup_next_waiter
<1>2. CASE ~(writers' = <<>> /\ readers' = <<>>)
  <2> DEFINE next == IF writers' # <<>> THEN Head(writers') ELSE Head(readers')
  <2>1. /\ in_use' = (IF writers' # <<>> THEN WRITE_TOKEN ELSE READ_TOKEN)
        /\ owner' = next
        /\ runable' = [run EXCEPT ![next] = TRUE]
        /\ signaled' = [sig EXCEPT ![next] = UsesSemaphore \/ Blocked(next)]
    BY <1>2 DEF wakeup_next_waiter
  <2>2. next \in Linked(writers') \cup Linked(readers')
    BY <1>2, HeadLinked
  <2>3. next \in Threads
    BY <2>2, EmptyQueue
  <2>4. (UsesSemaphore \/ Blocked(next)) \in BOOLEAN
    BY DEF Blocked
  <2>5. in_use' \in OpTypes /\ in_use' # 0
    BY <2>1 DEF OpTypes, READ_TOKEN, WRITE_TOKEN
  <2>6. QED BY <2>1, <2>2, <2>3, <2>4, <2>5, Zenon
<1>3. QED BY <1>1, <1>2

-----------------------------------------------------------------------------
\* What a frame records; and NoCall is the frame of no call.
LEMMA FrameFields ==
  ASSUME NEW call \in {"none", "acquire", "renew"}, NEW op \in OpTypes,
         NEW timed \in BOOLEAN, NEW saved \in Nat, NEW position \in Int
  PROVE  LET f == Frame(call, op, timed, saved, position)
         IN  /\ f \in Frames
             /\ f.call = call /\ f.op = op /\ f.saved = saved
BY DEF Frame, Frames

\* A thread that is in no call has a frame of the right type.
LEMMA NoCallFields == NoCall \in Frames /\ NoCall.call = "none"
BY DEF NoCall, Frame, Frames, OpTypes

(***************************************************************************)
(* Insert links the entry of the call that blocks, in the queue of its     *)
(* op_type, and counts it.                                                 *)
(***************************************************************************)
LEMMA InsertKeeps ==
  ASSUME TypeOK, EntriesOfBlockedCalls,
         NEW t \in Threads, ~Blocked(t),
         NEW op \in OpTypes, NEW position \in Int, NEW f \in Frames,
         f.op = op, f.call # "none",
         Insert(t, op, position),
         frame' = [frame EXCEPT ![t] = f]
  PROVE  /\ EntriesOfBlockedCalls'
         /\ writers' \in Seq(Threads) /\ readers' \in Seq(Threads)
         /\ waiters' \in Int
         /\ frame' \in [Threads -> Frames]
<1>1. /\ frame' \in [Threads -> Frames]
      /\ frame'[t] = f
      /\ \A u \in Threads \ {t} : frame'[u] = frame[u]
  BY DEF TypeOK
<1>2. /\ writers \in Seq(Threads) /\ NoDuplicates(writers)
      /\ readers \in Seq(Threads) /\ NoDuplicates(readers)
  BY DEF TypeOK, EntriesOfBlockedCalls
<1>3. READ_TOKEN # WRITE_TOKEN
  BY DEF READ_TOKEN, WRITE_TOKEN
<1>4. t \notin Linked(writers) /\ t \notin Linked(readers)
  BY DEF EntriesOfBlockedCalls
<1>5. /\ waiters = Len(writers) + Len(readers) /\ waiters' = waiters + 1
      /\ Len(writers) \in Nat /\ Len(readers) \in Nat
  BY DEF Insert, EntriesOfBlockedCalls, TypeOK
<1>6. CASE op = WRITE_TOKEN
  <2>1. writers' = insert_entry(writers, t, position) /\ readers' = readers
    BY <1>6 DEF Insert, READ_TOKEN, WRITE_TOKEN
  <2>2. /\ writers' \in Seq(Threads) /\ Len(writers') = Len(writers) + 1
        /\ Linked(writers') = Linked(writers) \cup {t} /\ NoDuplicates(writers')
    <3> DEFINE r == insert_entry(writers, t, position)
    <3>1. /\ r \in Seq(Threads) /\ Len(r) = Len(writers) + 1
          /\ Linked(r) = Linked(writers) \cup {t} /\ NoDuplicates(r)
      BY <1>4, <1>2, InsertEntry
    <3>2. QED BY <2>1, <3>1
  <2>3. /\ Linked(writers') = {u \in Threads : Blocked(u)' /\ frame'[u].op = WRITE_TOKEN}
        /\ Linked(readers') = {u \in Threads : Blocked(u)' /\ frame'[u].op = READ_TOKEN}
    <3>1. ASSUME NEW u \in Threads
          PROVE  /\ u \in Linked(writers') <=> Blocked(u)' /\ frame'[u].op = WRITE_TOKEN
                 /\ u \in Linked(readers') <=> Blocked(u)' /\ frame'[u].op = READ_TOKEN
      <4>1. CASE u = t
        BY <1>1, <1>4, <1>6, <1>3, <2>1, <2>2, <4>1 DEF Blocked
      <4>2. CASE u # t
        BY <1>1, <2>1, <2>2, <4>2 DEF EntriesOfBlockedCalls, Blocked
      <4>3. QED BY <4>1, <4>2
    <3>2. Linked(writers') \subseteq Threads /\ Linked(readers') \subseteq Threads
      BY <1>2, <2>1, <2>2, EmptyQueue
    <3>3. QED BY <3>1, <3>2
  <2>4. waiters' = Len(writers') + Len(readers') /\ waiters' \in Int
    BY <1>5, <2>1, <2>2
  <2>5. readers' \in Seq(Threads) /\ NoDuplicates(readers')
    BY <2>1 DEF TypeOK, EntriesOfBlockedCalls
  <2>6. QED BY <1>1, <2>2, <2>3, <2>4, <2>5 DEF EntriesOfBlockedCalls
<1>7. CASE op = READ_TOKEN
  <2>1. readers' = insert_entry(readers, t, position) /\ writers' = writers
    BY <1>7 DEF Insert, READ_TOKEN, WRITE_TOKEN
  <2>2. /\ readers' \in Seq(Threads) /\ Len(readers') = Len(readers) + 1
        /\ Linked(readers') = Linked(readers) \cup {t} /\ NoDuplicates(readers')
    <3> DEFINE r == insert_entry(readers, t, position)
    <3>1. /\ r \in Seq(Threads) /\ Len(r) = Len(readers) + 1
          /\ Linked(r) = Linked(readers) \cup {t} /\ NoDuplicates(r)
      BY <1>4, <1>2, InsertEntry
    <3>2. QED BY <2>1, <3>1
  <2>3. /\ Linked(writers') = {u \in Threads : Blocked(u)' /\ frame'[u].op = WRITE_TOKEN}
        /\ Linked(readers') = {u \in Threads : Blocked(u)' /\ frame'[u].op = READ_TOKEN}
    <3>1. ASSUME NEW u \in Threads
          PROVE  /\ u \in Linked(writers') <=> Blocked(u)' /\ frame'[u].op = WRITE_TOKEN
                 /\ u \in Linked(readers') <=> Blocked(u)' /\ frame'[u].op = READ_TOKEN
      <4>1. CASE u = t
        BY <1>1, <1>4, <1>7, <1>3, <2>1, <2>2, <4>1 DEF Blocked
      <4>2. CASE u # t
        BY <1>1, <2>1, <2>2, <4>2 DEF EntriesOfBlockedCalls, Blocked
      <4>3. QED BY <4>1, <4>2
    <3>2. Linked(writers') \subseteq Threads /\ Linked(readers') \subseteq Threads
      BY <1>2, <2>1, <2>2, EmptyQueue
    <3>3. QED BY <3>1, <3>2
  <2>4. waiters' = Len(writers') + Len(readers') /\ waiters' \in Int
    BY <1>5, <2>1, <2>2
  <2>5. writers' \in Seq(Threads) /\ NoDuplicates(writers')
    BY <2>1 DEF TypeOK, EntriesOfBlockedCalls
  <2>6. QED BY <1>1, <2>2, <2>3, <2>4, <2>5 DEF EntriesOfBlockedCalls
<1>8. QED BY <1>6, <1>7 DEF OpTypes

(***************************************************************************)
(* Return unlinks the entry of the call that ends, and nothing else.       *)
(***************************************************************************)
LEMMA ReturnKeeps ==
  ASSUME TypeOK, EntriesOfBlockedCalls,
         NEW t \in Threads, Blocked(t), Return(t)
  PROVE  /\ EntriesOfBlockedCalls'
         /\ writers' \in Seq(Threads) /\ readers' \in Seq(Threads)
         /\ waiters' \in Int
         /\ frame' \in [Threads -> Frames]
         /\ frame'[t] = NoCall
         /\ \A u \in Threads \ {t} : frame'[u] = frame[u]
         /\ queueing_strategy' = queueing_strategy
         /\ waiters' < waiters
<1>1. /\ frame' \in [Threads -> Frames]
      /\ frame'[t] = NoCall
      /\ \A u \in Threads \ {t} : frame'[u] = frame[u]
      /\ queueing_strategy' = queueing_strategy
  BY NoCallFields DEF TypeOK, Return
<1>2. frame[t].op \in OpTypes
  BY DEF TypeOK, Frames
<1>3. /\ waiters = Len(writers) + Len(readers) /\ waiters' = waiters - 1
      /\ Len(writers) \in Nat /\ Len(readers) \in Nat
  BY DEF Return, Remove, EntriesOfBlockedCalls, TypeOK
<1>4. CASE frame[t].op = WRITE_TOKEN
  <2>1. writers' = remove_entry(writers, t) /\ readers' = readers
    BY <1>4 DEF Return, Remove, READ_TOKEN, WRITE_TOKEN
  <2>2. t \in Linked(writers) /\ t \notin Linked(readers)
    BY <1>4 DEF EntriesOfBlockedCalls, READ_TOKEN, WRITE_TOKEN
  <2>3. /\ writers' \in Seq(Threads) /\ Len(writers') = Len(writers) - 1
        /\ Linked(writers') = Linked(writers) \ {t} /\ NoDuplicates(writers')
    BY <2>1, <2>2, RemoveEntry DEF TypeOK, EntriesOfBlockedCalls
  <2>4. /\ Linked(writers') = {u \in Threads : Blocked(u)' /\ frame'[u].op = WRITE_TOKEN}
        /\ Linked(readers') = {u \in Threads : Blocked(u)' /\ frame'[u].op = READ_TOKEN}
    BY <1>1, <2>1, <2>2, <2>3, NoCallFields DEF EntriesOfBlockedCalls, Blocked
  <2>5. waiters' = Len(writers') + Len(readers') /\ waiters' \in Int /\ waiters' < waiters
    BY <1>3, <2>1, <2>3
  <2>6. readers' \in Seq(Threads) /\ NoDuplicates(readers')
    BY <2>1 DEF TypeOK, EntriesOfBlockedCalls
  <2>7. QED BY <1>1, <2>3, <2>4, <2>5, <2>6 DEF EntriesOfBlockedCalls
<1>5. CASE frame[t].op = READ_TOKEN
  <2>1. readers' = remove_entry(readers, t) /\ writers' = writers
    BY <1>5 DEF Return, Remove, READ_TOKEN, WRITE_TOKEN
  <2>2. t \in Linked(readers) /\ t \notin Linked(writers)
    BY <1>5 DEF EntriesOfBlockedCalls, READ_TOKEN, WRITE_TOKEN
  <2>3. /\ readers' \in Seq(Threads) /\ Len(readers') = Len(readers) - 1
        /\ Linked(readers') = Linked(readers) \ {t} /\ NoDuplicates(readers')
    BY <2>1, <2>2, RemoveEntry DEF TypeOK, EntriesOfBlockedCalls
  <2>4. /\ Linked(writers') = {u \in Threads : Blocked(u)' /\ frame'[u].op = WRITE_TOKEN}
        /\ Linked(readers') = {u \in Threads : Blocked(u)' /\ frame'[u].op = READ_TOKEN}
    BY <1>1, <2>1, <2>2, <2>3, NoCallFields DEF EntriesOfBlockedCalls, Blocked
  <2>5. waiters' = Len(writers') + Len(readers') /\ waiters' \in Int /\ waiters' < waiters
    BY <1>3, <2>1, <2>3
  <2>6. writers' \in Seq(Threads) /\ NoDuplicates(writers')
    BY <2>1 DEF TypeOK, EntriesOfBlockedCalls
  <2>7. QED BY <1>1, <2>3, <2>4, <2>5, <2>6 DEF EntriesOfBlockedCalls
<1>6. QED BY <1>2, <1>4, <1>5 DEF OpTypes

-----------------------------------------------------------------------------
(* Each operation preserves the invariant. *)

\* A step that leaves the queues and the frames alone leaves the entries alone.
LEMMA SameEntries ==
  ASSUME EntriesOfBlockedCalls, UNCHANGED <<writers, readers, waiters, frame>>
  PROVE  EntriesOfBlockedCalls'
BY DEF EntriesOfBlockedCalls, Blocked

\* Taking a free token.
LEMMA AcquireFreeInv ==
  ASSUME IInv, NEW t \in Threads, NEW op \in OpTypes, AcquireFree(t, op)
  PROVE  IInv'
<1> USE DEF AcquireFree, IInv
<1>1. /\ op # 0 /\ op \in {0} \cup OpTypes
      /\ owner = NULL_thread /\ owner \notin Threads /\ nesting_level = 0
  BY TokenAssumption DEF OpTypes, READ_TOKEN, WRITE_TOKEN, FreeOrOwned
<1>2. TypeOK'
  BY <1>1 DEF TypeOK
<1>3. held[t] = 0
  BY <1>1 DEF MutualExclusion, Holds, TypeOK
<1>4. /\ held'[t] = 1
      /\ \A u \in Threads \ {t} : held'[u] = held[u]
  BY <1>3 DEF TypeOK
<1>5. EntriesOfBlockedCalls'
  BY SameEntries
<1>6. FreeOrOwned'
  BY <1>1 DEF FreeOrOwned, Blocked
<1>7. PutAside'
  BY <1>4 DEF PutAside, Blocked
<1>8. MutualExclusion' /\ NestingMatches'
  BY <1>1, <1>4 DEF MutualExclusion, NestingMatches, Holds, Blocked
<1>9. NoStrandedWaiters'
  BY <1>1, <1>4 DEF NoStrandedWaiters, Holds, Blocked
<1>10. OwnerIsRunable' /\ Dormant'
  BY <1>1 DEF OwnerIsRunable, Dormant, Blocked
<1>11. QED
  BY <1>2, <1>5, <1>6, <1>7, <1>8, <1>9, <1>10

\* Taking one's own token again.
LEMMA AcquireNestedInv ==
  ASSUME IInv, NEW t \in Threads, AcquireNested(t)
  PROVE  IInv'
<1> USE DEF AcquireNested, IInv
<1>1. Holds(t) /\ nesting_level \in Nat
  BY DEF NoStrandedWaiters, TypeOK
<1>2. /\ held'[t] = held[t] + 1 /\ held[t] \in Nat
      /\ \A u \in Threads \ {t} : held'[u] = held[u]
  BY DEF TypeOK
<1>3. TypeOK'
  BY DEF TypeOK
<1>4. EntriesOfBlockedCalls'
  BY SameEntries
<1>5. FreeOrOwned'
  BY DEF FreeOrOwned, Blocked
<1>6. PutAside'
  BY <1>2 DEF PutAside, Blocked
<1>7. MutualExclusion' /\ NestingMatches'
  BY <1>1, <1>2 DEF MutualExclusion, NestingMatches, Holds, Blocked
<1>8. NoStrandedWaiters'
  BY <1>1, <1>2 DEF NoStrandedWaiters, Holds, Blocked
<1>9. OwnerIsRunable' /\ Dormant'
  BY DEF OwnerIsRunable, Dormant, Blocked
<1>10. QED
  BY <1>3, <1>4, <1>5, <1>6, <1>7, <1>8, <1>9

\* Queueing up behind the owner.
LEMMA AcquireBlockInv ==
  ASSUME IInv, NEW t \in Threads, NEW op \in OpTypes, NEW timed \in BOOLEAN,
         AcquireBlock(t, op, timed)
  PROVE  IInv'
<1> DEFINE f == Frame("acquire", op, timed, 0, -1)
<1> USE DEF AcquireBlock, IInv
<1>1. f \in Frames /\ f.call = "acquire" /\ f.op = op
  BY DEF Frame, Frames
<1> HIDE DEF f
<1>2. /\ frame' = [frame EXCEPT ![t] = f] /\ Insert(t, op, queueing_strategy)
      /\ queueing_strategy \in Int
  BY DEF f, TypeOK, FIFO, LIFO
<1>3. /\ EntriesOfBlockedCalls'
      /\ writers' \in Seq(Threads) /\ readers' \in Seq(Threads)
      /\ waiters' \in Int /\ frame' \in [Threads -> Frames]
  BY <1>1, <1>2, InsertKeeps
<1>4. /\ frame'[t] = f
      /\ \A u \in Threads \ {t} : frame'[u] = frame[u]
  BY <1>2 DEF TypeOK
<1>5. TypeOK'
  BY <1>3 DEF TypeOK
<1>6. ~runable[t] /\ held[t] = 0
  BY DEF Dormant, MutualExclusion, Holds, TypeOK
<1>7. FreeOrOwned'
  BY <1>4 DEF FreeOrOwned, Blocked
<1>8. PutAside'
  BY <1>1, <1>4, <1>6 DEF PutAside
<1>9. MutualExclusion' /\ NestingMatches'
  BY <1>1, <1>4 DEF MutualExclusion, NestingMatches, Holds, Blocked
<1>10. NoStrandedWaiters'
  BY <1>4 DEF NoStrandedWaiters, Holds, Blocked
<1>11. OwnerIsRunable' /\ Dormant'
  BY <1>1, <1>4, <1>6 DEF OwnerIsRunable, Dormant, Blocked
<1>12. QED
  BY <1>3, <1>5, <1>7, <1>8, <1>9, <1>10, <1>11

(***************************************************************************)
(* When nobody has the token any more and no entry is runable, a call of   *)
(* wakeup_next_waiter establishes all that the invariant says about it.    *)
(***************************************************************************)
LEMMA HandOver ==
  ASSUME NEW run \in [Threads -> BOOLEAN], NEW sig \in [Threads -> BOOLEAN],
         wakeup_next_waiter(run, sig),
         EntriesOfBlockedCalls',
         writers' \in Seq(Threads), readers' \in Seq(Threads),
         frame' \in [Threads -> Frames],
         nesting_level' = 0,
         \A u \in Threads : ~run[u],
         \A u \in Threads : ~Holds(u)',
         \A u \in Threads : ~Blocked(u)' => ~sig[u]
  PROVE  /\ owner' \in Threads \cup {NULL_thread} /\ in_use' \in {0} \cup OpTypes
         /\ runable' \in [Threads -> BOOLEAN] /\ signaled' \in [Threads -> BOOLEAN]
         /\ FreeOrOwned' /\ Dormant'
         /\ MutualExclusion' /\ NestingMatches'
         /\ NoStrandedWaiters' /\ OwnerIsRunable'
<1>1. MutualExclusion' /\ NestingMatches'
  BY DEF MutualExclusion, NestingMatches
<1>2. runable' \in [Threads -> BOOLEAN] /\ signaled' \in [Threads -> BOOLEAN]
  BY WakeupNextWaiter
<1>3. CASE /\ writers' = <<>> /\ readers' = <<>>
           /\ owner' = NULL_thread /\ in_use' = 0
           /\ runable' = run /\ signaled' = sig
  <2>1. \A u \in Threads : ~Blocked(u)'
    <3>1. ASSUME NEW u \in Threads, Blocked(u)' PROVE FALSE
      <4>1. Linked(writers') = {} /\ Linked(readers') = {}
        BY <1>3 DEF Linked
      <4>2. frame'[u].op \in OpTypes
        BY DEF Frames
      <4>3. QED BY <3>1, <4>1, <4>2 DEF EntriesOfBlockedCalls, OpTypes
    <3>2. QED BY <3>1
  <2>2. waiters' = 0
    BY <1>3 DEF EntriesOfBlockedCalls
  <2>3. QED
    BY <1>1, <1>2, <1>3, <2>1, <2>2, TokenAssumption
       DEF FreeOrOwned, Dormant, NoStrandedWaiters, OwnerIsRunable
<1>4. CASE /\ owner' \in Linked(writers') \cup Linked(readers')
           /\ owner' \in Threads
           /\ in_use' \in OpTypes /\ in_use' # 0
           /\ runable' = [run EXCEPT ![owner'] = TRUE]
           /\ signaled' = [sig EXCEPT ![owner'] = UsesSemaphore \/ Blocked(owner')]
  <2>1. Blocked(owner)'
    BY <1>4 DEF EntriesOfBlockedCalls
  <2>2. /\ runable'[owner']
        /\ \A u \in Threads \ {owner'} : runable'[u] = run[u] /\ signaled'[u] = sig[u]
    BY <1>4
  <2>3. FreeOrOwned'
    BY <1>4, TokenAssumption DEF FreeOrOwned
  <2>4. NoStrandedWaiters'
    BY <1>4, <2>1 DEF NoStrandedWaiters
  <2>5. OwnerIsRunable'
    BY <2>2 DEF OwnerIsRunable
  <2>6. Dormant'
    BY <2>1, <2>2 DEF Dormant
  <2>7. QED BY <1>1, <1>2, <1>4, <2>3, <2>4, <2>5, <2>6
<1>5. QED BY <1>3, <1>4, WakeupNextWaiter

\* Yielding the token to a waiter.
LEMMA RenewBlockInv ==
  ASSUME IInv, NEW t \in Threads, NEW position \in Positions, NEW timed \in BOOLEAN,
         RenewBlock(t, position, timed)
  PROVE  IInv'
<1> DEFINE op == IF in_use = READ_TOKEN THEN READ_TOKEN ELSE WRITE_TOKEN
           f  == Frame("renew", op, timed, nesting_level, position)
           at == IF position = 0 THEN 0 ELSE queueing_strategy
<1> USE DEF IInv
<1>1. /\ Holds(t) /\ op \in OpTypes
      /\ Insert(t, op, at)
      /\ wakeup_next_waiter(runable, signaled)
      /\ frame' = [frame EXCEPT ![t] = f]
      /\ nesting_level' = 0
      /\ UNCHANGED <<queueing_strategy, held>>
  BY DEF RenewBlock, OpTypes
<1>2. at \in Int /\ position \in Int
  BY TokenAssumption DEF TypeOK, FIFO, LIFO
<1> HIDE DEF at, op
<1>3. f \in Frames /\ f.call = "renew" /\ f.op = op /\ f.saved = nesting_level
  BY <1>1, <1>2 DEF Frame, Frames, TypeOK
<1> HIDE DEF f
<1>4. ~Blocked(t) /\ owner = t
  BY <1>1 DEF Holds, MutualExclusion
<1>5. /\ EntriesOfBlockedCalls'
      /\ writers' \in Seq(Threads) /\ readers' \in Seq(Threads)
      /\ waiters' \in Int /\ frame' \in [Threads -> Frames]
  BY <1>1, <1>2, <1>3, <1>4, InsertKeeps
<1>6. /\ frame'[t] = f
      /\ \A u \in Threads \ {t} : frame'[u] = frame[u]
  BY <1>1 DEF TypeOK
<1>7. \A u \in Threads : ~runable[u]
  BY <1>4 DEF OwnerIsRunable, Dormant
<1>8. \A u \in Threads : ~Holds(u)'
  BY <1>1, <1>3, <1>4, <1>6 DEF MutualExclusion, Holds, Blocked
<1>9. \A u \in Threads : ~Blocked(u)' => ~signaled[u]
  BY <1>3, <1>6 DEF Dormant, Blocked
<1>10. /\ runable \in [Threads -> BOOLEAN] /\ signaled \in [Threads -> BOOLEAN]
  BY DEF TypeOK
<1>11. /\ owner' \in Threads \cup {NULL_thread} /\ in_use' \in {0} \cup OpTypes
       /\ runable' \in [Threads -> BOOLEAN] /\ signaled' \in [Threads -> BOOLEAN]
       /\ FreeOrOwned' /\ Dormant'
       /\ MutualExclusion' /\ NestingMatches'
       /\ NoStrandedWaiters' /\ OwnerIsRunable'
  BY <1>1, <1>5, <1>7, <1>8, <1>9, <1>10, HandOver
<1>12. TypeOK'
  BY <1>1, <1>5, <1>11 DEF TypeOK
<1>13. PutAside'
  BY <1>1, <1>3, <1>6 DEF PutAside, NestingMatches
<1>14. QED
  BY <1>5, <1>11, <1>12, <1>13

\* The last release.
LEMMA ReleaseLastInv ==
  ASSUME IInv, NEW t \in Threads, ReleaseLast(t)
  PROVE  IInv'
<1> USE DEF IInv
<1>1. /\ Holds(t) /\ nesting_level = 0 /\ nesting_level' = nesting_level
      /\ wakeup_next_waiter(runable, signaled)
      /\ held' = [held EXCEPT ![t] = @ - 1]
      /\ UNCHANGED <<writers, readers, waiters, frame, queueing_strategy>>
  BY DEF ReleaseLast
<1>2. ~Blocked(t) /\ owner = t /\ held[t] = 1
  BY <1>1 DEF Holds, MutualExclusion, NestingMatches
<1>3. /\ held' \in [Threads -> Nat] /\ held'[t] = 0
      /\ \A u \in Threads \ {t} : held'[u] = held[u]
  BY <1>1, <1>2 DEF TypeOK
<1>4. EntriesOfBlockedCalls'
  BY <1>1, SameEntries
<1>5. \A u \in Threads : ~runable[u]
  BY <1>2 DEF OwnerIsRunable, Dormant
<1>6. \A u \in Threads : ~Holds(u)'
  BY <1>1, <1>2, <1>3 DEF MutualExclusion, Holds, Blocked
<1>7. \A u \in Threads : ~Blocked(u)' => ~signaled[u]
  BY <1>1 DEF Dormant, Blocked
<1>8. /\ runable \in [Threads -> BOOLEAN] /\ signaled \in [Threads -> BOOLEAN]
      /\ writers' \in Seq(Threads) /\ readers' \in Seq(Threads)
      /\ frame' \in [Threads -> Frames]
  BY <1>1 DEF TypeOK
<1>9. /\ owner' \in Threads \cup {NULL_thread} /\ in_use' \in {0} \cup OpTypes
      /\ runable' \in [Threads -> BOOLEAN] /\ signaled' \in [Threads -> BOOLEAN]
      /\ FreeOrOwned' /\ Dormant'
      /\ MutualExclusion' /\ NestingMatches'
      /\ NoStrandedWaiters' /\ OwnerIsRunable'
  BY <1>1, <1>4, <1>5, <1>6, <1>7, <1>8, HandOver
<1>10. TypeOK'
  BY <1>1, <1>3, <1>8, <1>9 DEF TypeOK
<1>11. PutAside'
  BY <1>1, <1>2, <1>3 DEF PutAside, Blocked
<1>12. QED
  BY <1>4, <1>9, <1>10, <1>11

\* A release that only undoes a nested acquire.
LEMMA ReleaseNestedInv ==
  ASSUME IInv, NEW t \in Threads, ReleaseNested(t)
  PROVE  IInv'
<1> USE DEF ReleaseNested, IInv
<1>1. /\ ~Blocked(t) /\ owner = t /\ in_use # 0 /\ held[t] = nesting_level + 1
      /\ nesting_level \in Nat
  BY DEF MutualExclusion, NestingMatches, Holds, TypeOK
<1>2. /\ held' \in [Threads -> Nat] /\ held'[t] = held[t] - 1
      /\ \A u \in Threads \ {t} : held'[u] = held[u]
  BY <1>1 DEF TypeOK
<1>3. TypeOK'
  BY <1>2 DEF TypeOK
<1>4. EntriesOfBlockedCalls'
  BY SameEntries
<1>5. FreeOrOwned'
  BY <1>1 DEF FreeOrOwned, Blocked
<1>6. PutAside'
  BY <1>1, <1>2 DEF PutAside, Blocked
<1>7. MutualExclusion' /\ NestingMatches'
  BY <1>1, <1>2 DEF MutualExclusion, NestingMatches, Holds, Blocked
<1>8. NoStrandedWaiters'
  BY <1>1, <1>2 DEF NoStrandedWaiters, Holds, Blocked
<1>9. OwnerIsRunable' /\ Dormant'
  BY DEF OwnerIsRunable, Dormant, Blocked
<1>10. QED
  BY <1>3, <1>4, <1>5, <1>6, <1>7, <1>8, <1>9

\* A blocked call that finds itself the owner returns with the token.
LEMMA SucceedInv ==
  ASSUME IInv, NEW t \in Threads, Blocked(t), Succeed(t)
  PROVE  IInv'
<1> USE DEF IInv
<1>1. /\ owner = t /\ Return(t)
      /\ runable' = [runable EXCEPT ![t] = FALSE]
      /\ signaled' = [signaled EXCEPT ![t] = FALSE]
      /\ UNCHANGED <<owner, in_use>>
  BY DEF Succeed, Unset
<1>2. /\ EntriesOfBlockedCalls'
      /\ writers' \in Seq(Threads) /\ readers' \in Seq(Threads)
      /\ waiters' \in Int /\ waiters' < waiters
      /\ frame' \in [Threads -> Frames]
      /\ frame'[t] = NoCall
      /\ \A u \in Threads \ {t} : frame'[u] = frame[u]
      /\ queueing_strategy' = queueing_strategy
  BY <1>1, ReturnKeeps
<1>3. nesting_level = 0 /\ in_use # 0
  BY <1>1, TokenAssumption DEF FreeOrOwned
<1>4. /\ held' \in [Threads -> Nat] /\ nesting_level' \in Nat
      /\ held'[t] = nesting_level' + 1
      /\ \A u \in Threads \ {t} : held'[u] = held[u]
  <2>1. CASE /\ frame[t].call = "acquire"
             /\ held' = [held EXCEPT ![t] = @ + 1]
             /\ UNCHANGED nesting_level
    BY <1>3, <2>1 DEF PutAside, TypeOK
  <2>2. CASE /\ frame[t].call = "renew"
             /\ nesting_level' = frame[t].saved
             /\ UNCHANGED held
    <3>1. frame[t].saved \in Nat /\ held[t] = frame[t].saved + 1
      BY <2>2 DEF PutAside, TypeOK, Frames
    <3>2. QED BY <2>2, <3>1 DEF TypeOK
  <2>3. QED BY <2>1, <2>2 DEF Succeed
<1>5. TypeOK'
  BY <1>1, <1>2, <1>4 DEF TypeOK
<1>6. FreeOrOwned'
  BY <1>1, <1>2, <1>3, NoCallFields DEF FreeOrOwned, Blocked
<1>7. PutAside'
  BY <1>2, <1>4, NoCallFields DEF PutAside
<1>8. MutualExclusion' /\ NestingMatches'
  BY <1>1, <1>2, <1>3, <1>4 DEF MutualExclusion, NestingMatches, Holds, Blocked
<1>9. NoStrandedWaiters'
  <2>1. held'[t] > 0
    <3>1. \A n \in Nat : n + 1 > 0
      OBVIOUS
    <3>2. QED BY <1>4, <3>1, Zenon
  <2>2. frame'[t].call = "none"
    BY <1>2, NoCallFields
  <2>3. QED BY <1>1, <1>3, <2>1, <2>2 DEF NoStrandedWaiters, Holds, Blocked
<1>10. OwnerIsRunable' /\ Dormant'
  BY <1>1, <1>2, NoCallFields DEF OwnerIsRunable, Dormant, Blocked, TypeOK
<1>11. QED
  BY <1>2, <1>5, <1>6, <1>7, <1>8, <1>9, <1>10

\* A thread that wakes without being the owner sleeps again.
LEMMA SleepAgainInv ==
  ASSUME IInv, NEW t \in Threads, Blocked(t), SleepAgain(t)
  PROVE  IInv'
<1> USE DEF SleepAgain, IInv, Unset
<1>1. TypeOK'
  BY DEF TypeOK
<1>2. EntriesOfBlockedCalls'
  BY SameEntries
<1>3. FreeOrOwned' /\ PutAside'
  BY DEF FreeOrOwned, PutAside, Blocked
<1>4. MutualExclusion' /\ NestingMatches' /\ NoStrandedWaiters'
  BY DEF MutualExclusion, NestingMatches, NoStrandedWaiters, Holds, Blocked
<1>5. OwnerIsRunable' /\ Dormant'
  BY DEF OwnerIsRunable, Dormant, Blocked, TypeOK
<1>6. QED
  BY <1>1, <1>2, <1>3, <1>4, <1>5

\* A timeout, of a thread that was chosen as the owner or that was not.
LEMMA TimedOutInv ==
  ASSUME IInv, NEW t \in Threads, TimedOut(t)
  PROVE  IInv'
<1> USE DEF IInv
<1>1. /\ Blocked(t) /\ Return(t)
      /\ held' = [held EXCEPT ![t] = 0]
      /\ UNCHANGED nesting_level
  BY DEF TimedOut, Fail
<1>2. /\ EntriesOfBlockedCalls'
      /\ writers' \in Seq(Threads) /\ readers' \in Seq(Threads)
      /\ waiters' \in Int /\ waiters' < waiters
      /\ frame' \in [Threads -> Frames]
      /\ frame'[t] = NoCall
      /\ \A u \in Threads \ {t} : frame'[u] = frame[u]
      /\ queueing_strategy' = queueing_strategy
  BY <1>1, ReturnKeeps
<1>3. /\ held' \in [Threads -> Nat] /\ held'[t] = 0
      /\ \A u \in Threads \ {t} : held'[u] = held[u]
  BY <1>1 DEF TypeOK
<1>4. PutAside'
  BY <1>2, <1>3, NoCallFields DEF PutAside
<1> DEFINE run == Unset(runable, t)
           sig == Unset(signaled, t)
<1>5. /\ run \in [Threads -> BOOLEAN] /\ ~run[t]
      /\ sig \in [Threads -> BOOLEAN] /\ ~sig[t]
      /\ \A u \in Threads \ {t} : run[u] = runable[u] /\ sig[u] = signaled[u]
  BY DEF Unset, TypeOK
<1> HIDE DEF run, sig
<1>6. CASE runable[t] /\ wakeup_next_waiter(run, sig)
  <2>1. owner = t /\ nesting_level' = 0
    BY <1>1, <1>6 DEF OwnerIsRunable, FreeOrOwned
  <2>2. \A u \in Threads : ~run[u]
    BY <1>5, <2>1 DEF OwnerIsRunable, Dormant
  <2>3. \A u \in Threads : ~Holds(u)'
    BY <1>2, <1>3, <2>1 DEF MutualExclusion, Holds, Blocked
  <2>4. \A u \in Threads : ~Blocked(u)' => ~sig[u]
    BY <1>2, <1>5 DEF Dormant, Blocked
  <2>5. /\ owner' \in Threads \cup {NULL_thread} /\ in_use' \in {0} \cup OpTypes
        /\ runable' \in [Threads -> BOOLEAN] /\ signaled' \in [Threads -> BOOLEAN]
        /\ FreeOrOwned' /\ Dormant'
        /\ MutualExclusion' /\ NestingMatches'
        /\ NoStrandedWaiters' /\ OwnerIsRunable'
    BY <1>2, <1>5, <1>6, <2>1, <2>2, <2>3, <2>4, HandOver
  <2>6. TypeOK'
    BY <1>1, <1>2, <1>3, <2>5 DEF TypeOK
  <2>7. QED BY <1>2, <1>4, <2>5, <2>6
<1>7. CASE /\ ~runable[t] /\ runable' = run /\ signaled' = sig
           /\ UNCHANGED <<owner, in_use>>
  <2>1. owner # t
    BY <1>1, <1>7 DEF OwnerIsRunable
  <2>2. TypeOK'
    BY <1>1, <1>2, <1>3, <1>5, <1>7 DEF TypeOK
  <2>3. FreeOrOwned'
    BY <1>1, <1>2, <1>7, NoCallFields DEF FreeOrOwned, Blocked
  <2>4. MutualExclusion' /\ NestingMatches'
    BY <1>1, <1>2, <1>3, <1>7 DEF MutualExclusion, NestingMatches, Holds, Blocked
  <2>5. NoStrandedWaiters'
    <3>1. waiters' > 0 => in_use' # 0
      BY <1>2, <1>7 DEF NoStrandedWaiters, TypeOK
    <3>2. in_use' # 0 => owner' \in Threads /\ (Blocked(owner)' \/ Holds(owner)')
      BY <1>2, <1>3, <1>7, <2>1 DEF NoStrandedWaiters, Holds, Blocked
    <3>3. QED BY <3>1, <3>2 DEF NoStrandedWaiters
  <2>6. OwnerIsRunable' /\ Dormant'
    BY <1>2, <1>5, <1>7, NoCallFields DEF OwnerIsRunable, Dormant, Blocked
  <2>7. QED BY <1>2, <1>4, <2>2, <2>3, <2>4, <2>5, <2>6
<1>8. QED BY <1>6, <1>7 DEF TimedOut, LeaveOwner, run, sig

\* Changing the strategy, and steps outside the token, change nothing else.
LEMMA ElsewhereInv ==
  ASSUME IInv, UNCHANGED vars \/ \E s \in Strategies : SetQueueingStrategy(s)
  PROVE  IInv'
<1> USE DEF IInv, vars
<1>1. /\ UNCHANGED <<owner, in_use, waiters, nesting_level, writers, readers,
                     frame, runable, signaled, held>>
      /\ queueing_strategy' \in {FIFO, LIFO}
  BY DEF SetQueueingStrategy, TypeOK, FIFO, LIFO
<1>2. TypeOK'
  BY <1>1 DEF TypeOK
<1>3. EntriesOfBlockedCalls'
  BY <1>1, SameEntries
<1>4. FreeOrOwned' /\ PutAside' /\ Dormant'
  BY <1>1 DEF FreeOrOwned, PutAside, Dormant, Blocked
<1>5. MutualExclusion' /\ NestingMatches' /\ NoStrandedWaiters' /\ OwnerIsRunable'
  BY <1>1 DEF MutualExclusion, NestingMatches, NoStrandedWaiters, OwnerIsRunable, Holds, Blocked
<1>6. QED
  BY <1>2, <1>3, <1>4, <1>5

-----------------------------------------------------------------------------
(***************************************************************************)
(* The initial state of the constructor satisfies the invariant.           *)
(***************************************************************************)
LEMMA InitInv == Init => IInv
<1> SUFFICES ASSUME Init PROVE IInv
  OBVIOUS
<1> USE DEF Init
<1>1. \A t \in Threads : ~Blocked(t) /\ ~Holds(t)
  BY NoCallFields DEF Blocked, Holds
<1>2. TypeOK
  BY NoCallFields DEF TypeOK
<1>3. EntriesOfBlockedCalls
  BY <1>1 DEF EntriesOfBlockedCalls, Linked, NoDuplicates
<1>4. FreeOrOwned /\ PutAside /\ Dormant
  BY <1>1, NoCallFields, TokenAssumption DEF FreeOrOwned, PutAside, Dormant
<1>5. MutualExclusion /\ NestingMatches /\ NoStrandedWaiters /\ OwnerIsRunable
  BY <1>1 DEF MutualExclusion, NestingMatches, NoStrandedWaiters, OwnerIsRunable
<1>6. QED
  BY <1>2, <1>3, <1>4, <1>5 DEF IInv

(***************************************************************************)
(* The invariant is inductive when waits end by a signal, a spurious       *)
(* wakeup or a timeout.                                                    *)
(***************************************************************************)
LEMMA NextInv == ~WaitErrors /\ IInv /\ [Next]_vars => IInv'
<1> SUFFICES ASSUME ~WaitErrors, IInv, [Next]_vars PROVE IInv'
  OBVIOUS
<1>1. ASSUME NEW t \in Threads, Step(t) PROVE IInv'
  <2>1. CASE \E op \in OpTypes : AcquireFree(t, op)
    BY <2>1, AcquireFreeInv
  <2>2. CASE AcquireNested(t)
    BY <2>2, AcquireNestedInv
  <2>3. CASE \E op \in OpTypes, timed \in BOOLEAN : AcquireBlock(t, op, timed)
    BY <2>3, AcquireBlockInv
  <2>4. CASE \E position \in Positions, timed \in BOOLEAN : RenewBlock(t, position, timed)
    BY <2>4, RenewBlockInv
  <2>5. CASE WakeSignaled(t)
    BY <2>5, SucceedInv, SleepAgainInv DEF WakeSignaled
  <2>6. CASE WakeSpurious(t)
    BY <2>6, SucceedInv DEF WakeSpurious
  <2>7. CASE TimedOut(t)
    BY <2>7, TimedOutInv
  <2>8. CASE WaitFailed(t)
    BY <2>8 DEF WaitFailed
  <2>9. CASE ReleaseNested(t)
    BY <2>9, ReleaseNestedInv
  <2>10. CASE ReleaseLast(t)
    BY <2>10, ReleaseLastInv
  <2>11. QED
    BY <1>1, <2>1, <2>2, <2>3, <2>4, <2>5, <2>6, <2>7, <2>8, <2>9, <2>10 DEF Step
<1>2. QED BY <1>1, ElsewhereInv DEF Next

(***************************************************************************)
(* TypeOK of ACE_Token: its fields keep their types whatever its callers   *)
(* do, and with it the whole invariant.                                    *)
(***************************************************************************)
THEOREM Inductive == ~WaitErrors => (Spec => []IInv)
<1>1. CASE ~WaitErrors
  <2>1. IInv /\ [Next]_vars => IInv'
    BY <1>1, NextInv
  <2>2. QED BY <2>1, InitInv, PTL DEF Spec
<1>2. QED BY <1>1

\* Every variable of ACE_Token keeps its type: the recursion count, in
\* particular, never becomes negative in release.
THEOREM TypeCorrect == ~WaitErrors => (Spec => []TypeOK)
<1>1. IInv => TypeOK
  BY DEF IInv
<1>2. QED BY <1>1, Inductive, PTL

(***************************************************************************)
(* Mutual exclusion: for any number of threads, a caller that has acquired *)
(* or renewed the token is its only owner.                                 *)
(***************************************************************************)
THEOREM MutuallyExclusive == ~WaitErrors => (Spec => []MutualExclusion)
<1>1. IInv => MutualExclusion
  BY DEF IInv
<1>2. QED BY <1>1, Inductive, PTL

(***************************************************************************)
(* save_nesting_level_ is restored to the thread it was saved for: a       *)
(* holder needs exactly as many releases as it made acquires.              *)
(***************************************************************************)
THEOREM NestingCorrect == ~WaitErrors => (Spec => []NestingMatches)
<1>1. IInv => NestingMatches
  BY DEF IInv
<1>2. QED BY <1>1, Inductive, PTL

(***************************************************************************)
(* remove_entry runs on every way out of a blocked call: the queues link   *)
(* no entry of a stack frame that is gone, and miss none that is there.    *)
(***************************************************************************)
THEOREM EntriesCorrect == ~WaitErrors => (Spec => []EntriesOfBlockedCalls)
<1>1. IInv => EntriesOfBlockedCalls
  BY DEF IInv
<1>2. QED BY <1>1, Inductive, PTL

(***************************************************************************)
(* No thread sleeps in a queue while the token is free or is owned by a    *)
(* thread that does not know.                                              *)
(***************************************************************************)
THEOREM NobodyStranded == ~WaitErrors => (Spec => []NoStrandedWaiters)
<1>1. IInv => NoStrandedWaiters
  BY DEF IInv
<1>2. QED BY <1>1, Inductive, PTL

(***************************************************************************)
(* The two ACE_ASSERTs on runable_ hold, and a waiter that times out hands *)
(* the token on exactly if it has been made its owner.                     *)
(***************************************************************************)
THEOREM OwnersRunable == ~WaitErrors => (Spec => []OwnerIsRunable)
<1>1. IInv => OwnerIsRunable
  BY DEF IInv
<1>2. QED BY <1>1, Inductive, PTL

-----------------------------------------------------------------------------
(***************************************************************************)
(* The wakeups.  A signal reaches the new owner if its entry sleeps on a   *)
(* semaphore, or if it already sleeps on its condition variable; renew     *)
(* signals somebody else's entry when it queues its own at the tail.       *)
(***************************************************************************)
SignalsArrive ==
  UsesSemaphore \/ (Strategies \subseteq {FIFO} /\ 0 \notin Positions)

WInv == NoLostWakeup /\ (UsesSemaphore \/ queueing_strategy = FIFO)

\* wakeup_next_waiter signals the owner it names.
LEMMA SignalSent ==
  ASSUME NEW run \in [Threads -> BOOLEAN], NEW sig \in [Threads -> BOOLEAN],
         writers' \in Seq(Threads), readers' \in Seq(Threads),
         wakeup_next_waiter(run, sig),
         \/ UsesSemaphore
         \/ writers' # <<>> /\ Blocked(Head(writers'))
         \/ writers' = <<>> /\ readers' # <<>> /\ Blocked(Head(readers'))
         \/ writers' = <<>> /\ readers' = <<>>
  PROVE  NoLostWakeup'
<1>1. CASE owner' = NULL_thread
  BY <1>1, TokenAssumption DEF NoLostWakeup
<1>2. CASE /\ owner' \in Threads
           /\ owner' = IF writers' # <<>> THEN Head(writers') ELSE Head(readers')
           /\ ~(writers' = <<>> /\ readers' = <<>>)
           /\ signaled' = [sig EXCEPT ![owner'] = UsesSemaphore \/ Blocked(owner')]
  <2>1. UsesSemaphore \/ Blocked(owner')
    <3>1. CASE writers' # <<>>
      <4>1. owner' = Head(writers')
        BY <1>2, <3>1
      <4>2. UsesSemaphore \/ Blocked(Head(writers'))
        BY <3>1
      <4>3. QED BY <4>1, <4>2
    <3>2. CASE writers' = <<>>
      <4>1. owner' = Head(readers')
        BY <1>2, <3>2
      <4>2. UsesSemaphore \/ Blocked(Head(readers'))
        BY <1>2, <3>2
      <4>3. QED BY <4>1, <4>2
    <3>3. QED BY <3>1, <3>2
  <2>2. signaled'[owner']
    BY <1>2, <2>1
  <2>3. QED BY <2>2 DEF NoLostWakeup
<1>3. \/ owner' = NULL_thread
      \/ /\ owner' \in Linked(writers') \cup Linked(readers')
         /\ owner' \in Threads
         /\ owner' = IF writers' # <<>> THEN Head(writers') ELSE Head(readers')
         /\ signaled' = [sig EXCEPT ![owner'] = UsesSemaphore \/ Blocked(owner')]
  BY WakeupNextWaiter
<1>4. Linked(<<>>) = {}
  BY DEF Linked
<1>5. QED BY <1>1, <1>2, <1>3, <1>4

\* The heads of the queues are threads asleep in a call.
LEMMA HeadsAreBlocked ==
  ASSUME TypeOK, EntriesOfBlockedCalls
  PROVE  /\ writers # <<>> => Blocked(Head(writers))
         /\ readers # <<>> => Blocked(Head(readers))
BY HeadLinked DEF TypeOK, EntriesOfBlockedCalls

\* An entry inserted at the tail of a queue leaves its head where it is.
LEMMA TailInsert ==
  ASSUME NEW S, NEW q \in Seq(S), NEW t \in S, q # <<>>
  PROVE  /\ Head(insert_entry(q, t, -1)) = Head(q)
         /\ insert_entry(q, t, -1) # <<>>
<1> DEFINE r == insert_entry(q, t, -1)
<1>1. r \in Seq(S) /\ Len(r) = Len(q) + 1 /\ Head(r) = Head(q)
  BY InsertEntry
<1> HIDE DEF r
<1>2. r # <<>>
  BY <1>1
<1>3. QED BY <1>1, <1>2 DEF r

(***************************************************************************)
(* renew wakes a thread other than its caller when it queues at the tail.  *)
(***************************************************************************)
LEMMA RenewSignals ==
  ASSUME SignalsArrive, IInv, WInv,
         NEW t \in Threads, NEW position \in Positions, NEW timed \in BOOLEAN,
         RenewBlock(t, position, timed), IInv'
  PROVE  NoLostWakeup'
<1> DEFINE op == IF in_use = READ_TOKEN THEN READ_TOKEN ELSE WRITE_TOKEN
           at == IF position = 0 THEN 0 ELSE queueing_strategy
<1>1. /\ Holds(t) /\ Insert(t, op, at)
      /\ writers # <<>> \/ (in_use # WRITE_TOKEN /\ readers # <<>>)
      /\ wakeup_next_waiter(runable, signaled)
  BY DEF RenewBlock
<1>2. in_use \in OpTypes
  BY <1>1 DEF IInv, MutualExclusion, TypeOK, OpTypes
<1>3. /\ runable \in [Threads -> BOOLEAN] /\ signaled \in [Threads -> BOOLEAN]
      /\ writers' \in Seq(Threads) /\ readers' \in Seq(Threads)
      /\ writers \in Seq(Threads) /\ readers \in Seq(Threads)
  BY DEF IInv, TypeOK
<1>4. CASE UsesSemaphore
  BY <1>1, <1>3, <1>4, SignalSent
<1>5. CASE ~UsesSemaphore
  <2>1. at = -1
    BY <1>5 DEF SignalsArrive, WInv, FIFO
  <2> HIDE DEF at
  <2>2. /\ writers # <<>> => Blocked(Head(writers))
        /\ readers # <<>> => Blocked(Head(readers))
    BY HeadsAreBlocked DEF IInv
  <2>3. CASE in_use = WRITE_TOKEN
    <3>1. writers # <<>> /\ writers' = insert_entry(writers, t, -1)
      BY <1>1, <2>1, <2>3 DEF Insert, READ_TOKEN, WRITE_TOKEN
    <3>2. Head(writers') = Head(writers) /\ writers' # <<>>
      BY <1>3, <3>1, TailInsert
    <3>3. QED BY <1>1, <1>3, <2>2, <3>1, <3>2, SignalSent
  <2>4. CASE in_use = READ_TOKEN
    <3>1. writers' = writers /\ readers' = insert_entry(readers, t, -1)
      BY <1>1, <2>1, <2>4 DEF Insert, READ_TOKEN, WRITE_TOKEN
    <3>2. CASE writers # <<>>
      BY <1>1, <1>3, <2>2, <3>1, <3>2, SignalSent
    <3>3. CASE writers = <<>>
      <4>1. readers # <<>>
        BY <1>1, <3>3
      <4>2. Head(readers') = Head(readers) /\ readers' # <<>>
        BY <1>3, <3>1, <4>1, TailInsert
      <4>3. QED BY <1>1, <1>3, <2>2, <3>1, <3>3, <4>1, <4>2, SignalSent
    <3>4. QED BY <3>2, <3>3
  <2>5. QED BY <1>2, <2>3, <2>4 DEF OpTypes
<1>6. QED BY <1>4, <1>5

\* The other operations keep the wakeups too.
LEMMA WakeupsKept == ~WaitErrors /\ SignalsArrive /\ IInv /\ WInv /\ [Next]_vars => WInv'
<1> SUFFICES ASSUME ~WaitErrors, SignalsArrive, IInv, WInv, [Next]_vars PROVE WInv'
  OBVIOUS
<1>1. IInv'
  BY NextInv
<1>2. /\ runable \in [Threads -> BOOLEAN] /\ signaled \in [Threads -> BOOLEAN]
      /\ writers' \in Seq(Threads) /\ readers' \in Seq(Threads)
      /\ writers \in Seq(Threads) /\ readers \in Seq(Threads)
  BY <1>1 DEF IInv, TypeOK
<1>3. UsesSemaphore \/ queueing_strategy' = FIFO
  <2>1. CASE UNCHANGED queueing_strategy
    BY <2>1 DEF WInv
  <2>2. CASE \E s \in Strategies : SetQueueingStrategy(s)
    BY <2>2 DEF SetQueueingStrategy, SignalsArrive, FIFO
  <2>3. QED
    BY <2>1, <2>2 DEF Next, Step, vars, AcquireFree, AcquireNested, AcquireBlock,
       RenewBlock, WakeSignaled, WakeSpurious, Succeed, SleepAgain, Return, TimedOut,
       WaitFailed, Fail, ReleaseNested, ReleaseLast
<1>4. ASSUME NEW t \in Threads, Step(t) PROVE NoLostWakeup'
  <2> USE DEF WInv, NoLostWakeup, Blocked
  <2>1. ASSUME NEW op \in OpTypes, AcquireFree(t, op) PROVE NoLostWakeup'
    BY <2>1 DEF AcquireFree
  <2>2. CASE AcquireNested(t)
    BY <2>2 DEF AcquireNested
  <2>3. ASSUME NEW op \in OpTypes, NEW timed \in BOOLEAN, AcquireBlock(t, op, timed)
        PROVE  NoLostWakeup'
    BY <2>3 DEF AcquireBlock, IInv, TypeOK
  <2>4. CASE \E position \in Positions, timed \in BOOLEAN : RenewBlock(t, position, timed)
    BY <1>1, <2>4, RenewSignals
  <2>5. ASSUME Blocked(t), Succeed(t) PROVE NoLostWakeup'
    <3>1. frame'[t].call = "none" /\ owner' = t
      BY <2>5, NoCallFields, ReturnKeeps DEF Succeed, IInv
    <3>2. QED BY <3>1
  <2>6. ASSUME SleepAgain(t) PROVE NoLostWakeup'
    BY <2>6, <1>2 DEF SleepAgain, Unset
  <2>7. CASE TimedOut(t)
    <3>1. /\ Blocked(t) /\ Return(t)
          /\ EntriesOfBlockedCalls' /\ TypeOK'
      BY <1>1, <2>7 DEF TimedOut, Fail, IInv
    <3>2. frame'[t] = NoCall /\ \A u \in Threads \ {t} : frame'[u] = frame[u]
      BY <3>1, ReturnKeeps DEF IInv
    <3>3. CASE wakeup_next_waiter(Unset(runable, t), Unset(signaled, t))
      <4>1. /\ Unset(runable, t) \in [Threads -> BOOLEAN]
            /\ Unset(signaled, t) \in [Threads -> BOOLEAN]
        BY <1>2 DEF Unset
      <4>2. \A q \in Seq(Threads) : q # <<>> => Head(q) \in Linked(q)
        BY HeadLinked
      <4>3. \A u \in Linked(writers') \cup Linked(readers') : Blocked(u)
        BY <3>1, <3>2, NoCallFields DEF EntriesOfBlockedCalls
      <4>4. /\ writers' # <<>> => Blocked(Head(writers'))
            /\ readers' # <<>> => Blocked(Head(readers'))
        BY <1>2, <4>2, <4>3
      <4> HIDE DEF NoLostWakeup, Blocked
      <4>5. QED BY <1>2, <3>3, <4>1, <4>4, SignalSent
    <3>4. CASE ~runable[t] /\ LeaveOwner(t)
      <4>1. owner' # t
        BY <3>1, <3>4 DEF LeaveOwner, IInv, OwnerIsRunable
      <4>2. QED BY <1>2, <3>2, <3>4, <4>1 DEF LeaveOwner, Unset
    <3>5. QED BY <2>7, <3>3, <3>4 DEF TimedOut
  <2>8. CASE ReleaseNested(t)
    BY <2>8 DEF ReleaseNested
  <2>9. CASE ReleaseLast(t)
    <3>1. /\ writers' # <<>> => Blocked(Head(writers'))
          /\ readers' # <<>> => Blocked(Head(readers'))
      BY <2>9, HeadsAreBlocked DEF ReleaseLast, IInv
    <3> HIDE DEF NoLostWakeup, Blocked
    <3>2. QED BY <1>2, <2>9, <3>1, SignalSent DEF ReleaseLast
  <2>10. QED
    BY <1>4, <2>1, <2>2, <2>3, <2>4, <2>5, <2>6, <2>7, <2>8, <2>9
       DEF Step, WakeSignaled, WakeSpurious, WaitFailed
<1>5. ASSUME UNCHANGED vars \/ \E s \in Strategies : SetQueueingStrategy(s)
      PROVE  NoLostWakeup'
  BY <1>5 DEF WInv, NoLostWakeup, Blocked, vars, SetQueueingStrategy
<1>6. QED BY <1>3, <1>4, <1>5 DEF Next, WInv

(***************************************************************************)
(* No wakeup is lost: whenever entries sleep on semaphores, or the token   *)
(* is FIFO and nobody renews it with requeue_position 0, a sleeping thread *)
(* that has been made owner has the signal that wakes it.                  *)
(***************************************************************************)
THEOREM NoWakeupLost ==
  ~WaitErrors /\ SignalsArrive => (Spec => []NoLostWakeup)
<1> SUFFICES ASSUME ~WaitErrors, SignalsArrive PROVE Spec => []NoLostWakeup
  OBVIOUS
<1>1. Init => WInv
  BY NoCallFields DEF Init, WInv, NoLostWakeup, Blocked
<1>2. IInv /\ WInv /\ [Next]_vars => WInv'
  BY WakeupsKept
<1>3. Spec => []IInv
  BY Inductive
<1>4. WInv => NoLostWakeup
  BY DEF WInv
<1>5. QED BY <1>1, <1>2, <1>3, <1>4, PTL DEF Spec

-----------------------------------------------------------------------------
(***************************************************************************)
(* The order of service.                                                   *)
(***************************************************************************)

\* insert_entry leaves two linked entries in their order.
LEMMA InsertOrder ==
  ASSUME NEW S, NEW q \in Seq(S), NEW t \in S, NEW p \in Int,
         NEW a, NEW b, Before(q, a, b)
  PROVE  Before(insert_entry(q, t, p), a, b)
<1> DEFINE k == Skipped(q, p)
           r == insert_entry(q, t, p)
<1>1. k \in 0..Len(q)
  BY DEF Skipped
<1>2. r = [i \in 1..(Len(q) + 1) |->
             IF i <= k THEN q[i] ELSE IF i = k + 1 THEN t ELSE q[i - 1]]
  BY DEF insert_entry
<1> HIDE DEF k, r
<1>3. Len(r) = Len(q) + 1
  BY <1>1, <1>2
<1>4. PICK i, j \in 1..Len(q) : i < j /\ q[i] = a /\ q[j] = b
  BY DEF Before
<1> DEFINE ii == IF i <= k THEN i ELSE i + 1
           jj == IF j <= k THEN j ELSE j + 1
<1>5. ii \in 1..Len(r) /\ jj \in 1..Len(r) /\ ii < jj
  BY <1>1, <1>3, <1>4
<1>6. r[ii] = a /\ r[jj] = b
  BY <1>1, <1>2, <1>4
<1> HIDE DEF ii, jj
<1>7. Before(r, a, b)
  BY <1>5, <1>6 DEF Before
<1>8. QED BY <1>7 DEF r

\* remove_entry leaves the other entries in their order.
LEMMA RemoveOrder ==
  ASSUME NEW S, NEW q \in Seq(S), NEW t, NEW a, NEW b, Before(q, a, b), a # t, b # t
  PROVE  Before(remove_entry(q, t), a, b)
<1> DEFINE k == CHOOSE i \in 1..Len(q) : q[i] = t
           r == remove_entry(q, t)
<1>1. CASE \E i \in 1..Len(q) : q[i] = t
  <2>1. k \in 1..Len(q) /\ q[k] = t
    BY <1>1
  <2>2. r = [i \in 1..(Len(q) - 1) |-> IF i < k THEN q[i] ELSE q[i + 1]]
    BY <1>1 DEF remove_entry
  <2> HIDE DEF k, r
  <2>3. Len(r) = Len(q) - 1
    BY <2>1, <2>2
  <2>4. PICK i, j \in 1..Len(q) : i < j /\ q[i] = a /\ q[j] = b
    BY DEF Before
  <2>5. i # k /\ j # k
    BY <2>1, <2>4
  <2> DEFINE ii == IF i < k THEN i ELSE i - 1
             jj == IF j < k THEN j ELSE j - 1
  <2>6. ii \in 1..Len(r) /\ jj \in 1..Len(r) /\ ii < jj
    BY <2>1, <2>3, <2>4, <2>5
  <2>7. r[ii] = a /\ r[jj] = b
    BY <2>1, <2>2, <2>3, <2>4, <2>5, <2>6
  <2> HIDE DEF ii, jj
  <2>8. Before(r, a, b)
    BY <2>6, <2>7 DEF Before
  <2>9. QED BY <2>8 DEF r
<1>2. CASE ~\E i \in 1..Len(q) : q[i] = t
  BY <1>2 DEF remove_entry
<1>3. QED BY <1>1, <1>2

\* An entry that has another one before it is not the head.
LEMMA NotHead ==
  ASSUME NEW S, NEW q \in Seq(S), NoDuplicates(q), NEW a, NEW b, Before(q, a, b)
  PROVE  /\ q # <<>> /\ Head(q) # b
         /\ a \in Linked(q) /\ b \in Linked(q)
<1>1. PICK i, j \in 1..Len(q) : i < j /\ q[i] = a /\ q[j] = b
  BY DEF Before
<1>2. 1 \in 1..Len(q) /\ q # <<>> /\ Head(q) = q[1] /\ j # 1
  BY <1>1
<1>3. Head(q) # b
  BY <1>1, <1>2 DEF NoDuplicates
<1>4. QED BY <1>1, <1>2, <1>3 DEF Linked

\* wakeup_next_waiter passes nobody over who stays in the queue of the new owner.
LEMMA OwnerIsFirst ==
  ASSUME IInv', NEW run \in [Threads -> BOOLEAN], NEW sig \in [Threads -> BOOLEAN],
         wakeup_next_waiter(run, sig), NEW t \in Threads, NEW u \in Threads,
         Before(writers', t, u) \/ Before(readers', t, u)
  PROVE  owner' # u
<1>1. /\ writers' \in Seq(Threads) /\ readers' \in Seq(Threads)
      /\ NoDuplicates(writers') /\ NoDuplicates(readers')
      /\ Linked(writers') \cap Linked(readers') = {}
  BY DEF IInv, TypeOK, EntriesOfBlockedCalls, READ_TOKEN, WRITE_TOKEN
<1>2. CASE Before(writers', t, u)
  <2>1. writers' # <<>> /\ Head(writers') # u
    BY <1>1, <1>2, NotHead
  <2>2. QED BY <1>1, <2>1, WakeupNextWaiter
<1>3. CASE Before(readers', t, u)
  <2>1. readers' # <<>> /\ Head(readers') # u /\ u \in Linked(readers')
    BY <1>1, <1>3, NotHead
  <2>2. CASE writers' # <<>>
    <3>1. Head(writers') # u
      BY <1>1, <2>1, <2>2, HeadLinked
    <3>2. QED BY <1>1, <2>2, <3>1, WakeupNextWaiter
  <2>3. CASE writers' = <<>>
    BY <1>1, <2>1, <2>3, WakeupNextWaiter
  <2>4. QED BY <2>2, <2>3
<1>4. QED BY <1>2, <1>3

\* One step gives the token to nobody out of order.
LEMMA OrderKept ==
  ASSUME ~WaitErrors, IInv, Next, NEW t \in Threads, NEW u \in Threads,
         Before(writers, t, u) \/ Before(readers, t, u), owner' = u, owner # u
  PROVE  ~Blocked(t)'
<1>1. IInv'
  BY NextInv
<1>2. /\ writers \in Seq(Threads) /\ readers \in Seq(Threads)
      /\ NoDuplicates(writers) /\ NoDuplicates(readers)
      /\ runable \in [Threads -> BOOLEAN] /\ signaled \in [Threads -> BOOLEAN]
  BY DEF IInv, TypeOK, EntriesOfBlockedCalls
<1>3. Blocked(t) /\ Blocked(u)
  BY <1>2, NotHead DEF IInv, EntriesOfBlockedCalls
<1>4. ASSUME NEW c \in Threads, NEW op \in OpTypes, AcquireFree(c, op) PROVE FALSE
  BY <1>3, <1>4 DEF AcquireFree
<1>5. ASSUME NEW c \in Threads, NEW position \in Positions, NEW timed \in BOOLEAN,
             RenewBlock(c, position, timed)
      PROVE  FALSE
  <2> DEFINE op == IF in_use = READ_TOKEN THEN READ_TOKEN ELSE WRITE_TOKEN
             at == IF position = 0 THEN 0 ELSE queueing_strategy
  <2>1. Insert(c, op, at) /\ wakeup_next_waiter(runable, signaled)
    BY <1>5 DEF RenewBlock
  <2>2. at \in Int
    BY DEF IInv, TypeOK, FIFO, LIFO
  <2> HIDE DEF at, op
  <2>3. /\ writers' = insert_entry(writers, c, at) \/ writers' = writers
        /\ readers' = insert_entry(readers, c, at) \/ readers' = readers
    BY <2>1 DEF Insert
  <2>4. Before(writers', t, u) \/ Before(readers', t, u)
    BY <1>2, <2>2, <2>3, InsertOrder
  <2>5. QED BY <1>1, <1>2, <2>1, <2>4, OwnerIsFirst
<1>6. ASSUME NEW c \in Threads, TimedOut(c), Blocked(t)' PROVE FALSE
  <2>1. Blocked(c) /\ Return(c)
    BY <1>6 DEF TimedOut, Fail
  <2>2. frame'[c] = NoCall
    BY <2>1 DEF Return, IInv, TypeOK
  <2>3. t # c
    BY <1>6, <2>2, NoCallFields DEF Blocked
  <2>4. wakeup_next_waiter(Unset(runable, c), Unset(signaled, c))
    BY <1>6 DEF TimedOut, LeaveOwner
  <2>5. /\ Unset(runable, c) \in [Threads -> BOOLEAN]
        /\ Unset(signaled, c) \in [Threads -> BOOLEAN]
    BY <1>2 DEF Unset
  <2>6. u # c
    <3>1. writers' \in Seq(Threads) /\ readers' \in Seq(Threads)
      BY <1>1 DEF IInv, TypeOK
    <3>2. owner' \in Linked(writers') \cup Linked(readers')
      BY <2>4, <2>5, <3>1, WakeupNextWaiter, TokenAssumption
    <3>3. Blocked(u)'
      BY <1>1, <3>2 DEF IInv, EntriesOfBlockedCalls
    <3>4. QED BY <2>2, <3>3, NoCallFields DEF Blocked
  <2>7. /\ writers' = remove_entry(writers, c) \/ writers' = writers
        /\ readers' = remove_entry(readers, c) \/ readers' = readers
    BY <2>1 DEF Return, Remove
  <2>8. Before(writers', t, u) \/ Before(readers', t, u)
    BY <1>2, <2>3, <2>6, <2>7, RemoveOrder
  <2>9. QED BY <1>1, <2>4, <2>5, <2>8, OwnerIsFirst
<1>7. ASSUME NEW c \in Threads, ReleaseLast(c) PROVE FALSE
  <2>1. wakeup_next_waiter(runable, signaled) /\ writers' = writers /\ readers' = readers
    BY <1>7 DEF ReleaseLast
  <2>2. Before(writers', t, u) \/ Before(readers', t, u)
    BY <2>1
  <2>3. QED BY <1>1, <1>2, <2>1, <2>2, OwnerIsFirst
<1>8. ASSUME NEW c \in Threads, Step(c) PROVE ~Blocked(t)'
  BY <1>4, <1>5, <1>6, <1>7, <1>8
     DEF Step, AcquireNested, AcquireBlock, WakeSignaled, WakeSpurious, Succeed,
         SleepAgain, WaitFailed, ReleaseNested
<1>9. QED BY <1>8 DEF Next, SetQueueingStrategy

\* An entry inserted at the tail is behind every other one.
LEMMA TailIsLast ==
  ASSUME NEW S, NEW q \in Seq(S), NEW t \in S, t \notin Linked(q), NEW a
  PROVE  ~Before(insert_entry(q, t, -1), t, a)
<1> DEFINE r == insert_entry(q, t, -1)
<1>1. r = [i \in 1..(Len(q) + 1) |->
             IF i <= Len(q) THEN q[i] ELSE IF i = Len(q) + 1 THEN t ELSE q[i - 1]]
  BY DEF insert_entry, Skipped
<1> HIDE DEF r
<1>2. Len(r) = Len(q) + 1
  BY <1>1
<1>3. ASSUME NEW i \in 1..Len(r), NEW j \in 1..Len(r), i < j, r[i] = t PROVE FALSE
  <2>1. i \in 1..Len(q) /\ q[i] = t
    BY <1>1, <1>2, <1>3
  <2>2. QED BY <2>1 DEF Linked
<1>4. ~Before(r, t, a)
  BY <1>3 DEF Before
<1>5. QED BY <1>4 DEF r

(***************************************************************************)
(* What a step does to the queues: it leaves them alone, it inserts the    *)
(* entry of a thread that blocks, or it removes the one of a thread whose  *)
(* call returns.                                                           *)
(***************************************************************************)
Joined(c) ==
  /\ ~Blocked(c)
  /\ \E op \in OpTypes, at \in Int :
       /\ Insert(c, op, at)
       /\ queueing_strategy = FIFO => at = -1 \/ frame'[c].position = 0
  /\ \A x \in Threads \ {c} : frame'[x] = frame[x]

Left(c) ==
  /\ Remove(c) /\ ~Blocked(c)'
  /\ \A x \in Threads \ {c} : frame'[x] = frame[x]

LEMMA QueueStep ==
  ASSUME IInv, Next
  PROVE  \/ writers' = writers /\ readers' = readers /\ frame' = frame
         \/ \E c \in Threads : Joined(c) \/ Left(c)
<1> DEFINE Same == writers' = writers /\ readers' = readers /\ frame' = frame
<1>1. /\ frame \in [Threads -> Frames] /\ queueing_strategy \in {FIFO, LIFO}
      /\ FIFO = -1 /\ LIFO = 0
  BY DEF IInv, TypeOK, FIFO, LIFO
<1>2. ASSUME NEW c \in Threads, Return(c) PROVE Left(c)
  <2>1. frame'[c] = NoCall /\ \A x \in Threads \ {c} : frame'[x] = frame[x]
    BY <1>1, <1>2 DEF Return
  <2>2. ~Blocked(c)'
    BY <2>1, NoCallFields DEF Blocked
  <2>3. QED BY <1>2, <2>1, <2>2 DEF Left, Return
<1>3. ASSUME NEW c \in Threads, NEW op \in OpTypes, NEW timed \in BOOLEAN,
             AcquireBlock(c, op, timed)
      PROVE  Joined(c)
  <2>1. /\ ~Blocked(c) /\ Insert(c, op, queueing_strategy)
        /\ frame' = [frame EXCEPT ![c] = Frame("acquire", op, timed, 0, -1)]
    BY <1>3 DEF AcquireBlock
  <2>2. \A x \in Threads \ {c} : frame'[x] = frame[x]
    BY <1>1, <2>1
  <2>3. queueing_strategy \in Int
    BY <1>1
  <2>4. QED BY <1>1, <2>1, <2>2, <2>3 DEF Joined
<1>4. ASSUME NEW c \in Threads, NEW position \in Positions, NEW timed \in BOOLEAN,
             RenewBlock(c, position, timed)
      PROVE  Joined(c)
  <2> DEFINE op == IF in_use = READ_TOKEN THEN READ_TOKEN ELSE WRITE_TOKEN
             at == IF position = 0 THEN 0 ELSE queueing_strategy
             f  == Frame("renew", op, timed, nesting_level, position)
  <2>1. /\ ~Blocked(c) /\ Insert(c, op, at)
        /\ frame' = [frame EXCEPT ![c] = f]
    BY <1>4 DEF RenewBlock, Holds
  <2>2. op \in OpTypes /\ at \in Int
    BY <1>1 DEF OpTypes
  <2>3. at = -1 \/ position = 0 \/ queueing_strategy # FIFO
    BY <1>1
  <2>4. f.position = position
    BY DEF Frame
  <2> HIDE DEF op, at, f
  <2>5. frame'[c] = f /\ \A x \in Threads \ {c} : frame'[x] = frame[x]
    BY <1>1, <2>1
  <2>6. QED BY <2>1, <2>2, <2>3, <2>4, <2>5 DEF Joined
<1>5. ASSUME NEW c \in Threads, Step(c) PROVE Same \/ Joined(c) \/ Left(c)
  <2>1. CASE \E op \in OpTypes : AcquireFree(c, op)
    BY <2>1 DEF AcquireFree
  <2>2. CASE AcquireNested(c) \/ ReleaseNested(c)
    BY <2>2 DEF AcquireNested, ReleaseNested
  <2>3. CASE WakeSignaled(c) \/ WakeSpurious(c)
    <3>1. Same \/ Return(c)
      BY <2>3 DEF WakeSignaled, WakeSpurious, Succeed, SleepAgain
    <3>2. QED BY <1>2, <3>1
  <2>4. CASE TimedOut(c) \/ WaitFailed(c)
    <3>1. Return(c)
      BY <2>4 DEF TimedOut, WaitFailed, Fail
    <3>2. QED BY <1>2, <3>1
  <2>5. CASE ReleaseLast(c)
    BY <2>5 DEF ReleaseLast
  <2>6. QED BY <1>3, <1>4, <1>5, <2>1, <2>2, <2>3, <2>4, <2>5 DEF Step
<1>6. QED BY <1>5 DEF Next, SetQueueingStrategy

\* One step never changes the order of two threads that both stay blocked.
LEMMA NeverOvertaken ==
  ASSUME IInv, Next, NEW t \in Threads, NEW u \in Threads PROVE StaysBehind(t, u)
<1>1. writers \in Seq(Threads) /\ readers \in Seq(Threads)
  BY DEF IInv, TypeOK
<1>2. CASE writers' = writers /\ readers' = readers
  BY <1>2 DEF StaysBehind
<1>3. ASSUME NEW c \in Threads, Joined(c) PROVE StaysBehind(t, u)
  <2>1. PICK at \in Int :
          /\ writers' = insert_entry(writers, c, at) \/ writers' = writers
          /\ readers' = insert_entry(readers, c, at) \/ readers' = readers
    BY <1>3 DEF Joined, Insert
  <2>2. Before(writers, t, u) => Before(writers', t, u)
    BY <1>1, <2>1, InsertOrder
  <2>3. Before(readers, t, u) => Before(readers', t, u)
    BY <1>1, <2>1, InsertOrder
  <2>4. QED BY <2>2, <2>3 DEF StaysBehind
<1>4. ASSUME NEW c \in Threads, Left(c) PROVE StaysBehind(t, u)
  <2>1. /\ writers' = remove_entry(writers, c) \/ writers' = writers
        /\ readers' = remove_entry(readers, c) \/ readers' = readers
    BY <1>4 DEF Left, Remove
  <2>2. CASE t = c \/ u = c
    BY <1>4, <2>2 DEF Left, StaysBehind
  <2>3. CASE t # c /\ u # c
    <3>1. Before(writers, t, u) => Before(writers', t, u)
      BY <1>1, <2>1, <2>3, RemoveOrder
    <3>2. Before(readers, t, u) => Before(readers', t, u)
      BY <1>1, <2>1, <2>3, RemoveOrder
    <3>3. QED BY <3>1, <3>2 DEF StaysBehind
  <2>4. QED BY <2>2, <2>3
<1>5. QED BY <1>2, <1>3, <1>4, QueueStep

\* Under FIFO a thread queues up behind those that wait, or renews at position 0.
LEMMA QueuesUpLast ==
  ASSUME IInv, Next, NEW t \in Threads, NEW u \in Threads PROVE JoinsBehind(t, u)
<1>1. writers \in Seq(Threads) /\ readers \in Seq(Threads)
  BY DEF IInv, TypeOK
<1>2. SUFFICES ASSUME queueing_strategy = FIFO, Blocked(t), ~Blocked(u), Blocked(u)',
                      frame'[u].position # 0
               PROVE  ~Before(writers', u, t) /\ ~Before(readers', u, t)
  BY DEF JoinsBehind
<1>3. frame' # frame
  BY <1>2 DEF Blocked
<1>4. ASSUME NEW c \in Threads, Left(c) PROVE FALSE
  BY <1>2, <1>4 DEF Left, Blocked
<1>5. Joined(u)
  <2>1. PICK c \in Threads : Joined(c)
    BY <1>3, <1>4, QueueStep
  <2>2. c = u
    BY <1>2, <2>1 DEF Joined, Blocked
  <2>3. QED BY <2>1, <2>2
<1>6. /\ writers' = insert_entry(writers, u, -1) \/ writers' = writers
      /\ readers' = insert_entry(readers, u, -1) \/ readers' = readers
  BY <1>2, <1>5 DEF Joined, Insert
<1>7. u \notin Linked(writers) /\ u \notin Linked(readers)
  BY <1>2 DEF IInv, EntriesOfBlockedCalls
<1>8. ~Before(writers, u, t) /\ ~Before(readers, u, t)
  BY <1>7 DEF Before, Linked
<1>9. QED BY <1>1, <1>6, <1>7, <1>8, TailIsLast

(***************************************************************************)
(* The order of service (Token.h:59-62): whatever positions renew is given *)
(* and whichever the strategy, two threads blocked in the same queue never *)
(* change places, timeouts and renewals in between included; the later one *)
(* is not given the token while the earlier one waits; and as long as the  *)
(* strategy is FIFO whoever queues up queues up last.                      *)
(***************************************************************************)
THEOREM OrderOfService == ~WaitErrors => (Spec => ServedInOrder)
<1> SUFFICES ASSUME ~WaitErrors PROVE Spec => ServedInOrder
  OBVIOUS
<1> DEFINE InOrder == \A t, u \in Threads :
                        StaysBehind(t, u) /\ NotPassedOver(t, u) /\ JoinsBehind(t, u)
<1>1. IInv /\ [Next]_vars => [InOrder]_vars
  <2>1. ASSUME IInv, Next, NEW t \in Threads, NEW u \in Threads PROVE NotPassedOver(t, u)
    BY <2>1, OrderKept DEF NotPassedOver
  <2>2. QED BY <2>1, NeverOvertaken, QueuesUpLast
<1>2. Spec => []IInv
  BY Inductive
<1>3. QED BY <1>1, <1>2, PTL DEF Spec, ServedInOrder
=============================================================================
