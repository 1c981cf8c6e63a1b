------------------------ MODULE LeaderFollowerWakeups ------------------------
(***************************************************************************)
(* Proofs about the sleepers of LeaderFollower: the followers that wait    *)
(* for their event or for an election, the event loop threads that wait    *)
(* for a client leader, and the signals on their way to them.              *)
(***************************************************************************)
EXTENDS LeaderFollowerProofs

-----------------------------------------------------------------------------
(* Who sleeps, who is linked and who has been woken *)

\* F are the followers and E the event loop threads that wait for a client.
Known(l, F, E) ==
  /\ l.event_loop_threads_waiting = E
  /\ l.woken \subseteq F \cup E
  /\ Distinct(l.follower_set)
  /\ Linked(l.follower_set) = F \ l.woken

Followers == {t \in Threads : At(t) = "follower"}
Entering  == {t \in Threads : At(t) = "entering"}

(***************************************************************************)
(* The inductive invariant of the wakeups.                                 *)
(***************************************************************************)
Awake ==
  /\ Known(lf, Followers, Entering)
  /\ CompletionWakes

LEMMA KnownSame ==
  ASSUME NEW l, NEW m, NEW F, NEW E, Known(l, F, E),
         m.event_loop_threads_waiting = l.event_loop_threads_waiting,
         m.follower_set = l.follower_set, m.woken = l.woken
  PROVE  Known(m, F, E)
BY DEF Known

LEMMA LinkedHead ==
  ASSUME NEW S, NEW q \in Seq(S), q # <<>>
  PROVE  Head(q) \in Linked(q)
<1>1. Head(q) = q[1] /\ 1 \in 1..Len(q)
  BY ConsHeadTail
<1>2. QED
  BY <1>1 DEF Linked

\* A signaled follower is unlinked.
LEMMA KnownSignal ==
  ASSUME NEW l \in LFs, NEW F, NEW E, Known(l, F, E), NEW t \in Threads, t \in F
  PROVE  Known(signal(l, t), F, E)
<1> DEFINE m == signal(l, t)
           q == l.follower_set
<1>1. /\ SameBooks(l, m) /\ m.follower_set = Unlink(q, t) /\ m.woken = l.woken \cup {t}
  BY SignalFacts
<1>2. q \in Seq(Threads) /\ Distinct(q)
  BY DEF LFs, Known
<1>3. Linked(Unlink(q, t)) = Linked(q) \ {t} /\ Distinct(Unlink(q, t))
  BY <1>2, UnlinkFacts
<1> HIDE DEF m, q
<1>4. m.event_loop_threads_waiting = E
  BY <1>1 DEF SameBooks, Known
<1>5. m.woken \subseteq F \cup E
  BY <1>1 DEF Known
<1>6. Linked(q) = F \ l.woken
  BY DEF Known, q
<1>7. Linked(m.follower_set) = F \ m.woken /\ Distinct(m.follower_set)
  BY <1>1, <1>3, <1>6
<1>8. QED
  BY <1>4, <1>5, <1>7 DEF Known, m

LEMMA KnownElect ==
  ASSUME NEW l \in LFs, NEW F, NEW E, Known(l, F, E), F \cap E = {}
  PROVE  /\ Known(elect_new_leader(l), F, E)
         /\ l.woken \subseteq elect_new_leader(l).woken
<1> DEFINE m == elect_new_leader(l)
<1>1. CASE m = l
  BY <1>1
<1>2. CASE /\ l.leaders = 0 /\ l.event_loop_threads_waiting # {}
           /\ m.woken = l.woken \cup l.event_loop_threads_waiting
           /\ m.follower_set = l.follower_set
  <2>1. SameBooks(l, m)
    BY ElectFacts
  <2> HIDE DEF m
  <2>2. m.event_loop_threads_waiting = E /\ l.event_loop_threads_waiting = E
    BY <2>1 DEF SameBooks, Known
  <2>3. F \ m.woken = (F \ l.woken) \ E
    BY <1>2, <2>2
  <2>4. QED BY <1>2, <2>2, <2>3 DEF Known, m
<1>3. CASE /\ l.leaders = 0 /\ l.event_loop_threads_waiting = {} /\ l.follower_set # <<>>
  <2> DEFINE t == Head(l.follower_set)
  <2>1. l.follower_set \in Seq(Threads)
    BY DEF LFs
  <2>2. t \in Threads /\ t \in Linked(l.follower_set)
    BY <1>3, <2>1, LinkedHead, ConsHeadTail
  <2>3. t \in F
    BY <2>2 DEF Known
  <2>4. m = signal(l, t)
    BY <1>3 DEF elect_new_leader, leader_available
  <2> HIDE DEF t, m
  <2>5. Known(m, F, E) /\ l.woken \subseteq m.woken
    BY <2>2, <2>3, <2>4, KnownSignal, SignalFacts
  <2>6. QED BY <2>5 DEF m
<1>4. QED
  BY <1>1, <1>2, <1>3, ElectFacts

LEMMA KnownAdd ==
  ASSUME NEW l \in LFs, NEW F, NEW E, Known(l, F, E), NEW t \in Threads, t \notin F, t \notin E
  PROVE  Known(add_follower(l, t), F \cup {t}, E) /\ add_follower(l, t).woken = l.woken
<1> DEFINE m == add_follower(l, t)
           q == l.follower_set
           r == Append(q, t)
<1>1. SameBooks(l, m) /\ m.follower_set = r /\ m.woken = l.woken
  BY SignalFacts
<1>2. q \in Seq(Threads) /\ Distinct(q) /\ Linked(q) = F \ l.woken
  BY DEF LFs, Known
<1>3. t \notin l.woken /\ t \notin Linked(q)
  BY <1>2 DEF Known
<1>4. /\ Len(r) = Len(q) + 1 /\ r[Len(q) + 1] = t /\ Len(q) \in Nat
      /\ \A i \in 1..Len(q) : r[i] = q[i]
  BY <1>2
<1> HIDE DEF m, r, q
<1>5. Distinct(r)
  <2>1. SUFFICES ASSUME NEW i \in 1..Len(r), NEW j \in 1..Len(r), r[i] = r[j]
                 PROVE  i = j
    BY DEF Distinct
  <2>2. CASE i \in 1..Len(q) /\ j \in 1..Len(q)
    BY <1>2, <1>4, <2>1, <2>2 DEF Distinct
  <2>3. CASE i \in 1..Len(q) /\ j = Len(q) + 1
    BY <1>3, <1>4, <2>1, <2>3 DEF Linked
  <2>4. CASE j \in 1..Len(q) /\ i = Len(q) + 1
    BY <1>3, <1>4, <2>1, <2>4 DEF Linked
  <2>5. QED BY <1>4, <2>2, <2>3, <2>4
<1>6. Linked(r) = Linked(q) \cup {t}
  <2>1. Linked(r) \subseteq Linked(q) \cup {t}
    <3>1. ASSUME NEW i \in 1..Len(r) PROVE r[i] \in Linked(q) \cup {t}
      <4>1. i \in 1..Len(q) \/ i = Len(q) + 1
        BY <1>4
      <4>2. QED BY <1>4, <4>1 DEF Linked
    <3>2. QED BY <3>1 DEF Linked
  <2>2. ASSUME NEW i \in 1..Len(q) PROVE q[i] \in Linked(r)
    <3>1. i \in 1..Len(r) /\ r[i] = q[i]
      BY <1>4
    <3>2. QED BY <3>1 DEF Linked
  <2>3. t \in Linked(r)
    <3>1. Len(q) + 1 \in 1..Len(r)
      BY <1>4
    <3>2. QED BY <1>4, <3>1 DEF Linked
  <2>4. QED BY <2>1, <2>2, <2>3 DEF Linked
<1>7. Linked(r) = (F \cup {t}) \ m.woken
  BY <1>1, <1>2, <1>3, <1>6
<1>8. m.event_loop_threads_waiting = E /\ m.woken \subseteq (F \cup {t}) \cup E
  BY <1>1 DEF SameBooks, Known
<1>9. QED
  BY <1>1, <1>5, <1>7, <1>8 DEF Known, m

\* A follower forgets its wakeup and unlinks itself.
LEMMA KnownRemove ==
  ASSUME NEW l \in LFs, NEW F, NEW E, Known(l, F, E), NEW t \in Threads, t \notin E
  PROVE  LET m == remove_follower([l EXCEPT !.woken = @ \ {t}], t)
         IN  /\ m \in LFs /\ Known(m, F \ {t}, E) /\ m.woken = l.woken \ {t}
             /\ SameBooks(l, m)
             /\ l.follower_set = <<>> => m.follower_set = <<>>
             /\ t \in l.woken => Linked(m.follower_set) = Linked(l.follower_set)
<1> DEFINE k == [l EXCEPT !.woken = @ \ {t}]
           m == remove_follower(k, t)
           q == l.follower_set
<1>1. k \in LFs /\ k.follower_set = q /\ k.woken = l.woken \ {t} /\ SameBooks(l, k)
  BY DEF LFs, SameBooks
<1> HIDE DEF k
<1>2. m \in LFs /\ SameBooks(k, m) /\ m.follower_set = Unlink(q, t) /\ m.woken = l.woken \ {t}
  BY <1>1, SignalFacts, ZenonT(40)
<1>3. q \in Seq(Threads) /\ Distinct(q) /\ Linked(q) = F \ l.woken
  BY DEF LFs, Known
<1>4. Linked(Unlink(q, t)) = Linked(q) \ {t} /\ Distinct(Unlink(q, t))
  BY <1>3, UnlinkFacts
<1> HIDE DEF m, q
<1>5. SameBooks(l, m)
  BY <1>1, <1>2 DEF SameBooks
<1>6. m.event_loop_threads_waiting = E
  BY <1>5 DEF SameBooks, Known
<1>7. m.woken \subseteq (F \ {t}) \cup E
  BY <1>2 DEF Known
<1>8. Linked(m.follower_set) = (F \ {t}) \ m.woken /\ Distinct(m.follower_set)
  BY <1>2, <1>3, <1>4
<1>9. q = <<>> => m.follower_set = <<>>
  BY <1>2, <1>3 DEF Unlink
<1>10. t \in l.woken => Linked(m.follower_set) = Linked(q)
  BY <1>2, <1>3, <1>4
<1>11. QED
  BY <1>2, <1>5, <1>6, <1>7, <1>8, <1>9, <1>10 DEF Known, m, k, q

\* The calls of the other threads stay, and so do their wakeups.
Frame(t) ==
  \A v \in Threads \ {t} : stack'[v] = stack[v] /\ (v \in lf.woken => v \in lf'.woken)

\* Thread t has moved to a.
LEMMA AwakeStep ==
  ASSUME NEW t \in Threads, Frame(t), Awake, NEW F, NEW E,
         Known(lf', F, E),
         At(t)' = "follower" => keep_waiting(Top(t)') \/ t \in lf'.woken,
         F = (Followers \ {t}) \cup IF At(t)' = "follower" THEN {t} ELSE {},
         E = (Entering \ {t}) \cup IF At(t)' = "entering" THEN {t} ELSE {}
  PROVE  Awake'
<1>1. \A v \in Threads \ {t} : At(v)' = At(v) /\ Top(v)' = Top(v)
  BY DEF Frame, At, Top
<1>2. F = Followers' /\ E = Entering'
  BY <1>1 DEF Followers, Entering
<1>3. CompletionWakes'
  <2>1. SUFFICES ASSUME NEW v \in Threads, At(v)' = "follower", ~keep_waiting(Top(v)')
                 PROVE  v \in lf'.woken
    BY DEF CompletionWakes, keep_waiting, successful, error_detected
  <2>2. CASE v = t
    BY <2>1, <2>2
  <2>3. CASE v # t
    <3>1. At(v) = "follower" /\ ~keep_waiting(Top(v))
      BY <1>1, <2>1, <2>3
    <3>2. v \in lf.woken
      BY <3>1 DEF Awake, CompletionWakes
    <3>3. QED BY <2>3, <3>2 DEF Frame
  <2>4. QED BY <2>2, <2>3
<1>4. QED
  BY <1>2, <1>3 DEF Awake

\* Where the innermost call of thread t is after a step.
LEMMA TopMoves ==
  ASSUME stack \in [Threads -> Seq(Calls)], NEW t \in Threads, NEW c \in Calls,
         At(t) # "application", stack' = SetTop(t, c)
  PROVE  /\ At(t)' = c.at /\ Top(t)' = c
         /\ \A v \in Threads \ {t} : stack'[v] = stack[v]
<1>1. stack[t] # <<>>
  BY DEF At
<1>2. /\ Len(stack'[t]) = Len(stack[t]) /\ Head(stack'[t]) = c
      /\ stack' \in [Threads -> Seq(Calls)]
      /\ \A v \in Threads \ {t} : stack'[v] = stack[v]
  BY <1>1, TopChanges DEF Changes
<1>3. stack'[t] # <<>>
  <2>1. stack[t] \in Seq(Calls) /\ stack'[t] \in Seq(Calls)
    BY <1>2
  <2>2. QED BY <1>1, <1>2, <2>1
<1>4. QED
  BY <1>2, <1>3 DEF At, Top

LEMMA PushMoves ==
  ASSUME stack \in [Threads -> Seq(Calls)], NEW t \in Threads, NEW c \in Calls,
         stack' = Push(t, c)
  PROVE  /\ At(t)' = c.at
         /\ \A v \in Threads \ {t} : stack'[v] = stack[v]
<1>1. stack' = [stack EXCEPT ![t] = <<c>> \o stack[t]] /\ stack[t] \in Seq(Calls)
  BY DEF Push
<1>2. <<c>> \o stack[t] # <<>> /\ Head(<<c>> \o stack[t]) = c
  BY <1>1, Cons
<1>3. stack'[t] = <<c>> \o stack[t] /\ \A v \in Threads \ {t} : stack'[v] = stack[v]
  BY <1>1
<1>4. QED
  BY <1>2, <1>3 DEF At

LEMMA PopMoves ==
  ASSUME NEW t \in Threads, InOrder(t), At(t) \notin {"application", "upcall"},
         stack' = Pop(t)
  PROVE  /\ At(t)' \in {"application", "upcall"}
         /\ \A v \in Threads \ {t} : stack'[v] = stack[v]
<1> DEFINE B == Tail(Shape(stack[t]))
<1>1. stack \in [Threads -> Seq(Calls)] /\ At(t) # "application"
  BY DEF InOrder, Typed
<1>2. B \in Seq(Ats) /\ Shape(stack[t]) = <<At(t)>> \o B /\ stack[t] # <<>> /\ At(t) \in Ats
  BY <1>1, Innermost
<1>3. TopOf(B) \in {"application", "upcall"}
  <2>1. Nest(<<At(t)>> \o B) /\ At(t) # "upcall"
    BY <1>2 DEF InOrder, Orderly
  <2>2. QED BY <1>2, <2>1, BaseFacts
<1>4. /\ stack'[t] \in Seq(Calls) /\ Shape(stack'[t]) = B
      /\ \A v \in Threads \ {t} : stack'[v] = stack[v]
  BY <1>1, <1>2, PopChanges DEF Changes
<1>5. At(t)' = At0(stack'[t])
  BY DEF At, At0
<1>6. QED
  BY <1>3, <1>4, <1>5, AtShape

LEMMA ReturnedMoves ==
  ASSUME NEW st \in [Threads -> Seq(Calls)], NEW t \in Threads, st[t] # <<>>,
         NEW l, NEW result \in Results, stack' = Returned(st, l, t, result)
  PROVE  /\ At(t)' \in {"leading", "leaving", "ended"}
         /\ Head(st[t]).at = "running" => At(t)' = "ended"
         /\ Head(st[t]).at # "running" =>
              \/ At(t)' = "leaving"
              \/ At(t)' = "leading" /\ l.client_leader_thread[t] > 0
         /\ \A v \in Threads \ {t} : stack'[v] = st[v]
<1> DEFINE n == TopOf(Shape(stack'[t]))
<1>1. /\ stack' \in [Threads -> Seq(Calls)]
      /\ \A u \in Threads \ {t} : stack'[u] = st[u]
      /\ Head(st[t]).at = "running" => n = "ended"
      /\ Head(st[t]).at # "running" =>
           n = "leaving" \/ (n = "leading" /\ l.client_leader_thread[t] > 0)
  <2> DEFINE r == Returned(st, l, t, result)
  <2>1. /\ r \in [Threads -> Seq(Calls)]
        /\ \A u \in Threads \ {t} : r[u] = st[u]
        /\ Shape(r[t]) = <<TopOf(Shape(r[t]))>> \o Tail(Shape(st[t]))
        /\ Len(r[t]) = Len(st[t])
        /\ Head(st[t]).at = "running" => TopOf(Shape(r[t])) = "ended"
        /\ Head(st[t]).at # "running" =>
             \/ TopOf(Shape(r[t])) = "leaving"
             \/ TopOf(Shape(r[t])) = "leading" /\ l.client_leader_thread[t] > 0
    BY ReturnedFacts
  <2> HIDE DEF r
  <2>2. QED BY <2>1 DEF r
<1>2. At(t)' = n
  <2>1. At(t)' = At0(stack'[t]) /\ stack'[t] \in Seq(Calls)
    BY <1>1 DEF At, At0
  <2>2. QED BY <2>1, AtShape
<1> HIDE DEF n
<1>3. QED
  BY <1>1, <1>2

\* wait_for_event goes on.
LEMMA WaitLoopAwake ==
  ASSUME NEW t \in Threads, InOrder(t), Awake, At(t) \in Waiting,
         NEW l \in LFs, Known(l, Followers \ {t}, Entering),
         \A v \in Threads \ {t} : v \in lf.woken => v \in l.woken,
         NEW call \in Calls,
         \/ Follow(t, call, l) /\ keep_waiting(call)
         \/ Lead(t, call, l) \/ Finish(t, l)
  PROVE  Awake' /\ Frame(t)
<1> DEFINE F == Followers \ {t}
           E == Entering
<1>1. /\ stack \in [Threads -> Seq(Calls)] /\ At(t) \notin {"application", "upcall"}
      /\ t \notin Entering /\ F \cap E = {}
  BY DEF InOrder, Typed, Waiting, Entering, Followers
<1>2. CASE Follow(t, call, l) /\ keep_waiting(call)
  <2> DEFINE c == [call EXCEPT !.at = "follower"]
  <2>1. c \in Calls /\ c.at = "follower" /\ c.event = call.event
    BY DEF Calls, Waiting
  <2>2. stack' = SetTop(t, c) /\ lf' = add_follower(l, t)
    BY <1>2 DEF Follow
  <2>3. keep_waiting(c)
    BY <1>2, <2>1 DEF keep_waiting, successful, error_detected
  <2> HIDE DEF c
  <2>4. /\ At(t)' = "follower" /\ Top(t)' = c
        /\ \A v \in Threads \ {t} : stack'[v] = stack[v]
    BY <1>1, <2>1, <2>2, TopMoves
  <2>5. Known(lf', F \cup {t}, E) /\ lf'.woken = l.woken
    BY <1>1, <2>2, KnownAdd
  <2>6. Frame(t)
    BY <2>4, <2>5 DEF Frame
  <2>7. keep_waiting(Top(t)')
    BY <2>3, <2>4
  <2>8. F \cup {t} = (Followers \ {t}) \cup {t} /\ E = (Entering \ {t}) \cup {}
    BY <1>1
  <2> HIDE DEF F, E
  <2>9. Awake'
    BY <2>4, <2>5, <2>6, <2>7, <2>8, AwakeStep
  <2>10. QED BY <2>6, <2>9
<1>3. CASE Lead(t, call, l)
  <2> DEFINE c == [call EXCEPT !.at = "leading"]
  <2>1. c \in Calls /\ c.at = "leading"
    BY DEF Calls, Waiting
  <2>2. stack' = SetTop(t, c) /\ lf' = set_client_leader_thread(l, t)
    BY <1>3 DEF Lead
  <2> HIDE DEF c
  <2>3. At(t)' = "leading" /\ \A v \in Threads \ {t} : stack'[v] = stack[v]
    BY <1>1, <2>1, <2>2, TopMoves
  <2>4. SameRest(l, lf')
    BY <2>2, ClientLeaderFacts
  <2>5. Known(lf', F, E) /\ lf'.woken = l.woken
    BY <2>4, KnownSame DEF SameRest
  <2>6. Frame(t)
    BY <2>3, <2>5 DEF Frame
  <2>7. F = (Followers \ {t}) \cup {} /\ E = (Entering \ {t}) \cup {}
    BY <1>1
  <2> HIDE DEF F, E
  <2>8. Awake'
    BY <2>3, <2>5, <2>6, <2>7, AwakeStep
  <2>9. QED BY <2>6, <2>8
<1>4. CASE Finish(t, l)
  <2> DEFINE m == reset_client_thread(l, t)
  <2>1. stack' = Pop(t) /\ lf' = elect_new_leader(m)
    BY <1>4 DEF Finish
  <2>2. At(t)' \in {"application", "upcall"} /\ \A v \in Threads \ {t} : stack'[v] = stack[v]
    BY <1>1, <2>1, PopMoves
  <2>3. m \in LFs /\ SameRest(l, m)
    BY ClientThreadFacts
  <2> HIDE DEF m
  <2>4. Known(m, F, E) /\ m.woken = l.woken
    BY <2>3, KnownSame DEF SameRest
  <2>5. Known(lf', F, E) /\ m.woken \subseteq lf'.woken
    BY <1>1, <2>1, <2>3, <2>4, KnownElect
  <2>6. Frame(t)
    BY <2>2, <2>4, <2>5 DEF Frame
  <2>7. F = (Followers \ {t}) \cup {} /\ E = (Entering \ {t}) \cup {}
    BY <1>1
  <2> HIDE DEF F, E
  <2>8. Awake'
    BY <2>2, <2>5, <2>6, <2>7, AwakeStep
  <2>9. QED BY <2>6, <2>8
<1>5. QED
  BY <1>2, <1>3, <1>4

LEMMA WaitStepsAwake ==
  ASSUME NEW t \in Threads, InOrder(t), Awake,
         WaitForEvent(t) \/ Yielded(t) \/ LeaveReactor(t)
  PROVE  Awake' /\ Frame(t)
<1>1. lf \in LFs /\ stack \in [Threads -> Seq(Calls)]
  BY DEF InOrder, Typed
<1>2. At(t) \in {"sent", "yielding", "leaving"} /\ At(t) \in Waiting /\ At(t) # "application"
  BY DEF WaitForEvent, Yielded, LeaveReactor, Waiting
<1>3. Top(t) \in Calls
  BY <1>1, <1>2, Innermost
<1>4. Followers = Followers \ {t} /\ t \notin Entering /\ Followers \cap Entering = {}
  BY <1>2 DEF Followers, Entering
<1>5. Known(lf, Followers \ {t}, Entering)
  BY <1>4 DEF Awake
<1>6. ASSUME NEW l \in LFs, l.event_loop_threads_waiting = lf.event_loop_threads_waiting,
             l.follower_set = lf.follower_set, l.woken = lf.woken, WaitLoop(t, Top(t), l)
      PROVE  Awake' /\ Frame(t)
  <2>1. Known(l, Followers \ {t}, Entering)
    BY <1>5, <1>6, KnownSame
  <2>2. \/ Follow(t, Top(t), l) /\ keep_waiting(Top(t))
        \/ Lead(t, Top(t), l) \/ Finish(t, l)
    BY <1>6 DEF WaitLoop, StillWaiting
  <2>3. QED BY <1>2, <1>3, <1>6, <2>1, <2>2, WaitLoopAwake
<1>7. CASE WaitForEvent(t)
  <2> DEFINE l == set_client_thread(lf, t)
  <2>1. l \in LFs /\ SameRest(lf, l) /\ WaitLoop(t, Top(t), l)
    BY <1>1, <1>7, ClientThreadFacts DEF WaitForEvent
  <2> HIDE DEF l
  <2>2. QED BY <1>6, <2>1 DEF SameRest
<1>8. CASE Yielded(t)
  BY <1>1, <1>6, <1>8 DEF Yielded
<1>9. CASE LeaveReactor(t)
  <2> DEFINE m == reset_client_leader_thread(lf, t)
             l == [m EXCEPT !.deferred = 0]
  <2>1. m \in LFs /\ SameRest(lf, m) /\ 0 \in 0..MaxDeferred
    <3>1. 0 \in 0..MaxDeferred
      BY DEF MaxDeferred
    <3>2. QED BY <1>1, <3>1, ClientLeaderFacts
  <2>2. \/ lf' = elect_new_leader(l) /\ stack' = SetTop(t, [Top(t) EXCEPT !.at = "yielding"])
        \/ WaitLoop(t, Top(t), l)
    BY <1>9 DEF LeaveReactor
  <2> HIDE DEF m
  <2>3. /\ l \in LFs /\ l.event_loop_threads_waiting = m.event_loop_threads_waiting
        /\ l.follower_set = m.follower_set /\ l.woken = m.woken
    BY <2>1, DeferredFacts
  <2> HIDE DEF l
  <2>4. /\ l \in LFs /\ l.event_loop_threads_waiting = lf.event_loop_threads_waiting
        /\ l.follower_set = lf.follower_set /\ l.woken = lf.woken
    BY <2>1, <2>3 DEF SameRest
  <2>5. CASE WaitLoop(t, Top(t), l)
    BY <1>6, <2>4, <2>5
  <2>6. CASE /\ lf' = elect_new_leader(l)
             /\ stack' = SetTop(t, [Top(t) EXCEPT !.at = "yielding"])
    <3> DEFINE c == [Top(t) EXCEPT !.at = "yielding"]
    <3>1. c \in Calls /\ c.at = "yielding" /\ stack' = SetTop(t, c)
      BY <1>3, <2>6 DEF Calls, Waiting
    <3> HIDE DEF c
    <3>2. At(t)' = "yielding" /\ \A v \in Threads \ {t} : stack'[v] = stack[v]
      BY <1>1, <1>2, <3>1, TopMoves
    <3>3. Known(l, Followers, Entering)
      BY <1>4, <1>5, <2>4, KnownSame
    <3>4. Known(lf', Followers, Entering) /\ l.woken \subseteq lf'.woken
      BY <1>4, <2>4, <2>6, <3>3, KnownElect
    <3>5. Frame(t)
      BY <2>4, <3>2, <3>4 DEF Frame
    <3>6. Followers = (Followers \ {t}) \cup {} /\ Entering = (Entering \ {t}) \cup {}
      BY <1>4
    <3>7. Awake'
      BY <3>2, <3>4, <3>5, <3>6, AwakeStep
    <3>8. QED BY <3>5, <3>7
  <2>7. QED BY <2>2, <2>5, <2>6
<1>10. QED
  BY <1>7, <1>8, <1>9

\* A follower returns.
LEMMA LeaveFollowerAwake ==
  ASSUME NEW t \in Threads, InOrder(t), Awake, At(t) = "follower",
         NEW m \in LFs, Known(m, Followers, Entering), lf.woken \subseteq m.woken,
         lf' = LeaveFollower(m, t), stack' = Pop(t)
  PROVE  Awake' /\ Frame(t)
<1> DEFINE l == remove_follower([m EXCEPT !.woken = @ \ {t}], t)
<1>1. t \notin Entering /\ At(t) \notin {"application", "upcall"}
  BY DEF Entering
<1>2. l \in LFs /\ Known(l, Followers \ {t}, Entering) /\ l.woken = m.woken \ {t}
  BY <1>1, KnownRemove
<1>3. lf' = reset_client_thread(l, t)
  BY DEF LeaveFollower
<1> HIDE DEF l
<1>4. SameRest(l, lf')
  BY <1>2, <1>3, ClientThreadFacts
<1>5. Known(lf', Followers \ {t}, Entering) /\ lf'.woken = m.woken \ {t}
  BY <1>2, <1>4, KnownSame DEF SameRest
<1>6. At(t)' \in {"application", "upcall"} /\ \A v \in Threads \ {t} : stack'[v] = stack[v]
  BY <1>1, PopMoves
<1>7. Frame(t)
  BY <1>5, <1>6 DEF Frame
<1>8. Followers \ {t} = (Followers \ {t}) \cup {} /\ Entering = (Entering \ {t}) \cup {}
  BY <1>1
<1>9. Awake'
  BY <1>5, <1>6, <1>7, <1>8, AwakeStep
<1>10. QED
  BY <1>7, <1>9

LEMMA FollowerStepsAwake ==
  ASSUME NEW t \in Threads, InOrder(t), Awake,
         FollowerWakes(t) \/ FollowerTimesOut(t) \/ FollowerWaitFails(t)
  PROVE  Awake' /\ Frame(t)
<1>1. lf \in LFs /\ stack \in [Threads -> Seq(Calls)]
  BY DEF InOrder, Typed
<1>2. At(t) = "follower" /\ At(t) \in Waiting /\ At(t) # "application"
  BY DEF FollowerWakes, FollowerTimesOut, FollowerWaitFails, Waiting
<1>3. Top(t) \in Calls /\ t \notin Entering /\ Followers \cap Entering = {}
  BY <1>1, <1>2, Innermost DEF Followers, Entering
<1>4. Known(lf, Followers, Entering)
  BY DEF Awake
<1>5. /\ elect_new_leader(lf) \in LFs /\ Known(elect_new_leader(lf), Followers, Entering)
      /\ lf.woken \subseteq elect_new_leader(lf).woken
  BY <1>1, <1>3, <1>4, ElectFacts, KnownElect
<1>6. CASE FollowerTimesOut(t)
  BY <1>2, <1>5, <1>6, LeaveFollowerAwake DEF FollowerTimesOut
<1>7. CASE FollowerWaitFails(t)
  <2> DEFINE m == IF Top(t).timed /\ ~successful(Top(t)) THEN elect_new_leader(lf) ELSE lf
  <2>1. /\ m \in LFs /\ Known(m, Followers, Entering) /\ lf.woken \subseteq m.woken
        /\ lf' = LeaveFollower(m, t) /\ stack' = Pop(t)
    BY <1>1, <1>4, <1>5, <1>7 DEF FollowerWaitFails
  <2> HIDE DEF m
  <2>2. QED BY <1>2, <2>1, LeaveFollowerAwake
<1>8. CASE FollowerWakes(t)
  <2> DEFINE l == remove_follower([lf EXCEPT !.woken = @ \ {t}], t)
  <2>1. l \in LFs /\ Known(l, Followers \ {t}, Entering) /\ l.woken = lf.woken \ {t}
    BY <1>1, <1>3, <1>4, KnownRemove
  <2>2. \/ Follow(t, Top(t), l) /\ keep_waiting(Top(t))
        \/ Lead(t, Top(t), l)
        \/ lf' = LeaveFollower(lf, t) /\ stack' = Pop(t)
    BY <1>8 DEF FollowerWakes
  <2> HIDE DEF l
  <2>3. CASE lf' = LeaveFollower(lf, t) /\ stack' = Pop(t)
    BY <1>1, <1>2, <1>4, <2>3, LeaveFollowerAwake
  <2>4. CASE (Follow(t, Top(t), l) /\ keep_waiting(Top(t))) \/ Lead(t, Top(t), l)
    <3>1. \A v \in Threads \ {t} : v \in lf.woken => v \in l.woken
      BY <2>1
    <3>2. QED BY <1>2, <1>3, <2>1, <2>4, <3>1, WaitLoopAwake
  <2>5. QED BY <2>2, <2>3, <2>4
<1>9. QED
  BY <1>6, <1>7, <1>8

\* Steps that leave who sleeps and who is woken alone.
LEMMA QuietAwake ==
  ASSUME NEW t \in Threads, Awake, At(t) \notin {"follower", "entering"},
         At(t)' \notin {"follower", "entering"},
         \A v \in Threads \ {t} : stack'[v] = stack[v],
         lf'.event_loop_threads_waiting = lf.event_loop_threads_waiting,
         lf'.follower_set = lf.follower_set, lf'.woken = lf.woken
  PROVE  Awake' /\ Frame(t)
<1>1. Known(lf', Followers, Entering)
  BY KnownSame DEF Awake
<1>2. Frame(t)
  BY DEF Frame
<1>3. Followers = (Followers \ {t}) \cup {} /\ Entering = (Entering \ {t}) \cup {}
  BY DEF Followers, Entering
<1>4. Awake'
  BY <1>1, <1>2, <1>3, AwakeStep
<1>5. QED
  BY <1>2, <1>4

\* Steps that end with an election.
LEMMA ElectAwake ==
  ASSUME NEW t \in Threads, Awake, At(t) \notin {"follower", "entering"},
         At(t)' \notin {"follower", "entering"},
         \A v \in Threads \ {t} : stack'[v] = stack[v],
         NEW l \in LFs, lf' = elect_new_leader(l),
         l.event_loop_threads_waiting = lf.event_loop_threads_waiting,
         l.follower_set = lf.follower_set, l.woken = lf.woken
  PROVE  Awake' /\ Frame(t)
<1>1. Known(l, Followers, Entering) /\ Followers \cap Entering = {}
  BY KnownSame DEF Awake, Followers, Entering
<1>2. Known(lf', Followers, Entering) /\ l.woken \subseteq lf'.woken
  BY <1>1, KnownElect
<1>3. Frame(t)
  BY <1>2 DEF Frame
<1>4. Followers = (Followers \ {t}) \cup {} /\ Entering = (Entering \ {t}) \cup {}
  BY DEF Followers, Entering
<1>5. Awake'
  BY <1>2, <1>3, <1>4, AwakeStep
<1>6. QED
  BY <1>3, <1>5

LEMMA CallAwake ==
  ASSUME NEW t \in Threads, InOrder(t), Awake, NEW timed \in BOOLEAN,
         Invoke(t, timed) \/ Run(t, timed)
  PROVE  Awake' /\ Frame(t)
<1>1. stack \in [Threads -> Seq(Calls)]
  BY DEF InOrder, Typed
<1>2. PICK a \in {"sent", "loop"} : stack' = Push(t, Call(a, timed))
  BY DEF Invoke, Run
<1>3. At(t) \in {"application", "upcall"} /\ lf' = lf
  BY DEF Invoke, Run, MayCall, InApplication
<1>4. Call(a, timed) \in Calls /\ Call(a, timed).at = a
  BY DEF Call, Calls, Waiting, Looping, States, Results
<1>5. At(t)' = a /\ \A v \in Threads \ {t} : stack'[v] = stack[v]
  BY <1>1, <1>2, <1>4, PushMoves
<1>6. QED
  BY <1>3, <1>5, QuietAwake

\* A step within ORB::run to the place b.
LEMMA LoopMoves ==
  ASSUME stack \in [Threads -> Seq(Calls)], NEW t \in Threads, At(t) # "application",
         NEW b \in Looping, stack' = SetTop(t, [Top(t) EXCEPT !.at = b])
  PROVE  At(t)' = b /\ \A v \in Threads \ {t} : stack'[v] = stack[v]
<1> DEFINE c == [Top(t) EXCEPT !.at = b]
<1>1. Top(t) \in Calls
  BY Innermost
<1>2. c \in Calls /\ c.at = b /\ stack' = SetTop(t, c)
  BY <1>1 DEF Calls
<1> HIDE DEF c
<1>3. QED
  BY <1>2, TopMoves

LEMMA LoopStepsAwake ==
  ASSUME NEW t \in Threads, InOrder(t), Awake,
         \/ StartIteration(t) \/ FailIteration(t)
         \/ \E again \in BOOLEAN : EndIteration(t, again)
  PROVE  Awake' /\ Frame(t)
<1>1. stack \in [Threads -> Seq(Calls)] /\ lf \in LFs
  BY DEF InOrder, Typed
<1>2. /\ At(t) \in {"loop", "failed", "ended"}
      /\ At(t) \notin {"application", "upcall"}
      /\ At(t) \notin {"follower", "entering"}
  BY DEF StartIteration, FailIteration, EndIteration
<1>3. PICK b \in {"starting", "loop"} :
        stack' = Pop(t) \/ stack' = SetTop(t, [Top(t) EXCEPT !.at = b])
  BY DEF StartIteration, FailIteration, EndIteration
<1>4. /\ At(t)' \notin {"follower", "entering"}
      /\ \A v \in Threads \ {t} : stack'[v] = stack[v]
  <2>1. CASE stack' = Pop(t)
    BY <1>2, <2>1, PopMoves
  <2>2. CASE stack' = SetTop(t, [Top(t) EXCEPT !.at = b])
    <3>1. b \in Looping /\ At(t) # "application"
      BY <1>2 DEF Looping
    <3>2. At(t)' = b /\ \A v \in Threads \ {t} : stack'[v] = stack[v]
      BY <1>1, <2>2, <3>1, LoopMoves
    <3>3. QED BY <3>2
  <2>3. QED BY <1>3, <2>1, <2>2
<1>5. CASE StartIteration(t)
  <2>1. lf' = lf
    BY <1>5 DEF StartIteration
  <2>2. QED BY <1>2, <1>4, <2>1, QuietAwake
<1>6. CASE FailIteration(t)
  <2>1. lf' = elect_new_leader(lf)
    BY <1>6 DEF FailIteration
  <2>2. QED BY <1>1, <1>2, <1>4, <2>1, ElectAwake
<1>7. CASE \E again \in BOOLEAN : EndIteration(t, again)
  <2> DEFINE l == reset_event_loop_thread(lf, t)
  <2>1. lf' = elect_new_leader(l)
    BY <1>7 DEF EndIteration
  <2>2. l \in LFs /\ SameRest(lf, l)
    BY <1>1, EventLoopFacts
  <2> HIDE DEF l
  <2>3. QED BY <1>2, <1>4, <2>1, <2>2, ElectAwake DEF SameRest
<1>8. QED
  BY <1>5, <1>6, <1>7

LEMMA EnterStepsAwake ==
  ASSUME NEW t \in Threads, InOrder(t), Awake,
         EnterEventLoop(t) \/ EnteringWakes(t) \/ EnteringFails(t)
  PROVE  Awake' /\ Frame(t)
<1>1. stack \in [Threads -> Seq(Calls)] /\ lf \in LFs
  BY DEF InOrder, Typed
<1>2. At(t) \in {"starting", "entering"} /\ At(t) # "application"
  BY DEF EnterEventLoop, EnteringWakes, EnteringFails
<1>3. {"entering", "running", "failed"} \subseteq Looping
  BY DEF Looping
<1>4. /\ t \notin Followers /\ Followers = (Followers \ {t}) \cup {}
      /\ Followers \cap Entering = {}
      /\ Entering \cup {t} = (Entering \ {t}) \cup {t}
  BY <1>2 DEF Followers, Entering
<1>5. Known(lf, Followers, Entering)
  BY DEF Awake
<1> DEFINE W == lf.event_loop_threads_waiting
           K == lf.woken
<1>6. W \in SUBSET Threads /\ K \in SUBSET Threads /\ W = Entering
  BY <1>1, <1>5 DEF LFs, Known
\* t begins to wait
<1>7. CASE /\ lf' = [lf EXCEPT !.event_loop_threads_waiting = @ \cup {t}]
           /\ stack' = SetTop(t, [Top(t) EXCEPT !.at = "entering"])
  <2>1. At(t)' = "entering" /\ \A v \in Threads \ {t} : stack'[v] = stack[v]
    BY <1>1, <1>2, <1>3, <1>7, LoopMoves
  <2>2. lf' = Waiters(lf, W \cup {t}, K)
    BY <1>1, <1>7 DEF LFs, Waiters
  <2>3. W \cup {t} \in SUBSET Threads
    BY <1>6
  <2>4. /\ lf'.event_loop_threads_waiting = W \cup {t} /\ lf'.woken = K
        /\ lf'.follower_set = lf.follower_set
    <3> DEFINE X == W \cup {t}
    <3>1. X \in SUBSET Threads /\ lf' = Waiters(lf, X, K)
      BY <2>2, <2>3
    <3> HIDE DEF X, W, K
    <3>2. lf'.event_loop_threads_waiting = X /\ lf'.woken = K
          /\ lf'.follower_set = lf.follower_set
      BY <1>1, <1>6, <3>1, WaitingFacts
    <3>3. QED BY <3>2 DEF X
  <2>5. Known(lf', Followers, Entering \cup {t})
    BY <1>5, <1>6, <2>4 DEF Known
  <2>6. Frame(t)
    BY <2>1, <2>4 DEF Frame
  <2>7. Awake'
    BY <1>4, <2>1, <2>5, <2>6, AwakeStep
  <2>8. QED BY <2>6, <2>7
\* t is no longer woken, and waits or not
<1>8. ASSUME NEW X \in {W, W \ {t}}, NEW m, m = Waiters(lf, X, K \ {t}), t \in Entering
      PROVE  /\ m \in LFs /\ m.event_loop_threads_waiting = X /\ m.woken = K \ {t}
             /\ m.follower_set = lf.follower_set
             /\ Known(m, Followers, X)
  <2> DEFINE Y == K \ {t}
  <2>1. X \in SUBSET Threads /\ Y \in SUBSET Threads /\ m = Waiters(lf, X, Y)
    BY <1>6, <1>8
  <2>2. t \notin Followers /\ W = Entering
    BY <1>4, <1>6
  <2>3. K \subseteq Followers \cup Entering
        /\ Linked(lf.follower_set) = Followers \ K /\ Distinct(lf.follower_set)
    BY <1>5 DEF Known
  <2>4. Y \subseteq Followers \cup X /\ Followers \ Y = Followers \ K
    BY <1>8, <2>2, <2>3
  <2> HIDE DEF W, K, Y
  <2>5. /\ m \in LFs /\ m.event_loop_threads_waiting = X /\ m.woken = Y
        /\ m.follower_set = lf.follower_set
    BY <1>1, <2>1, WaitingFacts
  <2>6. Known(m, Followers, X)
    BY <2>3, <2>4, <2>5 DEF Known
  <2>7. QED BY <2>5, <2>6 DEF Y
<1>9. CASE EnteringWakes(t) /\ UNCHANGED stack /\ lf' = [lf EXCEPT !.woken = @ \ {t}]
  <2>1. At(t)' = "entering" /\ t \in Entering
    BY <1>9 DEF EnteringWakes, At, Entering
  <2>2. lf' = Waiters(lf, W, K \ {t})
    BY <1>1, <1>9 DEF LFs, Waiters
  <2>3. lf'.woken = K \ {t} /\ Known(lf', Followers, W)
    <3> DEFINE m == lf'
    <3>1. m = Waiters(lf, W, K \ {t}) /\ W \in {W, W \ {t}}
      BY <2>2
    <3> HIDE DEF m, W, K
    <3>2. m.woken = K \ {t} /\ Known(m, Followers, W)
      BY <1>8, <2>1, <3>1
    <3>3. QED BY <3>2 DEF m
  <2>4. Frame(t)
    BY <1>9, <2>3 DEF Frame
  <2>5. W = (Entering \ {t}) \cup {t}
    BY <1>6, <2>1
  <2> HIDE DEF W, K
  <2>6. Awake'
    BY <1>4, <2>1, <2>3, <2>4, <2>5, AwakeStep
  <2>7. QED BY <2>4, <2>6
<1>10. ASSUME NEW l, l = Waiters(lf, W \ {t}, K \ {t}), t \in Entering,
              lf'.event_loop_threads_waiting = l.event_loop_threads_waiting,
              lf'.follower_set = l.follower_set, lf'.woken = l.woken,
              NEW b \in {"running", "failed"}, stack' = SetTop(t, [Top(t) EXCEPT !.at = b])
       PROVE  Awake' /\ Frame(t)
  <2>1. At(t)' = b /\ \A v \in Threads \ {t} : stack'[v] = stack[v]
    BY <1>1, <1>2, <1>3, <1>10, LoopMoves
  <2>2. l.woken = K \ {t} /\ Known(l, Followers, W \ {t})
    <3> DEFINE X == W \ {t}
    <3>1. X \in {W, W \ {t}} /\ l = Waiters(lf, X, K \ {t})
      BY <1>10
    <3> HIDE DEF X
    <3>2. l.woken = K \ {t} /\ Known(l, Followers, X)
      BY <1>8, <1>10, <3>1
    <3>3. QED BY <3>2 DEF X
  <2>3. Known(lf', Followers, W \ {t})
    BY <1>10, <2>2, KnownSame
  <2>4. Frame(t)
    BY <1>10, <2>1, <2>2 DEF Frame
  <2>5. W \ {t} = (Entering \ {t}) \cup {}
    BY <1>6
  <2> HIDE DEF W, K
  <2>6. Awake'
    BY <1>4, <2>1, <2>3, <2>4, <2>5, AwakeStep
  <2>7. QED BY <2>4, <2>6
<1>11. CASE EnteringFails(t)
  <2>1. /\ At(t) = "entering" /\ lf' = Waiters(lf, W \ {t}, K \ {t})
        /\ stack' = SetTop(t, [Top(t) EXCEPT !.at = "failed"])
    BY <1>11 DEF EnteringFails, Waiters
  <2>2. t \in Entering
    BY <2>1 DEF Entering
  <2> HIDE DEF W, K
  <2>3. QED BY <1>10, <2>1, <2>2
<1>12. CASE /\ EnteringWakes(t)
            /\ lf' = set_event_loop_thread([[lf EXCEPT !.woken = @ \ {t}] EXCEPT
                                              !.event_loop_threads_waiting = @ \ {t}], t)
            /\ stack' = SetTop(t, [Top(t) EXCEPT !.at = "running"])
  <2> DEFINE l == [[lf EXCEPT !.woken = @ \ {t}] EXCEPT !.event_loop_threads_waiting = @ \ {t}]
  <2>1. l = Waiters(lf, W \ {t}, K \ {t})
    BY <1>1 DEF LFs, Waiters
  <2>2. t \in Entering
    BY <1>12 DEF EnteringWakes, Entering
  <2>3. lf' = set_event_loop_thread(l, t)
    BY <1>12
  <2>4. l \in LFs
    <3> DEFINE X == W \ {t}
    <3>1. X \in {W, W \ {t}} /\ l = Waiters(lf, X, K \ {t})
      BY <2>1
    <3> HIDE DEF X, l
    <3>2. QED BY <1>8, <2>2, <3>1
  <2> HIDE DEF l
  <2>5. SameRest(l, lf')
    BY <2>3, <2>4, EventLoopFacts
  <2> HIDE DEF W, K
  <2>6. QED BY <1>10, <1>12, <2>1, <2>2, <2>5 DEF SameRest
<1>13. CASE /\ EnterEventLoop(t) /\ lf' = set_event_loop_thread(lf, t)
            /\ stack' = SetTop(t, [Top(t) EXCEPT !.at = "running"])
  <2>1. At(t) = "starting" /\ SameRest(lf, lf')
    BY <1>1, <1>13, EventLoopFacts DEF EnterEventLoop
  <2>2. At(t)' = "running" /\ \A v \in Threads \ {t} : stack'[v] = stack[v]
    BY <1>1, <1>2, <1>3, <1>13, LoopMoves
  <2>3. QED BY <2>1, <2>2, QuietAwake DEF SameRest
<1>14. QED
  BY <1>7, <1>9, <1>11, <1>12, <1>13 DEF EnterEventLoop, EnteringWakes

LEMMA ReactorStepsAwake ==
  ASSUME NEW t \in Threads, InOrder(t), Awake,
         \/ \E result \in Results : HandleNothing(t, result)
         \/ DeferEvent(t) \/ Upcall(t) \/ UpcallReturns(t)
  PROVE  Awake' /\ Frame(t)
<1>1. stack \in [Threads -> Seq(Calls)] /\ lf \in LFs
  BY DEF InOrder, Typed
<1>2. /\ At(t) \in {"leading", "running", "upcall"} /\ At(t) # "application"
      /\ At(t) \notin {"follower", "entering"} /\ stack[t] # <<>>
  BY DEF HandleNothing, DeferEvent, Upcall, UpcallReturns, InReactor, At
<1>3. CASE \E result \in Results : HandleNothing(t, result)
  <2>1. PICK result \in Results : HandleNothing(t, result)
    BY <1>3
  <2>2. stack' = Returned(stack, lf, t, result) /\ lf' = lf
    BY <2>1 DEF HandleNothing
  <2>3. /\ At(t)' \in {"leading", "leaving", "ended"}
        /\ \A v \in Threads \ {t} : stack'[v] = stack[v]
    BY <1>1, <1>2, <2>2, ReturnedMoves
  <2>4. QED BY <1>2, <2>2, <2>3, QuietAwake
<1>4. CASE DeferEvent(t)
  <2> DEFINE d == lf.deferred + 1
  <2>1. /\ stack' = Returned(stack, lf, t, "events") /\ "events" \in Results
        /\ lf' = [lf EXCEPT !.deferred = d] /\ d \in 0..MaxDeferred
    BY <1>1, <1>4 DEF DeferEvent, Results, LFs, MaxDeferred
  <2>2. /\ At(t)' \in {"leading", "leaving", "ended"}
        /\ \A v \in Threads \ {t} : stack'[v] = stack[v]
    BY <1>1, <1>2, <2>1, ReturnedMoves
  <2> HIDE DEF d
  <2>3. /\ lf'.event_loop_threads_waiting = lf.event_loop_threads_waiting
        /\ lf'.follower_set = lf.follower_set /\ lf'.woken = lf.woken
    BY <1>1, <2>1, DeferredFacts
  <2>4. QED BY <1>2, <2>2, <2>3, QuietAwake
<1>5. CASE Upcall(t)
  <2> DEFINE c == Call("upcall", FALSE)
             l == Abdicates(lf, t)
  <2>1. c \in Calls /\ c.at = "upcall" /\ stack' = Push(t, c)
    BY <1>5 DEF Upcall, Call, Calls, States, Results
  <2> HIDE DEF c
  <2>2. At(t)' = "upcall" /\ \A v \in Threads \ {t} : stack'[v] = stack[v]
    BY <1>1, <2>1, PushMoves
  <2>3. lf' = lf \/ lf' = elect_new_leader(l)
    BY <1>5, UpcallThread DEF Upcall
  <2>4. l \in LFs /\ SameRest(lf, l)
    <3> DEFINE S == Shape(stack[t])
    <3>1. stack[t] \in Seq(Calls) /\ Head(stack[t]).at \in {"leading", "running"}
      BY <1>1, <1>2, <1>5 DEF Upcall, InReactor, At
    <3>2. S \in Seq(Ats) /\ S # <<>> /\ Head(S) \in {"leading", "running"} /\ Orderly(lf, S, t)
      BY <1>2, <3>1, ShapeType, ShapeFacts DEF InOrder
    <3> HIDE DEF S
    <3>3. QED BY <1>1, <3>2, AbdicateBooks
  <2> HIDE DEF l
  <2>5. CASE lf' = lf
    BY <1>2, <2>2, <2>5, QuietAwake
  <2>6. CASE lf' = elect_new_leader(l)
    BY <1>2, <2>2, <2>4, <2>6, ElectAwake DEF SameRest
  <2>7. QED BY <2>3, <2>5, <2>6
<1>6. CASE UpcallReturns(t)
  <2> DEFINE st == Pop(t)
             A == Tail(Shape(stack[t]))
  <2>1. /\ At(t) = "upcall" /\ stack' = Returned(st, lf, t, "events") /\ lf' = lf
        /\ "events" \in Results
    BY <1>6 DEF UpcallReturns, Results
  <2>2. /\ stack[t] \in Seq(Calls) /\ A \in Seq(Ats) /\ Shape(stack[t]) = <<"upcall">> \o A
    BY <1>1, <1>2, <2>1, Innermost
  <2>3. A # <<>>
    <3>1. Nest(<<"upcall">> \o A) /\ "upcall" \in Ats
      BY <2>2 DEF InOrder, Orderly, Ats
    <3>2. QED BY <2>2, <3>1, NestCons
  <2>4. Tail(stack[t]) \in Seq(Calls) /\ Shape(Tail(stack[t])) = A
    BY <1>2, <2>2, ConsHeadTail, ShapeFacts
  <2>5. /\ st \in [Threads -> Seq(Calls)] /\ st[t] = Tail(stack[t])
        /\ \A u \in Threads \ {t} : st[u] = stack[u]
    BY <1>1, <2>4 DEF Pop
  <2>6. st[t] # <<>>
    BY <2>3, <2>4, <2>5, ShapeType
  <2> HIDE DEF st
  <2>7. /\ At(t)' \in {"leading", "leaving", "ended"}
        /\ \A v \in Threads \ {t} : stack'[v] = st[v]
    BY <2>1, <2>5, <2>6, ReturnedMoves
  <2>8. QED BY <1>2, <2>1, <2>5, <2>7, QuietAwake
<1>7. QED
  BY <1>3, <1>4, <1>5, <1>6

\* An event completes, and the follower bound to it is woken.
LEMMA CompletionAwake ==
  ASSUME stack \in [Threads -> Seq(Calls)], lf \in LFs, Awake,
         NEW u \in Threads, NEW i \in 1..Len(stack[u]), NEW new \in Completions,
         lf' = Notified(u, i), NEW t \in Threads, At(t) \notin {"follower", "entering"},
         At(t)' \notin {"follower", "entering"},
         \A v \in Threads \ {t} : stack'[v] = Changed(u, i, new)[v]
  PROVE  Awake'
<1> DEFINE st == Changed(u, i, new)
<1>1. /\ st \in [Threads -> Seq(Calls)]
      /\ \A v \in Threads : Shape(st[v]) = Shape(stack[v]) /\ Len(st[v]) = Len(stack[v])
      /\ \A v \in Threads \ {u} : st[v] = stack[v]
      /\ i # 1 => Head(st[u]) = Head(stack[u])
      /\ stack[u] # <<>> /\ st[u] # <<>>
  BY ChangedFacts
<1> HIDE DEF st
<1>2. \A v \in Threads \ {t} : At(v)' = At(v)
  <2>1. ASSUME NEW v \in Threads \ {t} PROVE At(v)' = At(v)
    <3>1. At(v) = At0(stack[v]) /\ At(v)' = At0(stack'[v]) /\ stack'[v] = st[v]
      BY DEF At, At0, st
    <3>2. stack[v] \in Seq(Calls) /\ st[v] \in Seq(Calls)
      BY <1>1
    <3>3. QED BY <1>1, <3>1, <3>2, AtShape
  <2>2. QED BY <2>1
<1>3. Followers' = Followers /\ Entering' = Entering
  BY <1>2 DEF Followers, Entering
<1>4. Known(lf, Followers, Entering)
  BY DEF Awake
<1>5. /\ Known(lf', Followers, Entering) /\ lf.woken \subseteq lf'.woken
      /\ Bound(u, i) => u \in lf'.woken
  <2>1. CASE Bound(u, i)
    <3>1. u \in Followers
      BY <2>1 DEF Bound, Followers
    <3>2. lf' = signal(lf, u)
      BY <2>1 DEF Notified
    <3>3. Known(lf', Followers, Entering)
      BY <1>4, <3>1, <3>2, KnownSignal
    <3>4. lf'.woken = lf.woken \cup {u}
      <4>1. /\ signal(lf, u) \in LFs /\ SameBooks(lf, signal(lf, u))
            /\ signal(lf, u).follower_set = Unlink(lf.follower_set, u)
            /\ signal(lf, u).woken = lf.woken \cup {u}
        BY SignalFacts
      <4>2. QED BY <3>2, <4>1
    <3>5. QED BY <3>3, <3>4
  <2>2. CASE ~Bound(u, i)
    BY <1>4, <2>2 DEF Notified
  <2>3. QED BY <2>1, <2>2
<1>6. CompletionWakes'
  <2>1. SUFFICES ASSUME NEW v \in Threads, At(v)' = "follower", ~keep_waiting(Top(v)')
                 PROVE  v \in lf'.woken
    BY DEF CompletionWakes, keep_waiting, successful, error_detected
  <2>2. v # t /\ At(v) = "follower"
    BY <1>2, <2>1
  <2>3. CASE v = u /\ i = 1
    BY <1>5, <2>2, <2>3 DEF Bound
  <2>4. CASE ~(v = u /\ i = 1)
    <3>1. Head(st[v]) = Head(stack[v])
      BY <1>1, <2>4
    <3>2. Top(v)' = Top(v)
      BY <2>2, <3>1 DEF Top, st
    <3>3. v \in lf.woken
      BY <2>1, <2>2, <3>2 DEF Awake, CompletionWakes
    <3>4. QED BY <1>5, <3>3
  <2>5. QED BY <2>3, <2>4
<1>7. QED
  BY <1>3, <1>5, <1>6 DEF Awake

LEMMA DispatchMoves ==
  ASSUME NEW t \in Threads, stack \in [Threads -> Seq(Calls)], NEW u \in Threads, NEW i,
         NEW new \in Completions, Dispatch(t, u, i, new)
  PROVE  /\ At(t) \in {"leading", "running"}
         /\ At(t)' \in {"leading", "leaving", "ended"}
         /\ At(t) = "running" => At(t)' = "ended"
         /\ At(t) = "leading" =>
              \/ At(t)' = "leaving"
              \/ At(t)' = "leading" /\ lf'.client_leader_thread[t] > 0
         /\ i \in 1..Len(stack[u]) /\ lf' = Notified(u, i)
         /\ \A v \in Threads \ {t} : stack'[v] = Changed(u, i, new)[v]
<1> DEFINE st == Changed(u, i, new)
           l == lf'
<1>1. /\ At(t) \in {"leading", "running"} /\ i \in 1..Len(stack[u]) /\ lf' = Notified(u, i)
      /\ stack' = Returned(st, l, t, "events") /\ "events" \in Results
  BY DEF Dispatch, InReactor, Pending, Results
<1>2. /\ st \in [Threads -> Seq(Calls)]
      /\ \A v \in Threads : Shape(st[v]) = Shape(stack[v])
  BY <1>1, ChangedFacts
<1> HIDE DEF st, l
<1>3. st[t] # <<>> /\ Head(st[t]).at = At(t)
  <2>1. stack[t] # <<>> /\ stack[t] \in Seq(Calls) /\ st[t] \in Seq(Calls)
        /\ Head(stack[t]).at = At(t)
    BY <1>1, <1>2 DEF At
  <2>2. Shape(st[t]) = Shape(stack[t])
    BY <1>2
  <2>3. st[t] # <<>>
    BY <2>1, <2>2, ShapeType
  <2>4. QED BY <2>1, <2>2, <2>3, ShapeFacts
<1>4. /\ At(t)' \in {"leading", "leaving", "ended"}
      /\ At(t) = "running" => At(t)' = "ended"
      /\ At(t) # "running" =>
           \/ At(t)' = "leaving"
           \/ At(t)' = "leading" /\ l.client_leader_thread[t] > 0
      /\ \A v \in Threads \ {t} : stack'[v] = st[v]
  BY <1>1, <1>2, <1>3, ReturnedMoves, ZenonT(40)
<1>5. QED
  BY <1>1, <1>4 DEF st, l

LEMMA AwakeSteps ==
  ASSUME NEW t \in Threads, InOrder(t), Awake, Step(t)
  PROVE  /\ Awake'
         /\ \/ Frame(t)
            \/ \E u \in Threads, i \in Depths, new \in Completions :
                 Dispatch(t, u, i, new) \/ ChangeOutside(t, u, i, new)
<1>1. ASSUME NEW timed \in TimedCalls, Invoke(t, timed) \/ Run(t, timed)
      PROVE  Awake' /\ Frame(t)
  <2>1. timed \in BOOLEAN
    BY LFAssumption
  <2>2. QED BY <1>1, <2>1, CallAwake
<1>2. ASSUME NEW u \in Threads, NEW i \in Depths, NEW new \in Completions,
             Dispatch(t, u, i, new)
      PROVE  Awake'
  <2>1. stack \in [Threads -> Seq(Calls)] /\ lf \in LFs
    BY DEF InOrder, Typed
  <2>2. /\ At(t) \notin {"follower", "entering"} /\ At(t)' \notin {"follower", "entering"}
        /\ i \in 1..Len(stack[u]) /\ lf' = Notified(u, i)
        /\ \A v \in Threads \ {t} : stack'[v] = Changed(u, i, new)[v]
    BY <1>2, <2>1, DispatchMoves, SMTT(30)
  <2>3. QED BY <2>1, <2>2, CompletionAwake
<1>3. ASSUME NEW u \in Threads, NEW i \in Depths, NEW new \in Completions,
             ChangeOutside(t, u, i, new)
      PROVE  Awake'
  <2>1. stack \in [Threads -> Seq(Calls)] /\ lf \in LFs
    BY DEF InOrder, Typed
  <2>2. /\ At(t) \in {"application", "upcall"} /\ i \in 1..Len(stack[u])
        /\ lf' = Notified(u, i) /\ stack' = Changed(u, i, new)
    BY <1>3 DEF ChangeOutside, InApplication, Pending
  <2>3. At(t)' = At(t)
    <3>1. /\ stack' \in [Threads -> Seq(Calls)] /\ Shape(stack'[t]) = Shape(stack[t])
      BY <2>1, <2>2, ChangedFacts
    <3>2. stack[t] \in Seq(Calls) /\ stack'[t] \in Seq(Calls)
      BY <2>1, <3>1
    <3>3. At(t) = At0(stack[t]) /\ At(t)' = At0(stack'[t])
      BY DEF At, At0
    <3>4. QED BY <3>1, <3>2, <3>3, AtShape
  <2>4. /\ At(t) \notin {"follower", "entering"} /\ At(t)' \notin {"follower", "entering"}
        /\ \A v \in Threads \ {t} : stack'[v] = Changed(u, i, new)[v]
    BY <2>2, <2>3
  <2>5. QED BY <2>1, <2>2, <2>4, CompletionAwake
<1>4. CASE WaitForEvent(t) \/ LeaveReactor(t) \/ Yielded(t)
  BY <1>4, WaitStepsAwake
<1>5. CASE FollowerWakes(t) \/ FollowerTimesOut(t) \/ FollowerWaitFails(t)
  BY <1>5, FollowerStepsAwake
<1>6. CASE \/ StartIteration(t) \/ FailIteration(t)
           \/ \E again \in BOOLEAN : EndIteration(t, again)
  BY <1>6, LoopStepsAwake
<1>7. CASE EnterEventLoop(t) \/ EnteringWakes(t) \/ EnteringFails(t)
  BY <1>7, EnterStepsAwake
<1>8. CASE \/ \E result \in Results : HandleNothing(t, result)
           \/ DeferEvent(t) \/ Upcall(t) \/ UpcallReturns(t)
  BY <1>8, ReactorStepsAwake
<1>9. QED
  BY <1>1, <1>2, <1>3, <1>4, <1>5, <1>6, <1>7, <1>8 DEF Step

LEMMA AwakeInit == Init => Awake
<1> SUFFICES ASSUME Init PROVE Awake
  OBVIOUS
<1>1. \A t \in Threads : At(t) = "application"
  BY DEF Init, At
<1>2. Followers = {} /\ Entering = {} /\ CompletionWakes
  BY <1>1 DEF Followers, Entering, CompletionWakes
<1>3. /\ lf.event_loop_threads_waiting = {} /\ lf.woken = {} /\ lf.follower_set = <<>>
  BY DEF Init
<1>4. Distinct(<<>>) /\ Linked(<<>>) = {}
  BY DEF Distinct, Linked
<1>5. QED
  BY <1>2, <1>3, <1>4 DEF Awake, Known

LEMMA AwakeNext ==
  ASSUME Balanced, Awake, [Next]_vars
  PROVE  Awake'
<1>1. ASSUME NEW t \in Threads, Step(t) PROVE Awake'
  <2>1. InOrder(t)
    BY DEF Balanced, InOrder, Typed
  <2>2. QED BY <1>1, <2>1, AwakeSteps
<1>2. CASE Shutdown \/ ShutdownReactor \/ UNCHANGED vars
  <2>1. lf \in LFs
    BY DEF Balanced, Typed
  <2>2. /\ stack' = stack
        /\ lf'.event_loop_threads_waiting = lf.event_loop_threads_waiting
        /\ lf'.follower_set = lf.follower_set /\ lf'.woken = lf.woken
    <3>1. CASE Shutdown \/ ShutdownReactor
      BY <2>1, <3>1, ShutdownFacts
    <3>2. CASE UNCHANGED vars
      BY <3>2 DEF vars
    <3>3. QED BY <1>2, <3>1, <3>2
  <2>3. \A t \in Threads : At(t)' = At(t) /\ Top(t)' = Top(t)
    BY <2>2 DEF At, Top
  <2>4. Followers' = Followers /\ Entering' = Entering
    BY <2>3 DEF Followers, Entering
  <2>5. CompletionWakes'
    BY <2>2, <2>3 DEF Awake, CompletionWakes, keep_waiting, successful, error_detected
  <2>6. Known(lf', Followers, Entering)
    BY <2>2, KnownSame DEF Awake
  <2>7. QED BY <2>4, <2>5, <2>6 DEF Awake
<1>3. QED
  BY <1>1, <1>2 DEF Next

(***************************************************************************)
(* The inductive invariant of the wakeups holds: follower_set_, the list   *)
(* of waiting event loop threads and the pending signals agree with where  *)
(* the threads really are.                                                 *)
(***************************************************************************)
THEOREM AwakeInvariant == Spec => [](Balanced /\ Awake)
<1>1. Init => Balanced /\ Awake
  BY BalancedInit, AwakeInit
<1>2. Balanced /\ Awake /\ [Next]_vars => Balanced' /\ Awake'
  BY BalancedNext, AwakeNext
<1>3. QED
  BY <1>1, <1>2, PTL DEF Spec

(***************************************************************************)
(* follower_set_ holds exactly the followers that nobody has signaled and  *)
(* each of them once, although the signaler, the follower's own removal    *)
(* after an election and the destructors all unlink.                       *)
(***************************************************************************)
THEOREM FollowersAlwaysLinked == Spec => []FollowersLinked
<1>1. Balanced /\ Awake => FollowersLinked
  <2> SUFFICES ASSUME Balanced, Awake PROVE FollowersLinked
    OBVIOUS
  <2> DEFINE q == lf.follower_set
  <2>1. Distinct(q) /\ Linked(q) = Followers \ lf.woken
    BY DEF Awake, Known
  <2>2. \A t \in Threads : (\E i \in 1..Len(q) : q[i] = t)
                             <=> At(t) = "follower" /\ t \notin lf.woken
    BY <2>1 DEF Linked, Followers
  <2>3. QED BY <2>1, <2>2 DEF FollowersLinked, Distinct
<1>2. QED
  BY <1>1, AwakeInvariant, PTL

(***************************************************************************)
(* No completion is lost: the thread that changes the state of an event    *)
(* signals the follower bound to it, and nothing undoes that wakeup while  *)
(* the follower sleeps.                                                    *)
(***************************************************************************)
THEOREM CompletionsAlwaysWake == Spec => []CompletionWakes
<1>1. Balanced /\ Awake => CompletionWakes
  BY DEF Awake
<1>2. QED
  BY <1>1, AwakeInvariant, PTL
=============================================================================
