-------------------------------- MODULE Token --------------------------------
(***************************************************************************)
(* ACE_Token (ACE/ace/Token.h, Token.inl, Token.cpp): a recursive lock     *)
(* whose blocked threads queue up, writers before readers, and which hands *)
(* ownership over directly: the thread that gives the token up names the   *)
(* next owner_ and signals it.  ACE_Select_Reactor and ACE_TP_Reactor      *)
(* serialise their threads with it.                                        *)
(*                                                                         *)
(* Every method runs under lock_, so one action is one critical section:   *)
(* from taking lock_ to releasing it, at the return or inside a wait ().   *)
(* The branches that return at once and change nothing (a failed poll,     *)
(* lines 215-219; a renew nobody waits for, 368-372) are stuttering steps. *)
(***************************************************************************)
EXTENDS Integers, Sequences, FiniteSets

CONSTANTS
  Threads,         \* threads that use the token
  NULL_thread,     \* ACE_OS::NULL_thread, no thread
  Strategies,      \* values queueing_strategy () may be given
  Positions,       \* requeue_position arguments renew () is called with
  MaxNesting,      \* bound on nested acquires of one thread
  UsesSemaphore,   \* ACE_TOKEN_USES_SEMAPHORE: an entry sleeps on a semaphore
  SpuriousWakeups, \* a wait may end without a signal (also with EINTR)
  WaitErrors       \* a wait may fail with an error other than ETIME

FIFO == -1
LIFO == 0

READ_TOKEN  == 1
WRITE_TOKEN == 2
OpTypes == {READ_TOKEN, WRITE_TOKEN}

ASSUME TokenAssumption ==
  /\ NULL_thread \notin Threads
  /\ Strategies \subseteq {FIFO, LIFO}
  /\ Positions \subseteq Int
  /\ MaxNesting \in Nat
  /\ {UsesSemaphore, SpuriousWakeups, WaitErrors} \subseteq BOOLEAN

VARIABLES
  owner,             \* owner_
  in_use,            \* in_use_: 0, READ_TOKEN or WRITE_TOKEN
  waiters,           \* waiters_
  nesting_level,     \* nesting_level_
  queueing_strategy, \* queueing_strategy_
  writers, readers,  \* writers_ and readers_: the threads whose entries are linked
  frame,             \* frame[t]: stack frame of the call in which t is blocked
  runable,           \* runable[t]: runable_ of the my_entry in that frame
  signaled,          \* signaled[t]: a signal has reached the cv_ of that my_entry
  held               \* held[t]: acquires of t that its caller has not yet released

vars == <<owner, in_use, waiters, nesting_level, queueing_strategy,
          writers, readers, frame, runable, signaled, held>>

(***************************************************************************)
(* A blocked call: which method, its op_type (hence its queue), whether it *)
(* has a timeout, save_nesting_level_ and requeue_position.                *)
(***************************************************************************)
Frames == [call: {"none", "acquire", "renew"}, op: OpTypes, timed: BOOLEAN,
           saved: Nat, position: Int]

Frame(call, op, timed, saved, position) ==
  [call |-> call, op |-> op, timed |-> timed, saved |-> saved, position |-> position]

NoCall == Frame("none", WRITE_TOKEN, FALSE, 0, -1)

Blocked(t) == frame[t].call # "none"

\* The caller has the token: its last acquire or renew returned successfully.
Holds(t) == held[t] > 0 /\ ~Blocked(t)

-----------------------------------------------------------------------------
(* ACE_Token_Queue *)

\* Mutant: an entry meant for the tail is linked in front of the last one.
Skipped_BeforeTail(q, position) ==
  CASE position = -1 -> IF q = <<>> THEN 0 ELSE Len(q) - 1
    [] position = 0  -> 0
    [] OTHER         -> IF 0 <= position /\ position < Len(q)
                        THEN position + 1 ELSE Len(q)

\* How many entries stay in front of one inserted at requeue_position.
Skipped(q, position) ==
  CASE position = -1 -> Len(q)
    [] position = 0  -> 0
    [] OTHER         -> IF 0 <= position /\ position < Len(q)
                        THEN position + 1 ELSE Len(q)

insert_entry(q, t, position) ==
  LET k == Skipped(q, position)
  IN  [i \in 1..(Len(q) + 1) |->
         IF i <= k THEN q[i] ELSE IF i = k + 1 THEN t ELSE q[i - 1]]

remove_entry(q, t) ==
  IF \E i \in 1..Len(q) : q[i] = t
  THEN LET k == CHOOSE i \in 1..Len(q) : q[i] = t
       IN  [i \in 1..(Len(q) - 1) |-> IF i < k THEN q[i] ELSE q[i + 1]]
  ELSE q

Insert(t, op, position) ==
  /\ writers' = IF op = WRITE_TOKEN THEN insert_entry(writers, t, position) ELSE writers
  /\ readers' = IF op = READ_TOKEN THEN insert_entry(readers, t, position) ELSE readers
  /\ waiters' = waiters + 1

\* Mutant: the stack entry stays linked when its call returns.
Remove_Linked(t) ==
  /\ UNCHANGED <<writers, readers>>
  /\ waiters' = waiters - 1

Remove(t) ==
  /\ writers' = IF frame[t].op = WRITE_TOKEN THEN remove_entry(writers, t) ELSE writers
  /\ readers' = IF frame[t].op = READ_TOKEN THEN remove_entry(readers, t) ELSE readers
  /\ waiters' = waiters - 1

\* Mutant: the new owner is not marked runable_.
wakeup_next_waiter_NotRunable(run, sig) ==
  \/ /\ writers' = <<>> /\ readers' = <<>>
     /\ owner' = NULL_thread
     /\ in_use' = 0
     /\ runable' = run
     /\ signaled' = sig
  \/ /\ ~(writers' = <<>> /\ readers' = <<>>)
     /\ LET next == IF writers' # <<>> THEN Head(writers') ELSE Head(readers')
        IN  /\ in_use' = IF writers' # <<>> THEN WRITE_TOKEN ELSE READ_TOKEN
            /\ owner' = next
            /\ runable' = run
            /\ signaled' = [sig EXCEPT ![next] = TRUE]

\* Mutant: the new owner is not signaled.
wakeup_next_waiter_NoSignal(run, sig) ==
  \/ /\ writers' = <<>> /\ readers' = <<>>
     /\ owner' = NULL_thread
     /\ in_use' = 0
     /\ runable' = run
     /\ signaled' = sig
  \/ /\ ~(writers' = <<>> /\ readers' = <<>>)
     /\ LET next == IF writers' # <<>> THEN Head(writers') ELSE Head(readers')
        IN  /\ in_use' = IF writers' # <<>> THEN WRITE_TOKEN ELSE READ_TOKEN
            /\ owner' = next
            /\ runable' = [run EXCEPT ![next] = TRUE]
            /\ signaled' = sig

\* Mutant: the tail of the queue is served instead of its head.
wakeup_next_waiter_Tail(run, sig) ==
  \/ /\ writers' = <<>> /\ readers' = <<>>
     /\ owner' = NULL_thread
     /\ in_use' = 0
     /\ runable' = run
     /\ signaled' = sig
  \/ /\ ~(writers' = <<>> /\ readers' = <<>>)
     /\ LET q    == IF writers' # <<>> THEN writers' ELSE readers'
            next == q[Len(q)]
        IN  /\ in_use' = IF writers' # <<>> THEN WRITE_TOKEN ELSE READ_TOKEN
            /\ owner' = next
            /\ runable' = [run EXCEPT ![next] = TRUE]
            /\ signaled' = [sig EXCEPT ![next] = UsesSemaphore \/ Blocked(next)]

(***************************************************************************)
(* wakeup_next_waiter on the queues as the calling method has left them    *)
(* (writers', readers'); run and sig are the entries it has left.  A       *)
(* semaphore remembers the signal; a condition variable passes it on only  *)
(* to a thread that is already asleep, which the caller of renew is not.   *)
(***************************************************************************)
wakeup_next_waiter(run, sig) ==
  \/ /\ writers' = <<>> /\ readers' = <<>>
     /\ owner' = NULL_thread
     /\ in_use' = 0
     /\ runable' = run
     /\ signaled' = sig
  \/ /\ ~(writers' = <<>> /\ readers' = <<>>)
     /\ LET next == IF writers' # <<>> THEN Head(writers') ELSE Head(readers')
        IN  /\ in_use' = IF writers' # <<>> THEN WRITE_TOKEN ELSE READ_TOKEN
            /\ owner' = next
            /\ runable' = [run EXCEPT ![next] = TRUE]
            /\ signaled' = [sig EXCEPT ![next] = UsesSemaphore \/ Blocked(next)]

-----------------------------------------------------------------------------
(* shared_acquire *)

\* Nobody holds the token.
AcquireFree(t, op) ==
  /\ ~Blocked(t)
  /\ in_use = 0
  /\ in_use' = op
  /\ owner' = t
  /\ held' = [held EXCEPT ![t] = @ + 1]
  /\ UNCHANGED <<waiters, nesting_level, queueing_strategy, writers, readers,
                 frame, runable, signaled>>

\* The caller holds it already.
AcquireNested(t) ==
  /\ ~Blocked(t)
  /\ in_use # 0
  /\ owner = t
  /\ nesting_level < MaxNesting
  /\ nesting_level' = nesting_level + 1
  /\ held' = [held EXCEPT ![t] = @ + 1]
  /\ UNCHANGED <<owner, in_use, waiters, queueing_strategy, writers, readers,
                 frame, runable, signaled>>

\* Somebody else does: queue up and sleep.
AcquireBlock(t, op, timed) ==
  /\ ~Blocked(t)
  /\ in_use # 0
  /\ owner # t
  /\ Insert(t, op, queueing_strategy)
  /\ frame' = [frame EXCEPT ![t] = Frame("acquire", op, timed, 0, -1)]
  /\ UNCHANGED <<owner, in_use, nesting_level, queueing_strategy, runable, signaled, held>>

-----------------------------------------------------------------------------
(* renew, called by the holder, when somebody waits whom it yields to *)

RenewBlock(t, position, timed) ==
  /\ Holds(t)
  /\ writers # <<>> \/ (in_use # WRITE_TOKEN /\ readers # <<>>)
  /\ LET op == IF in_use = READ_TOKEN THEN READ_TOKEN ELSE WRITE_TOKEN
     IN  /\ Insert(t, op, IF position = 0 THEN 0 ELSE queueing_strategy)
         /\ wakeup_next_waiter(runable, signaled)
         /\ frame' = [frame EXCEPT ![t] =
                        Frame("renew", op, timed, nesting_level, position)]
  /\ nesting_level' = 0
  /\ UNCHANGED <<queueing_strategy, held>>

-----------------------------------------------------------------------------
(* The end of my_entry.wait () in either method *)

\* The call returns and its frame, my_entry included, is gone.
Return(t) ==
  /\ Remove(t)
  /\ frame' = [frame EXCEPT ![t] = NoCall]
  /\ UNCHANGED queueing_strategy

Unset(f, t) == [f EXCEPT ![t] = FALSE]

\* Mutant: any return of wait () is taken for ownership.
Succeed_AnyWakeup(t) ==
  /\ Return(t)
  /\ runable' = Unset(runable, t)
  /\ signaled' = Unset(signaled, t)
  /\ IF frame[t].call = "acquire"
     THEN /\ held' = [held EXCEPT ![t] = @ + 1] /\ UNCHANGED nesting_level
     ELSE /\ nesting_level' = frame[t].saved /\ UNCHANGED held
  /\ UNCHANGED <<owner, in_use>>

\* Mutant: renew does not reinstate the nesting level.
Succeed_LoseNesting(t) ==
  /\ owner = t
  /\ Return(t)
  /\ runable' = Unset(runable, t)
  /\ signaled' = Unset(signaled, t)
  /\ held' = IF frame[t].call = "acquire" THEN [held EXCEPT ![t] = @ + 1] ELSE held
  /\ UNCHANGED <<owner, in_use, nesting_level>>

\* wait () returned 0 (or EINTR) and the thread is the owner: the call returns.
Succeed(t) ==
  /\ owner = t
  /\ Return(t)
  /\ runable' = Unset(runable, t)
  /\ signaled' = Unset(signaled, t)
  /\ \/ /\ frame[t].call = "acquire"
        /\ held' = [held EXCEPT ![t] = @ + 1]
        /\ UNCHANGED nesting_level
     \/ /\ frame[t].call = "renew"
        /\ nesting_level' = frame[t].saved
        /\ UNCHANGED held
  /\ UNCHANGED <<owner, in_use>>

\* It is not the owner: back to sleep.
SleepAgain(t) ==
  /\ owner # t
  /\ signaled' = Unset(signaled, t)
  /\ UNCHANGED <<owner, in_use, waiters, nesting_level, queueing_strategy,
                 writers, readers, frame, runable, held>>

WakeSignaled(t) ==
  /\ Blocked(t) /\ signaled[t]
  /\ Succeed(t) \/ SleepAgain(t)

\* SleepAgain would leave everything as it is.
WakeSpurious(t) ==
  /\ SpuriousWakeups
  /\ Blocked(t) /\ ~signaled[t]
  /\ Succeed(t)

\* The call fails.  A failed renew leaves its caller without the token.
Fail(t) ==
  /\ Return(t)
  /\ held' = [held EXCEPT ![t] = 0]
  /\ UNCHANGED nesting_level

LeaveOwner(t) ==
  /\ runable' = Unset(runable, t)
  /\ signaled' = Unset(signaled, t)
  /\ UNCHANGED <<owner, in_use>>

\* Mutant: a thread that times out keeps the token it was just given.
TimedOut_KeepToken(t) ==
  /\ Blocked(t) /\ frame[t].timed
  /\ Fail(t)
  /\ LeaveOwner(t)

\* wait () timed out, possibly after the thread was chosen as the owner.
TimedOut(t) ==
  /\ Blocked(t) /\ frame[t].timed
  /\ Fail(t)
  /\ \/ /\ runable[t]
        /\ wakeup_next_waiter(Unset(runable, t), Unset(signaled, t))
     \/ /\ ~runable[t]
        /\ LeaveOwner(t)

\* wait () failed otherwise: nobody is woken, even if this thread was chosen.
WaitFailed(t) ==
  /\ WaitErrors
  /\ Blocked(t)
  /\ Fail(t)
  /\ LeaveOwner(t)

-----------------------------------------------------------------------------
(* release, by a caller that has the token *)

\* Mutant: every release is taken for a nested one.
ReleaseNested_Always(t) ==
  /\ Holds(t)
  /\ nesting_level' = nesting_level - 1
  /\ held' = [held EXCEPT ![t] = @ - 1]
  /\ UNCHANGED <<owner, in_use, waiters, queueing_strategy, writers, readers,
                 frame, runable, signaled>>

ReleaseNested(t) ==
  /\ Holds(t)
  /\ nesting_level > 0
  /\ nesting_level' = nesting_level - 1
  /\ held' = [held EXCEPT ![t] = @ - 1]
  /\ UNCHANGED <<owner, in_use, waiters, queueing_strategy, writers, readers,
                 frame, runable, signaled>>

ReleaseLast(t) ==
  /\ Holds(t)
  /\ nesting_level = 0
  /\ UNCHANGED <<writers, readers, waiters>>
  /\ wakeup_next_waiter(runable, signaled)
  /\ held' = [held EXCEPT ![t] = @ - 1]
  /\ UNCHANGED <<nesting_level, queueing_strategy, frame>>

SetQueueingStrategy(s) ==
  /\ s # queueing_strategy
  /\ queueing_strategy' = IF s = -1 THEN -1 ELSE 0
  /\ UNCHANGED <<owner, in_use, waiters, nesting_level, writers, readers,
                 frame, runable, signaled, held>>

-----------------------------------------------------------------------------
Init ==
  /\ owner = NULL_thread
  /\ in_use = 0
  /\ waiters = 0
  /\ nesting_level = 0
  /\ queueing_strategy = FIFO
  /\ writers = <<>>
  /\ readers = <<>>
  /\ frame = [t \in Threads |-> NoCall]
  /\ runable = [t \in Threads |-> FALSE]
  /\ signaled = [t \in Threads |-> FALSE]
  /\ held = [t \in Threads |-> 0]

Step(t) ==
  \/ \E op \in OpTypes : AcquireFree(t, op)
  \/ AcquireNested(t)
  \/ \E op \in OpTypes, timed \in BOOLEAN : AcquireBlock(t, op, timed)
  \/ \E position \in Positions, timed \in BOOLEAN : RenewBlock(t, position, timed)
  \/ WakeSignaled(t)
  \/ WakeSpurious(t)
  \/ TimedOut(t)
  \/ WaitFailed(t)
  \/ ReleaseNested(t)
  \/ ReleaseLast(t)

Next == \/ \E t \in Threads : Step(t)
        \/ \E s \in Strategies : SetQueueingStrategy(s)

Spec == Init /\ [][Next]_vars

\* A signaled thread runs again, and a holder does release the token: the
\* class documentation asks for as many releases as acquires (Token.h:54-57).
Fairness ==
  \A t \in Threads : /\ WF_vars(WakeSignaled(t))
                     /\ SF_vars(ReleaseNested(t))
                     /\ SF_vars(ReleaseLast(t))

FairSpec == Spec /\ Fairness

-----------------------------------------------------------------------------
(* Properties *)

Linked(q) == {q[i] : i \in 1..Len(q)}

NoDuplicates(q) == \A i, j \in 1..Len(q) : q[i] = q[j] => i = j

(***************************************************************************)
(* The fields of ACE_Token keep their types: nesting_level_ in particular  *)
(* never becomes negative.                                                 *)
(***************************************************************************)
TypeOK ==
  /\ owner \in Threads \cup {NULL_thread}
  /\ in_use \in {0} \cup OpTypes
  /\ waiters \in Int
  /\ nesting_level \in Nat
  /\ queueing_strategy \in {FIFO, LIFO}
  /\ writers \in Seq(Threads)
  /\ readers \in Seq(Threads)
  /\ frame \in [Threads -> Frames]
  /\ runable \in [Threads -> BOOLEAN]
  /\ signaled \in [Threads -> BOOLEAN]
  /\ held \in [Threads -> Nat]

(***************************************************************************)
(* A caller that has the token is its owner, so two callers never have it  *)
(* at once, whatever timeouts, spurious wakeups and renews intervene.      *)
(***************************************************************************)
MutualExclusion ==
  \A t \in Threads : Holds(t) => owner = t /\ in_use # 0

(***************************************************************************)
(* The recursion count belongs to the thread that has the token: it takes  *)
(* exactly held[t] releases to free it, also after a renew gave the token  *)
(* away in between and got it back (save_nesting_level_).                  *)
(***************************************************************************)
NestingMatches ==
  \A t \in Threads : Holds(t) => held[t] = nesting_level + 1

(***************************************************************************)
(* The queues link exactly the stack entries of the blocked calls, once    *)
(* each and in the queue of their kind: no entry outlives the stack frame  *)
(* it is allocated in, and waiters_ counts them.                           *)
(***************************************************************************)
EntriesOfBlockedCalls ==
  /\ Linked(writers) = {t \in Threads : Blocked(t) /\ frame[t].op = WRITE_TOKEN}
  /\ Linked(readers) = {t \in Threads : Blocked(t) /\ frame[t].op = READ_TOKEN}
  /\ NoDuplicates(writers) /\ NoDuplicates(readers)
  /\ waiters = Len(writers) + Len(readers)

(***************************************************************************)
(* The token is never free, nor owned by a thread that neither has it nor  *)
(* is about to get it, while others sleep in its queues.                   *)
(***************************************************************************)
NoStrandedWaiters ==
  /\ waiters > 0 => in_use # 0
  /\ in_use # 0 => owner \in Threads /\ (Blocked(owner) \/ Holds(owner))

(***************************************************************************)
(* ACE_ASSERT (my_entry.runable_) (lines 317 and 463): a thread that finds *)
(* itself the owner when it wakes was chosen by wakeup_next_waiter; and    *)
(* only the owner is ever chosen, so a timeout hands over what it owns.    *)
(***************************************************************************)
OwnerIsRunable ==
  \A t \in Threads : Blocked(t) => (runable[t] <=> owner = t)

(***************************************************************************)
(* A sleeping thread that already owns the token has a signal on its way.  *)
(***************************************************************************)
NoLostWakeup ==
  \A t \in Threads : Blocked(t) /\ owner = t => signaled[t]

\* Parts of the order of service, for two threads.
Before(q, t, u) == \E i, j \in 1..Len(q) : i < j /\ q[i] = t /\ q[j] = u

StaysBehind(t, u) ==
  /\ Before(writers, t, u) /\ Blocked(t)' /\ Blocked(u)' => Before(writers', t, u)
  /\ Before(readers, t, u) /\ Blocked(t)' /\ Blocked(u)' => Before(readers', t, u)

NotPassedOver(t, u) ==
  (Before(writers, t, u) \/ Before(readers, t, u)) /\ owner' = u
    => owner = u \/ ~Blocked(t)'

JoinsBehind(t, u) ==
  /\ queueing_strategy = FIFO
  /\ Blocked(t) /\ ~Blocked(u) /\ Blocked(u)' /\ frame'[u].position # 0
  => ~Before(writers', u, t) /\ ~Before(readers', u, t)

(***************************************************************************)
(* Strict order of service (Token.h:48-50, 59-62).  Of two threads blocked *)
(* in the same queue the later one never gets in front of the earlier one, *)
(* whatever is inserted and whoever leaves in between, nor is it given the *)
(* token while the earlier one waits; and under FIFO whoever joins a queue *)
(* joins it behind all that wait in it, unless it renews at position 0.    *)
(***************************************************************************)
ServedInOrder ==
  [][\A t, u \in Threads : StaysBehind(t, u) /\ NotPassedOver(t, u) /\ JoinsBehind(t, u)]_vars

(***************************************************************************)
(* Write acquires are not starved (Token.h:62-64 warns about readers       *)
(* only): a writer that blocks in acquire or in renew returns.             *)
(***************************************************************************)
WritersReturn ==
  \A t \in Threads : (Blocked(t) /\ frame[t].op = WRITE_TOKEN) ~> ~Blocked(t)

(***************************************************************************)
(* "Sleep until we've got the token" (Token.cpp:254 and 403): a call that  *)
(* sleeps while its thread has been made owner returns.                    *)
(***************************************************************************)
SleepsOnlyUntilOwner ==
  \A t \in Threads : (Blocked(t) /\ owner = t) ~> ~Blocked(t)
=============================================================================
