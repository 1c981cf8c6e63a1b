------------------------------- MODULE Barrier -------------------------------
(***************************************************************************)
(* ACE_Barrier (ACE/ace/Barrier.h, Barrier.cpp).  Two sub-barriers serve   *)
(* alternating generations of waiters, so that threads which are slow to   *)
(* wake from one round are not confused by the next.  wait () and shutdown *)
(* () run under lock_; one action is one critical section.                 *)
(***************************************************************************)
EXTENDS Integers, FiniteSets

CONSTANTS
  Threads,         \* threads that call wait ()
  count,           \* count_
  SpuriousWakeups  \* a wait on a condition may end without a signal

\* "Total number of threads that can be waiting at any one time" (Barrier.h:136).
ASSUME BarrierAssumption ==
  /\ IsFiniteSet(Threads)
  /\ count \in Nat \ {0}
  /\ Cardinality(Threads) <= count
  /\ SpuriousWakeups \in BOOLEAN

VARIABLES
  current_generation, \* current_generation_
  running_threads,    \* running_threads_ of the two sub-barriers
  shut,               \* both pointers sub_barrier_[] are 0
  sbp,                \* sbp[t]: the sub-barrier in which t waits
  woken,              \* threads that a broadcast of barrier_finished_ has reached
  result              \* result[t]: what the last wait () of t has returned

vars == <<current_generation, running_threads, shut, sbp, woken, result>>

Generations == {0, 1}
NotWaiting  == 2

Waiting(g) == {t \in Threads : sbp[t] = g}

ReturnWith(t, r) == result' = [result EXCEPT ![t] = r]

-----------------------------------------------------------------------------
\* Mutant: one counter for both generations, reset for the next round.
WaitLast_SameGeneration(t) ==
  /\ sbp[t] = NotWaiting /\ ~shut
  /\ running_threads[current_generation] = 1
  /\ running_threads' = [running_threads EXCEPT ![current_generation] = count]
  /\ woken' = woken \cup Waiting(current_generation)
  /\ ReturnWith(t, "0")
  /\ UNCHANGED <<current_generation, shut, sbp>>

\* The last thread of the round: swap generations and release the others.
WaitLast(t) ==
  /\ sbp[t] = NotWaiting /\ ~shut
  /\ running_threads[current_generation] = 1
  /\ running_threads' = [running_threads EXCEPT ![current_generation] = count]
  /\ current_generation' = 1 - current_generation
  /\ woken' = woken \cup Waiting(current_generation)
  /\ ReturnWith(t, "0")
  /\ UNCHANGED <<shut, sbp>>

\* Another thread: block.
WaitBlock(t) ==
  /\ sbp[t] = NotWaiting /\ ~shut
  /\ running_threads[current_generation] # 1
  /\ running_threads' = [running_threads EXCEPT ![current_generation] = @ - 1]
  /\ sbp' = [sbp EXCEPT ![t] = current_generation]
  /\ UNCHANGED <<current_generation, shut, woken, result>>

WaitRefused(t) ==
  /\ sbp[t] = NotWaiting /\ shut
  /\ ReturnWith(t, "ESHUTDOWN")
  /\ UNCHANGED <<current_generation, running_threads, shut, sbp, woken>>

\* barrier_finished_.wait () returned and the count is complete.
WakeReturn(t) ==
  /\ sbp[t] # NotWaiting
  /\ t \in woken \/ SpuriousWakeups
  /\ running_threads[sbp[t]] = count
  /\ ReturnWith(t, IF shut THEN "ESHUTDOWN" ELSE "0")
  /\ sbp' = [sbp EXCEPT ![t] = NotWaiting]
  /\ woken' = woken \ {t}
  /\ UNCHANGED <<current_generation, running_threads, shut>>

\* It returned, and the count is not complete: wait again.
WakeAgain(t) ==
  /\ sbp[t] # NotWaiting
  /\ t \in woken \/ SpuriousWakeups
  /\ running_threads[sbp[t]] # count
  /\ woken' = woken \ {t}
  /\ UNCHANGED <<current_generation, running_threads, shut, sbp, result>>

\* Mutant: the waiting threads are told, and find the count incomplete.
Shutdown_KeepCount ==
  /\ ~shut
  /\ shut' = TRUE
  /\ woken' = woken \cup Waiting(current_generation)
  /\ UNCHANGED <<current_generation, running_threads, sbp, result>>

Shutdown ==
  /\ ~shut
  /\ shut' = TRUE
  /\ running_threads' = [running_threads EXCEPT ![current_generation] = count]
  /\ woken' = woken \cup Waiting(current_generation)
  /\ UNCHANGED <<current_generation, sbp, result>>

-----------------------------------------------------------------------------
Init ==
  /\ current_generation = 0
  /\ running_threads = [g \in Generations |-> count]
  /\ shut = FALSE
  /\ sbp = [t \in Threads |-> NotWaiting]
  /\ woken = {}
  /\ result = [t \in Threads |-> "none"]

Wait(t) == WaitLast(t) \/ WaitBlock(t) \/ WaitRefused(t)

Wake(t) == WakeReturn(t) \/ WakeAgain(t)

Next ==
  \/ \E t \in Threads : Wait(t) \/ Wake(t)
  \/ Shutdown

Spec == Init /\ [][Next]_vars

\* Signaled threads run; threads call wait () again and again.
Fairness ==
  \A t \in Threads : /\ WF_vars(t \in woken /\ Wake(t))
                     /\ WF_vars(Wait(t))

FairSpec == Spec /\ Fairness

-----------------------------------------------------------------------------
(* Properties *)

(***************************************************************************)
(* The fields keep their types.                                            *)
(***************************************************************************)
TypeOK ==
  /\ current_generation \in Generations
  /\ running_threads \in [Generations -> Int]
  /\ shut \in BOOLEAN
  /\ sbp \in [Threads -> Generations \cup {NotWaiting}]
  /\ woken \subseteq Threads
  /\ result \in [Threads -> {"none", "0", "ESHUTDOWN"}]

(***************************************************************************)
(* running_threads_ of the current generation counts down with the threads *)
(* that wait in it; a sub-barrier whose round is over stays complete until *)
(* the last of its threads has left, whatever the next generation and a    *)
(* shutdown do meanwhile; and its threads have been woken.                 *)
(***************************************************************************)
RunningCounted ==
  LET g == current_generation
  IN  /\ running_threads[1 - g] = count
      /\ running_threads[g] =
           IF shut THEN count ELSE count - Cardinality(Waiting(g))
      /\ running_threads[g] > 0
      /\ \A t \in Threads :
           sbp[t] = 1 - g \/ (shut /\ sbp[t] = g) => t \in woken

(***************************************************************************)
(* The barrier seen from outside: threads whose sub-barrier is complete    *)
(* are released, even if they sleep.                                       *)
(***************************************************************************)
Abstract == INSTANCE BarrierSpec WITH
  arrived <- IF shut THEN {} ELSE Waiting(current_generation),
  passed  <- Waiting(1 - current_generation),
  aborted <- IF shut THEN Waiting(current_generation) ELSE {},
  closed  <- shut

(***************************************************************************)
(* ACE_Barrier implements what Barrier.h promises, but for one exception:  *)
(* all threads of a round are released at once, by its last thread or by   *)
(* shutdown, and wait () returns 0 only after a complete round.  The       *)
(* exception: after a complete round it returns 0 or, if the barrier is    *)
(* shut down before the thread wakes, ESHUTDOWN (BarrierSpec, Leave).      *)
(***************************************************************************)
ImplementsBarrier == Abstract!Spec

(***************************************************************************)
(* If all the threads go on calling wait (), every wait () returns.        *)
(***************************************************************************)
WaitersReturn ==
  \A t \in Threads : sbp[t] # NotWaiting ~> sbp[t] = NotWaiting
=============================================================================
