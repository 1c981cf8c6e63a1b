----------------------------- MODULE BarrierSpec -----------------------------
(***************************************************************************)
(* What ACE_Barrier promises (ACE/ace/Barrier.h:77-120): the threads that  *)
(* wait are released together, when count of them have called wait () or   *)
(* when the barrier is shut down.  Only the first lets wait () return 0.   *)
(*                                                                         *)
(* One exception: a thread of a complete round that is slow to return gets *)
(* ESHUTDOWN if the barrier has been shut down meanwhile (Leave).  The     *)
(* code decides by the state of the barrier when the thread wakes          *)
(* (Barrier.cpp:114), although its comment (111-113) means to tell apart   *)
(* why the count completed, and Barrier.h:108 promises 0.                  *)
(***************************************************************************)
EXTENDS Integers, FiniteSets

CONSTANTS Threads, count

VARIABLES
  arrived,  \* threads that wait for the round to be complete
  passed,   \* threads of completed rounds that have not returned yet
  aborted,  \* threads whose round was aborted, and that have not returned yet
  closed,   \* the barrier has been shut down
  result    \* result[t]: of the last call of wait () by t that returned

avars == <<arrived, passed, aborted, closed, result>>

ReturnWith(t, r) == result' = [result EXCEPT ![t] = r]

Outside(t) == t \notin arrived \cup passed \cup aborted

Init ==
  /\ arrived = {} /\ passed = {} /\ aborted = {}
  /\ closed = FALSE
  /\ result = [t \in Threads |-> "none"]

Arrive(t) ==
  /\ Outside(t) /\ ~closed
  /\ Cardinality(arrived) + 1 < count
  /\ arrived' = arrived \cup {t}
  /\ UNCHANGED <<passed, aborted, closed, result>>

\* The last thread returns itself and lets the others go, all at once.
Complete(t) ==
  /\ Outside(t) /\ ~closed
  /\ Cardinality(arrived) + 1 = count
  /\ arrived' = {}
  /\ passed' = passed \cup arrived
  /\ ReturnWith(t, "0")
  /\ UNCHANGED <<aborted, closed>>

\* A thread of a completed round that is slow to return may still see the
\* barrier closed.
Leave(t) ==
  /\ t \in passed
  /\ passed' = passed \ {t}
  /\ ReturnWith(t, IF closed THEN "ESHUTDOWN" ELSE "0")
  /\ UNCHANGED <<arrived, aborted, closed>>

Abort(t) ==
  /\ t \in aborted
  /\ aborted' = aborted \ {t}
  /\ ReturnWith(t, "ESHUTDOWN")
  /\ UNCHANGED <<arrived, passed, closed>>

Refuse(t) ==
  /\ Outside(t) /\ closed
  /\ ReturnWith(t, "ESHUTDOWN")
  /\ UNCHANGED <<arrived, passed, aborted, closed>>

Shutdown ==
  /\ ~closed
  /\ closed' = TRUE
  /\ aborted' = arrived
  /\ arrived' = {}
  /\ UNCHANGED <<passed, result>>

Next ==
  \/ \E t \in Threads : \/ Arrive(t) \/ Complete(t) \/ Leave(t)
                        \/ Abort(t) \/ Refuse(t)
  \/ Shutdown

Spec == Init /\ [][Next]_avars
=============================================================================
