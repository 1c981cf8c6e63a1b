---------------------------- MODULE BarrierProofs ----------------------------
(***************************************************************************)
(* Barrier keeps its count for every number of threads, and implements     *)
(* BarrierSpec.                                                            *)
(***************************************************************************)
EXTENDS Barrier, FiniteSetTheorems, TLAPS

IInv == TypeOK /\ RunningCounted

(***************************************************************************)
(* Sets of threads are finite, and count - 1 waiting threads and one more  *)
(* are all there are.                                                      *)
(***************************************************************************)
LEMMA ThreadSets ==
  ASSUME NEW S \in SUBSET Threads
  PROVE  /\ IsFiniteSet(S)
         /\ Cardinality(S) \in Nat
         /\ Cardinality(S) <= count
  <1>1. IsFiniteSet(S) /\ Cardinality(S) <= Cardinality(Threads)
    BY FS_Subset, BarrierAssumption
  <1>2. Cardinality(S) \in Nat /\ Cardinality(Threads) \in Nat
    BY <1>1, FS_CardinalityType, BarrierAssumption
  <1> QED
    BY <1>1, <1>2, BarrierAssumption

LEMMA OneMoreThread ==
  ASSUME NEW S \in SUBSET Threads, NEW t \in Threads, t \notin S
  PROVE  /\ Cardinality(S \cup {t}) = Cardinality(S) + 1
         /\ Cardinality(S) < count
         /\ Cardinality(S) + 1 = count => S \cup {t} = Threads
  <1> DEFINE T == S \cup {t}
  <1>1. IsFiniteSet(S) /\ Cardinality(S) \in Nat
    BY ThreadSets
  <1>2. Cardinality(T) = Cardinality(S) + 1
    BY <1>1, FS_AddElement
  <1>3. T \in SUBSET Threads
    OBVIOUS
  <1>4. Cardinality(T) <= count
    BY <1>3, ThreadSets
  <1>5. /\ Cardinality(T) = Cardinality(Threads) => T = Threads
        /\ Cardinality(T) <= Cardinality(Threads)
    BY <1>3, FS_Subset, BarrierAssumption
  <1>6. Cardinality(Threads) \in Nat
    BY FS_CardinalityType, BarrierAssumption
  <1> QED
    BY <1>1, <1>2, <1>4, <1>5, <1>6, BarrierAssumption

\* The set of waiters after one thread has joined or left.
LEMMA WaitingSets ==
  ASSUME TypeOK
  PROVE  /\ \A g \in Generations : Waiting(g) \in SUBSET Threads
         /\ \A t \in Threads, g, h \in Generations :
              sbp' = [sbp EXCEPT ![t] = g] /\ sbp[t] = NotWaiting =>
                Waiting(h)' = IF h = g THEN Waiting(h) \cup {t} ELSE Waiting(h)
         /\ \A t \in Threads, h \in Generations :
              sbp' = [sbp EXCEPT ![t] = NotWaiting] => Waiting(h)' = Waiting(h) \ {t}
         /\ \A h \in Generations : UNCHANGED sbp => Waiting(h)' = Waiting(h)
  BY DEF TypeOK, Waiting, Generations, NotWaiting

(***************************************************************************)
(* When the last thread arrives nobody is left in the other generation:    *)
(* this is why two sub-barriers are enough.                                *)
(***************************************************************************)
LEMMA LastThread ==
  ASSUME IInv, NEW t \in Threads, WaitLast(t)
  PROVE  /\ Cardinality(Waiting(current_generation)) + 1 = count
         /\ Waiting(1 - current_generation) = {}
  <1> DEFINE g == current_generation
             S == Waiting(g)
  <1>1. S \in SUBSET Threads /\ t \notin S
    BY DEF IInv, TypeOK, WaitLast, Waiting, Generations, NotWaiting
  <1>2. running_threads[g] = count - Cardinality(S) /\ running_threads[g] = 1
    BY DEF IInv, RunningCounted, WaitLast
  <1>3. Cardinality(S) \in Nat
    BY <1>1, ThreadSets
  <1>4. Cardinality(S) + 1 = count
    BY <1>2, <1>3, BarrierAssumption
  <1>5. S \cup {t} = Threads
    BY <1>1, <1>4, OneMoreThread
  <1>6. \A u \in Threads : sbp[u] # 1 - g
    BY <1>5 DEF IInv, TypeOK, WaitLast, Waiting, Generations, NotWaiting
  <1> QED
    BY <1>4, <1>6 DEF Waiting

LEMMA TypeStep ==
  ASSUME TypeOK, [Next]_vars
  PROVE  TypeOK'
  <1> USE BarrierAssumption DEF TypeOK, Generations, NotWaiting
  <1>1. ASSUME NEW t \in Threads, WaitLast(t) PROVE TypeOK'
    BY <1>1 DEF WaitLast, ReturnWith, Waiting
  <1>2. ASSUME NEW t \in Threads, WaitBlock(t) PROVE TypeOK'
    BY <1>2 DEF WaitBlock
  <1>3. ASSUME NEW t \in Threads, WaitRefused(t) PROVE TypeOK'
    BY <1>3 DEF WaitRefused, ReturnWith
  <1>4. ASSUME NEW t \in Threads, WakeReturn(t) PROVE TypeOK'
    BY <1>4 DEF WakeReturn, ReturnWith
  <1>5. ASSUME NEW t \in Threads, WakeAgain(t) PROVE TypeOK'
    BY <1>5 DEF WakeAgain
  <1>6. CASE Shutdown
    BY <1>6 DEF Shutdown, Waiting
  <1>7. CASE UNCHANGED vars
    BY <1>7 DEF vars
  <1> QED
    BY <1>1, <1>2, <1>3, <1>4, <1>5, <1>6, <1>7 DEF Next, Wait, Wake

LEMMA CountStep ==
  ASSUME IInv, [Next]_vars
  PROVE  RunningCounted'
  <1>0. TypeOK /\ RunningCounted /\ TypeOK'
    BY TypeStep DEF IInv
  <1> PICK g \in Generations : g = current_generation
    BY <1>0 DEF TypeOK
  <1>g. 1 - g \in Generations /\ 1 - (1 - g) = g /\ 1 - g # g
    BY DEF Generations
  <1> USE BarrierAssumption
  <1>1. ASSUME NEW t \in Threads, WaitLast(t) PROVE RunningCounted'
    <2>1. Waiting(1 - g) = {} /\ Cardinality({}) = 0
      BY <1>1, LastThread, FS_EmptySet
    <2>2. Waiting(1 - g)' = {}
      BY <1>0, <1>1, <1>g, <2>1, WaitingSets DEF WaitLast
    <2>3. /\ current_generation' = 1 - g
          /\ UNCHANGED <<sbp, shut>> /\ ~shut
          /\ running_threads'[g] = count /\ running_threads'[1 - g] = count
      BY <1>0, <1>1, <1>g DEF WaitLast, RunningCounted, TypeOK
    <2>4. \A u \in Threads : sbp[u] = g => u \in woken'
      BY <1>1 DEF WaitLast, Waiting
    <2> QED
      BY <1>g, <2>1, <2>2, <2>3, <2>4 DEF RunningCounted
  <1>2. ASSUME NEW t \in Threads, WaitBlock(t) PROVE RunningCounted'
    <2> DEFINE S == Waiting(g)
    <2>1. S \in SUBSET Threads /\ t \notin S /\ Waiting(g)' = S \cup {t}
      BY <1>0, <1>2, WaitingSets
      DEF WaitBlock, TypeOK, Waiting, Generations, NotWaiting
    <2>2. Cardinality(S \cup {t}) = Cardinality(S) + 1
      BY <2>1, OneMoreThread
    <2>3. Cardinality(S) \in Nat
      BY <2>1, ThreadSets
    <2>4. /\ running_threads'[g] = running_threads[g] - 1
          /\ running_threads'[1 - g] = running_threads[1 - g]
          /\ running_threads[g] # 1 /\ running_threads[g] \in Int
          /\ ~shut /\ UNCHANGED <<current_generation, shut, woken>>
      BY <1>0, <1>2, <1>g DEF WaitBlock, TypeOK
    <2>5. \A u \in Threads : sbp'[u] = 1 - g => u \in woken
      BY <1>0, <1>2, <1>g DEF WaitBlock, RunningCounted, TypeOK
    <2>6. /\ running_threads[g] = count - Cardinality(S) /\ running_threads[g] > 0
          /\ running_threads[1 - g] = count
      BY <1>0, <2>4 DEF RunningCounted
    <2>7. /\ running_threads'[g] = count - Cardinality(Waiting(g)')
          /\ running_threads'[g] > 0
      BY <2>1, <2>2, <2>3, <2>4, <2>6
    <2> QED
      BY <2>4, <2>5, <2>6, <2>7 DEF RunningCounted
  <1>3. ASSUME NEW t \in Threads, WaitRefused(t) PROVE RunningCounted'
    BY <1>0, <1>3 DEF WaitRefused, RunningCounted, Waiting
  <1>4. ASSUME NEW t \in Threads, WakeReturn(t) PROVE RunningCounted'
    <2>1. \A u \in Threads : sbp'[u] # NotWaiting => sbp'[u] = sbp[u] /\ u # t
      BY <1>0, <1>4 DEF WakeReturn, TypeOK
    <2>2. UNCHANGED <<current_generation, running_threads, shut>> /\ woken' = woken \ {t}
      BY <1>4 DEF WakeReturn
    <2>3. ASSUME ~shut PROVE Waiting(g)' = Waiting(g)
      <3>1. IsFiniteSet(Waiting(g)) /\ Cardinality(Waiting(g)) \in Nat
        BY <1>0, ThreadSets, WaitingSets
      <3>2. sbp[t] = g => Cardinality(Waiting(g)) = 0
        BY <1>0, <1>4, <2>3, <3>1 DEF WakeReturn, RunningCounted
      <3>3. sbp[t] # g
        BY <3>1, <3>2, FS_EmptySet DEF Waiting
      <3>4. t \notin Waiting(g)
        BY <3>3 DEF Waiting
      <3>5. Waiting(g)' = Waiting(g) \ {t}
        BY <1>0, <1>4, WaitingSets DEF WakeReturn
      <3> QED
        BY <3>4, <3>5
    <2>4. \A u \in Threads : sbp'[u] \in {g, 1 - g} => sbp'[u] = sbp[u] /\ u # t
      BY <2>1, <1>g DEF Generations, NotWaiting
    <2> QED
      BY <1>0, <2>2, <2>3, <2>4 DEF RunningCounted
  <1>5. ASSUME NEW t \in Threads, WakeAgain(t) PROVE RunningCounted'
    <2>1. sbp[t] = g /\ ~shut
      BY <1>0, <1>5 DEF WakeAgain, RunningCounted, TypeOK, Generations, NotWaiting
    <2>2. /\ UNCHANGED <<current_generation, running_threads, shut, sbp>>
          /\ woken' = woken \ {t}
          /\ Waiting(g)' = Waiting(g)
      BY <1>5 DEF WakeAgain, Waiting
    <2> QED
      BY <1>0, <1>g, <2>1, <2>2 DEF RunningCounted
  <1>6. CASE Shutdown
    BY <1>0, <1>6, <1>g DEF Shutdown, RunningCounted, Waiting, TypeOK
  <1>7. CASE UNCHANGED vars
    BY <1>0, <1>7 DEF vars, RunningCounted, Waiting
  <1> QED
    BY <1>1, <1>2, <1>3, <1>4, <1>5, <1>6, <1>7 DEF Next, Wait, Wake

LEMMA Initially ==
  ASSUME Init
  PROVE  IInv
  <1>0. shut \in BOOLEAN
    BY Zenon DEF Init
  <1>1. TypeOK
    BY <1>0, BarrierAssumption DEF Init, TypeOK, Generations, NotWaiting
  <1>2. Waiting(0) = {} /\ Cardinality({}) = 0
    BY FS_EmptySet DEF Init, Waiting, NotWaiting
  <1> QED
    BY <1>1, <1>2, BarrierAssumption
    DEF IInv, Init, RunningCounted, Generations, NotWaiting

THEOREM Inductive == Spec => []IInv
  <1>1. Init => IInv
    BY Initially
  <1>2. IInv /\ [Next]_vars => IInv'
    BY TypeStep, CountStep DEF IInv
  <1> QED
    BY <1>1, <1>2, PTL DEF Spec

(***************************************************************************)
(* For any number of threads up to count: the counter of the current       *)
(* generation is exact, and threads that are slow to leave a round find    *)
(* its sub-barrier complete.                                               *)
(***************************************************************************)
THEOREM CountCorrect == Spec => []RunningCounted
  BY Inductive, PTL DEF IInv

-----------------------------------------------------------------------------
(* The refinement *)

\* The module BarrierSpec counts as this one does.
LEMMA SameCardinality ==
  ASSUME NEW S
  PROVE  Abstract!Cardinality(S) = Cardinality(S)
  BY Zenon DEF Cardinality, Abstract!Cardinality

LEMMA AbstractInit ==
  ASSUME Init
  PROVE  Abstract!Init
  BY DEF Init, Abstract!Init, Waiting, NotWaiting

\* One step of the code is one step, or none, of the barrier seen from outside.
LEMMA AbstractStep ==
  ASSUME IInv, [Next]_vars
  PROVE  [Abstract!Next]_Abstract!avars
  <1>0. TypeOK /\ RunningCounted
    BY DEF IInv
  <1> PICK g \in Generations : g = current_generation
    BY <1>0 DEF TypeOK
  <1>g. 1 - g \in Generations /\ 1 - (1 - g) = g /\ 1 - g # g
    BY DEF Generations
  <1>w. \A h \in Generations : Waiting(h) \in SUBSET Threads
    BY <1>0, WaitingSets
  <1>o. ASSUME NEW t \in Threads, sbp[t] = NotWaiting
        PROVE  Abstract!Outside(t)
    BY <1>o DEF Abstract!Outside, Waiting, NotWaiting, Generations
  <1>1. ASSUME NEW t \in Threads, WaitLast(t) PROVE Abstract!Complete(t)
    <2>1. Cardinality(Waiting(g)) + 1 = count /\ Waiting(1 - g) = {}
      BY <1>1, LastThread
    <2>2. Waiting(g)' = Waiting(g) /\ Waiting(1 - g)' = {}
      BY <1>0, <1>1, <1>g, <2>1, WaitingSets DEF WaitLast
    <2>3. /\ current_generation' = 1 - g /\ ~shut /\ UNCHANGED shut
          /\ sbp[t] = NotWaiting
          /\ result' = [result EXCEPT ![t] = "0"]
      BY <1>1 DEF WaitLast, ReturnWith
    <2>4. Abstract!Outside(t)
      BY <1>o, <2>3
    <2>5. Abstract!Cardinality(IF shut THEN {} ELSE Waiting(current_generation))
            = Cardinality(Waiting(g))
      BY <2>3, SameCardinality
    <2>6. /\ (IF shut THEN {} ELSE Waiting(current_generation))' = {}
          /\ Waiting(1 - current_generation)' = Waiting(g)
          /\ (IF shut THEN Waiting(current_generation) ELSE {})' = {}
      BY <2>2, <2>3, <1>g
    <2>7. Abstract!Cardinality(IF shut THEN {} ELSE Waiting(current_generation)) + 1
            = count
      BY <2>1, <2>5, Zenon
    <2>8. /\ (IF shut THEN {} ELSE Waiting(current_generation))' = {}
          /\ Waiting(1 - current_generation)'
               = Waiting(1 - current_generation)
                   \cup (IF shut THEN {} ELSE Waiting(current_generation))
          /\ UNCHANGED <<IF shut THEN Waiting(current_generation) ELSE {}, shut>>
      BY <2>1, <2>3, <2>6
    <2>9. Abstract!ReturnWith(t, "0")
      BY <2>3 DEF Abstract!ReturnWith
    <2> QED
      BY <2>3, <2>4, <2>7, <2>8, <2>9 DEF Abstract!Complete
  <1>2. ASSUME NEW t \in Threads, WaitBlock(t) PROVE Abstract!Arrive(t)
    <2>1. Waiting(g)' = Waiting(g) \cup {t} /\ Waiting(1 - g)' = Waiting(1 - g)
      BY <1>0, <1>2, <1>g, WaitingSets DEF WaitBlock
    <2>2. /\ sbp[t] = NotWaiting /\ ~shut /\ UNCHANGED shut
          /\ current_generation' = g /\ result' = result
          /\ running_threads[g] # 1
      BY <1>2 DEF WaitBlock
    <2>3. Cardinality(Waiting(g)) \in Nat
      BY <1>w, ThreadSets
    <2>4. Cardinality(Waiting(g)) + 1 < count
      BY <1>0, <2>2, <2>3, BarrierAssumption DEF RunningCounted
    <2>5. Abstract!Outside(t)
      BY <1>o, <2>2
    <2>6. Abstract!Cardinality(IF shut THEN {} ELSE Waiting(current_generation))
            = Cardinality(Waiting(g))
      BY <2>2, SameCardinality
    <2>7. /\ (IF shut THEN {} ELSE Waiting(current_generation))' = Waiting(g) \cup {t}
          /\ Waiting(1 - current_generation)' = Waiting(1 - g)
          /\ (IF shut THEN Waiting(current_generation) ELSE {})' = {}
      BY <2>1, <2>2
    <2>8. Abstract!Cardinality(IF shut THEN {} ELSE Waiting(current_generation)) + 1
            < count
      BY <2>4, <2>6, Zenon
    <2>9. /\ (IF shut THEN {} ELSE Waiting(current_generation))'
               = (IF shut THEN {} ELSE Waiting(current_generation)) \cup {t}
          /\ UNCHANGED <<Waiting(1 - current_generation),
                         IF shut THEN Waiting(current_generation) ELSE {},
                         shut, result>>
      BY <2>2, <2>7
    <2> QED
      BY <2>2, <2>5, <2>8, <2>9 DEF Abstract!Arrive
  <1>3. ASSUME NEW t \in Threads, WaitRefused(t) PROVE Abstract!Refuse(t)
    BY <1>3, <1>o DEF WaitRefused, Waiting, ReturnWith, Abstract!Refuse, Abstract!ReturnWith
  <1>4. ASSUME NEW t \in Threads, WakeReturn(t)
        PROVE  Abstract!Leave(t) \/ Abstract!Abort(t)
    <2>1. Waiting(g)' = Waiting(g) \ {t} /\ Waiting(1 - g)' = Waiting(1 - g) \ {t}
      BY <1>0, <1>4, <1>g, WaitingSets DEF WakeReturn
    <2>2. /\ current_generation' = g /\ shut' = shut
          /\ result' = [result EXCEPT ![t] = IF shut THEN "ESHUTDOWN" ELSE "0"]
      BY <1>4 DEF WakeReturn, ReturnWith
    <2>3. CASE sbp[t] = 1 - g
      <3>1. t \in Waiting(1 - g) /\ t \notin Waiting(g)
        BY <2>3, <1>g DEF Waiting
      <3>2. Waiting(g)' = Waiting(g)
        BY <2>1, <3>1
      <3> QED
        BY <2>1, <2>2, <3>1, <3>2 DEF Abstract!Leave, Abstract!ReturnWith
    <2>4. CASE sbp[t] = g
      <3>1. t \in Waiting(g) /\ t \notin Waiting(1 - g)
        BY <2>4, <1>g DEF Waiting
      <3>2. Waiting(1 - g)' = Waiting(1 - g)
        BY <2>1, <3>1
      <3>3. shut
        <4>1. IsFiniteSet(Waiting(g)) /\ Cardinality(Waiting(g)) \in Nat
          BY <1>w, ThreadSets
        <4>2. Cardinality(Waiting(g)) # 0
          BY <3>1, <4>1, FS_EmptySet
        <4> QED
          BY <1>0, <1>4, <2>4, <4>1, <4>2, BarrierAssumption
          DEF WakeReturn, RunningCounted
      <3> QED
        BY <2>1, <2>2, <3>1, <3>2, <3>3 DEF Abstract!Abort, Abstract!ReturnWith
    <2> QED
      BY <1>0, <1>4, <2>3, <2>4 DEF WakeReturn, TypeOK, Generations, NotWaiting
  <1>5. ASSUME NEW t \in Threads, WakeAgain(t) PROVE UNCHANGED Abstract!avars
    BY <1>5 DEF WakeAgain, Abstract!avars, Waiting
  <1>6. CASE Shutdown
    <2>1. Abstract!Shutdown
      BY <1>6 DEF Shutdown, Waiting, Abstract!Shutdown
    <2> QED
      BY <2>1 DEF Abstract!Next
  <1>7. CASE UNCHANGED vars
    BY <1>7 DEF vars, Abstract!avars, Waiting
  <1> QED
    BY <1>1, <1>2, <1>3, <1>4, <1>5, <1>6, <1>7 DEF Next, Wait, Wake, Abstract!Next

(***************************************************************************)
(* ACE_Barrier implements BarrierSpec for any number of threads up to      *)
(* count: the threads of a round are released at once and never by a round *)
(* that is not theirs.  BarrierSpec lets a late thread of a complete round *)
(* see a shutdown.                                                         *)
(***************************************************************************)
THEOREM Refinement == Spec => ImplementsBarrier
  <1>1. Init => Abstract!Init
    BY AbstractInit
  <1>2. IInv /\ [Next]_vars => [Abstract!Next]_Abstract!avars
    BY AbstractStep
  <1> QED
    BY <1>1, <1>2, Inductive, PTL DEF Spec, ImplementsBarrier, Abstract!Spec
=============================================================================
