----------------------- MODULE LeaderFollowerElections -----------------------
(***************************************************************************)
(* Proofs about who leads in LeaderFollower: what each step of a thread    *)
(* does to its leadership and to the reactor, that leadership is given up  *)
(* in upcalls and is not shared with a client, that somebody takes over    *)
(* while others sleep, and when the reactor is open.                       *)
(***************************************************************************)
EXTENDS LeaderFollowerWakeups

-----------------------------------------------------------------------------
(* What a step does *)

SameLead(l, m) ==
  /\ m.leaders = l.leaders
  /\ m.client_thread_is_leader = l.client_thread_is_leader
  /\ m.event_loop_thread = l.event_loop_thread
  /\ m.client_leader_thread = l.client_leader_thread

SameWaits(l, m) ==
  /\ m.event_loop_threads_waiting = l.event_loop_threads_waiting
  /\ m.follower_set = l.follower_set /\ m.woken = l.woken

SameFlags(l, m) ==
  m.has_shutdown = l.has_shutdown /\ m.reactor_shutdown = l.reactor_shutdown

\* The reactor stays as it is,
Stays(l, m) ==
  SameFlags(l, m) /\ m.clients = l.clients /\ m.event_loop_done = l.event_loop_done

\* is reopened by a first client,
Opens(l, m) ==
  /\ SameFlags(l, m) /\ m.clients = l.clients + 1
  /\ m.event_loop_done =
       (l.event_loop_done /\ ~(l.clients = 0 /\ l.has_shutdown /\ ~DropReplies))

\* is closed by the last one.
Closes(l, m) ==
  /\ SameFlags(l, m) /\ m.clients = l.clients - 1
  /\ m.event_loop_done = (l.event_loop_done \/ (l.clients = 1 /\ l.has_shutdown))

\* The thread changes e, its leadership as an event loop, and c, as a client, by
Terms(l, m, t, e, c) ==
  /\ m.event_loop_thread = [l.event_loop_thread EXCEPT ![t] = l.event_loop_thread[t] + e]
  /\ m.client_leader_thread =
       [l.client_leader_thread EXCEPT ![t] = l.client_leader_thread[t] + c]
  /\ m.client_thread_is_leader = l.client_thread_is_leader + c

\* The step ends with an election, in a state where the same threads sleep.
Elects == \E l \in LFs : lf' = elect_new_leader(l) /\ SameWaits(lf, l)

\* What the books say of the counters, before and after a step.
Sound ==
  /\ TypeOK /\ LeadersCounted
  /\ lf.leaders > 0 <=> Counted # {}
  /\ lf.client_thread_is_leader > 0 <=> \E t \in Threads : lf.client_leader_thread[t] > 0

LEMMA BalancedSound == Balanced => Sound
BY BalancedFacts DEF Sound

LEMMA BalancedSoundThen == Balanced' => Sound'
BY BalancedSound, PTL

LEMMA SameLeadTerms ==
  ASSUME NEW l \in LFs, NEW m, NEW t \in Threads, SameLead(l, m)
  PROVE  Terms(l, m, t, 0, 0)
<1>1. /\ l.event_loop_thread \in [Threads -> Nat] /\ l.client_leader_thread \in [Threads -> Nat]
      /\ l.client_thread_is_leader \in Int
  BY DEF LFs
<1>2. /\ l.event_loop_thread[t] + 0 = l.event_loop_thread[t]
      /\ l.client_leader_thread[t] + 0 = l.client_leader_thread[t]
      /\ l.client_thread_is_leader + 0 = l.client_thread_is_leader
  BY <1>1
<1>3. QED
  BY <1>1, <1>2 DEF Terms, SameLead

LEMMA ElectSame ==
  ASSUME NEW l \in LFs
  PROVE  LET m == elect_new_leader(l)
         IN  m \in LFs /\ SameLead(l, m) /\ Stays(l, m) /\ m.deferred = l.deferred
<1> DEFINE m == elect_new_leader(l)
<1>1. m \in LFs /\ SameBooks(l, m)
  BY ElectFacts
<1> HIDE DEF m
<1>2. QED
  BY <1>1 DEF SameBooks, SameLead, Stays, SameFlags, m

\* What wait_for_event does from l on: the thread waits, leads or returns.
Waited(t, l) ==
  /\ lf' \in LFs /\ lf'.deferred = l.deferred
  /\ \/ /\ At(t)' = "follower"
        /\ l.leaders # 0 /\ SameLead(l, lf') /\ Stays(l, lf')
     \/ /\ At(t)' = "leading"
        /\ l.leaders = 0 /\ lf'.leaders = 1 /\ Terms(l, lf', t, 0, 1) /\ Stays(l, lf')
     \/ /\ At(t)' \in {"application", "upcall"}
        /\ Terms(l, lf', t, 0, 0) /\ Closes(l, lf')
        /\ \E m \in LFs : lf' = elect_new_leader(m) /\ SameWaits(l, m)

LEMMA WaitLoopDoes ==
  ASSUME NEW t \in Threads, InOrder(t), At(t) \in Waiting, NEW l \in LFs, NEW call \in Calls,
         \/ Follow(t, call, l) /\ leader_available(l)
         \/ Lead(t, call, l) /\ ~leader_available(l)
         \/ Finish(t, l)
  PROVE  Waited(t, l)
<1>1. /\ stack \in [Threads -> Seq(Calls)] /\ At(t) \notin {"application", "upcall"}
  BY DEF InOrder, Typed, Waiting
<1>2. CASE Follow(t, call, l) /\ leader_available(l)
  <2> DEFINE c == [call EXCEPT !.at = "follower"]
  <2>1. c \in Calls /\ c.at = "follower"
    BY DEF Calls, Waiting
  <2>2. stack' = SetTop(t, c) /\ lf' = add_follower(l, t) /\ l.leaders # 0
    BY <1>2 DEF Follow, leader_available
  <2> HIDE DEF c
  <2>3. At(t)' = "follower"
    BY <1>1, <2>1, <2>2, TopMoves
  <2>4. lf' \in LFs /\ SameBooks(l, lf')
    BY <2>2, SignalFacts
  <2>5. SameLead(l, lf') /\ Stays(l, lf') /\ lf'.deferred = l.deferred
    BY <2>4 DEF SameBooks, SameLead, Stays, SameFlags
  <2>6. QED BY <2>2, <2>3, <2>4, <2>5 DEF Waited
<1>3. CASE Lead(t, call, l) /\ ~leader_available(l)
  <2> DEFINE c == [call EXCEPT !.at = "leading"]
  <2>1. c \in Calls /\ c.at = "leading"
    BY DEF Calls, Waiting
  <2>2. stack' = SetTop(t, c) /\ lf' = set_client_leader_thread(l, t) /\ l.leaders = 0
    BY <1>3 DEF Lead, leader_available
  <2> HIDE DEF c
  <2>3. At(t)' = "leading"
    BY <1>1, <2>1, <2>2, TopMoves
  <2>4. /\ lf' \in LFs /\ SameRest(l, lf') /\ lf'.clients = l.clients
        /\ lf'.event_loop_done = l.event_loop_done
        /\ lf'.leaders = l.leaders + 1
        /\ lf'.client_thread_is_leader = l.client_thread_is_leader + 1
        /\ lf'.event_loop_thread = l.event_loop_thread
        /\ lf'.client_leader_thread =
             [l.client_leader_thread EXCEPT ![t] = l.client_leader_thread[t] + 1]
    BY <2>2, ClientLeaderFacts
  <2>5. Stays(l, lf') /\ lf'.deferred = l.deferred /\ lf'.leaders = 1
    BY <2>2, <2>4 DEF SameRest, Stays, SameFlags
  <2>6. Terms(l, lf', t, 0, 1)
    <3>1. l.event_loop_thread \in [Threads -> Nat]
      BY DEF LFs
    <3>2. l.event_loop_thread = [l.event_loop_thread EXCEPT ![t] = l.event_loop_thread[t] + 0]
      BY <3>1
    <3>3. QED BY <2>4, <3>2 DEF Terms
  <2>7. QED BY <2>2, <2>3, <2>4, <2>5, <2>6 DEF Waited
<1>4. CASE Finish(t, l)
  <2> DEFINE m == reset_client_thread(l, t)
  <2>1. stack' = Pop(t) /\ lf' = elect_new_leader(m)
    BY <1>4 DEF Finish
  <2>2. At(t)' \in {"application", "upcall"}
    BY <1>1, <2>1, PopMoves
  <2>3. /\ m \in LFs /\ SameRest(l, m)
        /\ m.client_thread_is_leader = l.client_thread_is_leader
        /\ m.client_leader_thread = l.client_leader_thread
        /\ m.event_loop_thread = l.event_loop_thread
        /\ m.clients = l.clients - 1
        /\ m.event_loop_done = (l.event_loop_done \/ (l.clients = 1 /\ l.has_shutdown))
    BY ClientThreadFacts
  <2> HIDE DEF m
  <2>4. lf' \in LFs /\ SameLead(m, lf') /\ Stays(m, lf') /\ lf'.deferred = m.deferred
    BY <2>1, <2>3, ElectSame
  <2>5. Closes(l, lf') /\ SameWaits(l, m) /\ lf'.deferred = l.deferred
    BY <2>3, <2>4 DEF Closes, Stays, SameFlags, SameRest, SameWaits
  <2>6. Terms(l, lf', t, 0, 0)
    <3>1. Terms(m, lf', t, 0, 0)
      BY <2>3, <2>4, SameLeadTerms
    <3>2. QED BY <2>3, <3>1 DEF Terms
  <2>7. QED BY <2>1, <2>2, <2>3, <2>4, <2>5, <2>6 DEF Waited
<1>5. QED
  BY <1>2, <1>3, <1>4

\* The client leader steps down in scope #5.
StepsDown(t, l) ==
  /\ At(t) = "leaving"
  /\ l \in LFs /\ l.deferred = 0 /\ Stays(lf, l) /\ SameWaits(lf, l)
  /\ \/ lf.client_leader_thread[t] > 0 /\ Terms(lf, l, t, 0, -1) /\ l.leaders = lf.leaders - 1
     \/ lf.client_leader_thread[t] = 0 /\ SameLead(lf, l)

Yields(t) ==
  /\ At(t)' = "yielding"
  /\ \E l \in LFs : StepsDown(t, l) /\ lf' = elect_new_leader(l)

\* A thread that is, or becomes, a client waits in state l.
Waits(t) ==
  \E l \in LFs :
    /\ Waited(t, l)
    /\ \/ /\ At(t) = "sent"
          /\ Opens(lf, l) /\ SameWaits(lf, l) /\ Terms(lf, l, t, 0, 0)
          /\ l.deferred = lf.deferred
       \/ /\ At(t) = "yielding" /\ l = lf
       \/ /\ At(t) = "follower" /\ At(t)' \in {"follower", "leading"}
          /\ SameLead(lf, l) /\ Stays(lf, l) /\ l.deferred = lf.deferred
       \/ /\ StepsDown(t, l)
          /\ l.event_loop_threads_waiting = {} \/ l.leaders # 0

LEMMA StepsDownFacts ==
  ASSUME NEW t \in Threads, lf \in LFs, At(t) = "leaving"
  PROVE  LET l == [reset_client_leader_thread(lf, t) EXCEPT !.deferred = 0]
         IN  StepsDown(t, l)
<1> DEFINE m == reset_client_leader_thread(lf, t)
           l == [m EXCEPT !.deferred = 0]
           c == lf.client_leader_thread
           d == IF c[t] > 0 THEN 1 ELSE 0
<1>1. /\ m \in LFs /\ SameRest(lf, m) /\ m.clients = lf.clients
      /\ m.event_loop_done = lf.event_loop_done
      /\ m.leaders = lf.leaders - d
      /\ m.client_thread_is_leader = lf.client_thread_is_leader - d
      /\ m.event_loop_thread = lf.event_loop_thread
      /\ m.client_leader_thread = [c EXCEPT ![t] = c[t] - d]
  BY ClientLeaderFacts
<1>2. /\ c \in [Threads -> Nat] /\ lf.event_loop_thread \in [Threads -> Nat]
      /\ lf.leaders \in Int /\ lf.client_thread_is_leader \in Int /\ c[t] \in Nat
  BY DEF LFs
<1>3. 0 \in 0..MaxDeferred
  BY DEF MaxDeferred
<1> HIDE DEF m
<1>4. /\ l \in LFs /\ l.deferred = 0
      /\ l.leaders = m.leaders /\ l.clients = m.clients
      /\ l.client_thread_is_leader = m.client_thread_is_leader
      /\ l.event_loop_thread = m.event_loop_thread
      /\ l.client_leader_thread = m.client_leader_thread
      /\ l.event_loop_threads_waiting = m.event_loop_threads_waiting
      /\ l.follower_set = m.follower_set /\ l.woken = m.woken
      /\ l.has_shutdown = m.has_shutdown
      /\ l.reactor_shutdown = m.reactor_shutdown
      /\ l.event_loop_done = m.event_loop_done
  BY <1>1, <1>3, DeferredFacts
<1> HIDE DEF l
<1>5. Stays(lf, l) /\ SameWaits(lf, l)
  BY <1>1, <1>4 DEF SameRest, Stays, SameFlags, SameWaits
<1>6. CASE c[t] > 0
  <2>1. d = 1
    BY <1>6
  <2> HIDE DEF d
  <2>2. /\ l.leaders = lf.leaders - 1 /\ l.client_thread_is_leader = lf.client_thread_is_leader - 1
        /\ l.client_leader_thread = [c EXCEPT ![t] = c[t] - 1]
        /\ l.event_loop_thread = lf.event_loop_thread
    BY <1>1, <1>4, <2>1
  <2>3. /\ c[t] - 1 = c[t] + (-1)
        /\ lf.client_thread_is_leader - 1 = lf.client_thread_is_leader + (-1)
        /\ lf.event_loop_thread = [lf.event_loop_thread EXCEPT ![t] = lf.event_loop_thread[t] + 0]
    BY <1>2
  <2> HIDE DEF c
  <2>4. Terms(lf, l, t, 0, -1)
    BY <2>2, <2>3 DEF Terms, c
  <2>5. QED BY <1>4, <1>5, <1>6, <2>2, <2>4 DEF StepsDown, c, l, m
<1>7. CASE ~(c[t] > 0)
  <2>1. d = 0 /\ c[t] = 0
    BY <1>2, <1>7
  <2> HIDE DEF d
  <2>2. c = [c EXCEPT ![t] = c[t] - 0]
    BY <1>2
  <2>3. SameLead(lf, l)
    BY <1>1, <1>2, <1>4, <2>1, <2>2 DEF SameLead
  <2>4. QED BY <1>4, <1>5, <2>1, <2>3 DEF StepsDown, c, l, m
<1>8. QED
  BY <1>6, <1>7

LEMMA WaitStepsDo ==
  ASSUME NEW t \in Threads, InOrder(t),
         WaitForEvent(t) \/ Yielded(t) \/ LeaveReactor(t)
  PROVE  Waits(t) \/ Yields(t)
<1>1. lf \in LFs /\ stack \in [Threads -> Seq(Calls)]
  BY DEF InOrder, Typed
<1>2. At(t) \in {"sent", "yielding", "leaving"} /\ At(t) \in Waiting /\ At(t) # "application"
  BY DEF WaitForEvent, Yielded, LeaveReactor, Waiting
<1>3. Top(t) \in Calls
  BY <1>1, <1>2, Innermost
<1>4. ASSUME NEW l \in LFs, WaitLoop(t, Top(t), l)
      PROVE  Waited(t, l)
  <2>1. \/ Follow(t, Top(t), l) /\ leader_available(l)
        \/ Lead(t, Top(t), l) /\ ~leader_available(l)
        \/ Finish(t, l)
    BY <1>4 DEF WaitLoop
  <2>2. QED BY <1>2, <1>3, <2>1, WaitLoopDoes
<1>5. CASE WaitForEvent(t)
  <2> DEFINE l == set_client_thread(lf, t)
  <2>1. At(t) = "sent" /\ WaitLoop(t, Top(t), l)
    BY <1>5 DEF WaitForEvent
  <2>2. /\ l \in LFs /\ SameRest(lf, l)
        /\ l.client_thread_is_leader = lf.client_thread_is_leader
        /\ l.client_leader_thread = lf.client_leader_thread
        /\ l.event_loop_thread = lf.event_loop_thread
        /\ l.clients = lf.clients + 1
        /\ l.event_loop_done =
             (lf.event_loop_done /\ ~(lf.clients = 0 /\ lf.has_shutdown /\ ~DropReplies))
    BY <1>1, ClientThreadFacts
  <2> HIDE DEF l
  <2>3. Opens(lf, l) /\ SameWaits(lf, l) /\ l.deferred = lf.deferred
    BY <2>2 DEF Opens, SameFlags, SameRest, SameWaits
  <2>4. Terms(lf, l, t, 0, 0)
    <3>1. Terms(lf, lf, t, 0, 0)
      BY <1>1, SameLeadTerms DEF SameLead
    <3>2. QED BY <2>2, <3>1 DEF Terms
  <2>5. QED BY <1>4, <2>1, <2>2, <2>3, <2>4 DEF Waits
<1>6. CASE Yielded(t)
  <2>1. At(t) = "yielding" /\ WaitLoop(t, Top(t), lf)
    BY <1>6 DEF Yielded
  <2>2. QED BY <1>1, <1>4, <2>1 DEF Waits
<1>7. CASE LeaveReactor(t)
  <2> DEFINE l == [reset_client_leader_thread(lf, t) EXCEPT !.deferred = 0]
  <2>1. At(t) = "leaving"
    BY <1>7 DEF LeaveReactor
  <2>2. StepsDown(t, l)
    BY <1>1, <2>1, StepsDownFacts
  <2>3. \/ lf' = elect_new_leader(l) /\ stack' = SetTop(t, [Top(t) EXCEPT !.at = "yielding"])
        \/ /\ l.event_loop_threads_waiting = {} \/ l.leaders # 0
           /\ WaitLoop(t, Top(t), l)
    BY <1>7 DEF LeaveReactor, leader_available
  <2> HIDE DEF l
  <2>4. l \in LFs
    BY <2>2 DEF StepsDown
  <2>5. CASE /\ l.event_loop_threads_waiting = {} \/ l.leaders # 0
             /\ WaitLoop(t, Top(t), l)
    BY <1>4, <2>2, <2>4, <2>5 DEF Waits
  <2>6. CASE lf' = elect_new_leader(l) /\ stack' = SetTop(t, [Top(t) EXCEPT !.at = "yielding"])
    <3> DEFINE c == [Top(t) EXCEPT !.at = "yielding"]
    <3>1. c \in Calls /\ c.at = "yielding" /\ stack' = SetTop(t, c)
      BY <1>3, <2>6 DEF Calls, Waiting
    <3> HIDE DEF c
    <3>2. At(t)' = "yielding"
      BY <1>1, <1>2, <3>1, TopMoves
    <3>3. QED BY <2>2, <2>4, <2>6, <3>2 DEF Yields
  <2>7. QED BY <2>3, <2>5, <2>6
<1>8. QED
  BY <1>5, <1>6, <1>7

\* A follower returns.
Leaves(t) ==
  /\ At(t) = "follower" /\ At(t)' \in {"application", "upcall"}
  /\ Closes(lf, lf') /\ Terms(lf, lf', t, 0, 0) /\ lf'.deferred = lf.deferred

LEMMA LeaveFollowerDoes ==
  ASSUME NEW t \in Threads, InOrder(t), At(t) = "follower",
         NEW m \in LFs, SameBooks(lf, m), lf' = LeaveFollower(m, t), stack' = Pop(t)
  PROVE  Leaves(t) /\ lf'.leaders >= lf.leaders
<1> DEFINE k == [m EXCEPT !.woken = @ \ {t}]
           l == remove_follower(k, t)
<1>1. k \in LFs /\ SameBooks(m, k)
  BY DEF LFs, SameBooks
<1> HIDE DEF k
<1>2. l \in LFs /\ SameBooks(k, l)
  BY <1>1, SignalFacts
<1>3. lf' = reset_client_thread(l, t)
  BY DEF LeaveFollower, k
<1> HIDE DEF l
<1>4. SameBooks(lf, l)
  BY <1>1, <1>2 DEF SameBooks
<1>5. /\ lf' \in LFs /\ SameRest(l, lf')
      /\ lf'.leaders = l.leaders + IF Leads(l, t) THEN 1 ELSE 0
      /\ lf'.client_thread_is_leader = l.client_thread_is_leader
      /\ lf'.client_leader_thread = l.client_leader_thread
      /\ lf'.event_loop_thread = l.event_loop_thread
      /\ lf'.clients = l.clients - 1
      /\ lf'.event_loop_done = (l.event_loop_done \/ (l.clients = 1 /\ l.has_shutdown))
  BY <1>2, <1>3, ClientThreadFacts
<1>6. lf \in LFs /\ lf.leaders \in Int
  BY DEF InOrder, Typed, LFs
<1>7. lf'.leaders >= lf.leaders
  BY <1>4, <1>5, <1>6 DEF SameBooks
<1>8. Closes(lf, lf') /\ lf'.deferred = lf.deferred
  BY <1>4, <1>5 DEF Closes, SameFlags, SameBooks, SameRest
<1>9. Terms(lf, lf', t, 0, 0)
  <2>1. Terms(lf, lf, t, 0, 0)
    BY <1>6, SameLeadTerms DEF SameLead
  <2>2. QED BY <1>4, <1>5, <2>1 DEF Terms, SameBooks
<1>10. At(t)' \in {"application", "upcall"}
  BY PopMoves
<1>11. QED
  BY <1>7, <1>8, <1>9, <1>10 DEF Leaves

LEMMA FollowerStepsDo ==
  ASSUME NEW t \in Threads, InOrder(t),
         FollowerWakes(t) \/ FollowerTimesOut(t) \/ FollowerWaitFails(t)
  PROVE  Waits(t) \/ Leaves(t)
<1>1. lf \in LFs /\ stack \in [Threads -> Seq(Calls)]
  BY DEF InOrder, Typed
<1>2. At(t) = "follower" /\ At(t) \in Waiting /\ At(t) # "application"
  BY DEF FollowerWakes, FollowerTimesOut, FollowerWaitFails, Waiting
<1>3. Top(t) \in Calls
  BY <1>1, <1>2, Innermost
<1>4. /\ elect_new_leader(lf) \in LFs /\ SameBooks(lf, elect_new_leader(lf))
      /\ SameBooks(lf, lf)
  BY <1>1, ElectFacts DEF SameBooks
<1>5. CASE FollowerTimesOut(t) \/ FollowerWaitFails(t)
  <2>1. PICK m \in {lf, elect_new_leader(lf)} : lf' = LeaveFollower(m, t) /\ stack' = Pop(t)
    BY <1>5 DEF FollowerTimesOut, FollowerWaitFails
  <2>2. m \in LFs /\ SameBooks(lf, m)
    BY <1>1, <1>4
  <2>3. QED BY <1>2, <2>1, <2>2, LeaveFollowerDoes
<1>6. CASE FollowerWakes(t)
  <2> DEFINE k == [lf EXCEPT !.woken = @ \ {t}]
             l == remove_follower(k, t)
  <2>1. \/ Follow(t, Top(t), l) /\ leader_available(l)
        \/ Lead(t, Top(t), l) /\ ~leader_available(l)
        \/ lf' = LeaveFollower(lf, t) /\ stack' = Pop(t)
    BY <1>6 DEF FollowerWakes
  <2>2. k \in LFs /\ SameBooks(lf, k)
    BY <1>1 DEF LFs, SameBooks
  <2> HIDE DEF k
  <2>3. l \in LFs /\ SameBooks(k, l)
    BY <2>2, SignalFacts
  <2> HIDE DEF l
  <2>4. SameLead(lf, l) /\ Stays(lf, l) /\ l.deferred = lf.deferred
    BY <2>2, <2>3 DEF SameBooks, SameLead, Stays, SameFlags
  <2>5. CASE lf' = LeaveFollower(lf, t) /\ stack' = Pop(t)
    BY <1>1, <1>2, <1>4, <2>5, LeaveFollowerDoes
  <2>6. CASE \/ Follow(t, Top(t), l) /\ leader_available(l)
             \/ Lead(t, Top(t), l) /\ ~leader_available(l)
    <3>1. Waited(t, l)
      BY <1>2, <1>3, <2>3, <2>6, WaitLoopDoes
    <3>2. At(t)' \in {"follower", "leading"}
      <4>1. PICK a \in {"follower", "leading"} : stack' = SetTop(t, [Top(t) EXCEPT !.at = a])
        BY <2>6 DEF Follow, Lead
      <4> DEFINE c == [Top(t) EXCEPT !.at = a]
      <4>2. c \in Calls /\ c.at = a /\ stack' = SetTop(t, c)
        BY <1>3, <4>1 DEF Calls, Waiting
      <4> HIDE DEF c
      <4>3. QED BY <1>1, <1>2, <4>2, TopMoves
    <3>3. QED BY <1>2, <2>3, <2>4, <3>1, <3>2 DEF Waits
  <2>7. QED BY <2>1, <2>5, <2>6
<1>7. QED
  BY <1>5, <1>6

\* A thread enters the event loop,
Enters(t) ==
  /\ At(t) \in {"starting", "entering"} /\ At(t)' = "running"
  /\ lf.client_thread_is_leader = 0 \/ lf.client_leader_thread[t] > 0
  /\ Terms(lf, lf', t, 1, 0) /\ Stays(lf, lf') /\ lf'.deferred = lf.deferred

\* ends an iteration,
Ends(t) ==
  /\ At(t) = "ended" /\ At(t)' \in {"loop", "application", "upcall"}
  /\ \/ lf.event_loop_thread[t] > 0 /\ Terms(lf, lf', t, -1, 0)
     \/ lf.event_loop_thread[t] = 0 /\ Terms(lf, lf', t, 0, 0)
  /\ Elects /\ Stays(lf, lf') /\ lf'.deferred = lf.deferred

\* gives up its leadership for the upcall of a request,
Abdicating(t) ==
  /\ At(t) \in {"leading", "running"} /\ At(t)' = "upcall"
  /\ \/ lf.event_loop_thread[t] > 0 /\ Terms(lf, lf', t, -1, 0)
     \/ /\ lf.event_loop_thread[t] = 0 /\ lf.client_leader_thread[t] = 1
        /\ Terms(lf, lf', t, 0, -1)
  /\ Elects /\ Stays(lf, lf') /\ lf'.deferred = lf.deferred

\* or moves without a change of its leadership.
QuietMove(t) ==
  \/ /\ At(t) \in {"application", "upcall", "loop", "starting"}
     /\ At(t)' \notin {"follower", "failed", "yielding"}
     /\ At(t)' = "entering" => lf.client_thread_is_leader > 0
     /\ lf'.woken = lf.woken
  \/ At(t) = "failed" /\ At(t)' \in {"application", "upcall"} /\ Elects
  \/ At(t) = "entering" /\ At(t)' = "failed"
  \/ At(t) = "entering" /\ At(t)' = "entering" /\ lf.client_thread_is_leader > 0
  \/ At(t) = "leading" /\ At(t)' \in Leading
  \/ At(t) = "running" /\ At(t)' = "ended"
  \/ OutsideChanges /\ At(t) \in {"application", "upcall"} /\ At(t)' = At(t)
  \/ /\ At(t) \in {"leading", "running"} /\ At(t)' = "upcall"
     /\ Handlers \/ (lf.event_loop_thread[t] = 0 /\ lf.client_leader_thread[t] # 1)

Quietly(t) ==
  /\ SameLead(lf, lf') /\ Stays(lf, lf')
  /\ lf'.deferred = lf.deferred \/ At(t) = "leading"
  /\ QuietMove(t)

LEMMA SameQuietly ==
  ASSUME NEW t, lf' = lf, QuietMove(t)
  PROVE  Quietly(t)
BY DEF Quietly, SameLead, Stays, SameFlags

LEMMA CallDoes ==
  ASSUME NEW t \in Threads, InOrder(t), NEW timed \in BOOLEAN,
         Invoke(t, timed) \/ Run(t, timed)
  PROVE  Quietly(t)
<1>1. stack \in [Threads -> Seq(Calls)]
  BY DEF InOrder, Typed
<1>2. PICK a \in {"sent", "loop"} : stack' = Push(t, Call(a, timed))
  BY DEF Invoke, Run
<1>3. At(t) \in {"application", "upcall"} /\ lf' = lf
  BY DEF Invoke, Run, MayCall, InApplication
<1>4. Call(a, timed) \in Calls /\ Call(a, timed).at = a
  BY DEF Call, Calls, Waiting, Looping, States, Results
<1>5. At(t)' = a
  BY <1>1, <1>2, <1>4, PushMoves
<1>6. QED
  BY <1>3, <1>5, SameQuietly DEF QuietMove

LEMMA LoopStepsDo ==
  ASSUME NEW t \in Threads, InOrder(t),
         \/ StartIteration(t) \/ FailIteration(t)
         \/ \E again \in BOOLEAN : EndIteration(t, again)
  PROVE  Quietly(t) \/ Ends(t)
<1>1. stack \in [Threads -> Seq(Calls)] /\ lf \in LFs
  BY DEF InOrder, Typed
<1>2. /\ At(t) \in {"loop", "failed", "ended"}
      /\ At(t) \notin {"application", "upcall"}
      /\ {"starting", "loop"} \subseteq Looping
  BY DEF StartIteration, FailIteration, EndIteration, Looping
<1>3. ASSUME stack' = Pop(t) PROVE At(t)' \in {"application", "upcall"}
  BY <1>2, <1>3, PopMoves
<1>4. CASE StartIteration(t)
  <2>1. /\ At(t) = "loop" /\ lf' = lf
        /\ stack' = Pop(t) \/ stack' = SetTop(t, [Top(t) EXCEPT !.at = "starting"])
    BY <1>4 DEF StartIteration
  <2>2. At(t)' \in {"application", "upcall", "starting"}
    <3>1. CASE stack' = SetTop(t, [Top(t) EXCEPT !.at = "starting"])
      BY <1>1, <1>2, <3>1, LoopMoves
    <3>2. QED BY <1>3, <2>1, <3>1
  <2>3. QED BY <2>1, <2>2, SameQuietly DEF QuietMove
<1>5. CASE FailIteration(t)
  <2>1. At(t) = "failed" /\ lf' = elect_new_leader(lf) /\ stack' = Pop(t)
    BY <1>5 DEF FailIteration
  <2>2. At(t)' \in {"application", "upcall"}
    BY <1>3, <2>1
  <2>3. SameLead(lf, lf') /\ Stays(lf, lf') /\ lf'.deferred = lf.deferred
    BY <1>1, <2>1, ElectSame
  <2>4. Elects
    BY <1>1, <2>1 DEF Elects, SameWaits
  <2>5. QED BY <2>1, <2>2, <2>3, <2>4 DEF Quietly, QuietMove
<1>6. CASE \E again \in BOOLEAN : EndIteration(t, again)
  <2> DEFINE l == reset_event_loop_thread(lf, t)
             e == lf.event_loop_thread
             d == IF e[t] > 0 THEN 1 ELSE 0
  <2>1. /\ At(t) = "ended" /\ lf' = elect_new_leader(l)
        /\ stack' = Pop(t) \/ stack' = SetTop(t, [Top(t) EXCEPT !.at = "loop"])
    BY <1>6 DEF EndIteration
  <2>2. At(t)' \in {"application", "upcall", "loop"}
    <3>1. CASE stack' = SetTop(t, [Top(t) EXCEPT !.at = "loop"])
      BY <1>1, <1>2, <3>1, LoopMoves
    <3>2. QED BY <1>3, <2>1, <3>1
  <2>3. /\ l \in LFs /\ SameRest(lf, l) /\ l.clients = lf.clients
        /\ l.event_loop_done = lf.event_loop_done
        /\ l.client_thread_is_leader = lf.client_thread_is_leader
        /\ l.client_leader_thread = lf.client_leader_thread
        /\ l.event_loop_thread = [e EXCEPT ![t] = e[t] - d]
    BY <1>1, EventLoopFacts
  <2> HIDE DEF l
  <2>4. SameLead(l, lf') /\ Stays(l, lf') /\ lf'.deferred = l.deferred
    BY <2>1, <2>3, ElectSame
  <2>5. Stays(lf, lf') /\ lf'.deferred = lf.deferred /\ SameWaits(lf, l)
    BY <2>3, <2>4 DEF Stays, SameFlags, SameRest, SameWaits
  <2>6. Elects
    BY <2>1, <2>3, <2>5 DEF Elects
  <2>7. /\ e[t] \in Nat /\ lf.client_thread_is_leader \in Int
        /\ lf.client_leader_thread \in [Threads -> Nat]
    BY <1>1 DEF LFs
  <2>8. Terms(lf, lf', t, 0 - d, 0)
    <3>1. d \in Int /\ e[t] - d = e[t] + (0 - d)
      BY <2>7
    <3>2. /\ lf.client_thread_is_leader + 0 = lf.client_thread_is_leader
          /\ lf.client_leader_thread =
               [lf.client_leader_thread EXCEPT ![t] = lf.client_leader_thread[t] + 0]
      BY <2>7
    <3> HIDE DEF d
    <3>3. QED BY <2>3, <2>4, <3>1, <3>2 DEF Terms, SameLead
  <2>9. \/ e[t] > 0 /\ Terms(lf, lf', t, -1, 0)
        \/ e[t] = 0 /\ Terms(lf, lf', t, 0, 0)
    <3>1. CASE e[t] > 0
      <4>1. 0 - d = -1
        BY <3>1
      <4> HIDE DEF d
      <4>2. QED BY <2>8, <3>1, <4>1
    <3>2. CASE e[t] = 0
      <4>1. 0 - d = 0
        BY <3>2
      <4> HIDE DEF d
      <4>2. QED BY <2>8, <3>2, <4>1
    <3>3. QED BY <2>7, <3>1, <3>2
  <2>10. QED BY <2>1, <2>2, <2>5, <2>6, <2>9 DEF Ends
<1>7. QED
  BY <1>4, <1>5, <1>6

LEMMA EnterDoes ==
  ASSUME NEW t \in Threads, InOrder(t), At(t) \in {"starting", "entering"},
         NEW l \in LFs, SameCounters(lf, l), SameFlags(lf, l), l.deferred = lf.deferred,
         l.event_loop_done = lf.event_loop_done,
         lf.client_thread_is_leader = 0 \/ lf.client_leader_thread[t] > 0,
         lf' = set_event_loop_thread(l, t),
         stack' = SetTop(t, [Top(t) EXCEPT !.at = "running"])
  PROVE  Enters(t)
<1>1. lf \in LFs /\ stack \in [Threads -> Seq(Calls)]
  BY DEF InOrder, Typed
<1>2. At(t)' = "running"
  <2>1. "running" \in Looping /\ At(t) # "application"
    BY DEF Looping
  <2>2. QED BY <1>1, <2>1, LoopMoves
<1>3. /\ lf' \in LFs /\ SameRest(l, lf') /\ lf'.clients = l.clients
      /\ lf'.event_loop_done = l.event_loop_done
      /\ lf'.client_thread_is_leader = l.client_thread_is_leader
      /\ lf'.client_leader_thread = l.client_leader_thread
      /\ lf'.event_loop_thread = [l.event_loop_thread EXCEPT ![t] = l.event_loop_thread[t] + 1]
  BY EventLoopFacts
<1>4. Stays(lf, lf') /\ lf'.deferred = lf.deferred
  BY <1>3 DEF SameRest, SameCounters, Stays, SameFlags
<1>5. Terms(lf, lf', t, 1, 0)
  <2>1. /\ lf.client_thread_is_leader \in Int
        /\ lf.client_leader_thread \in [Threads -> Nat]
    BY <1>1 DEF LFs
  <2>2. /\ lf.client_thread_is_leader + 0 = lf.client_thread_is_leader
        /\ lf.client_leader_thread =
             [lf.client_leader_thread EXCEPT ![t] = lf.client_leader_thread[t] + 0]
    BY <2>1
  <2>3. QED BY <1>3, <2>2 DEF Terms, SameCounters
<1>6. QED
  BY <1>2, <1>4, <1>5 DEF Enters

LEMMA EnterStepsDo ==
  ASSUME NEW t \in Threads, InOrder(t),
         EnterEventLoop(t) \/ EnteringWakes(t) \/ EnteringFails(t)
  PROVE  Quietly(t) \/ Enters(t)
<1>1. stack \in [Threads -> Seq(Calls)] /\ lf \in LFs
  BY DEF InOrder, Typed
<1>2. At(t) \in {"starting", "entering"} /\ At(t) # "application"
  BY DEF EnterEventLoop, EnteringWakes, EnteringFails
<1>3. {"entering", "running", "failed"} \subseteq Looping
  BY DEF Looping
<1> DEFINE W == lf.event_loop_threads_waiting
           K == lf.woken
<1>4. W \in SUBSET Threads /\ K \in SUBSET Threads
  BY <1>1 DEF LFs
<1>5. ASSUME NEW X \in SUBSET Threads, NEW Y \in SUBSET Threads, NEW m, m = Waiters(lf, X, Y)
      PROVE  /\ m \in LFs /\ SameCounters(lf, m) /\ SameFlags(lf, m) /\ m.deferred = lf.deferred
             /\ m.event_loop_done = lf.event_loop_done
             /\ SameLead(lf, m) /\ Stays(lf, m) /\ m.woken = Y
  <2>1. /\ m \in LFs /\ m.event_loop_threads_waiting = X /\ m.woken = Y
        /\ SameCounters(lf, m)
        /\ m.follower_set = lf.follower_set /\ m.deferred = lf.deferred
        /\ m.has_shutdown = lf.has_shutdown
        /\ m.reactor_shutdown = lf.reactor_shutdown
        /\ m.event_loop_done = lf.event_loop_done
    BY <1>1, <1>5, WaitingFacts
  <2>2. QED BY <2>1 DEF SameCounters, SameFlags, SameLead, Stays
<1>6. CASE EnterEventLoop(t)
  <2>1. CASE /\ lf' = set_event_loop_thread(lf, t)
             /\ lf.client_thread_is_leader = 0 \/ lf.client_leader_thread[t] > 0
             /\ stack' = SetTop(t, [Top(t) EXCEPT !.at = "running"])
    BY <1>1, <1>2, <2>1, EnterDoes DEF SameCounters, SameFlags
  <2>2. CASE /\ lf' = [lf EXCEPT !.event_loop_threads_waiting = @ \cup {t}]
             /\ lf.client_thread_is_leader > 0
             /\ stack' = SetTop(t, [Top(t) EXCEPT !.at = "entering"])
    <3> DEFINE X == W \cup {t}
    <3>1. At(t) = "starting" /\ At(t)' = "entering"
      BY <1>1, <1>2, <1>3, <1>6, <2>2, LoopMoves DEF EnterEventLoop
    <3>2. X \in SUBSET Threads /\ lf' = Waiters(lf, X, K)
      BY <1>1, <1>4, <2>2 DEF LFs, Waiters
    <3> HIDE DEF X, K
    <3>3. SameLead(lf, lf') /\ Stays(lf, lf') /\ lf'.deferred = lf.deferred /\ lf'.woken = K
      BY <1>4, <1>5, <3>2
    <3>4. QED BY <2>2, <3>1, <3>3 DEF Quietly, QuietMove, K
  <2>3. QED BY <1>6, <2>1, <2>2 DEF EnterEventLoop
<1>7. CASE EnteringFails(t)
  <2> DEFINE X == W \ {t}
             Y == K \ {t}
  <2>1. /\ At(t) = "entering" /\ lf' = Waiters(lf, X, Y)
        /\ stack' = SetTop(t, [Top(t) EXCEPT !.at = "failed"])
    BY <1>7 DEF EnteringFails, Waiters
  <2>2. At(t)' = "failed"
    BY <1>1, <1>2, <1>3, <2>1, LoopMoves
  <2>3. X \in SUBSET Threads /\ Y \in SUBSET Threads
    BY <1>4
  <2> HIDE DEF X, Y
  <2>4. SameLead(lf, lf') /\ Stays(lf, lf') /\ lf'.deferred = lf.deferred
    BY <1>5, <2>1, <2>3
  <2>5. QED BY <2>1, <2>2, <2>4 DEF Quietly, QuietMove
<1>8. CASE EnteringWakes(t)
  <2> DEFINE X == W \ {t}
             Y == K \ {t}
             k == [lf EXCEPT !.woken = @ \ {t}]
             l == [k EXCEPT !.event_loop_threads_waiting = @ \ {t}]
  <2>1. At(t) = "entering" /\ k.client_thread_is_leader = lf.client_thread_is_leader
    BY <1>1, <1>8 DEF EnteringWakes, LFs
  <2>2. \/ lf.client_thread_is_leader > 0 /\ lf' = k /\ stack' = stack
        \/ /\ lf.client_thread_is_leader = 0 /\ lf' = set_event_loop_thread(l, t)
           /\ stack' = SetTop(t, [Top(t) EXCEPT !.at = "running"])
    BY <1>8, <2>1 DEF EnteringWakes
  <2>3. k = Waiters(lf, W, Y) /\ l = Waiters(lf, X, Y)
    BY <1>1 DEF LFs, Waiters
  <2>4. X \in SUBSET Threads /\ Y \in SUBSET Threads
    BY <1>4
  <2> HIDE DEF X, Y, k, l, W
  <2>5. CASE lf.client_thread_is_leader > 0 /\ lf' = k /\ stack' = stack
    <3>1. At(t)' = "entering"
      BY <2>1, <2>5 DEF At
    <3>2. SameLead(lf, k) /\ Stays(lf, k) /\ k.deferred = lf.deferred
      BY <1>4, <1>5, <2>3, <2>4
    <3>3. QED BY <2>1, <2>5, <3>1, <3>2 DEF Quietly, QuietMove
  <2>6. CASE /\ lf.client_thread_is_leader = 0 /\ lf' = set_event_loop_thread(l, t)
             /\ stack' = SetTop(t, [Top(t) EXCEPT !.at = "running"])
    <3>1. /\ l \in LFs /\ SameCounters(lf, l) /\ SameFlags(lf, l) /\ l.deferred = lf.deferred
          /\ l.event_loop_done = lf.event_loop_done
      BY <1>5, <2>3, <2>4
    <3>2. QED BY <1>2, <2>6, <3>1, EnterDoes
  <2>7. QED BY <2>2, <2>5, <2>6
<1>9. QED
  BY <1>6, <1>7, <1>8

LEMMA AbdicateTerms ==
  ASSUME NEW l \in LFs, NEW t \in Threads,
         l.event_loop_thread[t] > 0 \/ l.client_leader_thread[t] = 1
  PROVE  LET m == Abdicates(l, t)
         IN  /\ m \in LFs /\ SameWaits(l, m) /\ Stays(l, m) /\ m.deferred = l.deferred
             /\ \/ l.event_loop_thread[t] > 0 /\ Terms(l, m, t, -1, 0)
                \/ /\ l.event_loop_thread[t] = 0 /\ l.client_leader_thread[t] = 1
                   /\ Terms(l, m, t, 0, -1)
<1> DEFINE e == l.event_loop_thread
           c == l.client_leader_thread
           n == l.client_thread_is_leader
           m == Abdicates(l, t)
<1>1. /\ e \in [Threads -> Nat] /\ c \in [Threads -> Nat] /\ n \in Int
      /\ e[t] \in Nat /\ c[t] \in Nat
  BY DEF LFs
<1>2. /\ e = [e EXCEPT ![t] = e[t] + 0] /\ c = [c EXCEPT ![t] = c[t] + 0] /\ n + 0 = n
      /\ e[t] - 1 = e[t] + (-1) /\ c[t] - 1 = c[t] + (-1) /\ n - 1 = n + (-1)
  BY <1>1
<1>3. CASE e[t] > 0
  <2> DEFINE d == IF e[t] > 0 THEN 1 ELSE 0
  <2>1. m = reset_event_loop_thread(l, t)
    BY <1>3 DEF Abdicates
  <2>2. d = 1
    BY <1>3
  <2>3. /\ m \in LFs /\ SameRest(l, m) /\ m.clients = l.clients
        /\ m.event_loop_done = l.event_loop_done
        /\ m.client_thread_is_leader = n
        /\ m.client_leader_thread = c
        /\ m.event_loop_thread = [e EXCEPT ![t] = e[t] - d]
    <3> HIDE DEF m
    <3>1. QED BY <2>1, EventLoopFacts
  <2> HIDE DEF m, d
  <2>4. SameWaits(l, m) /\ Stays(l, m) /\ m.deferred = l.deferred
    BY <2>3 DEF SameRest, SameWaits, Stays, SameFlags
  <2>5. Terms(l, m, t, -1, 0)
    BY <1>2, <2>2, <2>3 DEF Terms
  <2>6. QED BY <1>3, <2>3, <2>4, <2>5 DEF m
<1>4. CASE e[t] = 0 /\ c[t] = 1
  <2> DEFINE d == IF c[t] > 0 THEN 1 ELSE 0
  <2>1. m = reset_client_leader_thread(l, t)
    BY <1>4 DEF Abdicates
  <2>2. d = 1
    BY <1>4
  <2>3. /\ m \in LFs /\ SameRest(l, m) /\ m.clients = l.clients
        /\ m.event_loop_done = l.event_loop_done
        /\ m.client_thread_is_leader = n - d
        /\ m.event_loop_thread = e
        /\ m.client_leader_thread = [c EXCEPT ![t] = c[t] - d]
    <3> HIDE DEF m
    <3>1. QED BY <2>1, ClientLeaderFacts
  <2> HIDE DEF m, d
  <2>4. SameWaits(l, m) /\ Stays(l, m) /\ m.deferred = l.deferred
    BY <2>3 DEF SameRest, SameWaits, Stays, SameFlags
  <2>5. Terms(l, m, t, 0, -1)
    BY <1>2, <2>2, <2>3 DEF Terms
  <2>6. QED BY <1>4, <2>3, <2>4, <2>5 DEF m
<1>5. QED
  BY <1>1, <1>3, <1>4

LEMMA ReactorStepsDo ==
  ASSUME NEW t \in Threads, InOrder(t),
         \/ \E result \in Results : HandleNothing(t, result)
         \/ DeferEvent(t) \/ Upcall(t) \/ UpcallReturns(t)
  PROVE  Quietly(t) \/ Abdicating(t)
<1>1. stack \in [Threads -> Seq(Calls)] /\ lf \in LFs
  BY DEF InOrder, Typed
<1>2. /\ At(t) \in {"leading", "running", "upcall"} /\ At(t) # "application"
      /\ stack[t] # <<>> /\ Head(stack[t]).at = At(t)
  BY DEF HandleNothing, DeferEvent, Upcall, UpcallReturns, InReactor, At
<1>3. ASSUME At(t) \in {"leading", "running"}, NEW result \in Results,
             stack' = Returned(stack, lf, t, result)
      PROVE  QuietMove(t)
  <2>1. /\ Head(stack[t]).at = "running" => At(t)' = "ended"
        /\ Head(stack[t]).at # "running" =>
             \/ At(t)' = "leaving"
             \/ At(t)' = "leading" /\ lf.client_leader_thread[t] > 0
    BY <1>1, <1>2, <1>3, ReturnedMoves
  <2>2. QED BY <1>2, <1>3, <2>1 DEF QuietMove, Leading
<1>4. CASE \E result \in Results : HandleNothing(t, result)
  <2>1. PICK result \in Results : HandleNothing(t, result)
    BY <1>4
  <2>2. stack' = Returned(stack, lf, t, result) /\ lf' = lf /\ At(t) \in {"leading", "running"}
    BY <2>1 DEF HandleNothing, InReactor
  <2>3. QED BY <1>3, <2>2, SameQuietly
<1>5. CASE DeferEvent(t)
  <2> DEFINE d == lf.deferred + 1
  <2>1. /\ stack' = Returned(stack, lf, t, "events") /\ "events" \in Results
        /\ lf' = [lf EXCEPT !.deferred = d] /\ d \in 0..MaxDeferred
        /\ At(t) = "leading"
    BY <1>1, <1>5 DEF DeferEvent, Results, LFs, MaxDeferred
  <2>2. QuietMove(t)
    BY <1>3, <2>1
  <2> HIDE DEF d
  <2>3. SameLead(lf, lf') /\ Stays(lf, lf')
    BY <1>1, <2>1, DeferredFacts DEF SameLead, Stays, SameFlags
  <2>4. QED BY <2>1, <2>2, <2>3 DEF Quietly
<1>6. CASE Upcall(t)
  <2> DEFINE c == Call("upcall", FALSE)
             l == Abdicates(lf, t)
  <2>1. c \in Calls /\ c.at = "upcall" /\ stack' = Push(t, c)
    BY <1>6 DEF Upcall, Call, Calls, States, Results
  <2> HIDE DEF c
  <2>2. At(t)' = "upcall" /\ At(t) \in {"leading", "running"}
    BY <1>1, <1>6, <2>1, PushMoves DEF Upcall, InReactor
  <2>3. CASE lf' = lf /\ (Handlers \/ ~(lf.event_loop_thread[t] > 0 \/ lf.client_leader_thread[t] = 1))
    <3>1. lf.event_loop_thread[t] \in Nat
      BY <1>1 DEF LFs
    <3>2. Handlers \/ (lf.event_loop_thread[t] = 0 /\ lf.client_leader_thread[t] # 1)
      BY <2>3, <3>1
    <3>3. QED BY <2>2, <2>3, <3>2, SameQuietly DEF QuietMove
  <2>4. CASE /\ lf' = elect_new_leader(l)
             /\ lf.event_loop_thread[t] > 0 \/ lf.client_leader_thread[t] = 1
    <3>1. /\ l \in LFs /\ SameWaits(lf, l) /\ Stays(lf, l) /\ l.deferred = lf.deferred
          /\ \/ lf.event_loop_thread[t] > 0 /\ Terms(lf, l, t, -1, 0)
             \/ /\ lf.event_loop_thread[t] = 0 /\ lf.client_leader_thread[t] = 1
                /\ Terms(lf, l, t, 0, -1)
      BY <1>1, <2>4, AbdicateTerms
    <3> HIDE DEF l
    <3>2. SameLead(l, lf') /\ Stays(l, lf') /\ lf'.deferred = l.deferred
      BY <2>4, <3>1, ElectSame
    <3>3. Elects /\ Stays(lf, lf') /\ lf'.deferred = lf.deferred
      BY <2>4, <3>1, <3>2 DEF Elects, Stays, SameFlags
    <3>4. \/ lf.event_loop_thread[t] > 0 /\ Terms(lf, lf', t, -1, 0)
          \/ /\ lf.event_loop_thread[t] = 0 /\ lf.client_leader_thread[t] = 1
             /\ Terms(lf, lf', t, 0, -1)
      BY <3>1, <3>2 DEF Terms, SameLead
    <3>5. QED BY <2>2, <3>3, <3>4 DEF Abdicating
  <2>5. QED BY <1>6, <2>3, <2>4, UpcallThread DEF Upcall
<1>7. CASE UpcallReturns(t)
  <2> DEFINE st == Pop(t)
             A == Tail(Shape(stack[t]))
  <2>1. /\ At(t) = "upcall" /\ stack' = Returned(st, lf, t, "events") /\ lf' = lf
        /\ "events" \in Results
    BY <1>7 DEF UpcallReturns, Results
  <2>2. /\ stack[t] \in Seq(Calls) /\ A \in Seq(Ats) /\ Shape(stack[t]) = <<"upcall">> \o A
    BY <1>1, <1>2, <2>1, Innermost
  <2>3. A # <<>>
    <3>1. Nest(<<"upcall">> \o A) /\ "upcall" \in Ats
      BY <2>2 DEF InOrder, Orderly, Ats
    <3>2. QED BY <2>2, <3>1, NestCons
  <2>4. Tail(stack[t]) \in Seq(Calls) /\ Shape(Tail(stack[t])) = A
    BY <1>2, <2>2, ConsHeadTail, ShapeFacts
  <2>5. /\ st \in [Threads -> Seq(Calls)] /\ st[t] = Tail(stack[t])
        /\ \A u \in Threads \ {t} : st[u] = stack[u]
    BY <1>1, <2>4 DEF Pop
  <2>6. st[t] # <<>>
    BY <2>3, <2>4, <2>5, ShapeType
  <2> HIDE DEF st
  <2>7. At(t)' \in {"leading", "leaving", "ended"}
    BY <2>1, <2>5, <2>6, ReturnedMoves
  <2>8. QED BY <2>1, <2>7, SameQuietly DEF QuietMove
<1>8. QED
  BY <1>4, <1>5, <1>6, <1>7

LEMMA CompletionDoes ==
  ASSUME NEW t \in Threads, InOrder(t), NEW u \in Threads, NEW i, NEW new \in Completions,
         Dispatch(t, u, i, new) \/ ChangeOutside(t, u, i, new)
  PROVE  Quietly(t)
<1>1. stack \in [Threads -> Seq(Calls)] /\ lf \in LFs
  BY DEF InOrder, Typed
<1>2. lf' = Notified(u, i) /\ i \in 1..Len(stack[u])
  BY DEF Dispatch, ChangeOutside, Pending
<1>3. SameBooks(lf, lf')
  BY <1>1, <1>2, NotifiedFacts
<1>4. SameLead(lf, lf') /\ Stays(lf, lf') /\ lf'.deferred = lf.deferred
  BY <1>3 DEF SameBooks, SameLead, Stays, SameFlags
<1>5. QuietMove(t)
  <2>1. CASE Dispatch(t, u, i, new)
    <3>1. /\ At(t) \in {"leading", "running"}
          /\ At(t) = "running" => At(t)' = "ended"
          /\ At(t) = "leading" =>
               \/ At(t)' = "leaving"
               \/ At(t)' = "leading" /\ lf'.client_leader_thread[t] > 0
      BY <1>1, <2>1, DispatchMoves
    <3>2. QED BY <3>1 DEF QuietMove, Leading
  <2>2. CASE ChangeOutside(t, u, i, new)
    <3>1. At(t) \in {"application", "upcall"} /\ OutsideChanges /\ stack' = Changed(u, i, new)
      BY <2>2 DEF ChangeOutside, InApplication
    <3>2. At(t)' = At(t)
      <4>1. /\ stack' \in [Threads -> Seq(Calls)] /\ Shape(stack'[t]) = Shape(stack[t])
        BY <1>1, <1>2, <3>1, ChangedFacts
      <4>2. stack[t] \in Seq(Calls) /\ stack'[t] \in Seq(Calls)
        BY <1>1, <4>1
      <4>3. At(t) = At0(stack[t]) /\ At(t)' = At0(stack'[t])
        BY DEF At, At0
      <4>4. QED BY <4>1, <4>2, <4>3, AtShape
    <3>3. QED BY <3>1, <3>2 DEF QuietMove
  <2>3. QED BY <2>1, <2>2
<1>6. QED
  BY <1>4, <1>5 DEF Quietly

\* Every step of a thread is one of these.
LEMMA StepDoes ==
  ASSUME NEW t \in Threads, InOrder(t), Step(t)
  PROVE  \/ Quietly(t) \/ Waits(t) \/ Yields(t) \/ Leaves(t)
         \/ Enters(t) \/ Ends(t) \/ Abdicating(t)
<1>1. ASSUME NEW timed \in TimedCalls, Invoke(t, timed) \/ Run(t, timed)
      PROVE  Quietly(t)
  <2>1. timed \in BOOLEAN
    BY LFAssumption
  <2>2. QED BY <1>1, <2>1, CallDoes
<1>2. ASSUME NEW u \in Threads, NEW i \in Depths, NEW new \in Completions,
             Dispatch(t, u, i, new) \/ ChangeOutside(t, u, i, new)
      PROVE  Quietly(t)
  BY <1>2, CompletionDoes
<1>3. CASE WaitForEvent(t) \/ LeaveReactor(t) \/ Yielded(t)
  BY <1>3, WaitStepsDo
<1>4. CASE FollowerWakes(t) \/ FollowerTimesOut(t) \/ FollowerWaitFails(t)
  BY <1>4, FollowerStepsDo
<1>5. CASE \/ StartIteration(t) \/ FailIteration(t)
           \/ \E again \in BOOLEAN : EndIteration(t, again)
  BY <1>5, LoopStepsDo
<1>6. CASE EnterEventLoop(t) \/ EnteringWakes(t) \/ EnteringFails(t)
  BY <1>6, EnterStepsDo
<1>7. CASE \/ \E result \in Results : HandleNothing(t, result)
           \/ DeferEvent(t) \/ Upcall(t) \/ UpcallReturns(t)
  BY <1>7, ReactorStepsDo
<1>8. QED
  BY <1>1, <1>2, <1>3, <1>4, <1>5, <1>6, <1>7 DEF Step

-----------------------------------------------------------------------------
(* When the reactor is open *)

(***************************************************************************)
(* The inductive invariant of the shutdown: unless replies are dropped the *)
(* reactor is closed only after a shutdown and with no client left.        *)
(***************************************************************************)
Gated ==
  /\ lf.reactor_shutdown => lf.has_shutdown
  /\ lf.event_loop_done /\ ~DropReplies => lf.has_shutdown /\ lf.clients = 0
  /\ ReactorOpenForClients

\* The same of the state l.
GatedIn(l) ==
  /\ l.reactor_shutdown => l.has_shutdown
  /\ l.event_loop_done /\ ~DropReplies => l.has_shutdown /\ l.clients = 0
  /\ l.reactor_shutdown /\ ~DropReplies => (l.event_loop_done <=> l.clients = 0)

LEMMA GatedMoves ==
  ASSUME NEW l \in LFs, NEW m \in LFs, GatedIn(l)
  PROVE  /\ Stays(l, m) => GatedIn(m)
         /\ Opens(l, m) /\ l.clients >= 0 => GatedIn(m) /\ m.clients >= 0
         /\ Closes(l, m) /\ m.clients >= 0 => GatedIn(m)
<1>1. /\ l.clients \in Int /\ m.clients \in Int
      /\ {l.event_loop_done, m.event_loop_done, l.has_shutdown, m.has_shutdown,
          l.reactor_shutdown, m.reactor_shutdown} \subseteq BOOLEAN
  BY DEF LFs
<1>2. Stays(l, m) => GatedIn(m)
  BY DEF Stays, SameFlags, GatedIn
<1>3. Opens(l, m) /\ l.clients >= 0 => GatedIn(m) /\ m.clients >= 0
  <2> SUFFICES ASSUME Opens(l, m), l.clients >= 0 PROVE GatedIn(m) /\ m.clients >= 0
    OBVIOUS
  <2>1. m.clients # 0 /\ m.clients >= 0
    BY <1>1 DEF Opens
  <2>2. ~DropReplies => ~m.event_loop_done
    BY Zenon DEF Opens, GatedIn
  <2>3. QED BY <2>1, <2>2, Zenon DEF Opens, SameFlags, GatedIn
<1>4. Closes(l, m) /\ m.clients >= 0 => GatedIn(m)
  BY <1>1 DEF Closes, SameFlags, GatedIn
<1>5. QED
  BY <1>2, <1>3, <1>4

LEMMA GatedNext ==
  ASSUME Balanced, Gated, [Next]_vars
  PROVE  Gated'
<1>1. /\ Balanced' /\ GatedIn(lf) /\ lf \in LFs /\ lf' \in LFs
      /\ lf.clients >= 0 /\ lf'.clients >= 0
  <2>1. Balanced'
    BY BalancedNext
  <2>2. TypeOK /\ TypeOK'
    <3>1. TypeOK
      BY BalancedFacts
    <3>2. QED BY <2>1, <3>1, BalancedSoundThen DEF Sound
  <2>3. lf \in LFs /\ lf' \in LFs
    BY <2>1 DEF Balanced, Typed
  <2>4. QED BY <2>1, <2>2, <2>3 DEF Gated, GatedIn, TypeOK, ReactorOpenForClients
<1>2. SUFFICES GatedIn(lf')
  BY DEF Gated, GatedIn, ReactorOpenForClients
<1>3. ASSUME NEW t \in Threads, Step(t)
      PROVE  GatedIn(lf')
  <2>1. InOrder(t)
    BY DEF Balanced, InOrder, Typed
  <2>2. ASSUME NEW l \in LFs, GatedIn(l), Waited(t, l)
        PROVE  GatedIn(lf')
    <3>1. Stays(l, lf') \/ Closes(l, lf')
      BY <2>2 DEF Waited
    <3>2. QED BY <1>1, <2>2, <3>1, GatedMoves
  <2>3. CASE Waits(t)
    <3>1. PICK l \in LFs : /\ Waited(t, l)
                           /\ Opens(lf, l) \/ Stays(lf, l)
      BY <2>3 DEF Waits, StepsDown, Stays, SameFlags
    <3>2. GatedIn(l)
      BY <1>1, <3>1, GatedMoves
    <3>3. QED BY <2>2, <3>1, <3>2
  <2>4. CASE Yields(t)
    <3>1. PICK l \in LFs : StepsDown(t, l) /\ lf' = elect_new_leader(l)
      BY <2>4 DEF Yields
    <3>2. Stays(lf, l) /\ Stays(l, lf')
      BY <3>1, ElectSame DEF StepsDown
    <3>3. QED BY <1>1, <3>1, <3>2, GatedMoves
  <2>5. CASE Leaves(t)
    BY <1>1, <2>5, GatedMoves DEF Leaves
  <2>6. CASE Quietly(t) \/ Enters(t) \/ Ends(t) \/ Abdicating(t)
    BY <1>1, <2>6, GatedMoves DEF Quietly, Enters, Ends, Abdicating
  <2>7. QED BY <1>3, <2>1, <2>3, <2>4, <2>5, <2>6, StepDoes
<1>4. CASE Shutdown \/ ShutdownReactor
  <2>1. /\ lf'.clients = lf.clients /\ lf'.has_shutdown
        /\ Shutdown => /\ lf'.reactor_shutdown = lf.reactor_shutdown
                       /\ lf'.event_loop_done = lf.event_loop_done
        /\ ShutdownReactor =>
             /\ lf'.reactor_shutdown
             /\ lf'.event_loop_done = (lf.event_loop_done \/ DropReplies \/ lf.clients = 0)
    BY <1>1, <1>4, ShutdownFacts DEF SameCounters
  <2>2. QED BY <1>1, <1>4, <2>1 DEF GatedIn
<1>5. CASE UNCHANGED vars
  BY <1>1, <1>5 DEF vars
<1>6. QED
  BY <1>3, <1>4, <1>5 DEF Next

(***************************************************************************)
(* After shutdown_reactor, unless replies are dropped, the reactor is open *)
(* exactly as long as a client waits: set_client_thread reopens it for the *)
(* first one and reset_client_thread closes it after the last, through     *)
(* every nesting of clients, upcalls and event loops.                      *)
(***************************************************************************)
THEOREM ReactorAlwaysOpenForClients == Spec => []ReactorOpenForClients
<1>1. Init => Balanced /\ Gated
  <2>1. Init => Gated
    BY DEF Init, Gated, ReactorOpenForClients
  <2>2. QED BY <2>1, BalancedInit
<1>2. Balanced /\ Gated /\ [Next]_vars => Balanced' /\ Gated'
  BY BalancedNext, GatedNext
<1>3. Balanced /\ Gated => ReactorOpenForClients
  BY DEF Gated
<1>4. QED
  BY <1>1, <1>2, <1>3, PTL DEF Spec

-----------------------------------------------------------------------------
(* Deferred requests *)

Resumes(s) == \E i \in 1..Len(s) : s[i] \in Leading

\* Thread t still has to go through resume_events.
Resuming(t) == Resumes(Shape(stack[t]))

LEMMA ResumesCons ==
  ASSUME NEW a \in Ats, NEW r \in Seq(Ats)
  PROVE  Resumes(<<a>> \o r) <=> a \in Leading \/ Resumes(r)
<1> DEFINE s == <<a>> \o r
<1>1. /\ Len(s) = Len(r) + 1 /\ s[1] = a /\ Len(r) \in Nat
      /\ \A i \in 1..Len(r) : s[i + 1] = r[i]
  BY Cons
<1> HIDE DEF s
<1>2. ASSUME NEW i \in 1..Len(s), s[i] \in Leading
      PROVE  a \in Leading \/ Resumes(r)
  <2>1. CASE i = 1
    BY <1>1, <1>2, <2>1
  <2>2. CASE i # 1
    <3>1. i - 1 \in 1..Len(r) /\ (i - 1) + 1 = i
      BY <1>1, <2>2
    <3>2. r[i - 1] = s[i]
      BY <1>1, <3>1
    <3>3. QED BY <1>2, <3>1, <3>2 DEF Resumes
  <2>3. QED BY <2>1, <2>2
<1>3. a \in Leading => \E i \in 1..Len(s) : s[i] \in Leading
  <2>1. 1 \in 1..Len(s)
    BY <1>1
  <2>2. QED BY <1>1, <2>1
<1>4. ASSUME NEW i \in 1..Len(r), r[i] \in Leading
      PROVE  \E j \in 1..Len(s) : s[j] \in Leading
  <2>1. i + 1 \in 1..Len(s) /\ s[i + 1] = r[i]
    BY <1>1
  <2>2. QED BY <1>4, <2>1
<1>5. QED
  BY <1>2, <1>3, <1>4 DEF Resumes, s

\* The innermost call of t is replaced by one at a.
LEMMA ResumingTop ==
  ASSUME stack \in [Threads -> Seq(Calls)], NEW t \in Threads, At(t) # "application",
         NEW a \in Ats, Shape(stack'[t]) = <<a>> \o Tail(Shape(stack[t])),
         Resuming(t), At(t) \in Leading => a \in Leading
  PROVE  Resuming(t)'
<1> DEFINE B == Tail(Shape(stack[t]))
<1>1. B \in Seq(Ats) /\ Shape(stack[t]) = <<At(t)>> \o B /\ At(t) \in Ats
  BY Innermost
<1>2. Shape(stack'[t]) = <<a>> \o B
  OBVIOUS
<1> HIDE DEF B
<1>3. Resumes(<<At(t)>> \o B)
  BY <1>1 DEF Resuming
<1>4. At(t) \in Leading \/ Resumes(B)
  BY <1>1, <1>3, ResumesCons
<1>5. Resumes(<<a>> \o B)
  BY <1>1, <1>4, ResumesCons
<1>6. QED
  BY <1>2, <1>5 DEF Resuming

LEMMA ResumingMove ==
  ASSUME stack \in [Threads -> Seq(Calls)], NEW t \in Threads, At(t) \notin Leading,
         At(t) # "application", NEW c \in Calls, stack' = SetTop(t, c), Resuming(t)
  PROVE  Resuming(t)'
<1>1. stack[t] # <<>> /\ c.at \in Ats
  BY DEF At, Calls, Ats
<1>2. Shape(stack'[t]) = <<c.at>> \o Tail(Shape(stack[t]))
  BY <1>1, TopChanges DEF Changes
<1>3. QED
  BY <1>1, <1>2, ResumingTop

LEMMA ResumingPop ==
  ASSUME stack \in [Threads -> Seq(Calls)], NEW t \in Threads, At(t) \notin Leading,
         At(t) # "application", stack' = Pop(t), Resuming(t)
  PROVE  Resuming(t)'
<1> DEFINE B == Tail(Shape(stack[t]))
<1>1. B \in Seq(Ats) /\ Shape(stack[t]) = <<At(t)>> \o B /\ At(t) \in Ats /\ stack[t] # <<>>
  BY Innermost
<1>2. Shape(stack'[t]) = B
  BY <1>1, PopChanges DEF Changes
<1> HIDE DEF B
<1>3. Resumes(<<At(t)>> \o B)
  BY <1>1 DEF Resuming
<1>4. QED
  BY <1>1, <1>2, <1>3, ResumesCons DEF Resuming

LEMMA ResumingPush ==
  ASSUME stack \in [Threads -> Seq(Calls)], NEW t \in Threads, NEW c \in Calls,
         stack' = Push(t, c), Resuming(t)
  PROVE  Resuming(t)'
<1>1. c.at \in Ats /\ Shape(stack[t]) \in Seq(Ats)
  BY ShapeType DEF Calls, Ats
<1>2. Shape(stack'[t]) = <<c.at>> \o Shape(stack[t])
  BY PushChanges DEF Changes
<1>3. QED
  BY <1>1, <1>2, ResumesCons DEF Resuming

LEMMA ResumingReturned ==
  ASSUME NEW st \in [Threads -> Seq(Calls)], NEW t \in Threads, st[t] # <<>>,
         NEW l, NEW result \in Results, stack' = Returned(st, l, t, result),
         Resumes(Shape(st[t]))
  PROVE  Resuming(t)'
<1> DEFINE r == Returned(st, l, t, result)
           n == TopOf(Shape(r[t]))
           B == Tail(Shape(st[t]))
           a == Head(Shape(st[t]))
<1>1. /\ r \in [Threads -> Seq(Calls)]
      /\ \A u \in Threads \ {t} : r[u] = st[u]
      /\ Shape(r[t]) = <<n>> \o Tail(Shape(st[t])) /\ Len(r[t]) = Len(st[t])
      /\ Head(st[t]).at = "running" => n = "ended"
      /\ Head(st[t]).at # "running" =>
           n = "leaving" \/ (n = "leading" /\ l.client_leader_thread[t] > 0)
  BY ReturnedFacts
<1>2. st[t] \in Seq(Calls)
  OBVIOUS
<1>3. /\ Shape(st[t]) \in Seq(Ats) /\ Shape(st[t]) # <<>> /\ a = Head(st[t]).at
  BY <1>2, ShapeType, ShapeFacts
<1>4. Shape(st[t]) = <<a>> \o B /\ B \in Seq(Ats) /\ a \in Ats
  BY <1>3, ConsHeadTail
<1> HIDE DEF r, n, B, a
<1>5. n \in Ats /\ (a \in Leading => n \in Leading)
  BY <1>1, <1>3 DEF Ats, Leading, Waiting, Looping
<1>6. a \in Leading \/ Resumes(B)
  BY <1>4, ResumesCons
<1>7. Resumes(<<n>> \o B)
  BY <1>4, <1>5, <1>6, ResumesCons
<1>8. Shape(stack'[t]) = <<n>> \o B
  BY <1>1 DEF r, B
<1>9. QED
  BY <1>7, <1>8 DEF Resuming

LEMMA AtResuming ==
  ASSUME stack \in [Threads -> Seq(Calls)], NEW t \in Threads, At(t) \in Leading
  PROVE  Resuming(t)
<1> DEFINE B == Tail(Shape(stack[t]))
<1>1. At(t) # "application"
  BY DEF Leading
<1>2. B \in Seq(Ats) /\ Shape(stack[t]) = <<At(t)>> \o B /\ At(t) \in Ats
  BY <1>1, Innermost
<1> HIDE DEF B
<1>3. QED
  BY <1>2, ResumesCons DEF Resuming

\* Only LeaveReactor ends a client's stay in scope #5.
LEMMA StepResumes ==
  ASSUME NEW t \in Threads, InOrder(t), Step(t), Resuming(t), At(t) # "leaving"
  PROVE  Resuming(t)'
<1>1. stack \in [Threads -> Seq(Calls)] /\ lf \in LFs
  BY DEF InOrder, Typed
<1>2. stack[t] # <<>> /\ At(t) # "application" /\ Top(t) \in Calls /\ Head(stack[t]).at = At(t)
  <2>1. stack[t] # <<>>
    <3>1. stack[t] = <<>> => Shape(stack[t]) = <<>>
      BY <1>1, ShapeType
    <3>2. ~Resumes(<<>>)
      BY DEF Resumes
    <3>3. QED BY <3>1, <3>2 DEF Resuming
  <2>2. At(t) # "application"
    BY <1>1, <2>1, AtShape DEF At, At0
  <2>3. QED BY <1>1, <2>1, <2>2, Innermost DEF At
\* the innermost call is not in the reactor, and moves, or returns
<1>3. ASSUME At(t) # "leading", NEW call \in Calls, NEW a \in Ats,
             stack' = SetTop(t, [call EXCEPT !.at = a])
      PROVE  Resuming(t)'
  <2> DEFINE c == [call EXCEPT !.at = a]
  <2>1. c \in Calls /\ stack' = SetTop(t, c) /\ At(t) \notin Leading
    BY <1>3 DEF Calls, Ats, Leading
  <2> HIDE DEF c
  <2>2. QED BY <1>1, <1>2, <2>1, ResumingMove
<1>4. ASSUME At(t) # "leading", stack' = Pop(t)
      PROVE  Resuming(t)'
  <2>1. At(t) \notin Leading
    BY <1>4 DEF Leading
  <2>2. QED BY <1>1, <1>2, <1>4, <2>1, ResumingPop
<1>5. ASSUME NEW c \in Calls, stack' = Push(t, c)
      PROVE  Resuming(t)'
  BY <1>1, <1>5, ResumingPush
\* handle_events returns
<1>6. ASSUME NEW st \in [Threads -> Seq(Calls)], Shape(st[t]) = Shape(stack[t]),
             NEW l, NEW result \in Results, stack' = Returned(st, l, t, result)
      PROVE  Resuming(t)'
  <2>1. stack[t] \in Seq(Calls) /\ st[t] \in Seq(Calls)
    BY <1>1
  <2>2. st[t] # <<>>
    BY <1>2, <1>6, <2>1, ShapeType
  <2>3. Resumes(Shape(st[t]))
    BY <1>6 DEF Resuming
  <2>4. QED BY <1>6, <2>2, <2>3, ResumingReturned
<1>7. ASSUME NEW timed \in TimedCalls, Invoke(t, timed) \/ Run(t, timed)
      PROVE  Resuming(t)'
  <2>1. PICK a \in {"sent", "loop"} : stack' = Push(t, Call(a, timed))
    BY <1>7 DEF Invoke, Run
  <2>2. Call(a, timed) \in Calls
    BY LFAssumption DEF Call, Calls, Waiting, Looping, States, Results
  <2>3. QED BY <1>5, <2>1, <2>2
<1>8. ASSUME NEW l, WaitLoop(t, Top(t), l), At(t) # "leading"
      PROVE  Resuming(t)'
  <2>1. PICK a \in {"follower", "leading"} :
          stack' = SetTop(t, [Top(t) EXCEPT !.at = a]) \/ stack' = Pop(t)
    BY <1>8 DEF WaitLoop, Follow, Lead, Finish
  <2>2. a \in Ats
    BY DEF Ats, Waiting
  <2>3. QED BY <1>2, <1>3, <1>4, <1>8, <2>1, <2>2
<1>9. CASE WaitForEvent(t) \/ Yielded(t)
  <2>1. At(t) # "leading" /\ \E l : WaitLoop(t, Top(t), l)
    BY <1>9 DEF WaitForEvent, Yielded
  <2>2. QED BY <1>8, <2>1
<1>10. CASE LeaveReactor(t)
  BY <1>10 DEF LeaveReactor
<1>11. CASE FollowerWakes(t) \/ FollowerTimesOut(t) \/ FollowerWaitFails(t)
  <2>1. At(t) # "leading" /\ {"follower", "leading"} \subseteq Ats
    BY <1>11 DEF FollowerWakes, FollowerTimesOut, FollowerWaitFails, Ats, Waiting
  <2>2. PICK a \in {"follower", "leading"} :
          stack' = SetTop(t, [Top(t) EXCEPT !.at = a]) \/ stack' = Pop(t)
    BY <1>11 DEF FollowerWakes, FollowerTimesOut, FollowerWaitFails, Follow, Lead
  <2>3. QED BY <1>2, <1>3, <1>4, <2>1, <2>2
<1>12. CASE \/ StartIteration(t) \/ FailIteration(t)
            \/ \E again \in BOOLEAN : EndIteration(t, again)
  <2>1. At(t) # "leading" /\ {"starting", "loop"} \subseteq Ats
    BY <1>12 DEF StartIteration, FailIteration, EndIteration, Ats, Looping
  <2>2. PICK a \in {"starting", "loop"} :
          stack' = SetTop(t, [Top(t) EXCEPT !.at = a]) \/ stack' = Pop(t)
    BY <1>12 DEF StartIteration, FailIteration, EndIteration
  <2>3. QED BY <1>2, <1>3, <1>4, <2>1, <2>2
<1>13. CASE EnterEventLoop(t) \/ EnteringWakes(t) \/ EnteringFails(t)
  <2>1. At(t) # "leading" /\ {"entering", "running", "failed"} \subseteq Ats
    BY <1>13 DEF EnterEventLoop, EnteringWakes, EnteringFails, Ats, Looping
  <2>2. \/ stack' = stack
        \/ \E a \in {"entering", "running", "failed"} :
             stack' = SetTop(t, [Top(t) EXCEPT !.at = a])
    BY <1>13 DEF EnterEventLoop, EnteringWakes, EnteringFails
  <2>3. CASE stack' = stack
    BY <2>3 DEF Resuming
  <2>4. QED BY <1>2, <1>3, <2>1, <2>2, <2>3
<1>14. ASSUME NEW u \in Threads, NEW i \in Depths, NEW new \in Completions,
              Dispatch(t, u, i, new) \/ ChangeOutside(t, u, i, new)
       PROVE  Resuming(t)'
  <2> DEFINE st == Changed(u, i, new)
  <2>1. i \in 1..Len(stack[u])
    BY <1>14 DEF Dispatch, ChangeOutside, Pending
  <2>2. st \in [Threads -> Seq(Calls)] /\ Shape(st[t]) = Shape(stack[t])
    BY <1>1, <2>1, ChangedFacts
  <2>3. stack' = st \/ stack' = Returned(st, lf', t, "events")
    BY <1>14 DEF Dispatch, ChangeOutside
  <2> HIDE DEF st
  <2>4. CASE stack' = st
    BY <2>2, <2>4 DEF Resuming
  <2>5. CASE stack' = Returned(st, lf', t, "events")
    <3>1. "events" \in Results
      BY DEF Results
    <3>2. QED BY <1>6, <2>2, <2>5, <3>1
  <2>6. QED BY <2>3, <2>4, <2>5
<1>15. CASE DeferEvent(t) \/ \E result \in Results : HandleNothing(t, result)
  <2>1. PICK result \in Results : stack' = Returned(stack, lf, t, result)
    BY <1>15 DEF DeferEvent, HandleNothing, Results
  <2>2. QED BY <1>1, <1>6, <2>1
<1>16. CASE Upcall(t)
  <2>1. stack' = Push(t, Call("upcall", FALSE)) /\ Call("upcall", FALSE) \in Calls
    BY <1>16 DEF Upcall, Call, Calls, States, Results
  <2>2. QED BY <1>5, <2>1
<1>17. CASE UpcallReturns(t)
  <2> DEFINE st == Pop(t)
             A == Tail(Shape(stack[t]))
  <2>1. /\ At(t) = "upcall" /\ stack' = Returned(st, lf, t, "events") /\ "events" \in Results
    BY <1>17 DEF UpcallReturns, Results
  <2>2. /\ stack[t] \in Seq(Calls) /\ A \in Seq(Ats) /\ Shape(stack[t]) = <<"upcall">> \o A
    BY <1>1, <1>2, <2>1, Innermost
  <2>3. A # <<>> /\ "upcall" \in Ats
    <3>1. Nest(<<"upcall">> \o A) /\ "upcall" \in Ats
      BY <2>2 DEF InOrder, Orderly, Ats
    <3>2. QED BY <2>2, <3>1, NestCons
  <2>4. Tail(stack[t]) \in Seq(Calls) /\ Shape(Tail(stack[t])) = A
    BY <1>2, <2>2, ConsHeadTail, ShapeFacts
  <2>5. st \in [Threads -> Seq(Calls)] /\ st[t] = Tail(stack[t])
    BY <1>1, <2>4 DEF Pop
  <2>6. st[t] # <<>>
    BY <2>3, <2>4, <2>5, ShapeType
  <2>7. Resumes(A)
    <3>1. Resumes(<<"upcall">> \o A) /\ "upcall" \notin Leading
      BY <2>2 DEF Resuming, Leading
    <3> HIDE DEF A
    <3>2. QED BY <2>2, <2>3, <3>1, ResumesCons
  <2> HIDE DEF st, A
  <2>8. QED BY <2>1, <2>4, <2>5, <2>6, <2>7, ResumingReturned
<1>18. QED
  BY <1>7, <1>9, <1>10, <1>11, <1>12, <1>13, <1>14, <1>15, <1>16, <1>17 DEF Step

\* and it resumes what was deferred.
LEMMA LeavingResumes ==
  ASSUME NEW t \in Threads, InOrder(t), Step(t), At(t) = "leaving"
  PROVE  lf'.deferred = 0
<1>1. Waits(t) \/ Yields(t)
  BY StepDoes DEF Quietly, QuietMove, Leaves, Enters, Ends, Abdicating
<1>2. CASE Waits(t)
  BY <1>2 DEF Waits, Waited, StepsDown
<1>3. CASE Yields(t)
  <2>1. PICK l \in LFs : StepsDown(t, l) /\ lf' = elect_new_leader(l)
    BY <1>3 DEF Yields
  <2>2. lf'.deferred = l.deferred
    BY <2>1, ElectSame
  <2>3. QED BY <2>1, <2>2 DEF StepsDown
<1>4. QED
  BY <1>1, <1>2, <1>3

LEMMA KeepsDeferred ==
  ASSUME NEW t \in Threads, InOrder(t), Step(t), At(t) \notin Leading
  PROVE  lf'.deferred = lf.deferred
<1>1. At(t) # "leading" /\ At(t) # "leaving"
  BY DEF Leading
<1>2. CASE Waits(t)
  BY <1>1, <1>2 DEF Waits, Waited, StepsDown
<1>3. CASE Yields(t)
  BY <1>1, <1>3 DEF Yields, StepsDown
<1>4. QED
  BY <1>1, <1>2, <1>3, StepDoes DEF Quietly, Leaves, Enters, Ends, Abdicating

\* The inductive form of DeferredWillResume.
Deferring == lf.deferred > 0 => \E t \in Threads : Resuming(t)

LEMMA DeferringNext ==
  ASSUME Balanced, Deferring, [Next]_vars
  PROVE  Deferring'
<1>1. stack \in [Threads -> Seq(Calls)] /\ lf \in LFs
  BY DEF Balanced, Typed
<1>2. ASSUME NEW t \in Threads, Step(t), lf'.deferred > 0
      PROVE  \E u \in Threads : Resuming(u)'
  <2>1. InOrder(t)
    BY DEF Balanced, InOrder, Typed
  <2>2. At(t) # "leaving"
    <3>1. ~(0 > 0)
      OBVIOUS
    <3>2. QED BY <1>2, <2>1, <3>1, LeavingResumes
  <2>3. CASE Resuming(t)
    BY <1>2, <2>1, <2>2, <2>3, StepResumes
  <2>4. CASE ~Resuming(t)
    <3>1. At(t) \notin Leading
      BY <1>1, <2>4, AtResuming
    <3>2. lf'.deferred = lf.deferred
      BY <1>2, <2>1, <3>1, KeepsDeferred
    <3>3. PICK u \in Threads : Resuming(u)
      BY <1>2, <3>2 DEF Deferring
    <3>4. Shape(stack'[u]) = Shape(stack[u])
      BY <1>2, <2>4, <3>3, BalancedStep DEF Accounted
    <3>5. QED BY <3>3, <3>4 DEF Resuming
  <2>5. QED BY <2>3, <2>4
<1>3. CASE Shutdown \/ ShutdownReactor
  BY <1>1, <1>3, ShutdownFacts DEF Deferring, Resuming
<1>4. CASE UNCHANGED vars
  BY <1>4 DEF vars, Deferring, Resuming
<1>5. QED
  BY <1>2, <1>3, <1>4 DEF Next, Deferring

(***************************************************************************)
(* A request that defer_event has put off is not forgotten: the client     *)
(* leader that deferred it, or one it is nested in, has still to leave     *)
(* scope #5 of wait_for_event, where resume_events is called.              *)
(***************************************************************************)
THEOREM DeferredAlwaysResumes == Spec => []DeferredWillResume
<1>1. Init => Balanced /\ Deferring
  <2>1. Init => Deferring
    BY DEF Init, Deferring
  <2>2. QED BY <2>1, BalancedInit
<1>2. Balanced /\ Deferring /\ [Next]_vars => Balanced' /\ Deferring'
  BY BalancedNext, DeferringNext
<1>3. Balanced /\ Deferring => DeferredWillResume
  <2> SUFFICES ASSUME Balanced, Deferring, lf.deferred > 0
               PROVE  \E t \in Threads, i \in Depths :
                        i <= Len(stack[t]) /\ stack[t][i].at \in {"leading", "leaving"}
    BY DEF DeferredWillResume
  <2>1. PICK t \in Threads : Resuming(t)
    BY DEF Deferring
  <2>2. stack[t] \in Seq(Calls) /\ Len(stack[t]) <= MaxDepth
    BY DEF Balanced, Typed
  <2>3. PICK i \in 1..Len(Shape(stack[t])) : Shape(stack[t])[i] \in Leading
    BY <2>1 DEF Resuming, Resumes
  <2>4. i \in 1..Len(stack[t]) /\ stack[t][i].at \in Leading /\ Len(stack[t]) \in Nat
    BY <2>2, <2>3, ShapeType
  <2>5. i \in Depths /\ i <= Len(stack[t])
    BY <2>2, <2>4, LFAssumption DEF Depths
  <2>6. QED BY <2>4, <2>5 DEF Leading
<1>4. QED
  BY <1>1, <1>2, <1>3, PTL DEF Spec

-----------------------------------------------------------------------------
(* Leadership without handlers that make calls of their own *)

(***************************************************************************)
(* The inductive invariant of leadership: a thread leads at most once, as  *)
(* an event loop or as a client, and only while its innermost call is in   *)
(* the reactor or just out of it.                                          *)
(***************************************************************************)
AbdicatedBy(t) ==
  /\ lf.event_loop_thread[t] \in {0, 1} /\ lf.client_leader_thread[t] \in {0, 1}
  /\ lf.event_loop_thread[t] = 1 => At(t) \in Running
  /\ lf.client_leader_thread[t] = 1 => At(t) \in Leading

Abdicated == \A t \in Threads : AbdicatedBy(t)

LEMMA TermsAt ==
  ASSUME NEW l \in LFs, NEW m, NEW t \in Threads, NEW a, NEW b, Terms(l, m, t, a, b)
  PROVE  /\ m.event_loop_thread[t] = l.event_loop_thread[t] + a
         /\ m.client_leader_thread[t] = l.client_leader_thread[t] + b
         /\ m.client_thread_is_leader = l.client_thread_is_leader + b
         /\ \A u \in Threads \ {t} :
              /\ m.event_loop_thread[u] = l.event_loop_thread[u]
              /\ m.client_leader_thread[u] = l.client_leader_thread[u]
<1>1. l.event_loop_thread \in [Threads -> Nat] /\ l.client_leader_thread \in [Threads -> Nat]
  BY DEF LFs
<1>2. QED
  BY <1>1 DEF Terms

\* What the thread leads after its step.
LEMMA AbdicatedOwn ==
  ASSUME ~Handlers, NEW t \in Threads, InOrder(t), AbdicatedBy(t), Step(t)
  PROVE  AbdicatedBy(t)'
<1> DEFINE e == lf.event_loop_thread[t]
           c == lf.client_leader_thread[t]
           f == lf'.event_loop_thread[t]
           d == lf'.client_leader_thread[t]
<1>1. lf \in LFs /\ e \in {0, 1} /\ c \in {0, 1}
      /\ (e = 1 => At(t) \in Running) /\ (c = 1 => At(t) \in Leading)
  BY DEF InOrder, Typed, AbdicatedBy
<1>2. SUFFICES /\ f \in {0, 1} /\ d \in {0, 1}
               /\ (f = 1 => At(t)' \in Running) /\ (d = 1 => At(t)' \in Leading)
  BY DEF AbdicatedBy
<1>3. ASSUME NEW l \in LFs, Waited(t, l), l.event_loop_thread[t] = 0, l.client_leader_thread[t] = 0
      PROVE  f = 0 /\ (d = 0 \/ (d = 1 /\ At(t)' \in Leading))
  <2>1. CASE SameLead(l, lf')
    BY <1>3, <2>1 DEF SameLead
  <2>2. CASE At(t)' = "leading" /\ Terms(l, lf', t, 0, 1)
    <3>1. f = 0 + 0 /\ d = 0 + 1
      BY <1>3, <2>2, TermsAt
    <3>2. QED BY <2>2, <3>1 DEF Leading
  <2>3. CASE Terms(l, lf', t, 0, 0)
    <3>1. f = 0 + 0 /\ d = 0 + 0
      BY <1>3, <2>3, TermsAt
    <3>2. QED BY <3>1
  <2>4. QED BY <1>3, <2>1, <2>2, <2>3 DEF Waited
<1>4. ASSUME NEW l \in LFs, StepsDown(t, l)
      PROVE  l.event_loop_thread[t] = 0 /\ l.client_leader_thread[t] = 0
  <2>1. e = 0
    BY <1>1, <1>4 DEF StepsDown, Running
  <2>2. CASE c > 0 /\ Terms(lf, l, t, 0, -1)
    <3>1. l.event_loop_thread[t] = e + 0 /\ l.client_leader_thread[t] = c + (-1)
      BY <1>1, <2>2, TermsAt
    <3>2. QED BY <1>1, <2>1, <2>2, <3>1
  <2>3. CASE c = 0 /\ SameLead(lf, l)
    BY <2>1, <2>3 DEF SameLead
  <2>4. QED BY <1>4, <2>2, <2>3 DEF StepsDown
<1>5. CASE Waits(t)
  <2>1. PICK l \in LFs :
          /\ Waited(t, l)
          /\ \/ At(t) = "sent" /\ Terms(lf, l, t, 0, 0)
             \/ At(t) = "yielding" /\ l = lf
             \/ At(t) = "follower" /\ SameLead(lf, l)
             \/ StepsDown(t, l)
    BY <1>5 DEF Waits
  <2>2. l.event_loop_thread[t] = 0 /\ l.client_leader_thread[t] = 0
    <3>1. CASE At(t) = "sent" /\ Terms(lf, l, t, 0, 0)
      <4>1. e = 0 /\ c = 0
        BY <1>1, <3>1 DEF Running, Leading
      <4>2. l.event_loop_thread[t] = e + 0 /\ l.client_leader_thread[t] = c + 0
        BY <1>1, <3>1, TermsAt
      <4>3. QED BY <4>1, <4>2
    <3>2. CASE At(t) \in {"yielding", "follower"} /\ SameLead(lf, l)
      <4>1. e = 0 /\ c = 0
        BY <1>1, <3>2 DEF Running, Leading
      <4>2. QED BY <3>2, <4>1 DEF SameLead
    <3>3. QED BY <1>4, <2>1, <3>1, <3>2 DEF SameLead
  <2>3. QED BY <1>3, <2>1, <2>2
<1>6. CASE Yields(t)
  <2>1. PICK l \in LFs : StepsDown(t, l) /\ lf' = elect_new_leader(l)
    BY <1>6 DEF Yields
  <2>2. SameLead(l, lf')
    BY <2>1, ElectSame
  <2>3. QED BY <1>4, <2>1, <2>2 DEF SameLead
<1>7. CASE Leaves(t)
  <2>1. e = 0 /\ c = 0
    BY <1>1, <1>7 DEF Leaves, Running, Leading
  <2>2. f = e + 0 /\ d = c + 0
    BY <1>1, <1>7, TermsAt DEF Leaves
  <2>3. QED BY <2>1, <2>2
<1>8. CASE Enters(t)
  <2>1. e = 0 /\ c = 0
    BY <1>1, <1>8 DEF Enters, Running, Leading
  <2>2. f = e + 1 /\ d = c + 0
    BY <1>1, <1>8, TermsAt DEF Enters
  <2>3. QED BY <1>8, <2>1, <2>2 DEF Enters, Running
<1>9. CASE Ends(t)
  <2>1. c = 0
    BY <1>1, <1>9 DEF Ends, Leading
  <2>2. CASE e > 0 /\ Terms(lf, lf', t, -1, 0)
    <3>1. f = e + (-1) /\ d = c + 0
      BY <1>1, <2>2, TermsAt
    <3>2. QED BY <1>1, <2>1, <2>2, <3>1
  <2>3. CASE e = 0 /\ Terms(lf, lf', t, 0, 0)
    <3>1. f = e + 0 /\ d = c + 0
      BY <1>1, <2>3, TermsAt
    <3>2. QED BY <2>1, <2>3, <3>1
  <2>4. QED BY <1>9, <2>2, <2>3 DEF Ends
<1>10. CASE Abdicating(t)
  <2>1. CASE e > 0 /\ Terms(lf, lf', t, -1, 0)
    <3>1. f = e + (-1) /\ d = c + 0
      BY <1>1, <2>1, TermsAt
    <3>2. e = 1 /\ c = 0
      BY <1>1, <2>1 DEF Running, Leading
    <3>3. QED BY <3>1, <3>2
  <2>2. CASE e = 0 /\ c = 1 /\ Terms(lf, lf', t, 0, -1)
    <3>1. f = e + 0 /\ d = c + (-1)
      BY <1>1, <2>2, TermsAt
    <3>2. QED BY <2>2, <3>1
  <2>3. QED BY <1>10, <2>1, <2>2 DEF Abdicating
<1>11. CASE Quietly(t)
  <2>1. f = e /\ d = c
    BY <1>11 DEF Quietly, SameLead
  <2>2. (e = 1 => At(t)' \in Running) /\ (c = 1 => At(t)' \in Leading)
    <3>1. CASE At(t) \notin Running \cup Leading
      BY <1>1, <3>1
    <3>2. CASE At(t) = "leading" /\ At(t)' \in Leading
      BY <1>1, <3>2 DEF Running
    <3>3. CASE At(t) = "running" /\ At(t)' = "ended"
      BY <1>1, <3>3 DEF Leading, Running
    <3>4. CASE /\ At(t) \in {"leading", "running"}
               /\ e = 0 /\ c # 1
      BY <1>1, <3>4
    <3>5. QED BY <1>11, <3>1, <3>2, <3>3, <3>4 DEF Quietly, QuietMove, Leading, Running
  <2>3. QED BY <1>1, <2>1, <2>2
<1>12. QED
  BY <1>5, <1>6, <1>7, <1>8, <1>9, <1>10, <1>11, StepDoes

\* What a step of t leaves alone.
LEMMA OthersStay ==
  ASSUME Balanced, NEW t \in Threads, Step(t), NEW u \in Threads \ {t}
  PROVE  /\ At(u)' = At(u)
         /\ lf'.event_loop_thread[u] = lf.event_loop_thread[u]
         /\ lf'.client_leader_thread[u] = lf.client_leader_thread[u]
<1>1. Accounted(t)
  BY BalancedStep
<1>2. stack \in [Threads -> Seq(Calls)] /\ stack' \in [Threads -> Seq(Calls)]
      /\ Shape(stack'[u]) = Shape(stack[u])
  BY <1>1 DEF Balanced, Typed, Accounted
<1>3. At(u) = At0(stack[u]) /\ At(u)' = At0(stack'[u])
  BY DEF At, At0
<1>4. stack[u] \in Seq(Calls) /\ stack'[u] \in Seq(Calls)
  BY <1>2
<1>5. At(u)' = At(u)
  BY <1>2, <1>3, <1>4, AtShape
<1>6. QED
  BY <1>1, <1>5 DEF Accounted, Books

LEMMA AbdicatedNext ==
  ASSUME ~Handlers, Balanced, Abdicated, [Next]_vars
  PROVE  Abdicated'
<1>1. ASSUME NEW t \in Threads, Step(t), NEW u \in Threads
      PROVE  AbdicatedBy(u)'
  <2>1. CASE u = t
    <3>1. InOrder(t)
      BY DEF Balanced, InOrder, Typed
    <3>2. AbdicatedBy(t)
      BY DEF Abdicated
    <3>3. QED BY <1>1, <2>1, <3>1, <3>2, AbdicatedOwn
  <2>2. CASE u # t
    BY <1>1, <2>2, OthersStay DEF Abdicated, AbdicatedBy
  <2>3. QED BY <2>1, <2>2
<1>2. CASE Shutdown \/ ShutdownReactor
  <2>1. lf \in LFs
    BY DEF Balanced, Typed
  <2>2. QED BY <1>2, <2>1, ShutdownFacts DEF Abdicated, AbdicatedBy, At, SameCounters
<1>3. CASE UNCHANGED vars
  BY <1>3 DEF vars, Abdicated, AbdicatedBy, At
<1>4. QED
  BY <1>1, <1>2, <1>3 DEF Next, Abdicated

LEMMA AbdicatedInit == Init => Abdicated
BY DEF Init, Abdicated, AbdicatedBy

\* Then those that leaders_ counts are those that lead.
LEMMA CountedLead ==
  ASSUME Abdicated, lf \in LFs, NEW t \in Threads
  PROVE  /\ t \in Counted <=> Leads(lf, t)
         /\ t \in Counted => At(t) \in Running \cup Leading
<1>1. Leads(lf, t) => At(t) \in Running \cup Leading
  <2>1. AbdicatedBy(t)
    BY DEF Abdicated
  <2>2. QED BY <2>1 DEF AbdicatedBy, Leads
<1>2. QED
  BY <1>1 DEF Counted, Running, Leading

(***************************************************************************)
(* Leadership abdication: a thread that executes the upcall of a request   *)
(* is not counted in leaders_, however deep its calls nest.  It needs that *)
(* no other handler makes calls from the reactor (~Handlers), for which    *)
(* the code makes no call of set_upcall_thread.                            *)
(***************************************************************************)
THEOREM UpcallsAlwaysAbdicate ==
  ASSUME ~Handlers
  PROVE  Spec => []UpcallsAbdicate
<1>1. Init => Balanced /\ Abdicated
  BY BalancedInit, AbdicatedInit
<1>2. Balanced /\ Abdicated /\ [Next]_vars => Balanced' /\ Abdicated'
  BY BalancedNext, AbdicatedNext
<1>3. Balanced /\ Abdicated => UpcallsAbdicate
  <2> SUFFICES ASSUME Balanced, Abdicated, NEW t \in Threads, At(t) = "upcall", t \in Counted
               PROVE  FALSE
    BY DEF UpcallsAbdicate
  <2>1. lf \in LFs
    BY DEF Balanced, Typed
  <2>2. QED BY <2>1, CountedLead DEF Running, Leading
<1>4. QED
  BY <1>1, <1>2, <1>3, PTL DEF Spec

-----------------------------------------------------------------------------
(* A client leads alone *)

Lessens(t) ==
  /\ lf'.event_loop_thread[t] <= lf.event_loop_thread[t]
  /\ lf'.client_leader_thread[t] <= lf.client_leader_thread[t]
  /\ lf'.client_thread_is_leader - lf'.client_leader_thread[t]
       = lf.client_thread_is_leader - lf.client_leader_thread[t]

LEMMA StepTerms ==
  ASSUME NEW t \in Threads, InOrder(t), Step(t)
  PROVE  \/ At(t)' = "leading" /\ lf'.leaders = 1 /\ lf'.client_leader_thread[t] > 0
         \/ Enters(t)
         \/ Lessens(t)
<1> DEFINE e == lf.event_loop_thread[t]
           c == lf.client_leader_thread[t]
           n == lf.client_thread_is_leader
<1>1. lf \in LFs /\ e \in Nat /\ c \in Nat /\ n \in Int
  BY DEF InOrder, Typed, LFs
<1>2. ASSUME NEW l \in LFs, NEW a \in {0, -1}, NEW b \in {0, -1}, Terms(lf, l, t, a, b),
             SameLead(l, lf')
      PROVE  Lessens(t)
  <2>1. /\ l.event_loop_thread[t] = e + a /\ l.client_leader_thread[t] = c + b
        /\ l.client_thread_is_leader = n + b
    BY <1>1, <1>2, TermsAt
  <2>2. /\ lf'.event_loop_thread[t] = e + a /\ lf'.client_leader_thread[t] = c + b
        /\ lf'.client_thread_is_leader = n + b
    BY <1>2, <2>1 DEF SameLead
  <2> HIDE DEF e, c, n
  <2>3. e + a <= e /\ c + b <= c /\ (n + b) - (c + b) = n - c
    BY <1>1
  <2>4. QED BY <2>2, <2>3 DEF Lessens, e, c, n
<1>3. ASSUME NEW a \in {0, -1}, NEW b \in {0, -1}, Terms(lf, lf', t, a, b)
      PROVE  Lessens(t)
  <2>1. /\ lf'.event_loop_thread[t] = e + a /\ lf'.client_leader_thread[t] = c + b
        /\ lf'.client_thread_is_leader = n + b
    BY <1>1, <1>3, TermsAt
  <2> HIDE DEF e, c, n
  <2>2. e + a <= e /\ c + b <= c /\ (n + b) - (c + b) = n - c
    BY <1>1
  <2>3. QED BY <2>1, <2>2 DEF Lessens, e, c, n
<1>4. ASSUME NEW l, StepsDown(t, l)
      PROVE  \E b \in {0, -1} : Terms(lf, l, t, 0, b)
  BY <1>1, <1>4, SameLeadTerms DEF StepsDown
<1>5. CASE Waits(t)
  <2>1. PICK l \in LFs :
          /\ Waited(t, l)
          /\ \/ Terms(lf, l, t, 0, 0)
             \/ l = lf
             \/ SameLead(lf, l)
             \/ StepsDown(t, l)
    BY <1>5 DEF Waits
  <2>2. PICK b \in {0, -1} : Terms(lf, l, t, 0, b)
    <3>1. CASE SameLead(lf, l)
      BY <1>1, <3>1, SameLeadTerms
    <3>2. QED BY <1>4, <2>1, <3>1 DEF SameLead
  <2>3. CASE SameLead(l, lf')
    BY <1>2, <2>2, <2>3
  <2>4. CASE At(t)' = "leading" /\ lf'.leaders = 1 /\ Terms(l, lf', t, 0, 1)
    <3>1. lf'.client_leader_thread[t] = l.client_leader_thread[t] + 1
      BY <2>4, TermsAt
    <3>2. l.client_leader_thread[t] \in Nat
      BY DEF LFs
    <3>3. QED BY <2>4, <3>1, <3>2
  <2>5. CASE Terms(l, lf', t, 0, 0)
    <3>1. /\ lf'.event_loop_thread[t] = l.event_loop_thread[t] + 0
          /\ lf'.client_leader_thread[t] = l.client_leader_thread[t] + 0
          /\ lf'.client_thread_is_leader = l.client_thread_is_leader + 0
      BY <2>5, TermsAt
    <3>2. /\ l.event_loop_thread[t] = e + 0 /\ l.client_leader_thread[t] = c + b
          /\ l.client_thread_is_leader = n + b
      BY <1>1, <2>2, TermsAt
    <3> HIDE DEF e, c, n
    <3>3. /\ lf'.event_loop_thread[t] <= e /\ lf'.client_leader_thread[t] <= c
          /\ lf'.client_thread_is_leader - lf'.client_leader_thread[t] = n - c
      BY <1>1, <3>1, <3>2
    <3>4. QED BY <3>3 DEF Lessens, e, c, n
  <2>6. QED BY <2>1, <2>3, <2>4, <2>5 DEF Waited
<1>6. CASE Yields(t)
  <2>1. PICK l \in LFs : StepsDown(t, l) /\ lf' = elect_new_leader(l)
    BY <1>6 DEF Yields
  <2>2. SameLead(l, lf')
    BY <2>1, ElectSame
  <2>3. QED BY <1>2, <1>4, <2>1, <2>2
<1>7. CASE Leaves(t)
  BY <1>3, <1>7 DEF Leaves
<1>8. CASE Ends(t)
  BY <1>3, <1>8 DEF Ends
<1>9. CASE Abdicating(t)
  BY <1>3, <1>9 DEF Abdicating
<1>10. CASE Quietly(t)
  <2>1. Terms(lf, lf', t, 0, 0)
    BY <1>1, <1>10, SameLeadTerms DEF Quietly
  <2>2. QED BY <1>3, <2>1
<1>11. QED
  BY <1>5, <1>6, <1>7, <1>8, <1>9, <1>10, StepDoes

LEMMA AloneStep ==
  ASSUME ~Handlers, Balanced, Abdicated, ClientLeadsAlone, NEW t \in Threads, Step(t),
         Balanced', Abdicated'
  PROVE  ClientLeadsAlone'
<1>1. Sound' /\ Sound
  BY BalancedSound, BalancedSoundThen
<1>2. lf \in LFs /\ lf' \in LFs /\ InOrder(t)
  BY DEF Balanced, Typed, InOrder
<1>3. CASE At(t)' = "leading" /\ lf'.leaders = 1 /\ lf'.client_leader_thread[t] > 0
  <2>1. t \in Counted'
    BY <1>3 DEF Counted, Leads
  <2>2. Counted' = {t}
    <3> DEFINE X == Counted'
    <3>1. IsFiniteSet(X) /\ Cardinality(X) = 1
      <4>1. Counted' \in SUBSET Threads
        BY DEF Counted
      <4>2. IsFiniteSet(Counted')
        BY <4>1, FS_Subset, LFAssumption
      <4>3. QED BY <1>1, <1>3, <4>2 DEF Sound, LeadersCounted
    <3> HIDE DEF X
    <3>2. PICK x : X = {x}
      BY <3>1, FS_Singleton
    <3>3. QED BY <2>1, <3>2 DEF X
  <2>3. QED BY <2>2 DEF ClientLeadsAlone
<1>4. CASE Enters(t)
  <2>1. lf.client_leader_thread[t] = 0
    <3>1. AbdicatedBy(t)
      BY DEF Abdicated
    <3>2. QED BY <1>4, <3>1 DEF Enters, AbdicatedBy, Leading
  <2>2. lf.client_thread_is_leader = 0
    <3>1. ~(0 > 0)
      OBVIOUS
    <3>2. QED BY <1>4, <2>1, <3>1 DEF Enters
  <2>3. lf'.client_thread_is_leader = 0 + 0
    BY <1>2, <1>4, <2>2, TermsAt DEF Enters
  <2>4. ~(lf'.client_thread_is_leader > 0)
    BY <2>3
  <2>5. \A u \in Threads : ~(lf'.client_leader_thread[u] > 0)
    BY <1>1, <2>4 DEF Sound
  <2>6. Counted' \subseteq Threads
    BY DEF Counted
  <2>7. QED BY <2>5, <2>6 DEF ClientLeadsAlone
<1>5. CASE Lessens(t)
  <2>1. ASSUME NEW u \in Threads
        PROVE  /\ lf'.client_leader_thread[u] > 0 => lf.client_leader_thread[u] > 0
               /\ Leads(lf', u) => Leads(lf, u)
    <3>1. CASE u = t
      <4>1. /\ lf.event_loop_thread[t] \in Nat /\ lf.client_leader_thread[t] \in Nat
            /\ lf'.event_loop_thread[t] \in Nat /\ lf'.client_leader_thread[t] \in Nat
        BY <1>2 DEF LFs
      <4>2. QED BY <1>5, <3>1, <4>1 DEF Lessens, Leads
    <3>2. CASE u # t
      <4>1. /\ lf'.event_loop_thread[u] = lf.event_loop_thread[u]
            /\ lf'.client_leader_thread[u] = lf.client_leader_thread[u]
        BY <3>2, OthersStay
      <4>2. QED BY <4>1 DEF Leads
    <3>3. QED BY <3>1, <3>2
  <2>2. Counted' \subseteq Counted /\ Counted \subseteq Threads /\ Counted' \subseteq Threads
    <3>1. Counted \subseteq Threads /\ Counted' \subseteq Threads
      BY DEF Counted
    <3>2. ASSUME NEW u \in Counted' PROVE u \in Counted
      <4>1. u \in Threads /\ Leads(lf', u)
        BY <3>2 DEF Counted
      <4>2. Leads(lf, u)
        BY <2>1, <4>1
      <4>3. QED BY <1>2, <4>1, <4>2, CountedLead
    <3>3. QED BY <3>1, <3>2
  <2>3. ASSUME NEW u \in Counted', lf'.client_leader_thread[u] > 0
        PROVE  Counted' = {u}
    <3>1. u \in Counted /\ lf.client_leader_thread[u] > 0
      BY <2>1, <2>2, <2>3
    <3>2. Counted = {u}
      BY <3>1 DEF ClientLeadsAlone
    <3>3. QED BY <2>2, <2>3, <3>2
  <2>4. QED BY <2>3 DEF ClientLeadsAlone
<1>6. QED
  BY <1>2, <1>3, <1>4, <1>5, StepTerms

LEMMA AloneNext ==
  ASSUME ~Handlers, Balanced, Abdicated, ClientLeadsAlone, [Next]_vars
  PROVE  ClientLeadsAlone'
<1>1. Balanced' /\ Abdicated'
  BY BalancedNext, AbdicatedNext
<1>2. ASSUME NEW t \in Threads, Step(t) PROVE ClientLeadsAlone'
  BY <1>1, <1>2, AloneStep
<1>3. CASE Shutdown \/ ShutdownReactor \/ UNCHANGED vars
  <2>1. lf \in LFs
    BY DEF Balanced, Typed
  <2>2. SameCounters(lf, lf') /\ stack' = stack
    <3>1. CASE Shutdown \/ ShutdownReactor
      BY <2>1, <3>1, ShutdownFacts
    <3>2. CASE UNCHANGED vars
      BY <3>2 DEF vars, SameCounters
    <3>3. QED BY <1>3, <3>1, <3>2
  <2>3. Counted' = Counted
    BY <2>2 DEF Counted, SameCounters, Leads, At
  <2>4. QED BY <2>2, <2>3 DEF ClientLeadsAlone, SameCounters
<1>4. QED
  BY <1>2, <1>3 DEF Next

LEMMA AloneInit == Init => ClientLeadsAlone
<1> SUFFICES ASSUME Init PROVE ClientLeadsAlone
  OBVIOUS
<1>1. Counted = {}
  BY DEF Init, Counted, Leads
<1>2. QED
  BY <1>1 DEF ClientLeadsAlone

(***************************************************************************)
(* A client leads alone: when handle_events is run by a client leader no   *)
(* event loop thread and no other client is counted as leader beside it,   *)
(* because a client leads only when leaders_ is 0 and                      *)
(* wait_for_client_leader_to_complete keeps event loops out meanwhile.     *)
(***************************************************************************)
THEOREM ClientAlwaysLeadsAlone ==
  ASSUME ~Handlers
  PROVE  Spec => []ClientLeadsAlone
<1>1. Init => Balanced /\ Abdicated /\ ClientLeadsAlone
  BY BalancedInit, AbdicatedInit, AloneInit
<1>2. Balanced /\ Abdicated /\ ClientLeadsAlone /\ [Next]_vars
        => Balanced' /\ Abdicated' /\ ClientLeadsAlone'
  BY BalancedNext, AbdicatedNext, AloneNext
<1>3. QED
  BY <1>1, <1>2, PTL DEF Spec

-----------------------------------------------------------------------------
(* Nobody sleeps for a leader that does not come *)

\* An election that finds event loop threads waiting wakes them all.
LEMMA ElectWakes ==
  ASSUME Awake, Elects, lf'.leaders = 0, NEW u \in Entering
  PROVE  u \in lf'.woken
<1>1. PICK l \in LFs : lf' = elect_new_leader(l) /\ SameWaits(lf, l)
  BY DEF Elects
<1>2. u \in l.event_loop_threads_waiting
  BY <1>1 DEF Awake, Known, SameWaits
<1>3. l.leaders = 0
  BY <1>1, ElectSame DEF SameLead
<1>4. lf' = [l EXCEPT !.woken = @ \cup l.event_loop_threads_waiting]
  BY <1>1, <1>2, <1>3 DEF elect_new_leader, leader_available
<1>5. QED
  BY <1>2, <1>4 DEF LFs

\* The steps of t do not undo the wakeups of others.
LEMMA WakeupsStay ==
  ASSUME Balanced, Awake, NEW t \in Threads, Step(t), NEW u \in Threads \ {t}, u \in lf.woken
  PROVE  u \in lf'.woken
<1>1. InOrder(t) /\ lf \in LFs
  BY DEF Balanced, InOrder, Typed
<1>2. \/ Frame(t)
      \/ \E v \in Threads, i \in Depths, new \in Completions :
           Dispatch(t, v, i, new) \/ ChangeOutside(t, v, i, new)
  BY <1>1, AwakeSteps
<1>3. ASSUME NEW v \in Threads, NEW i \in Depths, NEW new \in Completions,
             Dispatch(t, v, i, new) \/ ChangeOutside(t, v, i, new)
      PROVE  u \in lf'.woken
  <2>1. lf' = lf \/ lf' = signal(lf, v)
    BY <1>3 DEF Dispatch, ChangeOutside, Notified
  <2>2. signal(lf, v).woken = lf.woken \cup {v}
    <3>1. /\ signal(lf, v) \in LFs /\ SameBooks(lf, signal(lf, v))
          /\ signal(lf, v).follower_set = Unlink(lf.follower_set, v)
          /\ signal(lf, v).woken = lf.woken \cup {v}
      BY <1>1, SignalFacts
    <3>2. QED BY <3>1
  <2>3. QED BY <2>1, <2>2
<1>4. QED
  BY <1>2, <1>3 DEF Frame

(***************************************************************************)
(* The inductive form of NoStrandedEventLoop.                              *)
(***************************************************************************)
Minded ==
  \A t \in Threads : At(t) = "entering" =>
    t \in lf.woken \/ lf.client_thread_is_leader > 0

LEMMA MindedStep ==
  ASSUME ~Handlers, Balanced, Awake, Abdicated, ClientLeadsAlone, Minded,
         NEW t \in Threads, Step(t), Balanced'
  PROVE  Minded'
<1>1. Sound /\ Sound'
  BY BalancedSound, BalancedSoundThen
<1>2. lf \in LFs /\ lf' \in LFs /\ InOrder(t) /\ AbdicatedBy(t)
  BY DEF Balanced, Typed, InOrder, Abdicated
<1>3. SUFFICES ASSUME NEW u \in Threads, At(u)' = "entering", u \notin lf'.woken
               PROVE  lf'.client_thread_is_leader > 0
  BY DEF Minded
<1>4. CASE u = t
  <2>1. Quietly(t)
    BY <1>2, <1>3, <1>4, StepDoes DEF Waits, Waited, Yields, Leaves, Enters, Ends, Abdicating
  <2>2. lf.client_thread_is_leader > 0
    BY <1>3, <1>4, <2>1 DEF Quietly, QuietMove, Leading
  <2>3. QED BY <2>1, <2>2 DEF Quietly, SameLead
<1>5. CASE u # t
  <2>1. At(u) = "entering" /\ u \notin lf.woken
    BY <1>3, <1>5, OthersStay, WakeupsStay
  <2>2. u \in Entering /\ lf.client_thread_is_leader > 0
    BY <2>1 DEF Entering, Minded
  <2>3. u \in lf.event_loop_threads_waiting
    BY <2>2 DEF Awake, Known
  <2>4. CASE lf'.client_leader_thread[t] > 0
    BY <1>1, <2>4 DEF Sound
  <2>5. CASE Enters(t)
    <3>1. lf'.client_thread_is_leader = lf.client_thread_is_leader + 0
      BY <2>5 DEF Enters, Terms
    <3>2. lf.client_thread_is_leader \in Int
      BY <1>2 DEF LFs
    <3>3. QED BY <2>2, <3>1, <3>2
  <2>6. CASE Lessens(t) /\ ~(lf'.client_leader_thread[t] > 0)
    <3>1. lf.client_thread_is_leader \in Int /\ lf'.client_thread_is_leader \in Int
          /\ lf.client_leader_thread[t] \in Nat /\ lf'.client_leader_thread[t] \in Nat
          /\ lf.event_loop_thread[t] \in Nat /\ lf'.event_loop_thread[t] \in Nat
      BY <1>2 DEF LFs
    <3>2. CASE lf.client_leader_thread[t] = 0
      <4>1. lf'.client_thread_is_leader = lf.client_thread_is_leader
        BY <2>6, <3>1, <3>2 DEF Lessens
      <4>2. QED BY <2>2, <4>1
    <3>3. CASE lf.client_leader_thread[t] > 0
      <4>1. At(t) \in Leading /\ lf.client_leader_thread[t] = 1 /\ lf.event_loop_thread[t] = 0
        BY <1>2, <3>3 DEF AbdicatedBy, Leading, Running
      <4>2. t \in Counted
        BY <1>2, <3>3, CountedLead DEF Leads
      <4>3. Counted = {t}
        BY <3>3, <4>2 DEF ClientLeadsAlone
      <4>4. lf.leaders = 1
        BY <1>1, <4>3, FS_Singleton DEF Sound, LeadersCounted
      <4>5. Counted' = {}
        <5>1. ASSUME NEW v \in Threads PROVE ~Leads(lf', v)
          <6>1. CASE v = t
            BY <2>6, <3>1, <4>1, <6>1 DEF Leads, Lessens
          <6>2. CASE v # t
            <7>1. ~Leads(lf, v)
              BY <1>2, <4>3, <6>2, CountedLead
            <7>2. QED BY <6>2, <7>1, OthersStay DEF Leads
          <6>3. QED BY <6>1, <6>2
        <5>2. QED BY <5>1 DEF Counted
      <4>6. lf'.leaders = 0
        BY <1>1, <4>5, FS_EmptySet DEF Sound, LeadersCounted
      <4>7. ~Elects
        BY <1>3, <2>2, <4>6, ElectWakes
      <4>8. CASE Waits(t)
        <5>1. PICK l \in LFs : /\ StepsDown(t, l)
                               /\ l.event_loop_threads_waiting = {} \/ l.leaders # 0
          BY <4>1, <4>8 DEF Waits, Leading
        <5>2. l.leaders = lf.leaders - 1
          BY <3>3, <4>1, <5>1 DEF StepsDown
        <5>3. u \in l.event_loop_threads_waiting
          BY <2>3, <5>1 DEF StepsDown, SameWaits
        <5>4. QED BY <4>4, <5>1, <5>2, <5>3
      <4>9. CASE Yields(t)
        BY <4>7, <4>9 DEF Yields, StepsDown, Elects
      <4>10. CASE Ends(t) \/ Abdicating(t)
        BY <4>7, <4>10 DEF Ends, Abdicating
      <4>11. CASE Leaves(t)
        BY <4>1, <4>11 DEF Leaves, Leading
      <4>12. CASE Quietly(t)
        BY <2>6, <3>3, <4>12 DEF Quietly, SameLead
      <4>13. CASE Enters(t)
        BY <2>5, <4>13
      <4>14. QED
        BY <1>2, <4>8, <4>9, <4>10, <4>11, <4>12, <4>13, StepDoes
    <3>4. QED BY <3>1, <3>2, <3>3
  <2>7. QED BY <1>2, <2>4, <2>5, <2>6, StepTerms
<1>6. QED
  BY <1>4, <1>5

LEMMA MindedNext ==
  ASSUME ~Handlers, Balanced, Awake, Abdicated, ClientLeadsAlone, Minded, [Next]_vars
  PROVE  Minded'
<1>1. Balanced'
  BY BalancedNext
<1>2. ASSUME NEW t \in Threads, Step(t) PROVE Minded'
  BY <1>1, <1>2, MindedStep
<1>3. CASE Shutdown \/ ShutdownReactor
  <2>1. lf \in LFs
    BY DEF Balanced, Typed
  <2>2. QED BY <1>3, <2>1, ShutdownFacts DEF Minded, At, SameCounters
<1>4. CASE UNCHANGED vars
  BY <1>4 DEF vars, Minded, At
<1>5. QED
  BY <1>2, <1>3, <1>4 DEF Next

(***************************************************************************)
(* An event loop thread sleeps in wait_for_client_leader_to_complete only  *)
(* while a client leads or its wakeup is on its way: the client leader     *)
(* that steps down, or abdicates for an upcall, leaves no other leader and *)
(* so its election wakes the event loop threads.                           *)
(***************************************************************************)
THEOREM EventLoopNeverStranded ==
  ASSUME ~Handlers
  PROVE  Spec => []NoStrandedEventLoop
<1> DEFINE Inv == Balanced /\ Awake /\ Abdicated /\ ClientLeadsAlone /\ Minded
<1>1. Init => Inv
  <2>1. Init => Minded
    BY DEF Init, Minded, At
  <2>2. QED BY <2>1, BalancedInit, AwakeInit, AbdicatedInit, AloneInit
<1>2. Inv /\ [Next]_vars => Inv'
  BY BalancedNext, AwakeNext, AbdicatedNext, AloneNext, MindedNext
<1>3. Inv => NoStrandedEventLoop
  BY DEF Minded, NoStrandedEventLoop
<1>4. QED
  BY <1>1, <1>2, <1>3, PTL DEF Spec

\* Who can be woken to lead: event loop threads that wait, linked followers.
Candidates == Entering \cup (Followers \ lf.woken)

\* An election without a leader wakes a candidate, or there is no follower left.
LEMMA ElectRouses ==
  ASSUME Awake, NEW l \in LFs, SameWaits(lf, l), l.leaders = 0
  PROVE  \/ \E u \in Candidates : u \in elect_new_leader(l).woken
         \/ Followers \subseteq lf.woken
<1>1. /\ l.event_loop_threads_waiting = Entering /\ l.follower_set \in Seq(Threads)
      /\ Linked(l.follower_set) = Followers \ lf.woken
      /\ l.woken \in SUBSET Threads
  BY DEF Awake, Known, SameWaits, LFs
<1>2. CASE Entering # {}
  <2>1. elect_new_leader(l) = [l EXCEPT !.woken = @ \cup l.event_loop_threads_waiting]
    BY <1>1, <1>2 DEF elect_new_leader, leader_available
  <2>2. elect_new_leader(l).woken = l.woken \cup Entering
    BY <1>1, <2>1 DEF LFs
  <2>3. QED BY <1>2, <2>2 DEF Candidates
<1>3. CASE Entering = {} /\ l.follower_set # <<>>
  <2> DEFINE h == Head(l.follower_set)
  <2>1. h \in Linked(l.follower_set)
    BY <1>1, <1>3, LinkedHead
  <2>2. h \in Threads
    BY <1>1, <2>1 DEF Followers
  <2>3. elect_new_leader(l) = signal(l, h)
    BY <1>1, <1>3 DEF elect_new_leader, leader_available
  <2> HIDE DEF h
  <2>4. /\ signal(l, h) \in LFs /\ SameBooks(l, signal(l, h))
        /\ signal(l, h).follower_set = Unlink(l.follower_set, h)
        /\ signal(l, h).woken = l.woken \cup {h}
    BY <2>2, SignalFacts
  <2>5. h \in Candidates /\ h \in elect_new_leader(l).woken
    BY <1>1, <2>1, <2>3, <2>4 DEF Candidates
  <2>6. QED BY <2>5
<1>4. CASE l.follower_set = <<>>
  BY <1>1, <1>4 DEF Linked
<1>5. QED
  BY <1>2, <1>3, <1>4

\* A thread that is on its way to lead or to elect does not lose its way.
LEMMA TakeoverStays ==
  ASSUME NEW t \in Threads, Frame(t), NEW v \in Threads \ {t}, Takeover(v)
  PROVE  Takeover(v)'
BY DEF Frame, Takeover, At, Top

\* A candidate that is woken takes over.
LEMMA CandidateTakesOver ==
  ASSUME Awake, NEW t \in Threads, Frame(t), NEW u \in Threads \ {t}, u \in Candidates,
         u \in lf'.woken
  PROVE  Takeover(u)'
<1>1. stack'[u] = stack[u]
  BY DEF Frame
<1>2. CASE u \in Entering
  BY <1>1, <1>2 DEF Takeover, Entering, At
<1>3. CASE u \in Followers \ lf.woken
  <2>1. At(u) = "follower" /\ keep_waiting(Top(u))
    BY <1>3 DEF Awake, CompletionWakes, Followers
  <2>2. QED BY <1>1, <2>1 DEF Takeover, At, Top
<1>4. QED
  BY <1>2, <1>3 DEF Candidates

\* No step but a completion touches another thread's calls.
LEMMA FrameUnlessDispatch ==
  ASSUME ~OutsideChanges, NEW t \in Threads, InOrder(t), Awake, Step(t),
         \/ At(t) \notin {"leading", "running"}
         \/ At(t)' \notin {"leading", "leaving", "ended"}
  PROVE  Frame(t)
<1>1. stack \in [Threads -> Seq(Calls)]
  BY DEF InOrder, Typed
<1>2. ASSUME NEW u \in Threads, NEW i \in Depths, NEW new \in Completions,
             Dispatch(t, u, i, new)
      PROVE  FALSE
  <2>1. /\ At(t) \in {"leading", "running"}
        /\ At(t)' \in {"leading", "leaving", "ended"}
    BY <1>1, <1>2, DispatchMoves
  <2>2. QED BY <2>1
<1>3. QED
  BY <1>2, AwakeSteps DEF ChangeOutside

LEMMA ElectRescues ==
  ASSUME Awake, NEW t \in Threads, Frame(t), Elects, lf'.leaders = 0,
         At(t) \notin {"follower", "entering"}, At(t)' \notin {"follower", "entering"},
         NEW f \in Threads, At(f)' = "follower", f \notin lf'.woken
  PROVE  \E v \in Threads : Takeover(v)'
<1>1. PICK l \in LFs : lf' = elect_new_leader(l) /\ SameWaits(lf, l)
  BY DEF Elects
<1>2. l.leaders = 0
  BY <1>1, ElectSame DEF SameLead
<1>3. f # t /\ f \in Followers \ lf.woken
  BY DEF Frame, Followers, At
<1>4. PICK u \in Candidates : u \in lf'.woken
  BY <1>1, <1>2, <1>3, ElectRouses
<1>5. u \in Threads \ {t}
  BY DEF Candidates, Followers, Entering
<1>6. QED
  BY <1>4, <1>5, CandidateTakesOver

\* What a follower that returns leaves behind.
LEMMA LeaveFollowerLeaves ==
  ASSUME NEW t \in Threads, InOrder(t), At(t) = "follower", Awake, NEW m \in LFs,
         Known(m, Followers, Entering), SameBooks(lf, m), lf' = LeaveFollower(m, t),
         stack' = Pop(t)
  PROVE  lf'.woken = m.woken \ {t} /\ lf'.leaders >= lf.leaders
<1> DEFINE l == remove_follower([m EXCEPT !.woken = @ \ {t}], t)
<1>1. t \notin Entering
  BY DEF Entering
<1>2. l \in LFs /\ l.woken = m.woken \ {t}
  BY <1>1, KnownRemove
<1>3. lf' = reset_client_thread(l, t)
  BY DEF LeaveFollower
<1> HIDE DEF l
<1>4. lf' \in LFs /\ SameRest(l, lf')
  BY <1>2, <1>3, ClientThreadFacts
<1>5. lf'.woken = m.woken \ {t}
  BY <1>2, <1>4 DEF SameRest
<1>6. lf'.leaders >= lf.leaders
  BY LeaveFollowerDoes
<1>7. QED
  BY <1>5, <1>6

\* A follower that leaves without leading passes an election on.
LEMMA LeavesRescue ==
  ASSUME NEW t \in Threads, InOrder(t), Awake, NoStrandedFollowers, Frame(t),
         lf.leaders \in Nat, lf'.leaders \in Nat,
         FollowerTimesOut(t) \/ (FollowerWakes(t) /\ ~keep_waiting(Top(t))),
         NEW f \in Threads \ {t}, At(f) = "follower", f \notin lf.woken, f \notin lf'.woken
  PROVE  lf'.leaders > 0 \/ \E v \in Threads : Takeover(v)'
<1>1. At(t) = "follower" /\ lf \in LFs
  BY DEF FollowerTimesOut, FollowerWakes, InOrder, Typed
<1>3. Known(lf, Followers, Entering) /\ SameBooks(lf, lf) /\ Followers \cap Entering = {}
  BY DEF Awake, SameBooks, Followers, Entering
<1>4. lf.leaders > 0 \/ \E v \in Threads : Takeover(v)
  BY DEF NoStrandedFollowers
<1>5. ASSUME ~Takeover(t), lf'.leaders >= lf.leaders
      PROVE  lf'.leaders > 0 \/ \E v \in Threads : Takeover(v)'
  <2>1. CASE lf.leaders > 0
    BY <1>5, <2>1
  <2>2. CASE \E v \in Threads : Takeover(v)
    BY <1>5, <2>2, TakeoverStays
  <2>3. QED BY <1>4, <2>1, <2>2
<1>6. CASE FollowerWakes(t) /\ ~keep_waiting(Top(t))
  <2>1. lf' = LeaveFollower(lf, t) /\ stack' = Pop(t)
    BY <1>6 DEF FollowerWakes
  <2>2. lf'.leaders >= lf.leaders
    BY <1>1, <1>3, <2>1, LeaveFollowerLeaves
  <2>3. ~Takeover(t)
    BY <1>1, <1>6 DEF Takeover
  <2>4. QED BY <1>5, <2>2, <2>3
<1>7. CASE FollowerTimesOut(t)
  <2> DEFINE m == elect_new_leader(lf)
  <2>1. lf' = LeaveFollower(m, t) /\ stack' = Pop(t)
    BY <1>7 DEF FollowerTimesOut
  <2>2. m \in LFs /\ SameBooks(lf, m)
    BY <1>1, ElectFacts
  <2>3. Known(m, Followers, Entering)
    BY <1>1, <1>3, KnownElect
  <2>4. SameWaits(lf, lf)
    BY DEF SameWaits
  <2>5. lf.leaders = 0 => \/ \E u \in Candidates : u \in m.woken
                          \/ Followers \subseteq lf.woken
    BY <1>1, <2>4, ElectRouses
  <2> HIDE DEF m
  <2>6. lf'.woken = m.woken \ {t} /\ lf'.leaders >= lf.leaders
    BY <1>1, <2>1, <2>2, <2>3, LeaveFollowerLeaves
  <2>7. CASE t \notin lf.woken
    <3>1. ~Takeover(t)
      BY <1>1, <2>7 DEF Takeover
    <3>2. QED BY <1>5, <2>6, <3>1
  <2>8. CASE lf.leaders = 0 /\ t \in lf.woken
    <3>1. f \in Followers
      BY DEF Followers
    <3>2. PICK u \in Candidates : u \in m.woken
      BY <2>5, <2>8, <3>1
    <3>3. u # t /\ u \in Threads
      BY <1>1, <2>8 DEF Candidates, Entering, Followers
    <3>4. u \in lf'.woken
      BY <2>6, <3>2, <3>3
    <3>5. QED BY <3>3, <3>4, CandidateTakesOver
  <2>9. CASE lf.leaders > 0
    BY <2>6, <2>9
  <2>10. QED BY <2>7, <2>8, <2>9
<1>8. QED
  BY <1>6, <1>7


\* A step ends with an election,
LEMMA FinishElects ==
  ASSUME NEW t \in Threads, Waits(t), At(t)' \in {"application", "upcall"}
  PROVE  Elects /\ At(t) \in {"sent", "yielding", "leaving"}
<1>1. PICK l \in LFs :
        /\ Waited(t, l)
        /\ \/ At(t) = "sent" /\ SameWaits(lf, l)
           \/ At(t) = "yielding" /\ l = lf
           \/ StepsDown(t, l)
  BY DEF Waits
<1>2. SameWaits(lf, l) /\ At(t) \in {"sent", "yielding", "leaving"}
  BY <1>1 DEF StepsDown, SameWaits
<1>3. PICK m \in LFs : lf' = elect_new_leader(m) /\ SameWaits(l, m)
  BY <1>1 DEF Waited
<1>4. QED
  BY <1>2, <1>3 DEF Elects, SameWaits

\* or leaves a leader, or the thread leads nobody and changes nothing.
LEMMA RescuedStep ==
  ASSUME ~Handlers, ~OutsideChanges, ~WaitErrors,
         Balanced, Awake, Abdicated, NoStrandedFollowers, NEW t \in Threads, Step(t), Balanced'
  PROVE  NoStrandedFollowers'
<1>1. Sound /\ Sound'
  BY BalancedSound, BalancedSoundThen
<1>2. lf \in LFs /\ lf' \in LFs /\ InOrder(t) /\ stack \in [Threads -> Seq(Calls)]
  BY DEF Balanced, Typed, InOrder
<1>3. lf.leaders \in Nat /\ lf'.leaders \in Nat
  BY <1>1 DEF Sound, TypeOK
<1>4. SUFFICES ASSUME NEW f \in Threads, At(f)' = "follower", f \notin lf'.woken,
                      lf'.leaders = 0
               PROVE  \E v \in Threads : Takeover(v)'
  BY <1>3 DEF NoStrandedFollowers
<1>5. f # t => At(f) = "follower" /\ f \notin lf.woken
  BY <1>4, OthersStay, WakeupsStay
<1>6. CASE At(t)' \in {"leaving", "yielding", "failed", "ended"}
  BY <1>6 DEF Takeover
<1>7. ASSUME Elects, At(t) \notin {"follower", "entering"},
             At(t)' \in {"application", "upcall", "loop"}
      PROVE  \E v \in Threads : Takeover(v)'
  <2>1. Frame(t)
    BY <1>2, <1>7, FrameUnlessDispatch
  <2>2. QED BY <1>4, <1>7, <2>1, ElectRescues
<1>8. CASE Waits(t)
  <2>1. PICK l \in LFs : Waited(t, l)
    BY <1>8 DEF Waits
  <2>2. CASE At(t)' \in {"application", "upcall"}
    BY <1>7, <1>8, <2>2, FinishElects
  <2>3. CASE At(t)' \notin {"application", "upcall"}
    BY <1>4, <2>1, <2>3 DEF Waited, SameLead
  <2>4. QED BY <2>2, <2>3
<1>9. CASE Yields(t)
  BY <1>6, <1>9 DEF Yields
<1>10. CASE Leaves(t)
  <2>1. At(t) = "follower" /\ At(t)' \in {"application", "upcall"}
    BY <1>10 DEF Leaves
  <2>2. Frame(t)
    BY <1>2, <2>1, FrameUnlessDispatch
  <2>3. FollowerTimesOut(t) \/ FollowerWakes(t)
    BY <2>1 DEF Step, FollowerWaitFails, WaitForEvent, LeaveReactor, Yielded, StartIteration,
                EnterEventLoop, EnteringWakes, EnteringFails, FailIteration, EndIteration,
                Dispatch, ChangeOutside, HandleNothing, Upcall, UpcallReturns, DeferEvent,
                InReactor, InApplication, Invoke, Run, MayCall
  <2>4. FollowerWakes(t) => ~keep_waiting(Top(t))
    <3>1. SUFFICES ASSUME FollowerWakes(t), keep_waiting(Top(t)) PROVE FALSE
      OBVIOUS
    <3>2. PICK a \in {"follower", "leading"} : stack' = SetTop(t, [Top(t) EXCEPT !.at = a])
      BY <3>1 DEF FollowerWakes, Follow, Lead
    <3> DEFINE c == [Top(t) EXCEPT !.at = a]
    <3>3. Top(t) \in Calls
      BY <1>2, <2>1, Innermost
    <3>4. c \in Calls /\ c.at = a /\ stack' = SetTop(t, c)
      BY <3>2, <3>3 DEF Calls, Waiting
    <3> HIDE DEF c
    <3>5. At(t)' = a
      BY <1>2, <2>1, <3>4, TopMoves
    <3>6. QED BY <2>1, <3>5
  <2>5. f # t
    BY <1>4, <2>1
  <2>6. QED BY <1>2, <1>3, <1>4, <1>5, <2>2, <2>3, <2>4, <2>5, LeavesRescue
<1>11. CASE Enters(t)
  <2>1. Terms(lf, lf', t, 1, 0)
    BY <1>11 DEF Enters
  <2>2. lf'.event_loop_thread[t] = lf.event_loop_thread[t] + 1
    BY <1>2, <2>1 DEF Terms, LFs
  <2>3. lf'.event_loop_thread[t] > 0
    <3>1. lf.event_loop_thread[t] \in Nat
      BY <1>2 DEF LFs
    <3>2. QED BY <2>2, <3>1
  <2>4. t \in Counted'
    BY <1>11, <2>3 DEF Enters, Counted, Leads
  <2>5. QED BY <1>1, <1>3, <1>4, <2>4 DEF Sound
<1>12. CASE Ends(t)
  BY <1>7, <1>12 DEF Ends
<1>13. CASE Abdicating(t)
  BY <1>7, <1>13 DEF Abdicating
<1>14. CASE Quietly(t)
  <2>1. lf.leaders = 0 /\ Counted = {}
    BY <1>1, <1>3, <1>4, <1>14 DEF Quietly, SameLead, Sound
  <2>2. ~(lf.client_thread_is_leader > 0)
    BY <1>1, <1>2, <2>1, CountedLead DEF Sound, Leads
  <2>3. At(t) \notin {"leading", "running"}
    <3>1. At(t) = TopOf(Shape(stack[t])) /\ Orderly(lf, Shape(stack[t]), t)
      BY <1>2, CountsFacts DEF InOrder
    <3>2. At(t) \in {"leading", "running"} => Leads(lf, t)
      BY <3>1 DEF Orderly, Leads
    <3>3. QED BY <1>2, <2>1, <3>2, CountedLead
  <2>4. CASE At(t) = "failed"
    BY <1>7, <1>14, <2>4 DEF Quietly, QuietMove
  <2>5. CASE At(t) = "entering"
    BY <1>6, <1>14, <2>2, <2>5 DEF Quietly, QuietMove
  <2>6. CASE /\ At(t) \in {"application", "upcall", "loop", "starting"}
             /\ At(t)' # "follower"
    <3>1. Frame(t)
      BY <1>2, <2>3, FrameUnlessDispatch
    <3>2. At(f) = "follower" /\ f \notin lf.woken
      BY <1>4, <1>5, <2>6
    <3>3. PICK v \in Threads : Takeover(v)
      BY <2>1, <3>2 DEF NoStrandedFollowers
    <3>4. v # t
      BY <2>6, <3>3 DEF Takeover
    <3>5. QED BY <3>1, <3>3, <3>4, TakeoverStays
  <2>7. QED BY <1>14, <2>3, <2>4, <2>5, <2>6 DEF Quietly, QuietMove
<1>15. QED
  BY <1>2, <1>8, <1>9, <1>10, <1>11, <1>12, <1>13, <1>14, StepDoes

(***************************************************************************)
(* Whenever a follower sleeps unsignaled there is a leader, or a thread    *)
(* that is on its way to lead or to elect: an elected follower that times  *)
(* out passes the election on, a client leader elects before it returns or *)
(* yields, and an event loop thread elects when its iteration ends or      *)
(* fails.  The theorem excludes the three cases in which the code strands  *)
(* followers: calls made by handlers that keep their leadership, an        *)
(* elected follower whose event is completed from outside the reactor, and *)
(* an untimed wait that fails after the election.                          *)
(***************************************************************************)
THEOREM FollowersNeverStranded ==
  ASSUME ~Handlers, ~OutsideChanges, ~WaitErrors
  PROVE  Spec => []NoStrandedFollowers
<1> DEFINE Inv == Balanced /\ Awake /\ Abdicated /\ NoStrandedFollowers
<1>1. Init => Inv
  <2>1. Init => NoStrandedFollowers
    BY DEF Init, NoStrandedFollowers, At
  <2>2. QED BY <2>1, BalancedInit, AwakeInit, AbdicatedInit
<1>2. Inv /\ [Next]_vars => Inv'
  <2>1. SUFFICES ASSUME Inv, [Next]_vars PROVE Inv'
    OBVIOUS
  <2>2. Balanced' /\ Awake' /\ Abdicated'
    BY <2>1, BalancedNext, AwakeNext, AbdicatedNext
  <2>3. ASSUME NEW t \in Threads, Step(t) PROVE NoStrandedFollowers'
    BY <2>1, <2>2, <2>3, RescuedStep
  <2>4. ASSUME Shutdown \/ ShutdownReactor PROVE NoStrandedFollowers'
    <3>1. lf \in LFs
      BY <2>1 DEF Balanced, Typed
    <3>2. QED
      BY <2>1, <2>4, <3>1, ShutdownFacts
      DEF NoStrandedFollowers, Takeover, At, Top, SameCounters
  <2>5. ASSUME UNCHANGED vars PROVE NoStrandedFollowers'
    BY <2>1, <2>5 DEF vars, NoStrandedFollowers, Takeover, At, Top
  <2>6. NoStrandedFollowers'
    BY <2>1, <2>3, <2>4, <2>5 DEF Next
  <2>7. QED BY <2>2, <2>6
<1>3. QED
  BY <1>1, <1>2, PTL DEF Spec
=============================================================================
