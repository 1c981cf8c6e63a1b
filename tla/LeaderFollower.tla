---------------------------- MODULE LeaderFollower ----------------------------
(***************************************************************************)
(* TAO_Leader_Follower (TAO/tao/Leader_Follower.cpp, .inl) with its users: *)
(* clients that wait for a reply (or for a connection, or for a queue to   *)
(* drain) in wait_for_event, and threads in ORB::run.  Leaders run the     *)
(* reactor; the other waiting clients are followers, asleep until their    *)
(* event completes or until they are elected leader.                       *)
(*                                                                         *)
(* One action is one critical section of lock_, or one step outside it.    *)
(* The fields that the code guards with lock_ are those of lf; an operator *)
(* named after a C++ method maps lf before the call to lf after it.        *)
(* Not modelled: avoid_client_leader_ and the new_leader_generator_ of     *)
(* Dynamic_TP, which by default are false and null.                        *)
(***************************************************************************)
EXTENDS Integers, Sequences, FiniteSets

CONSTANTS
  Threads,          \* threads of the ORB
  Clients,          \* those whose application code makes invocations
  Servers,          \* those whose application code calls ORB::run
  MaxDepth,         \* bound on the nested calls of one thread
  TimedCalls,       \* whether max_wait_time is given: a set of Booleans
  Requests,         \* requests arrive, whose upcalls may make calls
  Handlers,         \* other handlers (timers) make calls without set_upcall_thread
  Defers,           \* clients wait with Wait_On_LF_No_Upcall and defer requests
  OutsideChanges,   \* a thread outside the reactor completes events, by closing a
                    \* connection or by sending what another thread has queued
  SpuriousWakeups,  \* a wait on a condition may end without a signal
  WaitErrors,       \* a wait on a condition may fail with an error
  ReactorErrors,    \* handle_events may fail while the reactor is open
  DropReplies       \* drop_replies_during_shutdown ()

ASSUME LFAssumption ==
  /\ IsFiniteSet(Threads)
  /\ Clients \subseteq Threads /\ Servers \subseteq Threads
  /\ MaxDepth \in Nat
  /\ TimedCalls \subseteq BOOLEAN
  /\ {Requests, Handlers, Defers, OutsideChanges, SpuriousWakeups, WaitErrors,
      ReactorErrors, DropReplies} \subseteq BOOLEAN

VARIABLES
  lf,     \* the TAO_Leader_Follower, its threads' TSS and the reactor's flag
  stack   \* stack[t]: the calls thread t is in, the innermost first

vars == <<lf, stack>>

(***************************************************************************)
(* A call is one of                                                        *)
(*   upcall    application code called back by the reactor                 *)
(*   loop      ORB::run between two iterations                             *)
(*   starting  ORB::run in the constructor of its helper                   *)
(*   entering  ORB::run in wait_for_client_leader_to_complete              *)
(*   running   ORB::run in handle_events                                   *)
(*   ended     ORB::run back from handle_events                            *)
(*   failed    ORB::run whose helper failed                                *)
(*   sent      an invocation whose request is sent                         *)
(*   follower  wait_for_event asleep in follower->wait                     *)
(*   leading   wait_for_event in handle_events                             *)
(*   leaving   wait_for_event done with the reactor, without lock_ yet     *)
(*   yielding  wait_for_event without lock_, in thr_yield                  *)
(* event is the state_ of the LF_Event it waits for, result what           *)
(* handle_events returned last, timed whether it was given a time limit.   *)
(***************************************************************************)
Waiting  == {"sent", "follower", "leading", "leaving", "yielding"}
Looping  == {"loop", "starting", "entering", "running", "ended", "failed"}
States   == {"ACTIVE", "SUCCESS", "FAILURE", "TIMEOUT"}
Results  == {"events", "timeout", "error"}

Calls == [at: Waiting \cup Looping \cup {"upcall"}, event: States,
          timed: BOOLEAN, result: Results]

Call(at, timed) == [at |-> at, event |-> "ACTIVE", timed |-> timed, result |-> "events"]

At(t) == IF stack[t] = <<>> THEN "application" ELSE Head(stack[t]).at

InApplication(t) == At(t) \in {"application", "upcall"}

\* LF_Event
successful(call)     == call.event = "SUCCESS"
error_detected(call) == call.event \in {"FAILURE", "TIMEOUT"}
keep_waiting(call)   == ~successful(call) /\ ~error_detected(call)
is_state_final(call) == call.event \in {"FAILURE", "TIMEOUT"}

\* state_changed_i of an LF_Invocation_Event that has been made ACTIVE
state_changed_i(call, new) ==
  [call EXCEPT !.event = IF @ # "ACTIVE" THEN @
                         ELSE IF new = "CONNECTION_CLOSED" THEN "FAILURE" ELSE new]

state_changed(call, new) ==
  IF is_state_final(call) THEN call ELSE state_changed_i(call, new)

-----------------------------------------------------------------------------
(* Leader_Follower.inl *)

\* The thread is one of those counted in leaders_, unless it waits as a client.
Leads(l, t) == l.event_loop_thread[t] > 0 \/ l.client_leader_thread[t] > 0

leader_available(l) == l.leaders # 0

add_follower(l, t) == [l EXCEPT !.follower_set = Append(@, t)]

\* The list q without t, if t is linked.
Unlink(q, t) ==
  IF \E i \in 1..Len(q) : q[i] = t
  THEN LET k == CHOOSE i \in 1..Len(q) : q[i] = t
       IN  [i \in 1..(Len(q) - 1) |-> IF i < k THEN q[i] ELSE q[i + 1]]
  ELSE q

remove_follower(l, t) == [l EXCEPT !.follower_set = Unlink(@, t)]

\* Mutant: the signaled follower stays in the list.
signal_Linked(l, t) == [l EXCEPT !.woken = @ \cup {t}]

\* LF_Follower::signal
signal(l, t) == [remove_follower(l, t) EXCEPT !.woken = @ \cup {t}]

\* Mutant: event loop threads are not woken.
elect_new_leader_FollowersOnly(l) ==
  IF leader_available(l) \/ l.follower_set = <<>> THEN l ELSE signal(l, Head(l.follower_set))

elect_new_leader(l) ==
  IF leader_available(l) THEN l
  ELSE IF l.event_loop_threads_waiting # {}
  THEN [l EXCEPT !.woken = @ \cup l.event_loop_threads_waiting]
  ELSE IF l.follower_set # <<>> THEN signal(l, Head(l.follower_set))
  ELSE l

set_client_leader_thread(l, t) ==
  [l EXCEPT !.leaders = @ + 1,
            !.client_thread_is_leader = @ + 1,
            !.client_leader_thread[t] = @ + 1]

\* Mutant: leadership given up in an upcall is given up again.
reset_client_leader_thread_Twice(l, t) ==
  [l EXCEPT !.leaders = @ - 1,
            !.client_thread_is_leader = @ - 1,
            !.client_leader_thread[t] = @ - 1]

reset_client_leader_thread(l, t) ==
  IF l.client_leader_thread[t] > 0
  THEN [l EXCEPT !.leaders = @ - 1,
                 !.client_thread_is_leader = @ - 1,
                 !.client_leader_thread[t] = @ - 1]
  ELSE l

\* The part of set_event_loop_thread after the wait for a client leader.
set_event_loop_thread(l, t) ==
  [l EXCEPT !.leaders = IF Leads(l, t) THEN @ ELSE @ + 1,
            !.event_loop_thread[t] = @ + 1]

\* Mutant: leadership given up in an upcall is given up again.
reset_event_loop_thread_Twice(l, t) ==
  LET r == [l EXCEPT !.event_loop_thread[t] = @ - 1]
  IN  [r EXCEPT !.leaders = IF Leads(r, t) THEN @ ELSE @ - 1]

reset_event_loop_thread(l, t) ==
  IF l.event_loop_thread[t] > 0
  THEN LET r == [l EXCEPT !.event_loop_thread[t] = @ - 1]
       IN  [r EXCEPT !.leaders = IF Leads(r, t) THEN @ ELSE @ - 1]
  ELSE l

\* Mutant: a client leader keeps its leadership in an upcall.
set_upcall_thread_ClientKeeps(l, t) ==
  IF l.event_loop_thread[t] > 0 THEN elect_new_leader(reset_event_loop_thread(l, t)) ELSE l

set_upcall_thread(l, t) ==
  IF l.event_loop_thread[t] > 0 THEN elect_new_leader(reset_event_loop_thread(l, t))
  ELSE IF l.client_leader_thread[t] = 1 THEN elect_new_leader(reset_client_leader_thread(l, t))
  ELSE l

\* A client gives up its leadership; the first one after the shutdown
\* reopens the reactor for its reply.
set_client_thread(l, t) ==
  [l EXCEPT !.leaders = IF Leads(l, t) THEN @ - 1 ELSE @,
            !.event_loop_done = @ /\ ~(l.clients = 0 /\ l.has_shutdown /\ ~DropReplies),
            !.clients = @ + 1]

\* Mutant: the last client after the shutdown leaves the reactor open.
reset_client_thread_Open(l, t) ==
  [l EXCEPT !.leaders = IF Leads(l, t) THEN @ + 1 ELSE @, !.clients = @ - 1]

\* It takes it back; the last one after the shutdown closes the reactor.
reset_client_thread(l, t) ==
  [l EXCEPT !.leaders = IF Leads(l, t) THEN @ + 1 ELSE @,
            !.event_loop_done = @ \/ (l.clients = 1 /\ l.has_shutdown),
            !.clients = @ - 1]

-----------------------------------------------------------------------------
(* Calls and returns of application code *)

Push(t, call) == [stack EXCEPT ![t] = <<call>> \o @]

Pop(t) == [stack EXCEPT ![t] = Tail(@)]

SetTop(t, call) == [stack EXCEPT ![t] = <<call>> \o Tail(@)]

MayCall(t, threads) ==
  /\ InApplication(t)
  /\ At(t) = "application" => t \in threads
  /\ Len(stack[t]) < MaxDepth

\* A two-way invocation: the reply dispatcher is ACTIVE and the request is sent.
Invoke(t, timed) ==
  /\ MayCall(t, Clients)
  /\ stack' = Push(t, Call("sent", timed))
  /\ UNCHANGED lf

Run(t, timed) ==
  /\ MayCall(t, Servers)
  /\ stack' = Push(t, Call("loop", timed))
  /\ UNCHANGED lf

-----------------------------------------------------------------------------
(* wait_for_event *)

Top(t) == Head(stack[t])

\* The condition of the loop in lines 284-288.
StillWaiting(call) == keep_waiting(call) /\ call.result = "events"

\* The thread, in state l with lock_ held, waits as a follower,
Follow(t, call, l) ==
  /\ lf' = add_follower(l, t)
  /\ stack' = SetTop(t, [call EXCEPT !.at = "follower"])

\* becomes the client leader,
Lead(t, call, l) ==
  /\ lf' = set_client_leader_thread(l, t)
  /\ stack' = SetTop(t, [call EXCEPT !.at = "leading"])

\* Mutant: a client leader returns without an election.
Finish_NoElection(t, l) ==
  /\ lf' = reset_client_thread(l, t)
  /\ stack' = Pop(t)

\* or is done and returns.
Finish(t, l) ==
  /\ lf' = elect_new_leader(reset_client_thread(l, t))
  /\ stack' = Pop(t)

WaitLoop(t, call, l) ==
  \/ StillWaiting(call) /\ leader_available(l) /\ Follow(t, call, l)
  \/ StillWaiting(call) /\ ~leader_available(l) /\ Lead(t, call, l)
  \/ ~StillWaiting(call) /\ Finish(t, l)

WaitForEvent(t) ==
  /\ At(t) = "sent"
  /\ WaitLoop(t, Top(t), set_client_thread(lf, t))

\* The destructors that a return out of the follower's scopes runs.
LeaveFollower(l, t) ==
  reset_client_thread(remove_follower([l EXCEPT !.woken = @ \ {t}], t), t)

FollowerWakes(t) ==
  /\ At(t) = "follower"
  /\ t \in lf.woken \/ SpuriousWakeups
  /\ LET l == remove_follower([lf EXCEPT !.woken = @ \ {t}], t)
     IN  \/ keep_waiting(Top(t)) /\ leader_available(l) /\ Follow(t, Top(t), l)
         \/ keep_waiting(Top(t)) /\ ~leader_available(l) /\ Lead(t, Top(t), l)
         \/ /\ ~keep_waiting(Top(t))
            /\ lf' = LeaveFollower(lf, t)
            /\ stack' = Pop(t)

\* Mutant: an elected follower that times out elects nobody.
FollowerTimesOut_NoElection(t) ==
  /\ At(t) = "follower"
  /\ Top(t).timed
  /\ lf' = LeaveFollower(lf, t)
  /\ stack' = Pop(t)

\* set_state (LFS_TIMEOUT) precludes successful.  The thread is still linked,
\* unless it was signaled, when it elects.
FollowerTimesOut(t) ==
  /\ At(t) = "follower"
  /\ Top(t).timed
  /\ lf' = LeaveFollower(elect_new_leader(lf), t)
  /\ stack' = Pop(t)

FollowerWaitFails(t) ==
  /\ WaitErrors
  /\ At(t) = "follower"
  /\ lf' = LeaveFollower(IF Top(t).timed /\ ~successful(Top(t))
                         THEN elect_new_leader(lf) ELSE lf, t)
  /\ stack' = Pop(t)

\* Mutant: deferred events are not resumed.
LeaveReactor_Deferred(t) ==
  /\ At(t) = "leaving"
  /\ LET l == reset_client_leader_thread(lf, t)
     IN  \/ /\ l.event_loop_threads_waiting # {} /\ ~leader_available(l)
            /\ lf' = elect_new_leader(l)
            /\ stack' = SetTop(t, [Top(t) EXCEPT !.at = "yielding"])
         \/ /\ l.event_loop_threads_waiting = {} \/ leader_available(l)
            /\ WaitLoop(t, Top(t), l)

\* Scope #5 ends: the client leader steps down and loops, or yields first.
\* resume_events empties its list whatever notify returns for each event.
LeaveReactor(t) ==
  /\ At(t) = "leaving"
  /\ LET l == [reset_client_leader_thread(lf, t) EXCEPT !.deferred = 0]
     IN  \/ /\ l.event_loop_threads_waiting # {} /\ ~leader_available(l)
            /\ lf' = elect_new_leader(l)
            /\ stack' = SetTop(t, [Top(t) EXCEPT !.at = "yielding"])
         \/ /\ l.event_loop_threads_waiting = {} \/ leader_available(l)
            /\ WaitLoop(t, Top(t), l)

Yielded(t) ==
  /\ At(t) = "yielding"
  /\ WaitLoop(t, Top(t), lf)

-----------------------------------------------------------------------------
(* ORB::run *)

\* has_shutdown is read without lock_.
StartIteration(t) ==
  /\ At(t) = "loop"
  /\ stack' = IF lf.has_shutdown THEN Pop(t) ELSE SetTop(t, [Top(t) EXCEPT !.at = "starting"])
  /\ UNCHANGED lf

\* Mutant: an event loop thread does not wait for the client leader.
EnterEventLoop_AtOnce(t) ==
  /\ At(t) = "starting"
  /\ lf' = set_event_loop_thread(lf, t)
  /\ stack' = SetTop(t, [Top(t) EXCEPT !.at = "running"])

\* The helper's constructor.
EnterEventLoop(t) ==
  /\ At(t) = "starting"
  /\ \/ /\ lf.client_thread_is_leader > 0 /\ lf.client_leader_thread[t] = 0
        /\ lf' = [lf EXCEPT !.event_loop_threads_waiting = @ \cup {t}]
        /\ stack' = SetTop(t, [Top(t) EXCEPT !.at = "entering"])
     \/ /\ lf.client_thread_is_leader = 0 \/ lf.client_leader_thread[t] > 0
        /\ lf' = set_event_loop_thread(lf, t)
        /\ stack' = SetTop(t, [Top(t) EXCEPT !.at = "running"])

EnteringWakes(t) ==
  /\ At(t) = "entering"
  /\ t \in lf.woken \/ SpuriousWakeups
  /\ LET l == [lf EXCEPT !.woken = @ \ {t}]
     IN  \/ /\ l.client_thread_is_leader > 0
            /\ lf' = l
            /\ UNCHANGED stack
         \/ /\ l.client_thread_is_leader = 0
            /\ lf' = set_event_loop_thread(
                       [l EXCEPT !.event_loop_threads_waiting = @ \ {t}], t)
            /\ stack' = SetTop(t, [Top(t) EXCEPT !.at = "running"])

\* The wait fails, and the constructor releases lock_.
EnteringFails(t) ==
  /\ At(t) = "entering"
  /\ Top(t).timed \/ WaitErrors
  /\ lf' = [lf EXCEPT !.event_loop_threads_waiting = @ \ {t}, !.woken = @ \ {t}]
  /\ stack' = SetTop(t, [Top(t) EXCEPT !.at = "failed"])

\* The helper's destructor elects a leader all the same, and run returns.
FailIteration(t) ==
  /\ At(t) = "failed"
  /\ lf' = elect_new_leader(lf)
  /\ stack' = Pop(t)

\* The helper's destructor; perform_work and errors do not iterate again.
EndIteration(t, again) ==
  /\ At(t) = "ended"
  /\ again => Top(t).result = "events"
  /\ lf' = elect_new_leader(reset_event_loop_thread(lf, t))
  /\ stack' = IF again THEN SetTop(t, [Top(t) EXCEPT !.at = "loop"]) ELSE Pop(t)

-----------------------------------------------------------------------------
(* The reactor, as handle_events treats the threads that call it *)

InReactor(t) == At(t) \in {"leading", "running"}

\* handle_events returns to thread t; lines 502-527 or the rest of ORB::run.
Returned(st, l, t, result) ==
  LET call  == [Head(st[t]) EXCEPT !.result = result]
      stays == /\ StillWaiting(call)
               /\ l.event_loop_threads_waiting = {}
               /\ l.client_leader_thread[t] > 0
      next  == IF call.at = "running" THEN "ended"
               ELSE IF stays THEN "leading" ELSE "leaving"
  IN  [st EXCEPT ![t] = <<[call EXCEPT !.at = next]>> \o Tail(@)]

\* The event of the i-th call of thread u has a follower_.
Bound(u, i) == i = 1 /\ At(u) = "follower"

\* It can still change; later changes have no effect.
Pending(u, i) == i \in 1..Len(stack[u]) /\ stack[u][i].at \in Waiting
                                        /\ keep_waiting(stack[u][i])

Changed(u, i, new) == [stack EXCEPT ![u][i] = state_changed(@, new)]

\* Mutant: the follower bound to the event is not signaled.
Notified_Silent(u, i) == lf

Notified(u, i) == IF Bound(u, i) THEN signal(lf, u) ELSE lf

\* The reactor reads a reply, or finds a connection closed.
Dispatch(t, u, i, new) ==
  /\ InReactor(t) /\ ~lf.event_loop_done
  /\ Pending(u, i)
  /\ lf' = Notified(u, i)
  /\ stack' = Returned(Changed(u, i, new), lf', t, "events")

\* Application code completes the event: it closes the connection, or sends
\* the bytes that the other thread has queued and waits for.
ChangeOutside(t, u, i, new) ==
  /\ OutsideChanges
  /\ InApplication(t)
  /\ Pending(u, i)
  /\ lf' = Notified(u, i)
  /\ stack' = Changed(u, i, new)

\* It handles something else, its time is up, or it fails.
HandleNothing(t, result) ==
  /\ InReactor(t)
  /\ result = "timeout" => Top(t).timed
  /\ result = "error" => lf.event_loop_done \/ ReactorErrors
  /\ lf.event_loop_done => result = "error"
  /\ stack' = Returned(stack, lf, t, result)
  /\ stack' # stack
  /\ UNCHANGED lf

\* It dispatches a request, or another handler, whose code may make calls.
Upcall(t) ==
  /\ InReactor(t) /\ ~lf.event_loop_done
  /\ Len(stack[t]) < MaxDepth
  /\ \/ Requests /\ lf' = set_upcall_thread(lf, t)
     \/ Handlers /\ UNCHANGED lf
  /\ stack' = Push(t, Call("upcall", FALSE))

UpcallReturns(t) ==
  /\ At(t) = "upcall"
  /\ stack' = Returned(Pop(t), lf, t, "events")
  /\ UNCHANGED lf

\* Bound on the deferred events.
MaxDeferred == 1

\* defer_event: the client leader may not make upcalls now.
DeferEvent(t) ==
  /\ Defers
  /\ At(t) = "leading" /\ ~lf.event_loop_done
  /\ lf.deferred < MaxDeferred
  /\ lf' = [lf EXCEPT !.deferred = @ + 1]
  /\ stack' = Returned(stack, lf, t, "events")

-----------------------------------------------------------------------------
(* ORB_Core::shutdown, and shutdown_reactor *)

Shutdown ==
  /\ ~lf.has_shutdown
  /\ lf' = [lf EXCEPT !.has_shutdown = TRUE]
  /\ UNCHANGED stack

ShutdownReactor ==
  /\ lf.has_shutdown /\ ~lf.reactor_shutdown
  /\ lf' = [lf EXCEPT !.reactor_shutdown = TRUE,
                      !.event_loop_done = @ \/ DropReplies \/ lf.clients = 0]
  /\ UNCHANGED stack

-----------------------------------------------------------------------------
Init ==
  /\ lf = [leaders |-> 0, clients |-> 0, client_thread_is_leader |-> 0,
           event_loop_threads_waiting |-> {}, follower_set |-> <<>>,
           event_loop_thread |-> [t \in Threads |-> 0],
           client_leader_thread |-> [t \in Threads |-> 0],
           deferred |-> 0, woken |-> {}, has_shutdown |-> FALSE,
           reactor_shutdown |-> FALSE, event_loop_done |-> FALSE]
  /\ stack = [t \in Threads |-> <<>>]

\* What an event can be changed to.
Completions == {"SUCCESS", "CONNECTION_CLOSED"}

Depths == 1..MaxDepth

Step(t) ==
  \/ \E timed \in TimedCalls : Invoke(t, timed) \/ Run(t, timed)
  \/ WaitForEvent(t)
  \/ FollowerWakes(t)
  \/ FollowerTimesOut(t)
  \/ FollowerWaitFails(t)
  \/ LeaveReactor(t)
  \/ Yielded(t)
  \/ StartIteration(t)
  \/ EnterEventLoop(t)
  \/ EnteringWakes(t)
  \/ EnteringFails(t)
  \/ FailIteration(t)
  \/ \E again \in BOOLEAN : EndIteration(t, again)
  \/ \E u \in Threads, i \in Depths, new \in Completions :
       Dispatch(t, u, i, new) \/ ChangeOutside(t, u, i, new)
  \/ \E result \in Results : HandleNothing(t, result)
  \/ Upcall(t)
  \/ UpcallReturns(t)
  \/ DeferEvent(t)

Next ==
  \/ \E t \in Threads : Step(t)
  \/ Shutdown
  \/ ShutdownReactor

Spec == Init /\ [][Next]_vars

\* What a thread does by itself, once it has lock_ or the reactor is closed.
Proceed(t) ==
  \/ WaitForEvent(t) \/ FollowerWakes(t) \/ LeaveReactor(t) \/ Yielded(t)
  \/ StartIteration(t) \/ EnterEventLoop(t) \/ EnteringWakes(t) \/ FailIteration(t)
  \/ \E again \in BOOLEAN : EndIteration(t, again)
  \/ lf.event_loop_done /\ HandleNothing(t, "error")

\* Where the d-th call of thread u, counted from the outermost, is in its stack.
Index(u, d) == Len(stack[u]) - d + 1

\* A reply stays readable: the reactor reads it if threads keep running the
\* reactor.  Application code returns from its upcalls.
FairSpec ==
  /\ Spec
  /\ \A t \in Threads : WF_vars(Proceed(t)) /\ SF_vars(UpcallReturns(t))
  /\ \A u \in Threads, d \in Depths :
       SF_vars(\E t \in Threads : Dispatch(t, u, Index(u, d), "SUCCESS"))

-----------------------------------------------------------------------------
(* Properties *)

(***************************************************************************)
(* The counters never become negative, although both set_upcall_thread and *)
(* the helpers' destructors may give the same leadership up.               *)
(***************************************************************************)
TypeOK ==
  /\ lf.leaders \in Nat /\ lf.clients \in Nat
  /\ lf.client_thread_is_leader \in Nat
  /\ lf.event_loop_threads_waiting \subseteq Threads
  /\ lf.follower_set \in Seq(Threads)
  /\ lf.event_loop_thread \in [Threads -> Nat]
  /\ lf.client_leader_thread \in [Threads -> Nat]
  /\ lf.deferred \in 0..MaxDeferred
  /\ lf.woken \subseteq Threads
  /\ {lf.has_shutdown, lf.reactor_shutdown, lf.event_loop_done} \subseteq BOOLEAN
  /\ stack \in [Threads -> Seq(Calls)]

\* Threads that leaders_ counts: a client that waits has stepped down.
Counted == {t \in Threads : Leads(lf, t) /\ At(t) \notin {"follower", "yielding"}}

(***************************************************************************)
(* leaders_ counts the leading threads, through all the increments and     *)
(* decrements that upcalls, nested invocations and nested event loops      *)
(* spread over several calls: it never loses a leader nor invents one.     *)
(***************************************************************************)
LeadersCounted == lf.leaders = Cardinality(Counted)

(***************************************************************************)
(* The follower set holds exactly the followers that nobody has signaled,  *)
(* once each: an elected or completed follower is never elected again.     *)
(***************************************************************************)
FollowersLinked ==
  /\ \A t \in Threads :
       (\E i \in 1..Len(lf.follower_set) : lf.follower_set[i] = t)
         <=> At(t) = "follower" /\ t \notin lf.woken
  /\ \A i, j \in 1..Len(lf.follower_set) :
       lf.follower_set[i] = lf.follower_set[j] => i = j

(***************************************************************************)
(* Leadership abdication: while a thread executes the upcall of a request  *)
(* it is not counted as a leader, so that another thread can lead.         *)
(***************************************************************************)
UpcallsAbdicate == \A t \in Threads : At(t) = "upcall" => t \notin Counted

(***************************************************************************)
(* A client leads alone: set_event_loop_thread keeps event loop threads    *)
(* out while it does ("Make sure that there is no other client thread run  *)
(* the show", Leader_Follower.inl:77), and a client does not lead next to  *)
(* them.                                                                   *)
(***************************************************************************)
ClientLeadsAlone ==
  \A t \in Counted : lf.client_leader_thread[t] > 0 => Counted = {t}

(***************************************************************************)
(* Somebody runs the reactor while followers sleep in the hope of it:      *)
(* there is a leader, or a thread that is on its way to lead or to elect.  *)
(***************************************************************************)
Takeover(t) ==
  \/ At(t) = "follower" /\ t \in lf.woken /\ keep_waiting(Top(t))
  \/ At(t) = "entering" /\ t \in lf.woken
  \/ At(t) \in {"leaving", "yielding", "failed", "ended"}

NoStrandedFollowers ==
  (\E t \in Threads : At(t) = "follower" /\ t \notin lf.woken) =>
    lf.leaders > 0 \/ \E t \in Threads : Takeover(t)

(***************************************************************************)
(* Likewise an event loop thread waits only while a client leads, or while *)
(* the wakeup is on its way.                                               *)
(***************************************************************************)
NoStrandedEventLoop ==
  \A t \in Threads : At(t) = "entering" /\ t \notin lf.woken =>
    lf.client_thread_is_leader > 0 \/ \E u \in Threads : Takeover(u)

(***************************************************************************)
(* A follower whose event is complete has been woken.                      *)
(***************************************************************************)
CompletionWakes ==
  \A t \in Threads : At(t) = "follower" /\ ~keep_waiting(Top(t)) => t \in lf.woken

(***************************************************************************)
(* A deferred request is not forgotten: the client leader that deferred it *)
(* still has to go through resume_events.                                  *)
(***************************************************************************)
DeferredWillResume ==
  lf.deferred > 0 =>
    \E t \in Threads, i \in Depths :
      i <= Len(stack[t]) /\ stack[t][i].at \in {"leading", "leaving"}

(***************************************************************************)
(* After the shutdown of the reactor it stays open exactly as long as      *)
(* clients wait for replies ("when the last one does it will shutdown the  *)
(* reactor for us", Thread_Lane_Resources.cpp:494-495).                    *)
(***************************************************************************)
ReactorOpenForClients ==
  lf.reactor_shutdown /\ ~DropReplies => (lf.event_loop_done <=> lf.clients = 0)

\* The d-th call of t, counted from the outermost, is an invocation that waits.
Invoking(t, d) == d <= Len(stack[t]) /\ stack[t][Index(t, d)].at \in Waiting

\* ... or it, or a call inside it, is ORB::run.
RunsInside(t, d) == \E i \in 1..Index(t, d) : stack[t][i].at \in Looping

(***************************************************************************)
(* An invocation that the network answers returns to its caller, whoever   *)
(* leads, through every change of leader and whatever upcalls and nested   *)
(* invocations its thread makes meanwhile, also during the shutdown of the *)
(* ORB: the d-th call of the thread is popped.  The exception is a thread  *)
(* that runs ORB::run in an upcall, which returns when the ORB likes.      *)
(***************************************************************************)
InvocationsReturn ==
  \A t \in Threads, d \in Depths :
    Invoking(t, d) ~> (Len(stack[t]) < d \/ RunsInside(t, d))

(***************************************************************************)
(* Once the reactor is closed for good every call of ORB::run returns,     *)
(* those that wait for a client leader included ("to ensure that any       *)
(* server threads go away", Leader_Follower.cpp:197-199).                  *)
(***************************************************************************)
ServersLeave ==
  <>[]lf.event_loop_done => \A t \in Threads : []<>(At(t) \notin Looping)
=============================================================================
