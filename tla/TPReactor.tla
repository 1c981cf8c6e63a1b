------------------------------ MODULE TPReactor ------------------------------
(***************************************************************************)
(* ACE_TP_Reactor (ACE/ace/TP_Reactor.cpp) over the handle sets and the    *)
(* handler repository of ACE_Select_Reactor: a pool of threads calls       *)
(* handle_events (), one of them at a time holds the token, waits in       *)
(* select () and takes one event, suspends its handle, gives the token up  *)
(* and makes the upcall.  Meanwhile the other threads, and the upcalls     *)
(* themselves, change the handlers under the same token, and wake the      *)
(* thread in select () with a byte in the notification pipe.               *)
(*                                                                         *)
(* The token is what the module Token shows it to be: a lock that is       *)
(* handed over, writers first.  The reactor's state changes only under it, *)
(* so one action is one step of its owner, or one step outside it.         *)
(***************************************************************************)
EXTENDS Integers, Sequences, FiniteSets

CONSTANTS
  Threads,        \* threads that run the event loop
  Handles,        \* I/O handles, ordered as the bits of a handle set
  notify_handle,  \* read end of the notification pipe
  EventHandlers,  \* handlers whose reference counting policy is ENABLED
  Null,           \* no thread, no handler
  Masks,          \* masks that handlers are registered for
  AppResumes,     \* handlers with ACE_APPLICATION_RESUMES_HANDLER
  Timers,         \* there are timers, which may be due at any time
  Calls,          \* operations that the application calls
  Reopens,        \* it registers a handler again that has been registered
  TimedWaits,     \* handle_events () is called with a max_wait_time
  SelectFails,    \* select () may fail (EINTR)
  MaxPipe         \* buffers that fit into the notification pipe

\* get_socket_event_info looks through the three sets in this order.
DispatchOrder == <<"WRITE", "EXCEPT", "READ">>

ASSUME ReactorAssumption ==
  /\ Handles \subseteq Nat /\ notify_handle \in Nat \ Handles
  /\ IsFiniteSet(Threads) /\ IsFiniteSet(Handles)
  /\ Null \notin Threads /\ Null \notin EventHandlers
  /\ Masks \subseteq {"WRITE", "EXCEPT", "READ"}
  /\ AppResumes \subseteq EventHandlers
  /\ {Timers, Reopens, TimedWaits, SelectFails} \subseteq BOOLEAN
  /\ MaxPipe \in Nat \ {0}

VARIABLES
  token,            \* owner of the token, or Null
  writers, readers, \* threads queued for it
  rep,              \* handler_rep_ and the handle sets, see Reps
  state_changed,    \* state_changed_
  event_count,      \* what select () returned to the leader: -1, 0 or 1 (> 0)
  deactivated,      \* deactivated_
  pipe,             \* buffers in the notification pipe: handlers, or Null
  owned,            \* handlers to which their creator has a reference
  pc,               \* pc[t]: where t is, see Places
  info,             \* info[t]: the ACE_EH_Dispatch_Info of the upcall of t
  calling           \* threads in a call of an operation of the reactor

tokenVars == <<token, writers, readers>>
loopVars  == <<state_changed, event_count>>
vars == <<token, writers, readers, rep, state_changed, event_count, deactivated,
          pipe, owned, pc, info, calling>>

Places == {"idle", "handle_events", "dispatch", "upcall", "timer", "notify", "post"}

Bits == Handles \X Masks
NotifyBit == <<notify_handle, "READ">>

\* The repository, wait_set_, suspend_set_ and ready_set_, each the set of its
\* <handle, mask> bits, and the reference counts of the handlers.
Reps == [handler : [Handles -> EventHandlers \cup {Null}],
         wait : SUBSET (Bits \cup {NotifyBit}), suspend : SUBSET Bits,
         ready : SUBSET (Bits \cup {NotifyBit}),
         refs : [EventHandlers -> Int]]

NoInfo == [handle |-> notify_handle, eh |-> Null, mask |-> "READ", failed |-> FALSE]

-----------------------------------------------------------------------------
(* Handle sets and repository *)

BitsOf(h, M) == {h} \X M

IsSuspended(r, h) ==
  r.handler[h] # Null /\ r.suspend \cap BitsOf(h, Masks) # {}

AddReference(r, eh)    == [r EXCEPT !.refs[eh] = @ + 1]
RemoveReference(r, eh) == [r EXCEPT !.refs[eh] = @ - 1]

\* All remembered ready bits are forgotten: select () is asked again.
ClearDispatchMask(r) == [r EXCEPT !.ready = {}]

Bind(r, h, eh, M) ==
  LET bound == [r EXCEPT !.handler[h] = eh]
      added == IF IsSuspended(bound, h)
               THEN [bound EXCEPT !.suspend = @ \cup BitsOf(h, M)]
               ELSE [bound EXCEPT !.wait = @ \cup BitsOf(h, M)]
  IN  CASE r.handler[h] = Null -> AddReference(added, eh)
        [] r.handler[h] = eh   -> added
        [] OTHER               -> r

Unbind(r, h, M) ==
  LET cleared == ClearDispatchMask([r EXCEPT !.wait = @ \ BitsOf(h, M),
                                             !.suspend = @ \ BitsOf(h, M)])
  IN  IF (cleared.wait \cup cleared.suspend) \cap BitsOf(h, Masks) # {}
      THEN cleared
      ELSE LET gone == [cleared EXCEPT !.handler[h] = Null]
           IN  IF r.handler[h] = Null THEN gone
               ELSE RemoveReference(gone, r.handler[h])

\* Mutant: all that is waited for is moved, the notification handle with it.
Suspend_All(r, h) ==
  IF r.handler[h] = Null THEN r
  ELSE ClearDispatchMask([r EXCEPT !.suspend = @ \cup r.wait, !.wait = {}])

Suspend(r, h) ==
  IF r.handler[h] = Null THEN r
  ELSE LET moved == r.wait \cap BitsOf(h, Masks)
       IN  ClearDispatchMask([r EXCEPT !.suspend = @ \cup moved, !.wait = @ \ moved])

Resume(r, h) ==
  IF r.handler[h] = Null THEN r
  ELSE LET moved == r.suspend \cap BitsOf(h, Masks)
       IN  [r EXCEPT !.wait = @ \cup moved, !.suspend = @ \ moved]

\* Mutant: a mask added to a suspended handle is waited for at once.
MaskAdd_Waits(r, h, M) == [r EXCEPT !.wait = @ \cup BitsOf(h, M)]

\* mask_ops with ADD_MASK, CLR_MASK and SET_MASK; it does not look for a handler.
\* Only CLR_MASK forgets what is ready.
MaskAdd(r, h, M) ==
  IF IsSuspended(r, h) THEN [r EXCEPT !.suspend = @ \cup BitsOf(h, M)]
                       ELSE [r EXCEPT !.wait = @ \cup BitsOf(h, M)]

MaskClear(r, h, M) ==
  ClearDispatchMask(
    IF IsSuspended(r, h) THEN [r EXCEPT !.suspend = @ \ BitsOf(h, M)]
                         ELSE [r EXCEPT !.wait = @ \ BitsOf(h, M)])

MaskSet(r, h, M) ==
  IF IsSuspended(r, h)
  THEN [r EXCEPT !.suspend = (@ \ BitsOf(h, Masks)) \cup BitsOf(h, M)]
  ELSE [r EXCEPT !.wait = (@ \ BitsOf(h, Masks)) \cup BitsOf(h, M)]

\* ready_ops with ADD_MASK, SET_MASK and CLR_MASK, which forgets them all.
ReadyMasks(r, h, M) ==
  {r.ready \cup BitsOf(h, M), (r.ready \ BitsOf(h, Masks)) \cup BitsOf(h, M), {}}

-----------------------------------------------------------------------------
(* Token and notification pipe *)

\* Mutant: threads that wait in handle_events () are not woken.
ReleaseToken_WritersOnly ==
  /\ UNCHANGED readers
  /\ IF writers # <<>> THEN token' = Head(writers) /\ writers' = Tail(writers)
                       ELSE token' = Null /\ UNCHANGED writers

ReleaseToken ==
  IF writers # <<>>
  THEN token' = Head(writers) /\ writers' = Tail(writers) /\ UNCHANGED readers
  ELSE IF readers # <<>>
  THEN token' = Head(readers) /\ readers' = Tail(readers) /\ UNCHANGED writers
  ELSE token' = Null /\ UNCHANGED <<writers, readers>>

\* A send that does not wait: if the pipe is full the buffer is dropped.
SendWakeup == pipe' = IF Len(pipe) < MaxPipe THEN Append(pipe, Null) ELSE pipe

\* Mutant: a thread that has to wait does not wake the one in select ().
AcquireToken_Silent(t) ==
  /\ UNCHANGED <<readers, pipe>>
  /\ IF token = Null THEN token' = t /\ UNCHANGED writers
                     ELSE writers' = Append(writers, t) /\ UNCHANGED token

\* acquire (): if the token is taken, the sleep_hook notifies.
AcquireToken(t) ==
  /\ UNCHANGED readers
  /\ IF token = Null
     THEN token' = t /\ UNCHANGED <<writers, pipe>>
     ELSE writers' = Append(writers, t) /\ UNCHANGED token /\ SendWakeup

AcquireReadToken(t) ==
  /\ UNCHANGED writers
  /\ IF token = Null THEN token' = t /\ UNCHANGED readers
                     ELSE readers' = Append(readers, t) /\ UNCHANGED token

\* A thread leaves the queue in which it waits.
remove_entry(q, t) ==
  IF \E i \in 1..Len(q) : q[i] = t
  THEN LET k == CHOOSE i \in 1..Len(q) : q[i] = t
       IN  [i \in 1..(Len(q) - 1) |-> IF i < k THEN q[i] ELSE q[i + 1]]
  ELSE q

GoTo(t, place) == pc' = [pc EXCEPT ![t] = place]

\* The leader gives the token up, for an upcall or to return.
LeaveToken(t, place) == ReleaseToken /\ GoTo(t, place) /\ event_count' = 0

-----------------------------------------------------------------------------
(* handle_events *)

HandleEvents(t) ==
  /\ pc[t] = "idle" /\ t \notin calling
  /\ AcquireReadToken(t)
  /\ GoTo(t, "handle_events")
  /\ UNCHANGED <<rep, loopVars, deactivated, pipe, owned, info, calling>>

\* max_wait_time has passed, and the token has not come.
ReadTokenTimedOut(t) ==
  /\ pc[t] = "handle_events" /\ token # t
  /\ TimedWaits
  /\ readers' = remove_entry(readers, t)
  /\ GoTo(t, "idle")
  /\ UNCHANGED <<token, writers, rep, loopVars, deactivated, pipe, owned, info, calling>>

LeaveDeactivated(t) ==
  /\ pc[t] = "handle_events" /\ token = t
  /\ deactivated
  /\ ReleaseToken
  /\ GoTo(t, "idle")
  /\ UNCHANGED <<rep, loopVars, deactivated, pipe, owned, info, calling>>

\* Bits remembered from the last select (), unless the state has changed.
Remembered == IF state_changed THEN {} ELSE rep.ready

\* select () finds some of the handles ready, and the pipe if it is not empty.
SelectReturns(ready) ==
  /\ ready \subseteq rep.wait
  /\ NotifyBit \in ready <=> pipe # <<>>

\* Remembered events; or select () returns, with handles, with none because time
\* has passed (max_wait_time or the earliest timer), or with an error.
GetEventForDispatching(t, ready, count) ==
  /\ pc[t] = "handle_events" /\ token = t
  /\ ~deactivated
  /\ \/ Remembered # {} /\ ready = Remembered /\ count = 1
     \/ /\ Remembered = {} /\ SelectReturns(ready)
        /\ IF ready = {} THEN count = 0 /\ (TimedWaits \/ Timers) ELSE count = 1
     \/ Remembered = {} /\ SelectFails /\ ready = {} /\ count = -1
  /\ rep' = [rep EXCEPT !.ready = ready]
  /\ event_count' = count
  /\ state_changed' = FALSE
  /\ GoTo(t, "dispatch")
  /\ UNCHANGED <<tokenVars, deactivated, pipe, owned, info, calling>>

Dispatching(t) == pc[t] = "dispatch" /\ token = t

\* Timers come first; expire_single releases the token before the upcall.
HandleTimerEvents(t) ==
  /\ Dispatching(t)
  /\ Timers
  /\ LeaveToken(t, "timer")
  /\ UNCHANGED <<rep, state_changed, deactivated, pipe, owned, info, calling>>

NotifyReady == event_count > 0 /\ NotifyBit \in rep.ready

\* The pipe is read up to the first buffer that has a handler.
FirstDispatchable(i) ==
  /\ i \in DOMAIN pipe /\ pipe[i] # Null
  /\ \A j \in 1 .. i - 1 : pipe[j] = Null

HandleNotifyEvents(t, i) ==
  /\ Dispatching(t)
  /\ NotifyReady
  /\ FirstDispatchable(i)
  /\ pipe' = SubSeq(pipe, i + 1, Len(pipe))
  /\ rep' = [rep EXCEPT !.ready = @ \ {NotifyBit}]
  /\ info' = [info EXCEPT ![t] = [NoInfo EXCEPT !.eh = pipe[i]]]
  /\ LeaveToken(t, "notify")
  /\ UNCHANGED <<state_changed, deactivated, owned, calling>>

\* Mutant: the pipe is emptied before the buffers are looked at.
NotificationsHandled_Emptied(t) ==
  /\ Dispatching(t)
  /\ pipe' = IF NotifyReady THEN <<>> ELSE pipe

\* No timer, no notification to dispatch: the wakeups in the pipe have been read.
NotificationsHandled(t) ==
  /\ Dispatching(t)
  /\ NotifyReady => \A i \in DOMAIN pipe : pipe[i] = Null
  /\ pipe' = IF NotifyReady THEN <<>> ELSE pipe

WithoutNotify == [rep EXCEPT !.ready = @ \ {NotifyBit}]

Candidates(m) ==
  {h \in Handles : <<h, m>> \in rep.ready /\ ~IsSuspended(rep, h)}

\* get_socket_event_info: the lowest handle of the first set that has one.
GetSocketEventInfo(h, m) ==
  /\ event_count > 0
  /\ h \in Candidates(m) /\ \A k \in Candidates(m) : h <= k
  /\ \E i \in 1 .. 3 :
       /\ DispatchOrder[i] = m
       /\ \A j \in 1 .. i - 1 : Candidates(DispatchOrder[j]) = {}

ClearHandle(r, h) == [r EXCEPT !.ready = @ \ BitsOf(h, Masks)]

\* Mutant: the handle is not suspended before the token is released.
Claim_NoSuspend(r, h, eh) == AddReference(ClearDispatchMask(r), eh)

\* Mutant: the handler has no reference for the time of the upcall.
Claim_NoReference(r, h, eh) == Suspend(ClearHandle(r, h), h)

\* What is done to the handle before the token is released for the upcall.
Claim(r, h, eh) == AddReference(Suspend(ClearHandle(r, h), h), eh)

HandleSocketEvents(t, h, m) ==
  LET eh == rep.handler[h]
  IN  /\ NotificationsHandled(t)
      /\ GetSocketEventInfo(h, m)
      /\ eh # Null
      /\ rep' = Claim(WithoutNotify, h, eh)
      /\ info' = [info EXCEPT ![t] =
                   [handle |-> h, eh |-> eh, mask |-> m, failed |-> FALSE]]
      /\ LeaveToken(t, "upcall")
      /\ UNCHANGED <<state_changed, deactivated, owned, calling>>

\* A ready handle without a handler is taken out of the sets.
HandleRemoved(t, h, m) ==
  /\ NotificationsHandled(t)
  /\ GetSocketEventInfo(h, m)
  /\ rep.handler[h] = Null
  /\ rep' = Unbind(ClearHandle(WithoutNotify, h), h, {m})
  /\ state_changed' = TRUE
  /\ LeaveToken(t, "idle")
  /\ UNCHANGED <<deactivated, owned, info, calling>>

\* Nothing was dispatched: ask select () again (bug 2540).
HandleNothing(t) ==
  /\ NotificationsHandled(t)
  /\ \A h \in Handles, m \in Masks : ~GetSocketEventInfo(h, m)
  /\ rep' = IF event_count > 0 THEN WithoutNotify ELSE rep
  /\ state_changed' = (event_count # 0)
  /\ LeaveToken(t, "idle")
  /\ UNCHANGED <<deactivated, owned, info, calling>>

-----------------------------------------------------------------------------
(* Upcalls, outside the token *)

\* dispatch_socket_event: the handler asks for its removal, or not.
UpcallReturns(t, failed) ==
  LET eh == info[t].eh
  IN  /\ pc[t] = "upcall" /\ t \notin calling
      /\ IF failed \/ eh \notin AppResumes
         THEN /\ AcquireToken(t)
              /\ info' = [info EXCEPT ![t].failed = failed]
              /\ GoTo(t, "post")
              /\ UNCHANGED rep
         ELSE /\ rep' = RemoveReference(rep, eh)
              /\ info' = [info EXCEPT ![t] = NoInfo]
              /\ GoTo(t, "idle")
              /\ UNCHANGED <<tokenVars, pipe>>
      /\ UNCHANGED <<loopVars, deactivated, owned, calling>>

\* Mutant: a handler that asks for the removal of one mask is not resumed.
AfterUpcall_RemoveOnly(r, i) ==
  IF r.handler[i.handle] # i.eh THEN r
  ELSE IF i.failed THEN Unbind(r, i.handle, {i.mask})
  ELSE IF i.eh \notin AppResumes THEN Resume(r, i.handle) ELSE r

\* Remove and resume, if the handle still belongs to the same handler.
AfterUpcall(r, i) ==
  IF r.handler[i.handle] # i.eh THEN r
  ELSE LET removed == IF i.failed THEN Unbind(r, i.handle, {i.mask}) ELSE r
       IN  IF i.eh \notin AppResumes THEN Resume(removed, i.handle) ELSE removed

PostProcess(t) ==
  /\ pc[t] = "post" /\ token = t
  /\ rep' = RemoveReference(AfterUpcall(rep, info[t]), info[t].eh)
  /\ info' = [info EXCEPT ![t] = NoInfo]
  /\ ReleaseToken
  /\ GoTo(t, "idle")
  /\ UNCHANGED <<loopVars, deactivated, pipe, owned, calling>>

NotifyReturns(t) ==
  /\ pc[t] = "notify" /\ t \notin calling
  /\ rep' = RemoveReference(rep, info[t].eh)
  /\ info' = [info EXCEPT ![t] = NoInfo]
  /\ GoTo(t, "idle")
  /\ UNCHANGED <<tokenVars, loopVars, deactivated, pipe, owned, calling>>

TimerReturns(t) ==
  /\ pc[t] = "timer" /\ t \notin calling
  /\ GoTo(t, "idle")
  /\ UNCHANGED <<tokenVars, rep, loopVars, deactivated, pipe, owned, info, calling>>

-----------------------------------------------------------------------------
(* The application: calls from outside the reactor and from upcalls *)

MakesCalls(t) ==
  pc[t] \in {"idle", "upcall", "timer", "notify"} /\ t \notin calling

\* The caller has a reference: as its creator, or because it is in its upcall.
Refers(t, eh) == eh \in owned \/ info[t].eh = eh

(***************************************************************************)
(* A call waits for the token.  What it is called with does not depend on  *)
(* the reactor, so the arguments are chosen when it is performed.          *)
(***************************************************************************)
Call(t) ==
  /\ MakesCalls(t)
  /\ calling' = calling \cup {t}
  /\ AcquireToken(t)
  /\ UNCHANGED <<rep, loopVars, deactivated, owned, pc, info>>

Performs(t, op) == t \in calling /\ token = t /\ op \in Calls

CallReturns(t) ==
  /\ calling' = calling \ {t}
  /\ ReleaseToken
  /\ UNCHANGED <<loopVars, owned, pc, info>>

(***************************************************************************)
(* A handler is registered for one handle.  Unless Reopens, it is          *)
(* registered only while nobody but its creator refers to it: not again    *)
(* during one of its own upcalls.                                          *)
(***************************************************************************)
MayRegister(t, h, eh) ==
  /\ Refers(t, eh)
  /\ \A k \in Handles : rep.handler[k] = eh => k = h
  /\ Reopens \/ (eh \in owned /\ rep.refs[eh] = 1)

RegisterHandler(t, h, eh, M) ==
  /\ Performs(t, "register") /\ MayRegister(t, h, eh)
  /\ rep' = Bind(rep, h, eh, M)
  /\ CallReturns(t) /\ UNCHANGED <<deactivated, pipe>>

RemoveHandler(t, h, M) ==
  /\ Performs(t, "remove")
  /\ rep' = Unbind(rep, h, M)
  /\ CallReturns(t) /\ UNCHANGED <<deactivated, pipe>>

SuspendHandler(t, h) ==
  /\ Performs(t, "suspend")
  /\ rep' = Suspend(rep, h)
  /\ CallReturns(t) /\ UNCHANGED <<deactivated, pipe>>

ResumeHandler(t, h) ==
  /\ Performs(t, "resume")
  /\ rep' = Resume(rep, h)
  /\ CallReturns(t) /\ UNCHANGED <<deactivated, pipe>>

MaskOps(t, h, M) ==
  /\ \/ Performs(t, "add") /\ rep' = MaskAdd(rep, h, M)
     \/ Performs(t, "clear") /\ rep' = MaskClear(rep, h, M)
     \/ Performs(t, "set") /\ rep' = MaskSet(rep, h, M)
  /\ CallReturns(t) /\ UNCHANGED <<deactivated, pipe>>

\* The application marks handles as ready, or as not ready.
ReadyOps(t, h, M) ==
  /\ Performs(t, "ready")
  /\ \E ready \in ReadyMasks(rep, h, M) : rep' = [rep EXCEPT !.ready = ready]
  /\ CallReturns(t) /\ UNCHANGED <<deactivated, pipe>>

\* The wakeup is sent after the token is released.  It is one step here: nobody
\* reads the pipe once deactivated_ is set.
Deactivate(t) ==
  /\ Performs(t, "deactivate")
  /\ deactivated' = TRUE
  /\ SendWakeup
  /\ CallReturns(t) /\ UNCHANGED rep

\* notify () needs no token; the reference goes with the buffer.
Notify(t, eh) ==
  /\ MakesCalls(t) /\ "notify" \in Calls
  /\ Refers(t, eh) /\ Len(pipe) < MaxPipe
  /\ pipe' = Append(pipe, eh)
  /\ rep' = AddReference(rep, eh)
  /\ UNCHANGED <<tokenVars, loopVars, deactivated, owned, pc, info, calling>>

DropReference(eh) ==
  /\ eh \in owned
  /\ owned' = owned \ {eh}
  /\ rep' = RemoveReference(rep, eh)
  /\ UNCHANGED <<tokenVars, loopVars, deactivated, pipe, pc, info, calling>>

-----------------------------------------------------------------------------
Init ==
  /\ token = Null /\ writers = <<>> /\ readers = <<>>
  /\ rep = [handler |-> [h \in Handles |-> Null], wait |-> {NotifyBit},
            suspend |-> {}, ready |-> {}, refs |-> [eh \in EventHandlers |-> 1]]
  /\ state_changed = FALSE /\ event_count = 0 /\ deactivated = FALSE
  /\ pipe = <<>> /\ owned = EventHandlers
  /\ pc = [t \in Threads |-> "idle"]
  /\ info = [t \in Threads |-> NoInfo]
  /\ calling = {}

Perform(t) ==
  \/ \E h \in Handles :
       \/ \E M \in SUBSET Masks \ {{}} :
            \/ \E eh \in EventHandlers : RegisterHandler(t, h, eh, M)
            \/ RemoveHandler(t, h, M)
       \/ \E M \in SUBSET Masks : MaskOps(t, h, M) \/ ReadyOps(t, h, M)
       \/ SuspendHandler(t, h) \/ ResumeHandler(t, h)
  \/ Deactivate(t)

\* Notifications and sockets, if no timer is due.
DispatchOther(t) ==
  \/ \E i \in 1 .. MaxPipe : HandleNotifyEvents(t, i)
  \/ \E h \in Handles, m \in Masks : HandleSocketEvents(t, h, m) \/ HandleRemoved(t, h, m)
  \/ HandleNothing(t)

\* The thread that holds the token goes on.
Lead(t) ==
  \/ LeaveDeactivated(t)
  \/ \E ready \in SUBSET (Bits \cup {NotifyBit}), count \in {-1, 0, 1} :
       GetEventForDispatching(t, ready, count)
  \/ HandleTimerEvents(t)
  \/ DispatchOther(t)
  \/ PostProcess(t)
  \/ Perform(t)

Return(t) ==
  \/ \E failed \in BOOLEAN : UpcallReturns(t, failed)
  \/ NotifyReturns(t)
  \/ TimerReturns(t)

Next ==
  \/ \E t \in Threads : \/ HandleEvents(t) \/ ReadTokenTimedOut(t)
                        \/ Lead(t) \/ Return(t) \/ Call(t)
                        \/ \E eh \in EventHandlers : Notify(t, eh)
  \/ \E eh \in EventHandlers : DropReference(eh)

Spec == Init /\ [][Next]_vars

(***************************************************************************)
(* The owner of the token goes on, but in select () only if there is an    *)
(* event; upcalls return and the threads of the pool call handle_events () *)
(* again, whatever calls they make meanwhile; timers are not due every     *)
(* time that a thread looks at them; and the application does not go on    *)
(* calling ready_ops (), which keeps select () from being asked, for ever. *)
(***************************************************************************)
Fairness ==
  /\ \A t \in Threads :
       /\ WF_vars(/\ pc[t] = "handle_events" => deactivated \/ Remembered # {} \/ pipe # <<>>
                  /\ Lead(t))
       /\ SF_vars(Return(t) \/ HandleEvents(t))
  /\ SF_vars(\E t \in Threads : DispatchOther(t))
  /\ <>[][\A t \in Threads, h \in Handles, M \in SUBSET Masks : ~ReadyOps(t, h, M)]_vars

FairSpec == Spec /\ Fairness

-----------------------------------------------------------------------------
(* Properties *)

(***************************************************************************)
(* The variables keep their types; handles move between the handle sets    *)
(* while threads wait, but the notification handle is always waited for    *)
(* and never suspended, so that a thread in select () can be woken.        *)
(***************************************************************************)
TypeOK ==
  /\ token \in Threads \cup {Null}
  /\ writers \in Seq(Threads) /\ readers \in Seq(Threads)
  /\ rep \in Reps /\ NotifyBit \in rep.wait
  /\ {state_changed, deactivated} \subseteq BOOLEAN
  /\ event_count \in {-1, 0, 1}
  /\ pipe \in Seq(EventHandlers \cup {Null}) /\ Len(pipe) <= MaxPipe
  /\ owned \subseteq EventHandlers
  /\ pc \in [Threads -> Places]
  /\ calling \subseteq Threads

\* A handle is suspended with all its masks or with none, and only while it has
\* a handler; no bit of it is ready then, unless the application sets ready bits;
\* and ready bits are waited for, unless it replaces masks by SET_MASK as well.
Consistent(r) ==
  /\ \A h \in Handles :
       \/ r.suspend \cap BitsOf(h, Masks) = {}
       \/ /\ r.wait \cap BitsOf(h, Masks) = {} /\ r.handler[h] # Null
          /\ "ready" \in Calls \/ r.ready \cap BitsOf(h, Masks) = {}
  /\ {"set", "ready"} \cap Calls # {} \/ r.ready \subseteq r.wait

(***************************************************************************)
(* The handle sets agree whatever calls are made during upcalls: no handle *)
(* is half suspended; is_suspended_i overlooks no suspended handle for     *)
(* want of a handler; and the ready bits that a later leader still finds   *)
(* are no longer there for a handle that has been suspended meanwhile, nor *)
(* for a mask that has been removed.  The exceptions are in the code:      *)
(* mask_ops (SET_MASK) removes masks and keeps their ready bits, and       *)
(* ready_ops sets whatever it is asked to.                                 *)
(***************************************************************************)
SetsConsistent == Consistent(rep)

InUpcall(t, eh) == pc[t] \in {"upcall", "post"} /\ info[t].eh = eh

(***************************************************************************)
(* No two threads are in I/O upcalls of one handler (TP_Reactor.h:167-168) *)
(* that the reactor resumes.                                               *)
(***************************************************************************)
OneUpcallPerHandler ==
  \A eh \in EventHandlers \ AppResumes, t, u \in Threads :
    InUpcall(t, eh) /\ InUpcall(u, eh) => t = u

(***************************************************************************)
(* No handle is left suspended: the upcall that suspended it is still      *)
(* going on or has to be post-processed, unless the application has asked  *)
(* for the suspension or has taken over the duty to resume.                *)
(***************************************************************************)
SuspendedForUpcall ==
  \A h \in Handles :
    \/ rep.suspend \cap BitsOf(h, Masks) = {}
    \/ rep.handler[h] \in AppResumes
    \/ \E t \in Threads : InUpcall(t, rep.handler[h]) /\ info[t].handle = h

(***************************************************************************)
(* A handler has exactly one reference for its creator, for the            *)
(* repository, for each upcall and for each buffer in the pipe, so it is   *)
(* neither deleted during an upcall nor leaked.                            *)
(***************************************************************************)
ReferencesCounted ==
  \A eh \in EventHandlers :
    rep.refs[eh] = Cardinality({eh} \cap owned)
                   + Cardinality({h \in Handles : rep.handler[h] = eh})
                   + Cardinality({t \in Threads : info[t].eh = eh})
                   + Cardinality({i \in DOMAIN pipe : pipe[i] = eh})

(***************************************************************************)
(* Every operation of the reactor returns, even if a thread sleeps in      *)
(* select () with the token and nothing happens: no thread is in one for   *)
(* ever.                                                                   *)
(***************************************************************************)
CallsReturn == \A t \in Threads : []<>(t \notin calling)

(***************************************************************************)
(* A notification is dispatched, unless the reactor is deactivated.        *)
(***************************************************************************)
NotificationsDispatched ==
  \A eh \in EventHandlers :
    (\E i \in DOMAIN pipe : pipe[i] = eh)
      ~> \/ \E t \in Threads : pc[t] = "notify" /\ info[t].eh = eh
         \/ deactivated

(***************************************************************************)
(* Once the reactor is deactivated, every thread returns from              *)
(* handle_events (): those that wait for the token or in select (), and    *)
(* those in an upcall or on the way to or from one.  (The reactor stays    *)
(* deactivated, so this is deactivated ~> pc[t] = "idle".)                 *)
(***************************************************************************)
DeactivatedLeave ==
  \A t \in Threads : []<>(deactivated => pc[t] = "idle")
=============================================================================
