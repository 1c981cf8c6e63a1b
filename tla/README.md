# A verification project for ACE and TAO

The repository holds ACE (a portable C++ framework for concurrent network
programs), TAO (a CORBA ORB built on it), and CIAO, DAnCE, the IDL compiler and
some dozens of CORBA services built on those. This project models, model-checks
and proves properties of the parts that carry the concurrency of the other ones:
the token that serialises the threads of a reactor, the thread-pool reactor that
runs under it, the leader/follower set that shares the reactor among clients and
servers in one process, and the message queue and the barrier by which the
threads of an application meet. Paths below are relative to the repository.

## 1. Inventory

Each row: the state a component keeps, what it does with the other components,
what is hard about it, and what makes it correct. "M" is modelled, "P" is partly
modelled, "-" is not (the reason is in section 7 and in PROJECT.json).

| | component | state and operations | interaction | hard behaviour | correct if |
|---|---|---|---|---|---|
| M | `ACE_Token` (ACE/ace/Token) | owner, recursion count, two queues of stack-allocated entries; acquire (read/write), renew, release | locks `ACE_Select_Reactor` and `ACE_TP_Reactor` | direct handover, timeout against handover, renew of a nested token, spurious wakeups | one owner; never lost; queues exact; writers served in order |
| P | `TAO_Leader_Follower`, `TAO_LF_*` (TAO/tao) | counts of leaders, clients, client leaders and waiting event loop threads; follower set; thread-specific counts; deferred events | called by every two-way invocation, flush and connection wait, by `ORB::run`, by request dispatch | leadership moves between threads in five ways, upcalls nest, timeouts, replies before or during any wait | counts right; nobody sleeps without a leader; every answered call returns |
| P | ORB event loop and shutdown (ORB_Core.cpp, Thread_Lane_Resources.cpp) | `has_shutdown_`, the reactor's closed flag | opens and closes the reactor under the leader/follower lock | shutdown while clients wait | servers leave, pending replies are still read |
| P | waiting strategies, reply dispatchers | state of an `LF_Event` | `wait_for_event`, `state_changed`, `defer_event` | reply, close and timeout race | completion wakes the waiter |
| P | `ACE_TP_Reactor` | token guard, suspended handles, one event per thread | token, notification pipe, timer queue | handles suspended around upcalls while others change them; a thread asleep in select with the token | no two threads in one handler; every suspended handle resumed; every call returns |
| P | `ACE_Select_Reactor`, notification pipe | repository, wait, ready and suspended sets, reference counts; notifications | token, pipe | changes between select and dispatch; full pipe | sets agree; no event delivered after removal; no notification lost |
| P | `ACE_Message_Queue` | list, byte count, water marks, state | tasks | deactivate and pulse against blocked threads; low water mark | no lost wakeup, bounds kept, messages delivered |
| M | `ACE_Barrier` | two generations | threads | a slow waiter of an earlier generation, shutdown | all or none leave |
| - | timer queues | heap, ids, free list | reactor | cancel while expiring | an id names one timer |
| - | locks emulated over mutexes and conditions | counts | all of ACE on some platforms | writer preference, upgrade | exclusion |
| - | `ACE_Thread_Manager`, tasks, futures | thread table | system threads | exit against join | every exit is seen |
| - | transports and their cache, connection events | entry states, queues, several followers per event | leader/follower | purge against reuse, close against wait | entry used by one |
| - | asynchronous invocations | reply dispatchers, timers | leader/follower, reactor | reply against timeout | dispatched once |
| - | POA, thread pools, CORBA services, IDL compiler, wrapper facades | | | | |

The hazards, each at its line, are in PROJECT.json.

## 2. Plan

Done, in this order:

1. `Token`, `MCToken`, `TokenProofs`.
2. `LeaderFollower`, `MCLeaderFollower`, without Dynamic_TP; `LeaderFollowerProofs`
   (counters), `LeaderFollowerWakeups` (sleepers and signals),
   `LeaderFollowerElections` (who leads), each extending the one before.
3. `MessageQueue`, `MCMessageQueue`, `MessageQueueProofs`.
4. `BarrierSpec`, `Barrier` that implements it, `MCBarrier`, `BarrierProofs`.
5. `TPReactor`, `MCTPReactor`, `TPReactorProofs` (handle sets), `TPReactorReferences`
   (reference counts, one upcall per handler): the thread-pool reactor over what
   `Token` shows of the token, with the handle sets and the notification pipe of
   `ACE_Select_Reactor`.

With these, every safety property that a run checks is also a theorem. Left:

6. `TokenSpec`, an abstract recursive handover lock that `Token` implements and
   `TPReactor` uses.
7. The asynchronous reply dispatchers; the transport cache; nested event loops
   of the reactor.

## 3. Modules

### Token

One action is one critical section of `lock_`, from taking it to releasing it,
by a return or inside `wait ()`.

| model | code |
|---|---|
| `owner`, `in_use`, `waiters`, `nesting_level`, `queueing_strategy`, `writers`, `readers` | the members of `ACE_Token`; a queue is the sequence of the threads whose entries are linked |
| `frame[t]`, `runable[t]`, `signaled[t]` | the activation record of the call `t` is blocked in, `runable_` of its entry, and whether a signal has reached its condition variable or semaphore |
| `held[t]` | what the caller knows: its successful acquires minus its releases |
| `AcquireFree`, `AcquireNested`, `AcquireBlock` | the three outcomes of `shared_acquire` before the wait; all the acquire variants call it |
| `RenewBlock` | `renew` up to its wait, when there is somebody to yield to |
| `WakeSignaled`, `WakeSpurious`, `TimedOut`, `WaitFailed` | the ways in which a wait ends, with all that follows until the next wait or the return |
| `ReleaseNested`, `ReleaseLast`, `SetQueueingStrategy` | `release`, `queueing_strategy` |

`wakeup_next_waiter` sends a signal that a semaphore remembers and a condition
variable forgets unless its thread already waits: `UsesSemaphore` chooses.
Branches that change nothing (a failed poll, a renew nobody waits for) are
stuttering steps. `sleep_hook` changes nothing of the token; the one that the
reactor installs is part of `TPReactor`.

### LeaderFollower

One action is one critical section of `lock_`, or one step outside it. The
record `lf` holds the members of `TAO_Leader_Follower`, the thread-specific
counters (`event_loop_thread_`, `client_leader_thread_`), the two shutdown flags
and `woken`, the threads whose condition has been signaled. An operator with the
name of a C++ method maps `lf` before the call to `lf` after it. `stack[t]` is the
stack of calls of a thread: `wait_for_event` and `ORB::run` at their various
points, and application code called back from the reactor, which may invoke and
run again.

| model | code |
|---|---|
| `Invoke`, `WaitForEvent`, `Follow`, `Lead`, `Finish` | an invocation, the head of the loop of `wait_for_event`, and its three ways on |
| `FollowerWakes`, `FollowerTimesOut`, `FollowerWaitFails` | the ends of `follower->wait ()` |
| `LeaveReactor`, `Yielded` | the end of a client's leadership |
| `Run`, `StartIteration`, `EnterEventLoop`, `EnteringWakes`, `EnteringFails`, `FailIteration`, `EndIteration` | `ORB_Core::run` and its `LF_Event_Loop_Thread_Helper` |
| `Dispatch`, `HandleNothing`, `Upcall`, `UpcallReturns`, `DeferEvent` | what `handle_events` may do to the thread that called it (the reactor itself is the subject of `TPReactor`); `ReactorErrors` lets it fail while the reactor is open |
| `ChangeOutside` | a thread that is not in the reactor completes an event: it sends bytes another thread has queued (`TAO_Synch_Queued_Message::bytes_transferred`), or closes a connection |
| `Shutdown`, `ShutdownReactor` | `ORB_Core::shutdown` sets its flag, later the reactor is closed or left to the last client |

Left out: `avoid_client_leader_` and `new_leader_generator_` (only Dynamic_TP sets
them), the free list of followers, debugging output, and what is sent on the wire.
A reply that arrives for an event that is already complete changes nothing and is
not modelled as a step. `resume_events` takes every deferred event off its list
whatever `notify` returns for it, so `LeaveReactor` empties the list; the fate of an
event whose `notify` fails is not modelled.

### TPReactor

`Token` shows that the token has one owner, is handed over in order, writers
first, and is never lost. `TPReactor` takes it as such a lock (`token`, `writers`,
`readers`) and models what runs under it. One action is one step of the owner, or
one step outside the token: entering, an upcall that returns, `notify`.

| model | code |
|---|---|
| `rep` | `handler_rep_`, `wait_set_`, `suspend_set_`, `ready_set_` as sets of handle and mask, and the reference counts of the handlers. `Bind`, `Unbind`, `Suspend`, `Resume`, `MaskAdd`, `MaskClear`, `MaskSet`, `ReadyMasks` are the methods that change them |
| `state_changed`, `event_count`, `deactivated`, `pipe` | the members, the count the leader passes around, and the buffers in the notification pipe (`Null` is a wakeup without a handler) |
| `pc[t]`, `info[t]`, `calling` | where a thread is in `handle_events`, the `ACE_EH_Dispatch_Info` of its upcall, and the threads in another operation of the reactor |
| `owned` | handlers to which their creator still has a reference |
| `HandleEvents`, `ReadTokenTimedOut`, `LeaveDeactivated` | `handle_events` and its guard up to `dispatch_i` |
| `GetEventForDispatching` | remembered ready bits, or `select`, which returns any of the waited handles, nothing, or an error |
| `HandleTimerEvents`, `HandleNotifyEvents`, `HandleSocketEvents`, `HandleRemoved`, `HandleNothing` | the one thing `dispatch_i` does with them; `Claim` is what happens to the handle before the token is released |
| `UpcallReturns`, `PostProcess`, `NotifyReturns`, `TimerReturns` | the ends of upcalls; `PostProcess` takes the token again to remove and resume |
| `Call`, then `RegisterHandler`, `RemoveHandler`, `SuspendHandler`, `ResumeHandler`, `MaskOps`, `ReadyOps`, `Deactivate` | the operations, called from outside or from upcalls; if the token is taken, `AcquireToken` runs the `sleep_hook`, which writes to the pipe without waiting |
| `Notify`, `DropReference` | `notify`, which needs no token; the creator drops its reference |

Handlers are reference counted (the policy `ENABLED`), and a handler is registered
for one handle at a time. The constant `Reopens` says whether it may be registered
again while an upcall or a notification refers to it, `AppResumes` are the handlers
with `ACE_APPLICATION_RESUMES_HANDLER`. A timer may be due at any time; the timer
queue itself is not modelled.

### MessageQueue

One action is one critical section of `lock_`. `queue` is the linked list, `frame[t]`
the call in which `t` waits on a condition, `signaled` the waiting threads a signal
or broadcast has reached. `signal ()` picks any thread that waits.

| model | code |
|---|---|
| `Enqueued`, `AfterPriority`, `AfterDeadline`, `Put` | `enqueue_head_i`, `enqueue_tail_i`, `enqueue_i`, `enqueue_deadline_i`: link, count the bytes, signal one consumer |
| `Chosen`, `FirstLeast`, `Take` | `dequeue_head_i`, `dequeue_tail_i`, `dequeue_prio_i`, `dequeue_deadline_i`: unlink, subtract the bytes, signal one producer at the low water mark |
| `EnqueueNow`, `EnqueueWait`, `DequeueNow`, `DequeueWait` | the public operations up to the first wait |
| `WakeEnqueue`, `WakeDequeue`, `WakeAgain`, `WakeShutdown`, `TimedOut` | the loops of `wait_not_full_cond` and `wait_not_empty_cond`, and what follows them |
| `Deactivate`, `Pulse`, `Activate`, `Flush`, `Close`, `SetWaterMarks` | the control operations |

The notification strategy, `cur_length_` and the setters `message_bytes` and
`message_length`, which overwrite the counts of the queue, are left out.

### BarrierSpec and Barrier

`BarrierSpec` is what Barrier.h promises, with one exception that the code makes
(a late thread of a complete round may get `ESHUTDOWN`, section 6), and with sets of threads: `arrived` wait for
the round, `passed` have completed one and have not returned, `aborted` were let go
by a shutdown. `Barrier` is the code: `running_threads` of two sub-barriers,
`current_generation`, the sub-barrier in which a thread waits (`sbp`) and the
threads a broadcast has reached (`woken`). The refinement mapping `Abstract` reads
`arrived` off the waiters of the current generation and `passed` off those of the
other one. As Barrier.h says of `count_`, at most `count` threads use a barrier.

### MC modules and mutants

The `MC` modules name the values the configurations choose from and the
symmetry. An operator marked "Mutant" precedes the operator it is a faulty version
of; it is used nowhere, and serves to see that the properties notice the fault.

## 4. Runs

| run | instance | shows |
|---|---|---|
| token_safety | 3 threads, condition variables, 1 nested acquire, both strategies, positions -1, 0, 1, timeouts, spurious wakeups, waits that fail | exclusion, exact queues, order of service |
| token_liveness | 3 threads, semaphores, 1 nested acquire, FIFO, renewals at the head and the tail, timeouts | no lost wakeup even for renew at the head, releases match acquires, no stranded waiter, the two `ACE_ASSERT`s, writers return, no owner sleeps on |
| token_renew_front | 2 threads, renew at the head, condition variables | violated: see section 6 |
| leader_follower_upcalls | 2 clients, 1 event loop thread, 3 nested calls, time limits, spurious wakeups, failing calls of `handle_events`, shutdown | leaders counted, followers linked, upcalls without leadership, a client leads alone, nobody sleeps without a leader, the reactor stays open as long as clients need it |
| leader_follower_nested | 2 threads, 4 nested calls, handlers that invoke, outside completions, deferred requests, failing waits, dropped replies | completion wakes, deferred requests resumed |
| leader_follower_liveness | 1 client, 1 thread that runs the event loop and invokes, 3 nested calls, shutdown | every answered invocation returns, each of those nested in one thread, `ORB::run` returns after the reactor is closed |
| leader_follower_handlers_strand | 2 clients, 1 event loop thread, 3 nested calls, handlers that invoke | violated: see section 6 |
| message_queue_operations | 3 threads (one producer, one consumer, one both), 3 blocks of sizes 1, 1, 2, all operations, chains of 2, timeouts that may take a signal, spurious wakeups | bytes counted, nobody asleep on a deactivated queue, never overfilled |
| message_queue_wakeups | 2 producers, 2 consumers, 3 blocks, `enqueue_tail` and `dequeue_head`, high marks 1 and 2, low marks 0, 1 and 2 | no lost wakeup on either side, messages delivered, producers go on |
| barrier | 3 threads, count 3, spurious wakeups, shutdown | counts right, implements `BarrierSpec`, every wait returns |
| tp_reactor_upcalls | 2 threads, 2 handlers, 1 handle with two masks, pipe of 2, timers, timeouts, failing select; the application registers, removes, adds masks, notifies | sets consistent, one thread per handler, no handle left suspended |
| tp_reactor_liveness | 2 threads, 1 handler that resumes itself and may be registered again, 1 mask, pipe of 2, all calls | references counted, calls return, notifications dispatched, every thread leaves a deactivated reactor |

Bounds. Three threads give a token an owner, a thread that is chosen and one
that waits behind it, which is what handover races need; `MaxNesting` 1
distinguishes a nested from a last release. Two clients and an event loop thread
give a leader, an elected follower and one that depends on it; depth 3 is an
invocation inside an upcall inside a wait, depth 4 a further upcall in it. The
liveness run keeps depth 3, because `InvocationsReturn` is about each of the nested
calls, and has two threads: they give a leader and a follower that it elects or that
depends on it. Elections among more threads are the subject of
leader_follower_upcalls and of the theorems. There `handle_events` fails only on a
closed reactor (`ReactorErrors` is FALSE): an invocation whose leader gets an error
returns with it, which proves nothing.
`TimedCalls = {TRUE}` subsumes the untimed calls in safety runs, since a timed
call need not time out. `MaxDeferred` is 1: resume_events empties the list
whatever its length. `leader_follower_nested` does not check for deadlock,
because the stalls of section 6 are reachable there. Two threads give the
reactor a leader and a thread in an upcall, or a caller that waits for the one in
`select`; two handlers on one handle give its reuse during an upcall, two masks the
removal of one of them and a handle that could be half suspended. A pipe of two
buffers is full often, and holds a notification in front of or behind a wakeup. Three blocks of
sizes 1 and 2 against a high water mark of 2 reach the mark, pass it (with a larger
block, as the code allows) and stay below it; chains of 2 are the shortest that get
one signal for several blocks. Three threads in a barrier of three let one thread
arrive in the next round while another has not left the last one.

Which token properties are in which run: after a wait that fails with an error
the token may belong to a thread that has left, so `NestingMatches`,
`NoStrandedWaiters` and `OwnerIsRunable` are stated without such errors, in
token_liveness; section 5 proves them for both builds, all strategies and all
positions. The two builds differ only when a thread is signaled before it waits,
that is when renew chooses its own caller. So token_liveness also covers the
behaviours of the build with condition variables in which that does not happen;
those in which it happens are the subject of token_renew_front.

Fairness. `Token`: a signaled thread runs (weak), a holder releases (strong,
because it may nest and renew in between); Token.h:54-57 requires it of the callers. `LeaderFollower`: a thread
that can take `lock_` does (weak); a reply that has arrived is read if threads run
the reactor again and again (strong: it stays readable in its socket); application
code returns from upcalls (strong, it may make calls meanwhile). The reply is named
by its thread and the depth of its call. Nothing makes an
event loop thread win against clients that keep taking the leadership back
(`thr_yield` promises nothing), so no such property is stated. `MessageQueue`:
signaled threads run, consumers call dequeue again (the loop of a task's `svc`);
nothing is assumed of producers. `Barrier`: woken threads run, threads call `wait`
again. `TPReactor`: the owner of the token goes on, in `select` only if there is
an event; upcalls return and the pool calls `handle_events` again (strong, threads
may make other calls meanwhile); and timers are not due every single time a thread
looks at them (strong), since otherwise the code, which serves timers first,
never comes to notifications; and the application does not go on calling `ready_ops`
for ever, because as long as there are ready bits `select` is not asked, and the
notification pipe not looked at.

## 5. Proofs

`TokenProofs` proves, for any set of threads, any bounds, both strategies and any
renew positions, if waits end by a signal, a spurious wakeup or a timeout
(`~WaitErrors`):

- `TypeCorrect`, `MutuallyExclusive`, `NestingCorrect`, `EntriesCorrect`,
  `NobodyStranded`, `OwnersRunable`: the invariants of the two passing token runs;
- `OrderOfService`: the action property `ServedInOrder`;
- `NoWakeupLost`: `NoLostWakeup` under `SignalsArrive`, that is with semaphores, or
  with FIFO queueing and no renewal at the head. Without that assumption it is
  false (section 6).

None of these is inductive alone. `IInv` conjoins the checked properties with three
facts: a token in use has an owner that is a thread, and conversely (`FreeOrOwned`);
a thread blocked in renew has put aside its recursion count, one blocked in
acquire holds nothing (`PutAside`); `runable_` and signals belong to blocked calls,
and the recursion count is 0 while nobody has the token in hand (`Dormant`).
Exclusion then needs the link between `owner`, `runable` and the queues: the next
owner is the head of a queue, the queues link exactly the blocked threads, so it is
blocked and not a holder. The lemmas follow the code: `InsertEntry` and
`RemoveEntry` say what the queue operations link, `WakeupNextWaiter` and `HandOver`
what the handover establishes, and there is one lemma per action. The assumption
`~WaitErrors` is needed: after a failed wait of a chosen thread the owner is a
thread that has left (Token.cpp:310-314).

`OrderOfService` follows from it without further strengthening. In one step a queue
changes by at most one thread that joins or one that leaves it (`QueueStep`), an
insertion keeps the order of those that wait (`InsertOrder`) and so does a removal
(`RemoveOrder`), hence threads that wait never change places (`NeverOvertaken`);
only the head of a queue is made owner (`OwnerIsFirst`); and under FIFO a thread
that blocks is linked last (`QueuesUpLast`), which needs the invariant because it
must not be linked already.

`BarrierProofs` proves, for any finite set of at most `count` threads, `CountCorrect`
(`RunningCounted`) and `Refinement` (`Barrier` implements `BarrierSpec`, every step
of the one being a step of the other or a stutter). `RunningCounted` with the types
is inductive. Its last conjunct, that the threads of a finished generation have
been woken, is what liveness rests on; its second, the equation between
`running_threads_` and the number of waiters, is what makes the last thread of the
code the last thread of the specification (`LastThread`: if one is missing, the
other threads all wait in this generation, so nobody is left in the other one).

`TPReactorProofs` proves, for any sets of threads, handles, handlers and masks,
any pipe and any calls:

- `SetsStayConsistent`: `SetsConsistent`, that is: with any calls no handle is half
  suspended or suspended without a handler; without `ready_ops` no suspended handle
  has a ready bit; without `ready_ops` and `mask_ops (SET_MASK)` all ready bits are
  waited for. The conditions are those of the code (section 6);
- `NoneLeftSuspended`: `SuspendedForUpcall`, if the application does not call
  `suspend_handler`. Handlers that resume themselves, and reopening during an
  upcall, are allowed.

`IInv` conjoins the consistency of `rep` and its type (`Good`), that a thread in an
upcall has a dispatch info with a handler (`ThreadsOK`), and that the pipe and
`owned` name handlers. The operations on `rep` are proved one by one to satisfy
`Keeps`: the sets are consistent again, and a handle that is suspended afterwards
was suspended before and has the same handler. Only `Claim` suspends, and its
thread enters an upcall of that very handler; and when that thread leaves
`PostProcess`, either the handle has been resumed or it belongs to another handler,
so it cannot have been suspended by this upcall (`EndsSuspended`).

`TPReactorReferences` proves, for the same generality unless a condition is named:

- `TypesKept`: `TypeOK`;
- `ReferencesAlwaysCounted`: `ReferencesCounted`, for all calls;
- `UpcallsAlwaysAlone`: `OneUpcallPerHandler`, if the application does not call
  `resume_handler`, `mask_ops` with CLR_MASK or SET_MASK, or `ready_ops`, and registers
  a handler only while nobody but its creator refers to it (`~Reopens`). Suspending,
  removing and adding masks during upcalls are allowed, and so are handlers that
  resume themselves. With `resume_handler`, CLR_MASK, SET_MASK or `Reopens` the
  property is false (section 6); `ready_ops` is excluded because the proof takes
  from the ready bits that the handle is waited for.

The counts are proved through `Spare`, the references of a handler that the
repository does not hold: each operation on the sets leaves it alone (`Even`),
because `bind` and `unbind` change the handler of a handle and the count together;
an upcall, a buffer and a creator change it by one. It needs that only threads in
upcalls have a handler in their dispatch info (`Free`). `OneUpcallPerHandler` is
inductive with two more facts (`Single`): all handles of a handler in an upcall are
suspended (`Busy`), and a handler has one handle (`Once`). An upcall begins only
for a handle that is waited for, so the handler has no other one; `Kept` says of
every operation that it wakes no handle that keeps its handler; `PostProcess`, the
only step that wakes one, does so for the only upcall of the handler; and a
registration with a reference count of one finds, by the exact counts, neither a
registration nor an upcall.

The three modules on `LeaderFollower` hold for every set of threads and every depth
of calls:

- `CountersNeverNegative` (`TypeOK`), `LeadersAlwaysCounted`, `FollowersAlwaysLinked`,
  `CompletionsAlwaysWake`, `ReactorAlwaysOpenForClients`, `DeferredAlwaysResumes`:
  with every feature of the model;
- `UpcallsAlwaysAbdicate`, `ClientAlwaysLeadsAlone`, `EventLoopNeverStranded`: if only
  the upcalls of requests, for which `set_upcall_thread` is called, make calls from
  within the reactor (`~Handlers`);
- `FollowersNeverStranded` (`NoStrandedFollowers`): if moreover events are completed
  in the reactor only (`~OutsideChanges`) and waits of followers do not fail
  (`~WaitErrors`). In each of the three excluded cases the code does strand
  followers: section 6, and the comment at Leader_Follower.cpp:354.

The arguments, from the bottom. `Balanced` reads a thread's stack from the inside
out and says, for each shape it can have, what the thread must have in its
thread-specific counters (`Orderly`); `leaders_` is the number of threads that lead
and `clients_` and `client_thread_is_leader_` are sums over the threads. Sums are
stated as cardinalities of sets of pairs (`Sums`), so that a step of one thread is
one element more or less. `Awake` adds that `follower_set_` links exactly the
unsignaled followers, once each, and that signals go to sleepers only. On top come
`Gated` (the flags of the shutdown and `clients_`), `Deferring` (somebody has still
to pass `resume_events`), `Abdicated` (a thread that leads is at a point where it
runs the reactor, and leads once), and `Minded` (a sleeping event loop thread has a
client leader or a signal). `NoStrandedFollowers` is inductive with `Balanced`,
`Awake` and `Abdicated`: a thread that gives up the last leadership calls
`elect_new_leader`, and what it signals stays a thread about to lead until it has
led or elected. One lemma per method says what it does to the counters, the lists
and the leadership of the calling thread, so that the steps of `wait_for_event`
and `run` are compositions.

`MessageQueueProofs` proves, for any threads, blocks, sizes, priorities, deadlines
and water marks:

- `BytesAlwaysCounted` (`TypeOK`, of which `cur_bytes = Total(queue)` is the core),
  `NobodyEverSleepsDeactivated` and the action property `QueueNeverOverfilled`: with
  every feature;
- `ConsumersAlwaysTold`: for blocks enqueued one at a time, without `peek`, `pulse`
  and timeouts that use up a signal; `ProducersAlwaysTold`: for high water marks
  above 0, without `flush`, `pulse` and such timeouts. Section 6 describes what
  happens in the excluded cases; a high water mark of 0 makes the empty queue full.

The bytes are counted as the pairs of a linked block and a number up to its size, so
that linking and unlinking are unions and differences of finite sets. They are
disjoint because a block is linked once, or is in the hands of one producer that
waits to enqueue it (`Owned`). The two properties on wakeups are kept because each
enqueue signals a consumer, if one is left to signal, and a dequeue takes a message
away whether or not the thread had been signaled: the number of messages never
rises by more, nor falls by less, than that of the consumers told. A dequeue that
empties the queue is at or below every low water mark and signals a producer.

Only model-checked: the liveness properties (`SleepsOnlyUntilOwner`, `WritersReturn`,
`InvocationsReturn`, `ServersLeave`, `MessagesDelivered`, `ProducersProgress`,
`WaitersReturn`, `CallsReturn`, `NotificationsDispatched`, `DeactivatedLeave`), since
temporal reasoning with fairness is outside what the prover does here; and
`TypeOK`, `MutualExclusion` and `EntriesOfBlockedCalls` of the token after waits that
fail with an error.

## 6. What the code does otherwise than it says

- **renew at the head sleeps with the token.** `ACE_Token::renew (0)`, the default
  argument, and any renew under LIFO, links the caller first, makes it the
  owner, signals its condition variable, and then waits on it. Nobody signals it
  again. `ACE_Select_Reactor` uses position -1 except on Windows, where the token
  uses semaphores, which keep the signal; run token_liveness covers that build.
- **A client leader that waits in a nested call blocks event loop threads while
  it sleeps.** `set_client_thread` gives up `leaders_` but not
  `client_thread_is_leader_`. Requests avoid this by abdicating in
  `set_upcall_thread`; timers and other handlers that invoke do not. With one
  client and one event loop thread more, all threads can end up asleep.

The following were met while modelling, and are reachable in the models with the
constants named, but no run is kept for them:

- `renew` uses the queueing strategy for every `requeue_position` other than 0,
  where Token.h:145-148 promises to skip that many entries.
- An elected follower whose event is completed from outside the reactor before it
  runs returns at Leader_Follower.cpp:428-432 without electing anybody: the others
  sleep without a leader (`LeaderFollower` with 3 clients, 1 event loop thread,
  `OutsideChanges`). Inside the reactor this cannot happen, because whoever
  completes the event leads.
- `pulse` leaves the queue `PULSED`. Message_Queue.h:175-177 says future operations
  then proceed as in the state `ACTIVATED`; but one that has to wait and is woken
  by a message returns `ESHUTDOWN` (Message_Queue_T.cpp:1757, 1783), until somebody
  calls `activate`.
- A signal of the queue may be used up without effect: by a wait that times out at
  the same moment (where the system allows it), by `peek_dequeue_head`, or because
  a chain of several blocks signals one consumer (Message_Queue_T.cpp:1280). A
  second consumer then sleeps although there are messages, until the next enqueue.
  `flush` signals no producer (Message_Queue_T.cpp:1192).
- `enqueue_deadline_i` inserts behind the first block with a later deadline, not
  before it (Message_Queue_T.cpp:1430-1452); `dequeue_deadline` searches the whole
  list, so it does not matter there.
- A thread of a completed barrier round that is slow to return gets `ESHUTDOWN` if
  the barrier is shut down first (Barrier.cpp:114), where Barrier.h:108 promises 0;
  `BarrierSpec` allows it. With more threads than `count` a slow waiter can be
  caught by a later round of its own sub-barrier.
- TP_Reactor.h:167-168 says that I/O events are not delivered to one handler by
  several threads. A handler that removes and registers itself again during its
  own upcall is waited for at once, and a second thread can enter it (`Reopens`);
  the first upcall then also resumes it (TP_Reactor.cpp:583).
- `mask_ops` that clears all masks of a handle suspended for an upcall makes
  `is_suspended_i` false (Select_Reactor_T.cpp:862, 988), so masks added again are
  waited for at once, and a second thread can enter the handler (`TPReactor` with
  "clear" and "add" in `Calls`). `resume_handler` during the upcall has the same
  effect directly.
- `mask_ops (SET_MASK)` takes masks out of `wait_set_` without `clear_dispatch_mask`,
  which only CLR_MASK calls (Select_Reactor_Base.cpp:1015-1025). Ready bits of the
  removed masks that are still remembered are dispatched by a later leader; and if
  no mask is left, the handle of that upcall has nothing to suspend, so that masks
  added during the upcall are waited for at once. `ready_ops` may set bits of handles
  that nobody waits for, which are dispatched too.
- `resume_events` forgets a deferred event whose `notify` fails
  (Leader_Follower.cpp:232; the comment there asks what could be done).
- `suspend_handler` during an upcall of the same handler is undone when it returns
  (TP_Reactor.cpp:596).
- If `acquire_token` fails in `post_process_socket_event` the reference is not
  dropped and the handle stays suspended (TP_Reactor.cpp:571). The model has no
  such failure: `acquire` without a time limit fails only on an error of its lock.
- A timer that is always due, or a low handle that is always ready, keeps the
  others waiting for ever.

## 7. Not modelled

- Of the reactor: nested `handle_events` in an upcall, signals (compiled out in
  `dispatch_i`), `check_handles` after a bad descriptor, handlers without reference
  counting, the dispatch loop of the single-threaded `ACE_Select_Reactor`, the
  user-space notification queue (a build option), the calls of `handle_close`.
- Of the leader/follower set: Dynamic_TP's `avoid_client_leader_` and
  `new_leader_generator_`; connection events with several followers; a failing
  `notify` in `resume_events`.
- Of the message queue: the setters `message_bytes` and `message_length`
  (Message_Queue_T.cpp:1024-1040), after which `cur_bytes_` is what the application
  says and no longer what is linked.
- Timer queues: sequential data structures under a lock; what the reactor sees of
  them is modelled.
- Emulated locks: compiled only where the system has none of its own.
- Thread manager and tasks: mostly the life cycle of system threads.
- Transports and their cache, asynchronous invocations, the POA and the thread
  pools: see the plan and PROJECT.json. The CORBA services, CIAO and DAnCE are
  applications of the ORB, each a system of its own; the IDL compiler is a
  sequential translator; the wrapper facades are thin layers over system calls.
