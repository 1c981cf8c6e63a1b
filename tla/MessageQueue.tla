----------------------------- MODULE MessageQueue -----------------------------
(***************************************************************************)
(* ACE_Message_Queue (ACE/ace/Message_Queue_T.h, Message_Queue_T.cpp): the *)
(* bounded queue of message blocks between the threads of an ACE_Task.     *)
(* Producers block while cur_bytes_ has reached the high water mark, and   *)
(* are signaled when a dequeue brings it down to the low water mark;       *)
(* consumers block while the list is empty.  deactivate and pulse wake     *)
(* everybody.                                                              *)
(*                                                                         *)
(* Every method runs under lock_, so one action is one critical section:   *)
(* from taking lock_ to releasing it, at the return or inside a wait ().   *)
(* A call that returns at once and changes nothing (on a deactivated       *)
(* queue, or a peek that finds a message) is a stuttering step.            *)
(*                                                                         *)
(* Left out: the setters message_bytes and message_length, with which the  *)
(* application overwrites the counts of the queue.                         *)
(***************************************************************************)
EXTENDS Integers, Sequences, FiniteSets, SequencesExt

CONSTANTS
  Threads,              \* threads that use the queue
  Producers, Consumers, \* those that enqueue and those that dequeue
  Blocks,               \* the ACE_Message_Blocks of the application
  Size, Priority, Deadline, \* total_size, msg_priority (), msg_deadline_time ()
  EnqueueOps,           \* "head", "tail", "prio", "deadline"
  DequeueOps,           \* the same, and "peek"
  HighMarks, LowMarks,  \* water marks the queue may be given
  MaxChain,             \* longest chain of blocks given to enqueue_head, _tail
  Flushes, Pulses,      \* flush () and pulse () are used
  SpuriousWakeups,      \* a wait on a condition may end without a signal
  TimeoutTakesSignal    \* a wait that times out may use up a signal sent to it

ACTIVATED   == 1
DEACTIVATED == 2
PULSED      == 3

ASSUME MessageQueueAssumption ==
  /\ Producers \subseteq Threads /\ Consumers \subseteq Threads
  /\ IsFiniteSet(Threads) /\ IsFiniteSet(Blocks)
  /\ Size \in [Blocks -> Nat] /\ Priority \in [Blocks -> Nat]
  /\ Deadline \in [Blocks -> Nat]
  /\ EnqueueOps \subseteq {"head", "tail", "prio", "deadline"}
  /\ DequeueOps \subseteq {"head", "tail", "prio", "deadline", "peek"}
  /\ HighMarks \subseteq Nat /\ HighMarks # {}
  /\ LowMarks \subseteq Nat /\ LowMarks # {}
  /\ MaxChain \in Nat \ {0}
  /\ {Flushes, Pulses, SpuriousWakeups, TimeoutTakesSignal} \subseteq BOOLEAN

VARIABLES
  queue,            \* head_ ... tail_: the linked blocks
  cur_bytes,        \* cur_bytes_
  high_water_mark,  \* high_water_mark_
  low_water_mark,   \* low_water_mark_
  state,            \* state_
  frame,            \* frame[t]: the call in which t waits on a condition
  signaled          \* waiting threads that a signal or broadcast has reached

vars == <<queue, cur_bytes, high_water_mark, low_water_mark, state, frame, signaled>>
marks == <<high_water_mark, low_water_mark>>

Chains == {s \in UNION {[1..n -> Blocks] : n \in 1..MaxChain} : IsInjective(s)}

Frames == [call: {"none", "enqueue", "dequeue"}, op: {"none"} \cup EnqueueOps \cup DequeueOps,
           items: Chains \cup {<<>>}, timed: BOOLEAN]

Frame(call, op, items, timed) ==
  [call |-> call, op |-> op, items |-> items, timed |-> timed]

NoCall == Frame("none", "none", <<>>, FALSE)

Blocked(t) == frame[t].call # "none"

\* Threads in not_full_cond_.wait () and in not_empty_cond_.wait ().
Waiting(call) == {t \in Threads : frame[t].call = call}

\* A block belongs to the queue, to a waiting call, or to the application.
InHand(t) == ToSet(frame[t].items)
InUse == ToSet(queue) \cup UNION {InHand(t) : t \in Threads}

is_empty_i == queue = <<>>
is_full_i  == cur_bytes >= high_water_mark

\* total_size_and_length of all the blocks of a chain, in which none is twice:
\* the number of their bytes.
Bytes(items) == UNION {{b} \X (1..Size[b]) : b \in ToSet(items)}
Total(items) == Cardinality(Bytes(items))

-----------------------------------------------------------------------------
(* The list *)

\* Position behind which a block goes that is enqueued by priority: the last
\* block that has at least its priority.
AfterPriority(b) ==
  LET ge == {i \in 1..Len(queue) : Priority[queue[i]] >= Priority[b]}
  IN  IF ge = {} THEN 0 ELSE CHOOSE i \in ge : \A j \in ge : j <= i

\* ... and by deadline: the code goes behind the first block whose deadline is
\* later, or to the tail.
AfterDeadline(b) ==
  LET later == {i \in 1..Len(queue) : Deadline[b] < Deadline[queue[i]]}
  IN  IF later = {} THEN Len(queue) ELSE CHOOSE i \in later : \A j \in later : i <= j

\* enqueue_head_i, enqueue_tail_i, enqueue_i, enqueue_deadline_i
Enqueued(op, items) ==
  CASE op = "head"     -> items \o queue
    [] op = "tail"     -> queue \o items
    [] op = "prio"     -> InsertAt(queue, AfterPriority(items[1]) + 1, items[1])
    [] op = "deadline" -> InsertAt(queue, AfterDeadline(items[1]) + 1, items[1])

\* The first of the positions with the least value: what the loops of
\* dequeue_prio_i and dequeue_deadline_i choose.
FirstLeast(value) ==
  CHOOSE i \in 1..Len(queue) :
    \A j \in 1..Len(queue) :
      /\ value[queue[i]] <= value[queue[j]]
      /\ value[queue[i]] = value[queue[j]] => i <= j

\* dequeue_head_i, dequeue_tail_i, dequeue_prio_i, dequeue_deadline_i
Chosen(op) ==
  CASE op = "head"     -> 1
    [] op = "tail"     -> Len(queue)
    [] op = "prio"     -> FirstLeast(Priority)
    [] op = "deadline" -> FirstLeast(Deadline)

\* The set of threads that signal () on a condition may leave signaled: one
\* more waiter, whichever the system chooses, or none if all have been woken.
AfterSignal(call, sig) ==
  LET asleep == Waiting(call) \ sig
  IN  IF asleep = {} THEN {sig} ELSE {sig \cup {t} : t \in asleep}

\* Mutant: consumers are told only when the queue was empty.
Put_WasEmpty(op, items, sig) ==
  /\ queue' = Enqueued(op, items)
  /\ cur_bytes' = cur_bytes + Total(items)
  /\ signaled' \in IF is_empty_i THEN AfterSignal("dequeue", sig) ELSE {sig}

\* Mutant: consumers are not told.
Put_Silent(op, items, sig) ==
  /\ queue' = Enqueued(op, items)
  /\ cur_bytes' = cur_bytes + Total(items)
  /\ signaled' = sig

\* The items are linked and one consumer is told, however many they are.
Put(op, items, sig) ==
  /\ queue' = Enqueued(op, items)
  /\ cur_bytes' = cur_bytes + Total(items)
  /\ signaled' \in AfterSignal("dequeue", sig)

\* Mutant: a producer is told below the low water mark, not at it.
Take_Below(op, sig) ==
  /\ queue' = RemoveAt(queue, Chosen(op))
  /\ cur_bytes' = cur_bytes - Size[queue[Chosen(op)]]
  /\ signaled' \in IF cur_bytes' < low_water_mark
                   THEN AfterSignal("enqueue", sig) ELSE {sig}

\* One block is unlinked; a producer is told at the low water mark only.
Take(op, sig) ==
  /\ queue' = RemoveAt(queue, Chosen(op))
  /\ cur_bytes' = cur_bytes - Size[queue[Chosen(op)]]
  /\ signaled' \in IF cur_bytes' <= low_water_mark
                   THEN AfterSignal("enqueue", sig) ELSE {sig}

\* What a dequeuing call does once the queue is not empty.
TakeOrPeek(op, sig) ==
  \/ op # "peek" /\ Take(op, sig)
  \/ op = "peek" /\ signaled' = sig /\ UNCHANGED <<queue, cur_bytes>>

-----------------------------------------------------------------------------
(* enqueue_head, enqueue_tail, enqueue_prio, enqueue_deadline *)

Offers(t, op, items) ==
  /\ ~Blocked(t)
  /\ state # DEACTIVATED
  /\ ToSet(items) \cap InUse = {}
  /\ op \in {"prio", "deadline"} => Len(items) = 1

EnqueueNow(t, op, items) ==
  /\ Offers(t, op, items)
  /\ ~is_full_i
  /\ Put(op, items, signaled)
  /\ UNCHANGED <<marks, state, frame>>

EnqueueWait(t, op, items, timed) ==
  /\ Offers(t, op, items)
  /\ is_full_i
  /\ frame' = [frame EXCEPT ![t] = Frame("enqueue", op, items, timed)]
  /\ UNCHANGED <<queue, cur_bytes, marks, state, signaled>>

(* dequeue_head, dequeue_tail, dequeue_prio, dequeue_deadline, peek_dequeue_head *)

DequeueNow(t, op) ==
  /\ ~Blocked(t)
  /\ state # DEACTIVATED
  /\ ~is_empty_i
  /\ op # "peek" /\ Take(op, signaled)
  /\ UNCHANGED <<marks, state, frame>>

DequeueWait(t, op, timed) ==
  /\ ~Blocked(t)
  /\ state # DEACTIVATED
  /\ is_empty_i
  /\ frame' = [frame EXCEPT ![t] = Frame("dequeue", op, <<>>, timed)]
  /\ UNCHANGED <<queue, cur_bytes, marks, state, signaled>>

-----------------------------------------------------------------------------
(* The loops of wait_not_full_cond and wait_not_empty_cond *)

Awake(t) == t \in signaled \/ SpuriousWakeups

Return(t) == frame' = [frame EXCEPT ![t] = NoCall]

\* wait () returned and the queue is not ACTIVATED: -1 with ESHUTDOWN.
WakeShutdown(t) ==
  /\ Blocked(t) /\ Awake(t)
  /\ state # ACTIVATED
  /\ Return(t)
  /\ signaled' = signaled \ {t}
  /\ UNCHANGED <<queue, cur_bytes, marks, state>>

\* The condition does not hold (any more): wait again.
WakeAgain(t) ==
  /\ t \in signaled
  /\ state = ACTIVATED
  /\ \/ frame[t].call = "enqueue" /\ is_full_i
     \/ frame[t].call = "dequeue" /\ is_empty_i
  /\ signaled' = signaled \ {t}
  /\ UNCHANGED <<queue, cur_bytes, marks, state, frame>>

\* Mutant: if instead of while, the queue may have filled up again.
WakeEnqueue_NoRetest(t) ==
  /\ frame[t].call = "enqueue" /\ Awake(t)
  /\ state = ACTIVATED
  /\ Put(frame[t].op, frame[t].items, signaled \ {t})
  /\ Return(t)
  /\ UNCHANGED <<marks, state>>

WakeEnqueue(t) ==
  /\ frame[t].call = "enqueue" /\ Awake(t)
  /\ state = ACTIVATED
  /\ ~is_full_i
  /\ Put(frame[t].op, frame[t].items, signaled \ {t})
  /\ Return(t)
  /\ UNCHANGED <<marks, state>>

WakeDequeue(t) ==
  /\ frame[t].call = "dequeue" /\ Awake(t)
  /\ state = ACTIVATED
  /\ ~is_empty_i
  /\ TakeOrPeek(frame[t].op, signaled \ {t})
  /\ Return(t)
  /\ UNCHANGED <<marks, state>>

\* wait () returned -1: the condition is not tested again.
TimedOut(t) ==
  /\ Blocked(t) /\ frame[t].timed
  /\ t \in signaled => TimeoutTakesSignal
  /\ Return(t)
  /\ signaled' = signaled \ {t}
  /\ UNCHANGED <<queue, cur_bytes, marks, state>>

-----------------------------------------------------------------------------
(* Control operations *)

Everybody == Waiting("enqueue") \cup Waiting("dequeue")

\* Mutant: only the consumers are woken.
deactivate_i_OneSide(new) ==
  IF state # DEACTIVATED
  THEN signaled' = signaled \cup Waiting("dequeue") /\ state' = new
  ELSE UNCHANGED <<signaled, state>>

deactivate_i(new) ==
  IF state # DEACTIVATED
  THEN signaled' = Everybody /\ state' = new
  ELSE UNCHANGED <<signaled, state>>

Deactivate ==
  /\ state # DEACTIVATED
  /\ deactivate_i(DEACTIVATED)
  /\ UNCHANGED <<queue, cur_bytes, marks, frame>>

Pulse ==
  /\ Pulses
  /\ state # DEACTIVATED
  /\ deactivate_i(PULSED)
  /\ UNCHANGED <<queue, cur_bytes, marks, frame>>

Activate ==
  /\ state # ACTIVATED
  /\ state' = ACTIVATED
  /\ UNCHANGED <<queue, cur_bytes, marks, frame, signaled>>

\* Mutant: the bytes stay counted.
flush_i_KeepBytes ==
  /\ queue' = <<>>
  /\ UNCHANGED cur_bytes

\* All blocks are released and their bytes subtracted; nobody is told.
flush_i ==
  /\ queue' = <<>>
  /\ cur_bytes' = cur_bytes - Total(queue)

Flush ==
  /\ Flushes
  /\ flush_i
  /\ UNCHANGED <<marks, state, frame, signaled>>

Close ==
  /\ deactivate_i(DEACTIVATED)
  /\ flush_i
  /\ UNCHANGED <<marks, frame>>

SetWaterMarks ==
  /\ \/ high_water_mark' \in HighMarks /\ UNCHANGED low_water_mark
     \/ low_water_mark' \in LowMarks /\ UNCHANGED high_water_mark
  /\ UNCHANGED <<queue, cur_bytes, state, frame, signaled>>

-----------------------------------------------------------------------------
Init ==
  /\ queue = <<>>
  /\ cur_bytes = 0
  /\ high_water_mark \in HighMarks
  /\ low_water_mark \in LowMarks
  /\ state = ACTIVATED
  /\ frame = [t \in Threads |-> NoCall]
  /\ signaled = {}

Enqueue(t) ==
  \E op \in EnqueueOps, items \in Chains :
    \/ EnqueueNow(t, op, items)
    \/ \E timed \in BOOLEAN : EnqueueWait(t, op, items, timed)

Dequeue(t) ==
  \E op \in DequeueOps :
    \/ DequeueNow(t, op)
    \/ \E timed \in BOOLEAN : DequeueWait(t, op, timed)

Wake(t) ==
  \/ WakeShutdown(t)
  \/ WakeAgain(t)
  \/ WakeEnqueue(t)
  \/ WakeDequeue(t)

Next ==
  \/ \E t \in Producers : Enqueue(t)
  \/ \E t \in Consumers : Dequeue(t)
  \/ \E t \in Threads : Wake(t) \/ TimedOut(t)
  \/ Deactivate \/ Pulse \/ Activate
  \/ Flush \/ Close
  \/ SetWaterMarks

Spec == Init /\ [][Next]_vars

\* A thread that was signaled runs, and consumers call dequeue again and again
\* (the loop of an ACE_Task's svc).  Nothing is assumed of the producers.
Fairness ==
  /\ \A t \in Threads : WF_vars(t \in signaled /\ Wake(t))
  /\ \A t \in Consumers : WF_vars(Dequeue(t))

FairSpec == Spec /\ Fairness

-----------------------------------------------------------------------------
(* Properties *)

(***************************************************************************)
(* The fields keep their types, and cur_bytes_ is the size of what is      *)
(* linked: a wait for room never depends on bytes nobody can remove.       *)
(***************************************************************************)
TypeOK ==
  /\ queue \in Seq(Blocks)
  /\ cur_bytes = Total(queue)
  /\ high_water_mark \in HighMarks /\ low_water_mark \in LowMarks
  /\ state \in {ACTIVATED, DEACTIVATED, PULSED}
  /\ frame \in [Threads -> Frames]
  /\ signaled \subseteq Everybody

(***************************************************************************)
(* deactivate wakes all threads, and nobody falls asleep on a deactivated  *)
(* queue afterwards, however often it is pulsed and activated in between   *)
(* (Message_Queue.h:155-161).                                              *)
(***************************************************************************)
NobodySleepsDeactivated ==
  state = DEACTIVATED => Everybody \subseteq signaled

(***************************************************************************)
(* Nothing is added to a queue at its high water mark, also by a producer  *)
(* that was told there is room and came late.                              *)
(***************************************************************************)
NeverOverfilled ==
  [][cur_bytes' > cur_bytes => ~is_full_i]_vars

(***************************************************************************)
(* No consumer sleeps on while there are more messages than consumers that *)
(* have been told of one.                                                  *)
(***************************************************************************)
ConsumersTold ==
  Waiting("dequeue") \subseteq signaled
    \/ Len(queue) <= Cardinality(Waiting("dequeue") \cap signaled)

(***************************************************************************)
(* No producer sleeps on an empty queue unless another one has been told   *)
(* that there is room: the water marks never leave both sides waiting.     *)
(***************************************************************************)
ProducersTold ==
  is_empty_i /\ Waiting("enqueue") # {} => Waiting("enqueue") \cap signaled # {}

(***************************************************************************)
(* A message is delivered, if the queue stays active: with enqueue_tail    *)
(* and dequeue_head none is overtaken, and some consumer is awake to get   *)
(* it.                                                                     *)
(***************************************************************************)
MessagesDelivered ==
  \A b \in Blocks :
    b \in ToSet(queue) ~> b \notin ToSet(queue) \/ state # ACTIVATED

(***************************************************************************)
(* The producers never all wait for ever while the queue is active and     *)
(* consumers dequeue, whatever the distance of the water marks.            *)
(***************************************************************************)
ProducersProgress ==
  (\A p \in Producers : Blocked(p)) ~>
    (\E p \in Producers : ~Blocked(p)) \/ state # ACTIVATED
=============================================================================
