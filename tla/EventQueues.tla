---------------------------- MODULE EventQueues ----------------------------
(***************************************************************************)
(* Event delivery (core/inc/sc-api/core/util/event_queue.h, and             *)
(* createEventQueue() of core/src/api_core.cpp).  A change of the session's *)
(* state is published through EventProducer::notifyEvent(), which pushes    *)
(* it to every registered EventQueue; user threads pop.                     *)
(*                                                                         *)
(* The n-th change of the state is the event n; state_ = 0 while there is   *)
(* no session.  The first change is openSession(), under Impl::m_; later    *)
(* ones, registerToControl() and disconnected(), hold Session::m_.          *)
(* createEventQueue() holds Impl::m_ throughout and Session::m_ while it    *)
(* reads the state.  A critical section of EventQueue::m_ is one action.    *)
(***************************************************************************)
EXTENDS Naturals, Sequences, FiniteSets, SequencesExt

CONSTANTS Queue,        \* queues, each created at most once
          NoQueue,      \* no queue
          Popper,       \* threads that pop
          MaxEvents     \* bound: changes of the session's state

ASSUME MaxEventsAssumption == MaxEvents \in Nat
ASSUME NoQueueAssumption == NoQueue \notin Queue
ASSUME PopperAssumption == IsFiniteSet(Popper)

EventNo == 1 .. MaxEvents

VARIABLES
  state_,           \* number of the session's current state
  notifying,        \* how far notifyEvent() of state_ has come
  targets,          \* queues its loop, or ~EventProducer's, has still to visit
  event_queues,     \* EventProducer::event_queues_
  producer,         \* the EventProducer: "alive", "closing" in its destructor
  creating,         \* the queue createEventQueue() is working on
  life,             \* per queue: "none", "live" or "destroyed"
  queue, open_,     \* per queue: its members
  popper,           \* per thread: the pop call it is in
  got,              \* history, per queue: the events popped from it
  initial, since    \* history, per queue: the initial event (0: none), and the
                    \* last event notified before it was registered

producerVars == <<state_, notifying, targets, event_queues, producer>>
queueVars == <<life, queue, open_>>
historyVars == <<initial, since>>
vars == <<producerVars, creating, queueVars, popper, got, historyVars>>

Idle == [pc |-> "idle", q |-> NoQueue, timed |-> FALSE]

TypeOK ==
  /\ state_ \in 0 .. MaxEvents
  /\ notifying \in {"no", "pending", "pushing"}
  /\ targets \in Seq(Queue)
  /\ event_queues \in Seq(Queue)
  /\ producer \in {"alive", "closing"}
  /\ creating \in Queue \cup {NoQueue}
  /\ life \in [Queue -> {"none", "live", "destroyed"}]
  /\ queue \in [Queue -> Seq(EventNo)]
  /\ open_ \in [Queue -> BOOLEAN]
  /\ popper \in [Popper -> [pc : {"idle", "waiting", "woken"},
                            q : Queue \cup {NoQueue}, timed : BOOLEAN]]
  /\ got \in [Queue -> Seq(EventNo)]
  /\ initial \in [Queue -> 0 .. MaxEvents]
  /\ since \in [Queue -> 0 .. MaxEvents]

Init ==
  /\ state_ = 0 /\ notifying = "no" /\ targets = <<>>
  /\ event_queues = <<>> /\ producer = "alive" /\ creating = NoQueue
  /\ life = [q \in Queue |-> "none"]
  /\ queue = [q \in Queue |-> <<>>]
  /\ open_ = [q \in Queue |-> FALSE]
  /\ popper = [p \in Popper |-> Idle]
  /\ got = [q \in Queue |-> <<>>]
  /\ initial = [q \in Queue |-> 0]
  /\ since = [q \in Queue |-> 0]

In(q, pc) == {p \in Popper : popper[p].q = q /\ popper[p].pc = pc}
Registered(q) == q \in Range(event_queues)

----------------------------------------------------------------------------
(* ApiCore: creating and destroying queues. *)

\* The first part of createEventQueue(): if there is a session, its state goes
\* into the new queue.
CreateBegin(q) ==
  /\ producer = "alive" /\ creating = NoQueue /\ notifying = "no"
  /\ life[q] = "none"
  /\ creating' = q
  /\ life' = [life EXCEPT ![q] = "live"]
  /\ queue' = [queue EXCEPT ![q] = IF state_ = 0 THEN <<>> ELSE <<state_>>]
  /\ initial' = [initial EXCEPT ![q] = state_]
  /\ UNCHANGED <<producerVars, open_, popper, got, since>>

\* The second: addEventQueue().
AddEventQueue(q) ==
  /\ creating = q /\ notifying # "pushing"
  /\ creating' = NoQueue
  /\ open_' = [open_ EXCEPT ![q] = TRUE]
  /\ event_queues' = Append(event_queues, q)
  /\ since' = [since EXCEPT ![q] = IF notifying = "pending" THEN state_ - 1
                                   ELSE state_]
  /\ UNCHANGED <<state_, notifying, targets, producer, life, queue, popper,
                 got, initial>>

\* Mutant: the queue stays in event_queues_.
DestroyQueue_NotRemoved(q) ==
  /\ life[q] = "live" /\ creating # q /\ In(q, "waiting") \cup In(q, "woken") = {}
  /\ life' = [life EXCEPT ![q] = "destroyed"]
  /\ UNCHANGED <<producerVars, creating, queue, open_, popper, got,
                 historyVars>>

\* ~EventQueue(), nobody being in a call of the queue: removeEventQueue(),
\* unless the producer is gone already.
DestroyQueue(q) ==
  /\ life[q] = "live" /\ creating # q /\ In(q, "waiting") \cup In(q, "woken") = {}
  /\ life' = [life EXCEPT ![q] = "destroyed"]
  /\ IF producer = "alive"
       THEN /\ notifying # "pushing"
            /\ event_queues' = RemoveFirst(event_queues, q)
       ELSE UNCHANGED event_queues
  /\ UNCHANGED <<state_, notifying, targets, producer, creating, queue, open_,
                 popper, got, historyVars>>

----------------------------------------------------------------------------
(* Publishing. *)

\* The session's state changes, with the lock that keeps another change out.
ChangeState ==
  /\ producer = "alive" /\ notifying = "no" /\ state_ < MaxEvents
  /\ state_ = 0 => creating = NoQueue
  /\ state_' = state_ + 1
  /\ notifying' = "pending"
  /\ UNCHANGED <<targets, event_queues, producer, creating, queueVars, popper,
                 got, historyVars>>

\* notifyEvent() takes EventProducer::m_ ...
NotifyEvent ==
  /\ notifying = "pending"
  /\ notifying' = "pushing" /\ targets' = event_queues
  /\ UNCHANGED <<state_, event_queues, producer, creating, queueVars, popper,
                 got, historyVars>>

\* cv_.notify_one(): one of the threads waiting on q, if there is one.
NotifyOne(q) ==
  IF In(q, "waiting") = {} THEN UNCHANGED popper
  ELSE \E p \in In(q, "waiting") :
         popper' = [popper EXCEPT ![p].pc = "woken"]

\* cv_.notify_all().
NotifyAll(q) ==
  popper' = [p \in Popper |-> IF p \in In(q, "waiting")
                                THEN [popper[p] EXCEPT !.pc = "woken"]
                                ELSE popper[p]]

\* Mutant: only the event that ends the emptiness is announced.
Push_NotifyFirst(q) ==
  /\ notifying = "pushing" /\ targets # <<>> /\ Head(targets) = q
  /\ targets' = Tail(targets)
  /\ IF open_[q]
       THEN /\ queue' = [queue EXCEPT ![q] = Append(@, state_)]
            /\ IF queue[q] = <<>> THEN NotifyOne(q) ELSE UNCHANGED popper
       ELSE UNCHANGED <<queue, popper>>
  /\ UNCHANGED <<state_, notifying, event_queues, producer, creating, life,
                 open_, got, historyVars>>

\* Mutant: nobody is notified.
Push_Silent(q) ==
  /\ notifying = "pushing" /\ targets # <<>> /\ Head(targets) = q
  /\ targets' = Tail(targets)
  /\ queue' = IF open_[q] THEN [queue EXCEPT ![q] = Append(@, state_)]
              ELSE queue
  /\ UNCHANGED <<state_, notifying, event_queues, producer, creating, life,
                 open_, popper, got, historyVars>>

\* ... and push()es to one queue after the other; a closed one ignores it.
Push(q) ==
  /\ notifying = "pushing" /\ targets # <<>> /\ Head(targets) = q
  /\ targets' = Tail(targets)
  /\ IF open_[q]
       THEN /\ queue' = [queue EXCEPT ![q] = Append(@, state_)]
            /\ NotifyOne(q)
       ELSE UNCHANGED <<queue, popper>>
  /\ UNCHANGED <<state_, notifying, event_queues, producer, creating, life,
                 open_, got, historyVars>>

NotifyDone ==
  /\ notifying = "pushing" /\ targets = <<>>
  /\ notifying' = "no"
  /\ UNCHANGED <<state_, targets, event_queues, producer, creating, queueVars,
                 popper, got, historyVars>>

\* close() on q.
CloseBody(q) ==
  /\ open_' = [open_ EXCEPT ![q] = FALSE]
  /\ IF open_[q] THEN NotifyAll(q) ELSE UNCHANGED popper

\* The ApiCore and its session are gone, and so the producer: ~EventProducer
\* closes its queues one by one.
ProducerGone ==
  /\ producer = "alive" /\ notifying = "no" /\ creating = NoQueue
  /\ producer' = "closing" /\ targets' = event_queues
  /\ UNCHANGED <<state_, notifying, event_queues, creating, queueVars, popper,
                 got, historyVars>>

CloseNext ==
  /\ producer = "closing" /\ targets # <<>>
  /\ CloseBody(Head(targets)) /\ targets' = Tail(targets)
  /\ UNCHANGED <<state_, notifying, event_queues, producer, creating, life,
                 queue, got, historyVars>>

----------------------------------------------------------------------------
(* Users of a queue. *)

\* A user closes the queue.
Close(q) ==
  /\ life[q] = "live" /\ creating # q /\ open_[q]
  /\ CloseBody(q)
  /\ UNCHANGED <<producerVars, creating, life, queue, got, historyVars>>

\* Mutant: the last event is taken.
TakeFront_Last(q) ==
  /\ queue' = [queue EXCEPT ![q] = Front(queue[q])]
  /\ got' = [got EXCEPT ![q] = Append(got[q], Last(queue[q]))]

TakeFront(q) ==
  /\ queue' = [queue EXCEPT ![q] = Tail(queue[q])]
  /\ got' = [got EXCEPT ![q] = Append(got[q], Head(queue[q]))]

\* tryPop(), tryPopFor(), tryPopUntil() and pop() on a queue with an event.
PopFront(p, q) ==
  /\ popper[p] = Idle /\ life[q] = "live" /\ creating # q
  /\ queue[q] # <<>>
  /\ TakeFront(q)
  /\ UNCHANGED <<producerVars, creating, life, open_, popper, historyVars>>

\* On an empty queue that is open all but tryPop() wait, some with a timeout.
\* On a closed one, as in tryPop(), there is nothing to do.
PopWait(p, q) ==
  /\ popper[p] = Idle /\ life[q] = "live" /\ creating # q
  /\ queue[q] = <<>> /\ open_[q]
  /\ \E timed \in BOOLEAN :
       popper' = [popper EXCEPT ![p] =
                    [pc |-> "waiting", q |-> q, timed |-> timed]]
  /\ UNCHANGED <<producerVars, creating, queueVars, got, historyVars>>

\* A thread back from cv_.wait() with the predicate true: nothing for a closed
\* queue, or else the front.
Resume(p) ==
  LET q == popper[p].q
  IN  /\ queue[q] # <<>> \/ ~open_[q]
      /\ popper' = [popper EXCEPT ![p] = Idle]
      /\ IF open_[q] THEN TakeFront(q) ELSE UNCHANGED <<queue, got>>
      /\ UNCHANGED <<producerVars, creating, life, open_, initial, since>>

\* A notified thread gets EventQueue::m_ back and looks at the predicate.
WakeUp(p) ==
  /\ popper[p].pc = "woken"
  /\ Resume(p)

WaitAgain(p) ==
  /\ popper[p].pc = "woken"
  /\ queue[popper[p].q] = <<>> /\ open_[popper[p].q]
  /\ popper' = [popper EXCEPT ![p].pc = "waiting"]
  /\ UNCHANGED <<producerVars, creating, queueVars, got, historyVars>>

\* A wakeup nobody sent, or a timeout that finds the predicate true.
WakeSpurious(p) ==
  /\ popper[p].pc = "waiting"
  /\ Resume(p)

\* A timeout with the predicate false.
Timeout(p) ==
  /\ popper[p].pc \in {"waiting", "woken"} /\ popper[p].timed
  /\ queue[popper[p].q] = <<>> /\ open_[popper[p].q]
  /\ popper' = [popper EXCEPT ![p] = Idle]
  /\ UNCHANGED <<producerVars, creating, queueVars, got, historyVars>>

----------------------------------------------------------------------------

Publish == NotifyEvent \/ NotifyDone \/ \E q \in Queue : Push(q)
Woken(p) == WakeUp(p) \/ WaitAgain(p)

Next ==
  \/ ChangeState \/ Publish \/ ProducerGone \/ CloseNext
  \/ \E q \in Queue : \/ CreateBegin(q) \/ AddEventQueue(q)
                      \/ DestroyQueue(q) \/ Close(q)
                      \/ \E p \in Popper : PopFront(p, q) \/ PopWait(p, q)
  \/ \E p \in Popper : Woken(p) \/ WakeSpurious(p) \/ Timeout(p)

Spec == Init /\ [][Next]_vars

\* A call that has begun goes on, and a notified thread gets to run.  There
\* need be no spurious wakeup and no timeout.
Fairness ==
  /\ WF_vars(Publish) /\ WF_vars(CloseNext)
  /\ \A q \in Queue : WF_vars(AddEventQueue(q))
  /\ \A p \in Popper : WF_vars(Woken(p))

FairSpec == Spec /\ Fairness
----------------------------------------------------------------------------
(* Properties. *)

\* The event up to which q has been served, if it is registered and open.
Served(q) == IF notifying = "pending" \/ q \in Range(targets)
               THEN state_ - 1 ELSE state_

\* What a queue delivers: its initial event, then every event notified since
\* it was registered, in order, none lost, none twice, whoever pops.  What it
\* misses after close() is the end of that sequence.
DeliveredInOrder ==
  producer = "alive" =>
    \A q \in Queue : Registered(q) =>
      LET first == IF initial[q] = 0 THEN <<>> ELSE <<initial[q]>>
          all == first \o [i \in 1 .. Served(q) - since[q] |-> since[q] + i]
          seen == got[q] \o queue[q]
      IN  IF open_[q] THEN seen = all ELSE IsPrefix(seen, all)

\* notify_one() per push is enough: whenever a thread still sleeps on an open
\* queue, at least as many have been woken as there are events for them.
NoLostWakeup ==
  \A q \in Queue :
    open_[q] /\ In(q, "waiting") # {} =>
      Cardinality(In(q, "woken")) >= Len(queue[q])

\* The producer keeps bare pointers to queues that users own; a push never
\* goes to one that has been destroyed.
PushTargetLive ==
  notifying = "pushing" => \A q \in Range(targets) : life[q] = "live"

\* A thread that waits does not wait for ever on a queue that was closed or
\* that keeps an event.
PopReturns ==
  \A p \in Popper, q \in Queue :
    (p \in In(q, "waiting") /\ (~open_[q] \/ queue[q] # <<>>)) ~>
      (p \notin In(q, "waiting") \/ (open_[q] /\ queue[q] = <<>>))
=============================================================================
