------------------------- MODULE EventQueuesProofs -------------------------
(***************************************************************************)
(* What event delivery promises for any number of queues, threads that pop *)
(* and events: a push never meets a destroyed queue, every queue delivers  *)
(* its events in order and complete, and notify_one() per push is enough.  *)
(***************************************************************************)
EXTENDS EventQueues, SequenceTheorems, FiniteSetTheorems, TLAPS

USE DEF producerVars, queueVars, historyVars, vars

\* The life of a queue: the producer knows it only between addEventQueue() and
\* its destructor, and threads are in its calls only then.
LifeInv ==
  /\ IsInjective(event_queues)
  /\ \A q \in Queue :
       /\ life[q] = "none" \/ creating = q =>
            ~Registered(q) /\ ~open_[q] /\ got[q] = <<>>
       /\ creating = q =>
            /\ life[q] = "live"
            /\ queue[q] = IF initial[q] = 0 THEN <<>> ELSE <<initial[q]>>
       /\ producer = "alive" /\ Registered(q) => life[q] = "live"
  /\ \A p \in Popper : popper[p].pc # "idle" =>
       /\ popper[p].q \in Queue
       /\ life[popper[p].q] = "live" /\ creating # popper[p].q

\* The loop of notifyEvent(): it visits registered queues, each once.
LoopInv ==
  /\ notifying # "no" => producer = "alive" /\ state_ > 0
  /\ producer = "alive" /\ notifying # "pushing" => targets = <<>>
  /\ notifying = "pushing" =>
       /\ IsInjective(targets)
       /\ \A q \in Range(targets) : Registered(q)
  /\ producer = "alive" =>
       \A q \in Queue : Registered(q) => since[q] <= Served(q)

QueueInv == TypeOK /\ LifeInv /\ LoopInv

----------------------------------------------------------------------------
(* Sequences. *)

LEMMA RangeIs ==
  ASSUME NEW S, NEW s \in Seq(S)
  PROVE  /\ DOMAIN s = 1 .. Len(s) /\ Len(s) \in Nat
         /\ \A x : x \in Range(s) <=> \E i \in 1 .. Len(s) : s[i] = x
         /\ Range(s) \subseteq S
         /\ IsInjective(s) <=>
              \A i, j \in 1 .. Len(s) : s[i] = s[j] => i = j
<1>1. DOMAIN s = 1 .. Len(s) /\ Len(s) \in Nat
  BY LenProperties
<1>2. \A i \in 1 .. Len(s) : s[i] \in S
  BY ElementOfSeq
<1> QED BY <1>1, <1>2 DEF Range, IsInjective

LEMMA RangeEmpty == Range(<<>>) = {} /\ IsInjective(<<>>)
<1>1. DOMAIN <<>> = 1 .. 0
  BY EmptySeq, LenProperties
<1>2. DOMAIN <<>> = {}
  BY <1>1
<1> QED BY <1>2 DEF Range, IsInjective

LEMMA RangeAppend ==
  ASSUME NEW S, NEW s \in Seq(S), NEW e \in S
  PROVE  /\ \A x : x \in Range(Append(s, e)) <=> x \in Range(s) \/ x = e
         /\ IsInjective(s) /\ e \notin Range(s) => IsInjective(Append(s, e))
<1> DEFINE t == Append(s, e)
<1>1. /\ t \in Seq(S) /\ Len(t) = Len(s) + 1 /\ Len(s) \in Nat
      /\ \A i \in 1 .. Len(s) : t[i] = s[i]
      /\ t[Len(s) + 1] = e
  BY AppendProperties, LenProperties
<1>2. \A x : x \in Range(s) <=> \E i \in 1 .. Len(s) : s[i] = x
  BY RangeIs
<1>3. \A x : x \in Range(t) <=> \E i \in 1 .. Len(t) : t[i] = x
  BY <1>1, RangeIs
<1>4. /\ IsInjective(s) <=> \A i, j \in 1 .. Len(s) : s[i] = s[j] => i = j
      /\ IsInjective(t) <=> \A i, j \in 1 .. Len(t) : t[i] = t[j] => i = j
  BY <1>1, RangeIs
<1> HIDE DEF t
<1>5. \A x : x \in Range(t) <=> x \in Range(s) \/ x = e
  BY <1>1, <1>2, <1>3
<1>6. ASSUME IsInjective(s), e \notin Range(s) PROVE IsInjective(t)
  BY <1>1, <1>2, <1>4, <1>6
<1> QED BY <1>5, <1>6 DEF t

LEMMA RangeTail ==
  ASSUME NEW S, NEW s \in Seq(S), s # <<>>, IsInjective(s)
  PROVE  /\ Head(s) \in S /\ Tail(s) \in Seq(S) /\ Head(s) \in Range(s)
         /\ \A x : x \in Range(Tail(s)) <=> x \in Range(s) /\ x # Head(s)
         /\ IsInjective(Tail(s))
<1> DEFINE t == Tail(s)
<1>1. /\ t \in Seq(S) /\ Len(t) = Len(s) - 1 /\ Len(s) \in Nat \ {0}
      /\ \A i \in 1 .. Len(t) : t[i] = s[i + 1]
      /\ Head(s) = s[1] /\ Head(s) \in S
  BY HeadTailProperties, LenProperties, EmptySeq
<1>2. \A x : x \in Range(s) <=> \E i \in 1 .. Len(s) : s[i] = x
  BY RangeIs
<1>3. \A x : x \in Range(t) <=> \E i \in 1 .. Len(t) : t[i] = x
  BY <1>1, RangeIs
<1>4. /\ \A i, j \in 1 .. Len(s) : s[i] = s[j] => i = j
      /\ IsInjective(t) <=> \A i, j \in 1 .. Len(t) : t[i] = t[j] => i = j
  BY <1>1, RangeIs
<1> HIDE DEF t
<1>5. IsInjective(t)
  BY <1>1, <1>4
<1>6. ASSUME NEW x, x \in Range(t) PROVE x \in Range(s) /\ x # Head(s)
  BY <1>1, <1>2, <1>3, <1>4, <1>6
<1>7. ASSUME NEW x, x \in Range(s), x # Head(s) PROVE x \in Range(t)
  <2>1. PICK i \in 1 .. Len(s) : s[i] = x
    BY <1>2, <1>7
  <2>2. i - 1 \in 1 .. Len(t) /\ t[i - 1] = x
    BY <1>1, <1>7, <2>1
  <2> QED BY <1>3, <2>2
<1>8. Head(s) \in Range(s)
  BY <1>1, <1>2
<1> QED BY <1>1, <1>5, <1>6, <1>7, <1>8 DEF t

\* erase() of the first element that equals e, in a vector without duplicates.
LEMMA RangeRemove ==
  ASSUME NEW S, NEW s \in Seq(S), NEW e, IsInjective(s)
  PROVE  /\ RemoveFirst(s, e) \in Seq(S)
         /\ \A x : x \in Range(RemoveFirst(s, e)) <=> x \in Range(s) /\ x # e
         /\ IsInjective(RemoveFirst(s, e))
<1>0. /\ \A x : x \in Range(s) <=> \E i \in 1 .. Len(s) : s[i] = x
      /\ \A i, j \in 1 .. Len(s) : s[i] = s[j] => i = j
      /\ Len(s) \in Nat
  BY RangeIs
<1>1. CASE ~ \E i \in 1 .. Len(s) : s[i] = e
  BY <1>0, <1>1 DEF RemoveFirst
<1>2. CASE \E i \in 1 .. Len(s) : s[i] = e
  <2>1. PICK k \in 1 .. Len(s) : s[k] = e
    BY <1>2
  <2>2. SelectInSeq(s, LAMBDA v : v = e) = k
    <3> DEFINE I == {i \in 1 .. Len(s) : s[i] = e}
    <3>1. I = {k}
      BY <1>0, <2>1
    <3>2. Min(I) = k
      BY <2>1, <3>1 DEF Min
    <3> QED BY <3>1, <3>2 DEF SelectInSeq
  <2> DEFINE a == SubSeq(s, 1, k - 1)
             b == SubSeq(s, k + 1, Len(s))
             r == a \o b
  <2>3. RemoveFirst(s, e) = r
    BY <1>2, <2>2 DEF RemoveFirst, RemoveAt
  <2>4. \A i \in 1 .. Len(s) : s[i] \in S
    BY ElementOfSeq
  <2>5. /\ a \in Seq(S) /\ Len(a) = k - 1
        /\ \A i \in 1 .. k - 1 : a[i] = s[i]
    <3>1. \A i \in 1 .. k - 1 : s[i] \in S
      BY <1>0, <2>4
    <3>2. 1 \in Int /\ k - 1 \in Int
      OBVIOUS
    <3>3. /\ a \in Seq(S) /\ Len(a) = IF 1 <= k - 1 THEN (k - 1) - 1 + 1 ELSE 0
          /\ \A i \in 1 .. (k - 1) - 1 + 1 : a[i] = s[1 + i - 1]
      BY <3>1, <3>2, SubSeqProperties
    <3> HIDE DEF a
    <3> QED BY <3>3
  <2>6. /\ b \in Seq(S) /\ Len(b) = Len(s) - k
        /\ \A i \in 1 .. Len(s) - k : b[i] = s[k + i]
    <3>1. \A i \in k + 1 .. Len(s) : s[i] \in S
      BY <1>0, <2>4
    <3>2. k + 1 \in Int /\ Len(s) \in Int
      BY <1>0
    <3>3. /\ b \in Seq(S)
          /\ Len(b) = IF k + 1 <= Len(s) THEN Len(s) - (k + 1) + 1 ELSE 0
          /\ \A i \in 1 .. Len(s) - (k + 1) + 1 : b[i] = s[(k + 1) + i - 1]
      BY <3>1, <3>2, SubSeqProperties
    <3> HIDE DEF b
    <3> QED BY <1>0, <3>3
  <2>7. /\ r \in Seq(S) /\ Len(r) = Len(s) - 1
        /\ \A i \in 1 .. Len(s) - 1 : r[i] = IF i < k THEN s[i] ELSE s[i + 1]
    <3>1. /\ r \in Seq(S) /\ Len(r) = Len(a) + Len(b)
          /\ \A i \in 1 .. Len(a) + Len(b) :
               r[i] = IF i <= Len(a) THEN a[i] ELSE b[i - Len(a)]
      BY <2>5, <2>6, ConcatProperties
    <3> HIDE DEF a, b, r
    <3>2. Len(r) = Len(s) - 1
      BY <1>0, <2>5, <2>6, <3>1
    <3>3. ASSUME NEW i \in 1 .. Len(s) - 1
          PROVE  r[i] = IF i < k THEN s[i] ELSE s[i + 1]
      <4>1. CASE i < k
        <5>1. i \in 1 .. k - 1 /\ i <= Len(a) /\ i \in 1 .. Len(a) + Len(b)
          BY <1>0, <2>5, <2>6, <4>1
        <5> QED BY <2>5, <3>1, <4>1, <5>1
      <4>2. CASE i >= k
        <5>1. i - Len(a) \in 1 .. Len(s) - k /\ k + (i - Len(a)) = i + 1
          BY <1>0, <2>5, <4>2
        <5> QED BY <1>0, <2>5, <2>6, <3>1, <4>2, <5>1
      <4> QED BY <4>1, <4>2
    <3> QED BY <3>1, <3>2, <3>3
  <2> HIDE DEF r
  <2>8. /\ \A x : x \in Range(r) <=> \E i \in 1 .. Len(r) : r[i] = x
        /\ IsInjective(r) <=> \A i, j \in 1 .. Len(r) : r[i] = r[j] => i = j
    BY <2>7, RangeIs
  <2>9. IsInjective(r)
    BY <1>0, <2>7, <2>8
  <2>10. ASSUME NEW x, x \in Range(r) PROVE x \in Range(s) /\ x # e
    <3>1. PICK i \in 1 .. Len(r) : r[i] = x
      BY <2>8, <2>10
    <3>2. PICK j \in 1 .. Len(s) : j # k /\ s[j] = x
      BY <1>0, <2>7, <3>1
    <3> QED BY <1>0, <2>1, <3>2
  <2>11. ASSUME NEW x, x \in Range(s), x # e PROVE x \in Range(r)
    <3>1. PICK i \in 1 .. Len(s) : s[i] = x
      BY <1>0, <2>11
    <3>2. i # k
      BY <2>1, <2>11, <3>1
    <3>3. CASE i < k
      <4>1. i \in 1 .. Len(r) /\ r[i] = x
        BY <1>0, <2>7, <3>1, <3>3
      <4> QED BY <2>8, <4>1
    <3>4. CASE i > k
      <4>1. i - 1 \in 1 .. Len(r) /\ r[i - 1] = x
        BY <1>0, <2>7, <3>1, <3>4
      <4> QED BY <2>8, <4>1
    <3> QED BY <3>2, <3>3, <3>4
  <2> QED BY <2>3, <2>7, <2>9, <2>10, <2>11
<1> QED BY <1>1, <1>2

----------------------------------------------------------------------------
(* Types, the life of a queue and the loop of notifyEvent(). *)

LEMMA InitQueueInv == Init => QueueInv
<1> SUFFICES ASSUME Init PROVE QueueInv
  OBVIOUS
<1>1. <<>> \in Seq(Queue) /\ <<>> \in Seq(EventNo)
  BY EmptySeq
<1>2. 0 \in 0 .. MaxEvents
  BY MaxEventsAssumption
<1>3. TypeOK
  BY <1>1, <1>2 DEF Init, TypeOK, Idle
<1>4. \A q \in Queue : ~Registered(q)
  BY RangeEmpty DEF Init, Registered
<1>5. IsInjective(<<>>)
  BY RangeEmpty
<1>6. LifeInv
  BY <1>4, <1>5, NoQueueAssumption DEF Init, LifeInv, Idle
<1>7. LoopInv
  BY <1>4 DEF Init, LoopInv
<1> QED BY <1>3, <1>6, <1>7 DEF QueueInv

\* What a step of the threads that pop, or a notification, does to popper: a
\* thread goes idle, begins to wait on a live queue, or keeps its queue.
PopperStep ==
  /\ popper' \in [Popper -> [pc : {"idle", "waiting", "woken"},
                             q : Queue \cup {NoQueue}, timed : BOOLEAN]]
  /\ \A p \in Popper : popper'[p].pc # "idle" =>
       \/ popper[p].pc # "idle" /\ popper'[p].q = popper[p].q
       \/ /\ popper'[p].q \in Queue
          /\ life[popper'[p].q] = "live" /\ creating # popper'[p].q

LEMMA KeepQueue ==
  ASSUME TypeOK, NEW p \in Popper, popper[p].pc # "idle",
         NEW place \in {"waiting", "woken"},
         popper' = [popper EXCEPT ![p].pc = place]
  PROVE  PopperStep
<1>1. popper' = [popper EXCEPT ![p] = [popper[p] EXCEPT !.pc = place]]
  OBVIOUS
<1>2. /\ [popper[p] EXCEPT !.pc = place] \in
           [pc : {"idle", "waiting", "woken"}, q : Queue \cup {NoQueue},
            timed : BOOLEAN]
      /\ [popper[p] EXCEPT !.pc = place].q = popper[p].q
  BY DEF TypeOK
<1> QED BY <1>1, <1>2 DEF PopperStep, TypeOK

LEMMA NotifyPopper ==
  ASSUME TypeOK, NEW q \in Queue, NotifyOne(q) \/ NotifyAll(q) \/ UNCHANGED popper
  PROVE  PopperStep
<1>1. CASE NotifyOne(q)
  <2>1. CASE UNCHANGED popper
    BY <2>1 DEF TypeOK, PopperStep
  <2>2. CASE ~UNCHANGED popper
    <3>1. PICK p \in In(q, "waiting") : popper' = [popper EXCEPT ![p].pc = "woken"]
      BY <1>1, <2>2 DEF NotifyOne
    <3>2. p \in Popper /\ popper[p].pc = "waiting"
      BY DEF In
    <3> QED BY <3>1, <3>2, KeepQueue
  <2> QED BY <2>1, <2>2
<1>2. CASE NotifyAll(q)
  BY <1>2 DEF NotifyAll, TypeOK, PopperStep, In
<1>3. CASE UNCHANGED popper
  BY <1>3 DEF TypeOK, PopperStep
<1> QED BY <1>1, <1>2, <1>3

\* Taking the front of a queue keeps the types, and what was seen of it.
LEMMA TakeFrontType ==
  ASSUME TypeOK, NEW q \in Queue, queue[q] # <<>>, TakeFront(q)
  PROVE  /\ queue' \in [Queue -> Seq(EventNo)] /\ got' \in [Queue -> Seq(EventNo)]
         /\ queue'[q] = Tail(queue[q]) /\ got'[q] = Append(got[q], Head(queue[q]))
         /\ Len(queue'[q]) = Len(queue[q]) - 1
         /\ \A r \in Queue \ {q} : queue'[r] = queue[r] /\ got'[r] = got[r]
<1>1. queue[q] \in Seq(EventNo) /\ got[q] \in Seq(EventNo)
  BY DEF TypeOK
<1>2. /\ Head(queue[q]) \in EventNo /\ Tail(queue[q]) \in Seq(EventNo)
      /\ Len(Tail(queue[q])) = Len(queue[q]) - 1
  BY <1>1, HeadTailProperties
<1>3. Append(got[q], Head(queue[q])) \in Seq(EventNo)
  BY <1>1, <1>2, AppendProperties
<1> QED BY <1>2, <1>3 DEF TakeFront, TypeOK

\* What the threads that pop do: all but queue, got and popper stays.
Popping ==
  \/ \E p \in Popper, q \in Queue : PopFront(p, q) \/ PopWait(p, q)
  \/ \E p \in Popper : WakeUp(p) \/ WaitAgain(p) \/ WakeSpurious(p) \/ Timeout(p)

LEMMA PoppingStep ==
  ASSUME TypeOK, LifeInv, Popping
  PROVE  /\ UNCHANGED <<producerVars, creating, life, open_, historyVars>>
         /\ PopperStep
         /\ \/ UNCHANGED <<queue, got>>
            \/ \E q \in Queue : /\ queue[q] # <<>> /\ TakeFront(q)
                                /\ life[q] = "live" /\ creating # q
<1>1. ASSUME NEW p \in Popper, NEW q \in Queue, PopFront(p, q)
      PROVE  /\ UNCHANGED <<producerVars, creating, life, open_, historyVars>>
             /\ PopperStep
             /\ queue[q] # <<>> /\ TakeFront(q) /\ life[q] = "live" /\ creating # q
  BY <1>1 DEF PopFront, PopperStep, TypeOK
<1>2. ASSUME NEW p \in Popper, NEW q \in Queue, PopWait(p, q)
      PROVE  /\ UNCHANGED <<producerVars, creating, life, open_, historyVars>>
             /\ PopperStep /\ UNCHANGED <<queue, got>>
  <2>1. PICK timed \in BOOLEAN :
          popper' = [popper EXCEPT ![p] =
                       [pc |-> "waiting", q |-> q, timed |-> timed]]
    BY <1>2 DEF PopWait
  <2>2. PopperStep
    BY <1>2, <2>1 DEF PopWait, PopperStep, TypeOK
  <2> QED BY <1>2, <2>2 DEF PopWait
<1>3. ASSUME NEW p \in Popper, WakeUp(p) \/ WakeSpurious(p)
      PROVE  /\ UNCHANGED <<producerVars, creating, life, open_, historyVars>>
             /\ PopperStep
             /\ \/ UNCHANGED <<queue, got>>
                \/ \E q \in Queue : /\ queue[q] # <<>> /\ TakeFront(q)
                                    /\ life[q] = "live" /\ creating # q
  <2> DEFINE q == popper[p].q
  <2>1. popper[p].pc # "idle" /\ Resume(p)
    BY <1>3 DEF WakeUp, WakeSpurious
  <2>2. q \in Queue /\ life[q] = "live" /\ creating # q
    BY <2>1 DEF LifeInv
  <2>3. PopperStep
    BY <2>1 DEF Resume, PopperStep, TypeOK, Idle
  <2>4. UNCHANGED <<queue, got>> \/ (queue[q] # <<>> /\ TakeFront(q))
    BY <2>1 DEF Resume
  <2> QED BY <2>1, <2>2, <2>3, <2>4 DEF Resume
<1>4. ASSUME NEW p \in Popper, WaitAgain(p) \/ Timeout(p)
      PROVE  /\ UNCHANGED <<producerVars, creating, life, open_, historyVars>>
             /\ PopperStep /\ UNCHANGED <<queue, got>>
  <2>1. CASE WaitAgain(p)
    BY <2>1, KeepQueue DEF WaitAgain
  <2>2. CASE Timeout(p)
    BY <2>2 DEF Timeout, PopperStep, TypeOK, Idle
  <2> QED BY <1>4, <2>1, <2>2 DEF WaitAgain, Timeout
<1>5. CASE \E p \in Popper, q \in Queue : PopFront(p, q) \/ PopWait(p, q)
  BY <1>1, <1>2, <1>5
<1>6. CASE \E p \in Popper : WakeUp(p) \/ WaitAgain(p) \/ WakeSpurious(p) \/ Timeout(p)
  BY <1>3, <1>4, <1>6
<1> QED BY <1>5, <1>6 DEF Popping

\* The step of a queue that is pushed to.
LEMMA PushType ==
  ASSUME TypeOK, NEW q \in Queue, Push(q), state_ > 0
  PROVE  /\ queue' \in [Queue -> Seq(EventNo)]
         /\ open_[q] => queue'[q] = Append(queue[q], state_)
         /\ ~open_[q] => queue'[q] = queue[q]
         /\ \A r \in Queue \ {q} : queue'[r] = queue[r]
         /\ PopperStep
<1>1. state_ \in EventNo /\ queue[q] \in Seq(EventNo)
  BY MaxEventsAssumption DEF TypeOK, EventNo
<1>2. Append(queue[q], state_) \in Seq(EventNo)
  BY <1>1, AppendProperties
<1>3. PopperStep
  BY NotifyPopper DEF Push
<1> QED BY <1>2, <1>3 DEF Push, TypeOK

LEMMA CloseType ==
  ASSUME TypeOK, NEW q \in Queue, CloseBody(q)
  PROVE  /\ open_' \in [Queue -> BOOLEAN] /\ ~open_'[q]
         /\ \A r \in Queue \ {q} : open_'[r] = open_[r]
         /\ PopperStep
<1>1. PopperStep
  BY NotifyPopper DEF CloseBody
<1> QED BY <1>1 DEF CloseBody, TypeOK

\* Every step keeps the types.
LEMMA TypeStep ==
  ASSUME QueueInv, [Next]_vars
  PROVE  TypeOK'
<1> USE DEF QueueInv
<1>0. state_ \in 0 .. MaxEvents /\ MaxEvents \in Nat
  BY MaxEventsAssumption DEF TypeOK
<1>1. ASSUME NEW q \in Queue, CreateBegin(q) PROVE TypeOK'
  <2>1. (IF state_ = 0 THEN <<>> ELSE <<state_>>) \in Seq(EventNo)
    <3>1. state_ # 0 => state_ \in EventNo
      BY <1>0 DEF EventNo
    <3>2. \A n \in EventNo : <<n>> \in Seq(EventNo)
      OBVIOUS
    <3>3. <<>> \in Seq(EventNo)
      BY EmptySeq
    <3> QED BY <3>1, <3>2, <3>3
  <2> QED BY <1>1, <2>1 DEF CreateBegin, TypeOK
<1>2. ASSUME NEW q \in Queue, AddEventQueue(q) PROVE TypeOK'
  <2>1. (IF notifying = "pending" THEN state_ - 1 ELSE state_) \in 0 .. MaxEvents
    BY <1>0 DEF LoopInv
  <2>2. Append(event_queues, q) \in Seq(Queue)
    BY AppendProperties DEF TypeOK
  <2> QED BY <1>2, <2>1, <2>2 DEF AddEventQueue, TypeOK
<1>3. ASSUME NEW q \in Queue, DestroyQueue(q) PROVE TypeOK'
  <2>1. RemoveFirst(event_queues, q) \in Seq(Queue)
    BY RangeRemove DEF TypeOK, LifeInv
  <2> QED BY <1>3, <2>1 DEF DestroyQueue, TypeOK
<1>4. CASE ChangeState
  BY <1>0, <1>4 DEF ChangeState, TypeOK
<1>5. CASE NotifyEvent \/ NotifyDone \/ ProducerGone
  BY <1>5 DEF NotifyEvent, NotifyDone, ProducerGone, TypeOK
<1>6. ASSUME NEW q \in Queue, Push(q) PROVE TypeOK'
  <2>1. state_ > 0
    BY <1>6 DEF Push, LoopInv
  <2>2. Tail(targets) \in Seq(Queue)
    BY <1>6, HeadTailProperties DEF Push, TypeOK
  <2> QED BY <1>6, <2>1, <2>2, PushType DEF Push, TypeOK, PopperStep
<1>7. CASE CloseNext
  <2>1. Head(targets) \in Queue /\ Tail(targets) \in Seq(Queue)
    BY <1>7, HeadTailProperties DEF CloseNext, TypeOK
  <2>2. open_' \in [Queue -> BOOLEAN] /\ PopperStep
    BY <1>7, <2>1, CloseType DEF CloseNext
  <2> QED BY <1>7, <2>1, <2>2 DEF CloseNext, TypeOK, PopperStep
<1>8. ASSUME NEW q \in Queue, Close(q) PROVE TypeOK'
  <2>1. open_' \in [Queue -> BOOLEAN] /\ PopperStep
    BY <1>8, CloseType DEF Close
  <2> QED BY <1>8, <2>1 DEF Close, TypeOK, PopperStep
<1>9. CASE Popping
  <2>1. /\ UNCHANGED <<producerVars, creating, life, open_, historyVars>>
        /\ PopperStep
        /\ \/ UNCHANGED <<queue, got>>
           \/ \E q \in Queue : queue[q] # <<>> /\ TakeFront(q)
    BY <1>9, PoppingStep
  <2>2. queue' \in [Queue -> Seq(EventNo)] /\ got' \in [Queue -> Seq(EventNo)]
    BY <2>1, TakeFrontType DEF TypeOK
  <2> QED BY <2>1, <2>2 DEF TypeOK, PopperStep
<1>10. CASE UNCHANGED vars
  BY <1>10 DEF TypeOK
<1> QED
  BY <1>1, <1>2, <1>3, <1>4, <1>5, <1>6, <1>7, <1>8, <1>9, <1>10
  DEF Next, Publish, Woken, Popping

\* Threads stay in the calls of live queues when neither of these changes for
\* a queue somebody is in.
LEMMA PoppersStay ==
  ASSUME LifeInv, PopperStep,
         \A p \in Popper : popper'[p].pc # "idle" /\ popper'[p].q \in Queue
              /\ life[popper'[p].q] = "live" /\ creating # popper'[p].q =>
           life'[popper'[p].q] = "live" /\ creating' # popper'[p].q
  PROVE  \A p \in Popper : popper'[p].pc # "idle" =>
           /\ popper'[p].q \in Queue
           /\ life'[popper'[p].q] = "live" /\ creating' # popper'[p].q
BY DEF LifeInv, PopperStep

\* Every step keeps LifeInv.
LEMMA LifeStep ==
  ASSUME QueueInv, [Next]_vars
  PROVE  LifeInv'
<1> USE DEF QueueInv
<1>e. event_queues \in Seq(Queue)
  BY DEF TypeOK
<1>1. ASSUME NEW q \in Queue, CreateBegin(q) PROVE LifeInv'
  <2>1. /\ creating = NoQueue /\ creating' = q /\ life[q] = "none"
        /\ life'[q] = "live" /\ \A r \in Queue \ {q} : life'[r] = life[r]
        /\ queue'[q] = IF state_ = 0 THEN <<>> ELSE <<state_>>
        /\ initial'[q] = state_
        /\ UNCHANGED <<event_queues, producer, open_, popper, got>>
    BY <1>1 DEF CreateBegin, TypeOK
  <2>2. \A r \in Queue : Registered(r)' <=> Registered(r)
    BY <2>1 DEF Registered
  <2>3. PopperStep
    BY <2>1 DEF PopperStep, TypeOK
  <2>4. \A p \in Popper : popper'[p].pc # "idle" =>
          /\ popper'[p].q \in Queue
          /\ life'[popper'[p].q] = "live" /\ creating' # popper'[p].q
    BY <2>1, <2>3, PoppersStay
  <2>5. ASSUME NEW r \in Queue
        PROVE /\ life'[r] = "none" \/ creating' = r =>
                   ~Registered(r)' /\ ~open_'[r] /\ got'[r] = <<>>
              /\ creating' = r =>
                   /\ life'[r] = "live"
                   /\ queue'[r] = IF initial'[r] = 0 THEN <<>> ELSE <<initial'[r]>>
              /\ producer' = "alive" /\ Registered(r)' => life'[r] = "live"
    BY <2>1, <2>2 DEF LifeInv
  <2> QED BY <2>1, <2>4, <2>5 DEF LifeInv
<1>2. ASSUME NEW q \in Queue, AddEventQueue(q) PROVE LifeInv'
  <2>1. /\ creating = q /\ creating' = NoQueue /\ NoQueue # q
        /\ event_queues' = Append(event_queues, q)
        /\ open_'[q] /\ \A r \in Queue \ {q} : open_'[r] = open_[r]
        /\ UNCHANGED <<producer, life, popper, got>>
    BY <1>2, NoQueueAssumption DEF AddEventQueue, TypeOK
  <2>2. /\ \A r \in Queue : Registered(r)' <=> Registered(r) \/ r = q
        /\ ~Registered(q) => IsInjective(event_queues)'
    BY <1>e, <2>1, RangeAppend DEF Registered, LifeInv
  <2>3. life[q] = "live" /\ ~Registered(q)
    BY <2>1 DEF LifeInv
  <2>4. PopperStep
    BY <2>1 DEF PopperStep, TypeOK
  <2>5. \A p \in Popper : popper'[p].pc # "idle" =>
          /\ popper'[p].q \in Queue
          /\ life'[popper'[p].q] = "live" /\ creating' # popper'[p].q
    BY <2>1, <2>4, PoppersStay, NoQueueAssumption
  <2>6. ASSUME NEW r \in Queue
        PROVE /\ life'[r] = "none" \/ creating' = r =>
                   ~Registered(r)' /\ ~open_'[r] /\ got'[r] = <<>>
              /\ creating' # r
              /\ producer' = "alive" /\ Registered(r)' => life'[r] = "live"
    BY <2>1, <2>2, <2>3, NoQueueAssumption DEF LifeInv
  <2> QED BY <2>2, <2>3, <2>5, <2>6 DEF LifeInv
<1>3. ASSUME NEW q \in Queue, DestroyQueue(q) PROVE LifeInv'
  <2>1. /\ creating # q /\ In(q, "waiting") \cup In(q, "woken") = {}
        /\ life'[q] = "destroyed" /\ \A r \in Queue \ {q} : life'[r] = life[r]
        /\ event_queues' = IF producer = "alive" THEN RemoveFirst(event_queues, q)
                           ELSE event_queues
        /\ UNCHANGED <<producer, creating, queue, open_, popper, got, initial>>
    BY <1>3 DEF DestroyQueue, TypeOK
  <2>2. /\ IsInjective(event_queues)'
        /\ \A r \in Queue : Registered(r)' =>
             Registered(r) /\ (producer = "alive" => r # q)
    BY <1>e, <2>1, RangeRemove DEF Registered, LifeInv
  <2>3. PopperStep
    BY <2>1 DEF PopperStep, TypeOK
  <2>4. \A p \in Popper : popper[p].pc # "idle" => popper[p].q # q
    BY <2>1 DEF In, TypeOK
  <2>5. \A p \in Popper : popper'[p].pc # "idle" =>
          /\ popper'[p].q \in Queue
          /\ life'[popper'[p].q] = "live" /\ creating' # popper'[p].q
    BY <2>1, <2>3, <2>4, PoppersStay
  <2>6. ASSUME NEW r \in Queue
        PROVE /\ life'[r] = "none" \/ creating' = r =>
                   ~Registered(r)' /\ ~open_'[r] /\ got'[r] = <<>>
              /\ creating' = r =>
                   /\ life'[r] = "live"
                   /\ queue'[r] = IF initial'[r] = 0 THEN <<>> ELSE <<initial'[r]>>
              /\ producer' = "alive" /\ Registered(r)' => life'[r] = "live"
    BY <2>1, <2>2 DEF LifeInv
  <2> QED BY <2>2, <2>5, <2>6 DEF LifeInv
<1>4. ASSUME UNCHANGED <<event_queues, creating, life, initial>>, PopperStep,
             producer' = "alive" => producer = "alive",
             \A r \in Queue : life[r] = "none" \/ creating = r =>
               open_'[r] = open_[r] /\ got'[r] = got[r] /\ queue'[r] = queue[r]
      PROVE  LifeInv'
  <2>1. \A p \in Popper : popper'[p].pc # "idle" =>
          /\ popper'[p].q \in Queue
          /\ life'[popper'[p].q] = "live" /\ creating' # popper'[p].q
    BY <1>4, PoppersStay
  <2>2. ASSUME NEW r \in Queue
        PROVE /\ life'[r] = "none" \/ creating' = r =>
                   ~Registered(r)' /\ ~open_'[r] /\ got'[r] = <<>>
              /\ creating' = r =>
                   /\ life'[r] = "live"
                   /\ queue'[r] = IF initial'[r] = 0 THEN <<>> ELSE <<initial'[r]>>
              /\ producer' = "alive" /\ Registered(r)' => life'[r] = "live"
    BY <1>4 DEF LifeInv, Registered
  <2> QED BY <1>4, <2>1, <2>2 DEF LifeInv
<1>5. CASE ChangeState \/ NotifyEvent \/ NotifyDone \/ ProducerGone \/ UNCHANGED vars
  <2>1. PopperStep
    BY <1>5 DEF ChangeState, NotifyEvent, NotifyDone, ProducerGone, PopperStep,
                TypeOK
  <2> QED
    BY <1>4, <1>5, <2>1 DEF ChangeState, NotifyEvent, NotifyDone, ProducerGone
<1>6. ASSUME NEW q \in Queue, Push(q) PROVE LifeInv'
  <2>1. q \in Range(targets)
    BY <1>6, RangeTail DEF Push, TypeOK, LoopInv
  <2>2. /\ Registered(q) /\ state_ > 0 /\ producer = "alive"
        /\ UNCHANGED <<event_queues, creating, life, initial, producer, open_, got>>
    BY <1>6, <2>1 DEF Push, LoopInv
  <2>3. life[q] # "none" /\ creating # q
    BY <2>2 DEF LifeInv
  <2>4. PopperStep /\ \A r \in Queue \ {q} : queue'[r] = queue[r]
    BY <1>6, <2>2, PushType
  <2> QED BY <1>4, <2>2, <2>3, <2>4
<1>7. CASE CloseNext
  <2>1. Head(targets) \in Queue
    BY <1>7, HeadTailProperties DEF CloseNext, TypeOK
  <2>2. /\ PopperStep
        /\ \A r \in Queue \ {Head(targets)} : open_'[r] = open_[r]
        /\ ~open_'[Head(targets)] /\ open_' \in [Queue -> BOOLEAN]
    BY <1>7, <2>1, CloseType DEF CloseNext
  <2>3. UNCHANGED <<event_queues, creating, life, initial, producer, queue, got>>
    BY <1>7 DEF CloseNext
  <2>4. \A r \in Queue : life[r] = "none" \/ creating = r => ~open_[r]
    BY DEF LifeInv
  <2>5. \A r \in Queue : life[r] = "none" \/ creating = r => open_'[r] = open_[r]
    BY <2>1, <2>2, <2>4 DEF TypeOK
  <2> QED BY <1>4, <2>2, <2>3, <2>5
<1>8. ASSUME NEW q \in Queue, Close(q) PROVE LifeInv'
  <2>1. PopperStep /\ \A r \in Queue \ {q} : open_'[r] = open_[r]
    BY <1>8, CloseType DEF Close
  <2>2. /\ UNCHANGED <<event_queues, creating, life, initial, producer, queue, got>>
        /\ life[q] # "none" /\ creating # q
    BY <1>8 DEF Close
  <2> QED BY <1>4, <2>1, <2>2
<1>9. CASE Popping
  <2>1. /\ UNCHANGED <<producerVars, creating, life, open_, historyVars>>
        /\ PopperStep
        /\ \/ UNCHANGED <<queue, got>>
           \/ \E q \in Queue : /\ queue[q] # <<>> /\ TakeFront(q)
                               /\ life[q] = "live" /\ creating # q
    BY <1>9, PoppingStep
  <2>2. \A r \in Queue : life[r] = "none" \/ creating = r =>
          got'[r] = got[r] /\ queue'[r] = queue[r]
    BY <2>1, TakeFrontType
  <2> QED BY <1>4, <2>1, <2>2
<1> QED
  BY <1>1, <1>2, <1>3, <1>5, <1>6, <1>7, <1>8, <1>9
  DEF Next, Publish, Woken, Popping

\* Every step keeps LoopInv.
LEMMA LoopStep ==
  ASSUME QueueInv, [Next]_vars
  PROVE  LoopInv'
<1> USE DEF QueueInv
<1>e. /\ event_queues \in Seq(Queue) /\ targets \in Seq(Queue)
      /\ state_ \in Nat /\ since \in [Queue -> Nat]
  BY MaxEventsAssumption DEF TypeOK
<1>r. Range(<<>>) = {}
  BY RangeEmpty
<1>1. ASSUME NEW q \in Queue, AddEventQueue(q) PROVE LoopInv'
  <2>1. /\ event_queues' = Append(event_queues, q) /\ notifying # "pushing"
        /\ since'[q] = IF notifying = "pending" THEN state_ - 1 ELSE state_
        /\ \A r \in Queue \ {q} : since'[r] = since[r]
        /\ UNCHANGED <<state_, notifying, targets, producer>>
    BY <1>1 DEF AddEventQueue, TypeOK
  <2>2. \A r \in Queue : Registered(r)' <=> Registered(r) \/ r = q
    BY <1>e, <2>1, RangeAppend DEF Registered
  <2>3. producer = "alive" => targets = <<>>
    BY <2>1 DEF LoopInv
  <2>4. ASSUME producer = "alive", NEW r \in Queue, Registered(r)'
        PROVE  since'[r] <= Served(r)'
    <3>1. Served(r)' = Served(r)
      BY <2>1 DEF Served
    <3>2. CASE r = q
      BY <1>e, <1>r, <2>1, <2>3, <2>4, <3>1, <3>2 DEF Served
    <3>3. CASE r # q
      BY <2>1, <2>2, <2>4, <3>1, <3>3 DEF LoopInv
    <3> QED BY <3>2, <3>3
  <2> QED BY <2>1, <2>3, <2>4 DEF LoopInv
<1>2. ASSUME NEW q \in Queue, DestroyQueue(q) PROVE LoopInv'
  <2>1. /\ producer = "alive" => notifying # "pushing"
        /\ event_queues' = IF producer = "alive" THEN RemoveFirst(event_queues, q)
                           ELSE event_queues
        /\ UNCHANGED <<state_, notifying, targets, producer, since>>
    BY <1>2 DEF DestroyQueue
  <2>2. notifying # "pushing"
    BY <2>1 DEF LoopInv
  <2>3. \A r \in Queue : Registered(r)' => Registered(r)
    BY <1>e, <2>1, RangeRemove DEF Registered, LifeInv
  <2> QED BY <2>1, <2>2, <2>3 DEF LoopInv, Served
<1>3. CASE ChangeState
  <2>1. /\ producer = "alive" /\ notifying = "no" /\ notifying' = "pending"
        /\ state_' = state_ + 1 /\ targets = <<>>
        /\ UNCHANGED <<targets, event_queues, producer, since>>
    BY <1>3 DEF ChangeState, LoopInv
  <2>2. \A r \in Queue : Served(r)' = Served(r) /\ (Registered(r)' <=> Registered(r))
    BY <1>e, <1>r, <2>1 DEF Served, Registered
  <2> QED BY <1>e, <2>1, <2>2 DEF LoopInv
<1>4. CASE NotifyEvent
  <2>1. /\ notifying = "pending" /\ notifying' = "pushing"
        /\ targets' = event_queues
        /\ UNCHANGED <<state_, event_queues, producer, since>>
    BY <1>4 DEF NotifyEvent
  <2>2. \A r \in Queue : Registered(r) => Served(r)' = Served(r) /\ Registered(r)'
    BY <2>1 DEF Served, Registered
  <2>3. \A r \in Range(targets)' : Registered(r)'
    BY <2>1 DEF Registered
  <2>4. \A r \in Queue : Registered(r)' => Registered(r)
    BY <2>1 DEF Registered
  <2> QED BY <2>1, <2>2, <2>3, <2>4 DEF LoopInv, LifeInv
<1>5. ASSUME NEW q \in Queue, Push(q) PROVE LoopInv'
  <2>1. /\ notifying = "pushing" /\ targets # <<>> /\ Head(targets) = q
        /\ targets' = Tail(targets)
        /\ UNCHANGED <<state_, notifying, event_queues, producer, since>>
    BY <1>5 DEF Push
  <2>2. /\ IsInjective(targets)'
        /\ \A x : x \in Range(targets)' <=> x \in Range(targets) /\ x # q
    BY <1>e, <2>1, RangeTail DEF LoopInv
  <2>3. \A r \in Queue : Served(r)' \in {state_, state_ - 1}
           /\ (Served(r)' = Served(r) \/ Served(r)' = state_)
    BY <2>1, <2>2 DEF Served
  <2>4. \A r \in Queue : Served(r) <= state_ /\ Served(r) \in Int
    BY <1>e DEF Served
  <2>5. \A r \in Queue : Registered(r)' <=> Registered(r)
    BY <2>1 DEF Registered
  <2>6. ASSUME NEW r \in Queue, Registered(r)', producer = "alive"
        PROVE  since[r] <= Served(r)'
    <3>1. since[r] <= Served(r) /\ since[r] \in Nat
      BY <1>e, <2>5, <2>6 DEF LoopInv
    <3>2. since[r] <= state_
      BY <1>e, <2>4, <3>1
    <3> QED BY <2>3, <3>1, <3>2
  <2>7. \A r \in Range(targets)' : Registered(r)'
    BY <2>1, <2>2 DEF LoopInv, Registered
  <2> QED BY <2>1, <2>2, <2>6, <2>7 DEF LoopInv
<1>6. CASE NotifyDone
  <2>1. /\ notifying = "pushing" /\ notifying' = "no" /\ targets = <<>>
        /\ UNCHANGED <<state_, targets, event_queues, producer, since>>
    BY <1>6 DEF NotifyDone
  <2>2. \A r \in Queue : Served(r)' = Served(r) /\ (Registered(r)' <=> Registered(r))
    BY <2>1 DEF Served, Registered
  <2> QED BY <2>1, <2>2 DEF LoopInv
<1>7. CASE ProducerGone
  BY <1>7 DEF ProducerGone, LoopInv
<1>8. CASE CloseNext
  BY <1>8 DEF CloseNext, LoopInv
<1>9. ASSUME NEW q \in Queue, CreateBegin(q) PROVE LoopInv'
  BY <1>9 DEF CreateBegin, LoopInv, Registered, Served
<1>10. ASSUME NEW q \in Queue, Close(q) PROVE LoopInv'
  BY <1>10 DEF Close, LoopInv, Registered, Served
<1>11. CASE Popping
  <2>1. UNCHANGED <<producerVars, historyVars>>
    BY <1>11, PoppingStep
  <2> QED BY <2>1 DEF LoopInv, Registered, Served
<1>12. CASE UNCHANGED vars
  BY <1>12 DEF LoopInv, Registered, Served
<1> QED
  BY <1>1, <1>2, <1>3, <1>4, <1>5, <1>6, <1>7, <1>8, <1>9, <1>10, <1>11, <1>12
  DEF Next, Publish, Woken, Popping

LEMMA QueueAlways == Spec => []QueueInv
<1>1. QueueInv /\ [Next]_vars => QueueInv'
  BY TypeStep, LifeStep, LoopStep DEF QueueInv
<1> QED BY <1>1, InitQueueInv, PTL DEF Spec

\* Every variable of the queues, the producer and the threads keeps its type.
THEOREM TypeCorrect == Spec => []TypeOK
<1>1. QueueInv => TypeOK
  BY DEF QueueInv
<1> QED BY <1>1, QueueAlways, PTL

\* notifyEvent() only ever pushes to queues that exist, although it keeps bare
\* pointers and their owners destroy them at any time.
THEOREM PushToLive == Spec => []PushTargetLive
<1>1. QueueInv => PushTargetLive
  <2> SUFFICES ASSUME QueueInv, notifying = "pushing", NEW q \in Range(targets)
               PROVE  life[q] = "live"
    BY DEF PushTargetLive
  <2>1. targets \in Seq(Queue) /\ q \in Queue
    BY RangeIs DEF QueueInv, TypeOK
  <2> QED BY <2>1 DEF QueueInv, LoopInv, LifeInv
<1> QED BY <1>1, QueueAlways, PTL

----------------------------------------------------------------------------
(* Delivery. *)

First(q) == IF initial[q] = 0 THEN <<>> ELSE <<initial[q]>>
Run(k, n) == [i \in 1 .. n |-> k + i]
All(q) == First(q) \o Run(since[q], Served(q) - since[q])
Seen(q) == got[q] \o queue[q]
Delivered(q) == IF open_[q] THEN Seen(q) = All(q) ELSE IsPrefix(Seen(q), All(q))

\* DeliveredInOrder, queue by queue.
LEMMA DeliveredIs ==
  DeliveredInOrder <=>
    (producer = "alive" => \A q \in Queue : Registered(q) => Delivered(q))
BY DEF DeliveredInOrder, Delivered, Seen, All, First, Run

LEMMA IntervalLength ==
  ASSUME NEW m \in Nat, NEW n \in Nat, 1 .. m = 1 .. n
  PROVE  m = n
<1>1. m = 0 \/ m \in 1 .. n
  OBVIOUS
<1>2. n = 0 \/ n \in 1 .. m
  OBVIOUS
<1> QED BY <1>1, <1>2

LEMMA RunGrows ==
  ASSUME NEW k \in Nat, NEW n \in Nat
  PROVE  /\ Run(k, n) \in Seq(Nat)
         /\ Run(k, 0) = <<>>
         /\ Run(k, n + 1) = Append(Run(k, n), k + n + 1)
<1>1. \A m \in Nat : Run(k, m) \in [1 .. m -> Nat]
  BY DEF Run
<1>2. \A m \in Nat : Run(k, m) \in Seq(Nat) /\ Len(Run(k, m)) = m
  <2> TAKE m \in Nat
  <2>1. Run(k, m) \in Seq(Nat)
    BY <1>1, SeqDef
  <2>2. DOMAIN Run(k, m) = 1 .. Len(Run(k, m)) /\ Len(Run(k, m)) \in Nat
    BY <2>1, LenProperties
  <2>3. DOMAIN Run(k, m) = 1 .. m
    BY <1>1
  <2> QED BY <2>1, <2>2, <2>3, IntervalLength
<1>3. Run(k, 0) = <<>>
  <2>1. Run(k, 0) \in Seq(Nat) /\ Len(Run(k, 0)) = 0
    BY <1>2
  <2> QED BY <2>1, EmptySeq
<1>4. Run(k, n + 1) = Append(Run(k, n), k + n + 1)
  <2> DEFINE a == Run(k, n + 1)
             b == Append(Run(k, n), k + n + 1)
  <2>1. a \in Seq(Nat) /\ Len(a) = n + 1
    BY <1>2
  <2>2. /\ b \in Seq(Nat) /\ Len(b) = n + 1
        /\ \A i \in 1 .. n : b[i] = Run(k, n)[i]
        /\ b[n + 1] = k + n + 1
    <3>1. Run(k, n) \in Seq(Nat) /\ Len(Run(k, n)) = n /\ k + n + 1 \in Nat
      BY <1>2
    <3> QED BY <3>1, AppendProperties
  <2>3. \A i \in 1 .. n : Run(k, n)[i] = k + i
    BY DEF Run
  <2>4. \A i \in 1 .. n + 1 : a[i] = k + i
    BY DEF Run
  <2> HIDE DEF a, b
  <2>5. \A i \in 1 .. n + 1 : a[i] = b[i]
    <3> TAKE i \in 1 .. n + 1
    <3>1. CASE i = n + 1
      BY <2>2, <2>4, <3>1
    <3>2. CASE i # n + 1
      <4>1. i \in 1 .. n
        BY <3>2
      <4> QED BY <2>2, <2>3, <2>4, <4>1
    <3> QED BY <3>1, <3>2
  <2>6. a = b
    BY <2>1, <2>2, <2>5, SeqEqual
  <2> QED BY <2>6 DEF a, b
<1> QED BY <1>2, <1>3, <1>4

LEMMA ConcatAppend ==
  ASSUME NEW s \in Seq(Nat), NEW t \in Seq(Nat), NEW e \in Nat
  PROVE  s \o Append(t, e) = Append(s \o t, e)
<1>1. <<e>> \in Seq(Nat) /\ s \o t \in Seq(Nat)
  BY ConcatProperties
<1>2. Append(t, e) = t \o <<e>> /\ Append(s \o t, e) = (s \o t) \o <<e>>
  BY <1>1, AppendIsConcat
<1>3. (s \o t) \o <<e>> = s \o (t \o <<e>>)
  BY <1>1, ConcatAssociative
<1> QED BY <1>2, <1>3

LEMMA ConcatShift ==
  ASSUME NEW S, NEW s \in Seq(S), NEW t \in Seq(S), t # <<>>
  PROVE  Append(s, Head(t)) \o Tail(t) = s \o t
<1>1. Head(t) \in S /\ Tail(t) \in Seq(S)
  BY HeadTailProperties
<1>2. <<Head(t)>> \in Seq(S)
  BY <1>1
<1>3. Append(s, Head(t)) = s \o <<Head(t)>>
  BY <1>1, AppendIsConcat
<1>4. (s \o <<Head(t)>>) \o Tail(t) = s \o (<<Head(t)>> \o Tail(t))
  BY <1>1, <1>2, ConcatAssociative
<1>5. t = <<Head(t)>> \o Tail(t)
  <2>1. Len(t) \in Nat \ {0}
    BY EmptySeq
  <2>2. t = SubSeq(t, 1, Len(t))
    BY SubSeqFull
  <2>3. 1 \in 1 .. Len(t) /\ Len(t) \in 1 .. Len(t)
    BY <2>1
  <2>4. SubSeq(t, 1, Len(t)) = <<t[1]>> \o SubSeq(t, 2, Len(t))
    BY <2>3, SubSeqRecursiveFirst
  <2>5. Tail(t) = SubSeq(t, 2, Len(t)) /\ Head(t) = t[1]
    BY <2>1, TailIsSubSeq
  <2> QED BY <2>2, <2>4, <2>5
<1> QED BY <1>3, <1>4, <1>5

LEMMA PrefixIs ==
  ASSUME NEW S, NEW s \in Seq(S), NEW t \in Seq(S)
  PROVE  IsPrefix(s, t) <=>
           Len(s) <= Len(t) /\ \A i \in 1 .. Len(s) : s[i] = t[i]
<1>1. Len(s) \in Nat /\ Len(t) \in Nat
  BY LenProperties
<1>2. SubSeq(s, 1, Len(s)) = s
  BY SubSeqFull
<1>3. ASSUME Len(s) <= Len(t)
      PROVE  /\ SubSeq(t, 1, Len(s)) \in Seq(S)
             /\ Len(SubSeq(t, 1, Len(s))) = Len(s)
             /\ \A i \in 1 .. Len(s) : SubSeq(t, 1, Len(s))[i] = t[i]
  <2>1. \A i \in 1 .. Len(s) : t[i] \in S
    BY <1>1, <1>3, ElementOfSeq
  <2>2. 1 \in Int /\ Len(s) \in Int
    BY <1>1
  <2> DEFINE a == SubSeq(t, 1, Len(s))
  <2>3. /\ a \in Seq(S) /\ Len(a) = IF 1 <= Len(s) THEN Len(s) - 1 + 1 ELSE 0
        /\ \A i \in 1 .. Len(s) - 1 + 1 : a[i] = t[1 + i - 1]
    BY <2>1, <2>2, SubSeqProperties
  <2> HIDE DEF a
  <2>4. /\ a \in Seq(S) /\ Len(a) = Len(s)
        /\ \A i \in 1 .. Len(s) : a[i] = t[i]
    BY <1>1, <2>3
  <2> QED BY <2>4 DEF a
<1>4. ASSUME IsPrefix(s, t)
      PROVE  Len(s) <= Len(t) /\ \A i \in 1 .. Len(s) : s[i] = t[i]
  BY <1>2, <1>3, <1>4 DEF IsPrefix
<1>5. ASSUME Len(s) <= Len(t), \A i \in 1 .. Len(s) : s[i] = t[i]
      PROVE  IsPrefix(s, t)
  <2>1. s = SubSeq(t, 1, Len(s))
    BY <1>3, <1>5, SeqEqual
  <2> QED BY <1>2, <1>5, <2>1 DEF IsPrefix
<1> QED BY <1>4, <1>5

LEMMA PrefixGrows ==
  ASSUME NEW S, NEW s \in Seq(S), NEW t \in Seq(S), NEW e \in S
  PROVE  /\ IsPrefix(s, s)
         /\ IsPrefix(s, t) => IsPrefix(s, Append(t, e))
<1>1. Len(s) \in Nat /\ Len(t) \in Nat
  BY LenProperties
<1>2. IsPrefix(s, s)
  BY <1>1, PrefixIs
<1>3. /\ Append(t, e) \in Seq(S) /\ Len(Append(t, e)) = Len(t) + 1
      /\ \A i \in 1 .. Len(t) : Append(t, e)[i] = t[i]
  BY AppendProperties
<1>4. ASSUME IsPrefix(s, t) PROVE IsPrefix(s, Append(t, e))
  <2>1. Len(s) <= Len(t) /\ \A i \in 1 .. Len(s) : s[i] = t[i]
    BY <1>4, PrefixIs
  <2>2. Len(s) <= Len(Append(t, e))
        /\ \A i \in 1 .. Len(s) : s[i] = Append(t, e)[i]
    BY <1>1, <1>3, <2>1
  <2> QED BY <1>3, <2>2, PrefixIs
<1> QED BY <1>2, <1>4

LEMMA SeenAllType ==
  ASSUME TypeOK, NEW q \in Queue, since[q] <= Served(q)
  PROVE  /\ First(q) \in Seq(Nat) /\ got[q] \in Seq(Nat) /\ queue[q] \in Seq(Nat)
         /\ Seen(q) \in Seq(Nat) /\ All(q) \in Seq(Nat)
         /\ since[q] \in Nat /\ Served(q) - since[q] \in Nat
         /\ Run(since[q], Served(q) - since[q]) \in Seq(Nat)
<1>1. state_ \in Nat /\ since[q] \in Nat /\ initial[q] \in Nat
  BY MaxEventsAssumption DEF TypeOK
<1>2. First(q) \in Seq(Nat)
  <2>1. <<>> \in Seq(Nat) /\ <<initial[q]>> \in Seq(Nat)
    BY <1>1, EmptySeq
  <2> QED BY <2>1 DEF First
<1>3. got[q] \in Seq(Nat) /\ queue[q] \in Seq(Nat)
  <2>1. EventNo \subseteq Nat /\ got[q] \in Seq(EventNo) /\ queue[q] \in Seq(EventNo)
    BY MaxEventsAssumption DEF EventNo, TypeOK
  <2> QED BY <2>1, SeqMonotonic
<1>4. Served(q) - since[q] \in Nat
  BY <1>1 DEF Served
<1>5. Run(since[q], Served(q) - since[q]) \in Seq(Nat)
  BY <1>1, <1>4, RunGrows
<1> QED BY <1>1, <1>2, <1>3, <1>4, <1>5, ConcatProperties DEF Seen, All

\* Every step keeps what the queues deliver in order and complete.
LEMMA DeliveryStep ==
  ASSUME QueueInv, QueueInv', DeliveredInOrder, [Next]_vars
  PROVE  DeliveredInOrder'
<1> USE DEF QueueInv
<1>e. /\ event_queues \in Seq(Queue) /\ targets \in Seq(Queue) /\ state_ \in Nat
  BY MaxEventsAssumption DEF TypeOK
<1>r. Range(<<>>) = {}
  BY RangeEmpty
<1>c. \A s, t \in Seq(Nat), e \in Nat : s \o Append(t, e) = Append(s \o t, e)
  BY ConcatAppend
<1>g. SUFFICES ASSUME producer' = "alive", NEW q \in Queue, Registered(q)'
               PROVE  Delivered(q)'
  <2>1. (DeliveredInOrder <=>
          (producer = "alive" => \A r \in Queue : Registered(r) => Delivered(r)))'
    BY DEF DeliveredInOrder, Delivered, Seen, All, First, Run
  <2> QED BY <2>1
<1>a. /\ producer = "alive" /\ Registered(q) => Delivered(q)
      /\ producer = "alive" /\ Registered(q) => since[q] <= Served(q)
  BY DeliveredIs DEF LoopInv
<1>1. ASSUME producer = "alive", Registered(q), Served(q)' = Served(q),
             Seen(q)' = Seen(q), initial'[q] = initial[q], since'[q] = since[q],
             open_'[q] => open_[q]
      PROVE  Delivered(q)'
  <2>1. Delivered(q) /\ All(q)' = All(q)
    BY <1>a, <1>1 DEF All, First
  <2>2. Seen(q) \in Seq(Nat) /\ All(q) \in Seq(Nat)
    BY <1>a, <1>1, SeenAllType
  <2>3. IsPrefix(Seen(q), Seen(q))
    BY <2>2, PrefixGrows
  <2>4. CASE open_'[q]
    BY <1>1, <2>1, <2>4 DEF Delivered
  <2>5. CASE ~open_'[q]
    BY <1>1, <2>1, <2>3, <2>5 DEF Delivered
  <2> QED BY <2>4, <2>5
<1>2. ASSUME NEW p \in Queue, CreateBegin(p) PROVE Delivered(q)'
  <2>1. /\ life[p] = "none"
        /\ UNCHANGED <<producerVars, open_, got, since>>
        /\ \A r \in Queue \ {p} : queue'[r] = queue[r] /\ initial'[r] = initial[r]
    BY <1>2 DEF CreateBegin, TypeOK
  <2>2. Registered(q) /\ q # p
    BY <1>g, <2>1 DEF LifeInv, Registered
  <2> QED BY <1>g, <1>1, <2>1, <2>2 DEF Seen, Served
<1>3. ASSUME NEW p \in Queue, AddEventQueue(p) PROVE Delivered(q)'
  <2>1. /\ creating = p /\ notifying # "pushing"
        /\ event_queues' = Append(event_queues, p)
        /\ since'[p] = IF notifying = "pending" THEN state_ - 1 ELSE state_
        /\ \A r \in Queue \ {p} : since'[r] = since[r] /\ open_'[r] = open_[r]
        /\ open_'[p]
        /\ UNCHANGED <<state_, notifying, targets, producer, queue, got, initial>>
    BY <1>3 DEF AddEventQueue, TypeOK
  <2>2. CASE q = p
    <3>1. got[p] = <<>> /\ queue[p] = First(p)
      BY <2>1 DEF LifeInv, First
    <3>2. targets = <<>>
      BY <1>g, <2>1 DEF LoopInv
    <3>3. Served(p)' = since'[p]
      BY <1>r, <2>1, <3>2 DEF Served
    <3>4. since'[p] \in Nat /\ initial'[p] \in Nat
      BY MaxEventsAssumption DEF TypeOK
    <3>5. First(p)' \in Seq(Nat)
      <4>1. <<>> \in Seq(Nat) /\ <<initial'[p]>> \in Seq(Nat)
        BY <3>4, EmptySeq
      <4> QED BY <4>1 DEF First
    <3>6. Run(since'[p], 0) = <<>> /\ Served(p)' - since'[p] = 0
      <4>1. Run(since'[p], 0) = <<>>
        BY <3>4, RunGrows
      <4> QED BY <3>3, <3>4, <4>1
    <3>7. All(p)' = First(p)' \o <<>> /\ Seen(p)' = <<>> \o First(p)'
      BY <2>1, <3>1, <3>6 DEF All, Seen, First
    <3>8. All(p)' = First(p)' /\ Seen(p)' = First(p)'
      BY <3>5, <3>7, ConcatEmptySeq
    <3> QED BY <2>1, <2>2, <3>8 DEF Delivered
  <2>3. CASE q # p
    <3>1. Registered(q)
      BY <1>e, <1>g, <2>1, <2>3, RangeAppend DEF Registered
    <3> QED BY <1>g, <1>1, <2>1, <2>3, <3>1 DEF Seen, Served
  <2> QED BY <2>2, <2>3
<1>4. ASSUME NEW p \in Queue, DestroyQueue(p) PROVE Delivered(q)'
  <2>1. /\ event_queues' = RemoveFirst(event_queues, p)
        /\ UNCHANGED <<state_, notifying, targets, producer, queue, open_, got,
                       initial, since>>
    BY <1>g, <1>4 DEF DestroyQueue
  <2>2. Registered(q)
    BY <1>e, <1>g, <2>1, RangeRemove DEF Registered, LifeInv
  <2> QED BY <1>g, <1>1, <2>1, <2>2 DEF Seen, Served
<1>5. CASE ChangeState
  <2>1. /\ notifying = "no" /\ notifying' = "pending" /\ state_' = state_ + 1
        /\ UNCHANGED <<targets, event_queues, producer, queueVars, got,
                       historyVars>>
    BY <1>5 DEF ChangeState
  <2>2. targets = <<>> /\ Registered(q)
    BY <1>g, <2>1 DEF LoopInv, Registered
  <2>3. Served(q)' = Served(q)
    BY <1>e, <1>r, <2>1, <2>2 DEF Served
  <2> QED BY <1>g, <1>1, <2>1, <2>2, <2>3 DEF Seen
<1>6. CASE NotifyEvent \/ NotifyDone
  <2>1. /\ UNCHANGED <<state_, event_queues, producer, queueVars, got,
                       historyVars>>
    BY <1>6 DEF NotifyEvent, NotifyDone
  <2>2. Registered(q)
    BY <1>g, <2>1 DEF Registered
  <2>3. Served(q)' = Served(q)
    BY <1>6, <2>2 DEF NotifyEvent, NotifyDone, Served, Registered
  <2> QED BY <1>g, <1>1, <2>1, <2>2, <2>3 DEF Seen
<1>7. ASSUME NEW p \in Queue, Push(p) PROVE Delivered(q)'
  <2>1. /\ notifying = "pushing" /\ targets # <<>> /\ Head(targets) = p
        /\ targets' = Tail(targets)
        /\ UNCHANGED <<state_, notifying, event_queues, producer, creating,
                       life, open_, got, historyVars>>
    BY <1>7 DEF Push
  <2>2. /\ p \in Range(targets) /\ state_ > 0
        /\ \A x : x \in Range(targets)' <=> x \in Range(targets) /\ x # p
    BY <1>e, <2>1, RangeTail DEF LoopInv
  <2>3. /\ queue' \in [Queue -> Seq(EventNo)]
        /\ open_[p] => queue'[p] = Append(queue[p], state_)
        /\ ~open_[p] => queue'[p] = queue[p]
        /\ \A r \in Queue \ {p} : queue'[r] = queue[r]
    BY <1>7, <2>2, PushType
  <2>4. Registered(q)
    BY <1>g, <2>1 DEF Registered
  <2>5. CASE q # p
    <3>1. Served(q)' = Served(q)
      BY <2>1, <2>2, <2>5 DEF Served
    <3> QED BY <1>g, <1>1, <2>1, <2>3, <2>4, <2>5, <3>1 DEF Seen
  <2>6. CASE q = p
    <3>1. Served(p) = state_ - 1 /\ Served(p)' = state_
      BY <2>1, <2>2 DEF Served
    <3>2. since[p] <= Served(p) /\ Delivered(p)
      BY <1>a, <1>g, <2>1, <2>4, <2>6
    <3> DEFINE k == since[p]
               n == Served(p) - since[p]
    <3>3. /\ First(p) \in Seq(Nat) /\ got[p] \in Seq(Nat) /\ queue[p] \in Seq(Nat)
          /\ Seen(p) \in Seq(Nat) /\ All(p) \in Seq(Nat)
          /\ k \in Nat /\ n \in Nat /\ Run(k, n) \in Seq(Nat)
      BY <3>2, SeenAllType
    <3>d. since'[p] = k /\ n = state_ - 1 - k
      BY <2>1, <3>1
    <3>a. All(p) = First(p) \o Run(k, n) /\ First(p)' = First(p)
      BY <2>1 DEF All, First
    <3>b. All(p)' = First(p)' \o Run(since'[p], Served(p)' - since'[p])
      BY DEF All
    <3> HIDE DEF k, n
    <3>4. Served(p)' - since'[p] = n + 1 /\ k + n + 1 = state_
      BY <1>e, <3>1, <3>3, <3>d
    <3>5. Run(k, n + 1) = Append(Run(k, n), state_)
      BY <3>3, <3>4, RunGrows
    <3>6. All(p)' = Append(All(p), state_)
      <4>1. All(p)' = First(p) \o Append(Run(k, n), state_)
        BY <3>a, <3>b, <3>d, <3>4, <3>5
      <4>2. First(p) \o Append(Run(k, n), state_) = Append(First(p) \o Run(k, n), state_)
        BY <1>e, <1>c, <3>3, Zenon
      <4> QED BY <3>a, <4>1, <4>2
    <3>7. CASE open_[p]
      <4>1. Seen(p)' = got[p] \o Append(queue[p], state_)
        BY <2>1, <2>3, <3>7 DEF Seen
      <4>2. Seen(p)' = Append(Seen(p), state_)
        <5>1. got[p] \o Append(queue[p], state_) = Append(got[p] \o queue[p], state_)
          BY <1>e, <1>c, <3>3, Zenon
        <5> QED BY <4>1, <5>1 DEF Seen
      <4>3. Seen(p) = All(p) /\ open_'[p]
        BY <2>1, <3>2, <3>7 DEF Delivered
      <4> QED BY <2>6, <3>6, <4>2, <4>3 DEF Delivered
    <3>8. CASE ~open_[p]
      <4>1. Seen(p)' = Seen(p) /\ ~open_'[p]
        BY <2>1, <2>3, <3>8 DEF Seen
      <4>2. IsPrefix(Seen(p), All(p))
        BY <3>2, <3>8 DEF Delivered
      <4>3. IsPrefix(Seen(p), Append(All(p), state_))
        BY <1>e, <3>3, <4>2, PrefixGrows
      <4> QED BY <2>6, <3>6, <4>1, <4>3 DEF Delivered
    <3> QED BY <3>7, <3>8
  <2> QED BY <2>5, <2>6
<1>8. CASE ProducerGone \/ CloseNext
  BY <1>g, <1>8 DEF ProducerGone, CloseNext
<1>9. ASSUME NEW p \in Queue, Close(p) PROVE Delivered(q)'
  <2>1. /\ UNCHANGED <<producerVars, queue, got, historyVars>>
        /\ ~open_'[p] /\ \A r \in Queue \ {p} : open_'[r] = open_[r]
    BY <1>9, CloseType DEF Close
  <2>2. Registered(q) /\ (open_'[q] => open_[q])
    BY <1>g, <2>1 DEF Registered
  <2> QED BY <1>g, <1>1, <2>1, <2>2 DEF Seen, Served
<1>10. CASE Popping
  <2>1. /\ UNCHANGED <<producerVars, creating, life, open_, historyVars>>
        /\ \/ UNCHANGED <<queue, got>>
           \/ \E p \in Queue : queue[p] # <<>> /\ TakeFront(p)
    BY <1>10, PoppingStep
  <2>2. Registered(q)
    BY <1>g, <2>1 DEF Registered
  <2>3. Seen(q)' = Seen(q)
    <3>1. CASE UNCHANGED <<queue, got>>
      BY <3>1 DEF Seen
    <3>2. ASSUME NEW p \in Queue, queue[p] # <<>>, TakeFront(p)
          PROVE  Seen(q)' = Seen(q)
      <4>1. /\ queue'[p] = Tail(queue[p])
            /\ got'[p] = Append(got[p], Head(queue[p]))
            /\ \A r \in Queue \ {p} : queue'[r] = queue[r] /\ got'[r] = got[r]
        BY <3>2, TakeFrontType
      <4>2. queue[p] \in Seq(EventNo) /\ got[p] \in Seq(EventNo)
        BY DEF TypeOK
      <4>3. Append(got[p], Head(queue[p])) \o Tail(queue[p]) = got[p] \o queue[p]
        BY <3>2, <4>2, ConcatShift
      <4> QED BY <4>1, <4>3 DEF Seen
    <3> QED BY <2>1, <3>1, <3>2
  <2> QED BY <1>g, <1>1, <2>1, <2>2, <2>3 DEF Served
<1>11. CASE UNCHANGED vars
  BY <1>g, <1>1, <1>11 DEF Seen, Served, Registered
<1> QED
  BY <1>2, <1>3, <1>4, <1>5, <1>6, <1>7, <1>8, <1>9, <1>10, <1>11
  DEF Next, Publish, Woken, Popping

\* A queue delivers its initial event and then every event notified since it
\* was registered, in order, none lost and none twice, whatever threads pop and
\* whatever queues come and go (event_queue.h, push, tryPop, pop, close).
THEOREM InOrder == Spec => []DeliveredInOrder
<1>1. Init => DeliveredInOrder
  <2>1. Init => \A q \in Queue : ~Registered(q)
    BY RangeEmpty DEF Init, Registered
  <2> QED BY <2>1, DeliveredIs
<1>2. QueueInv /\ QueueInv' /\ DeliveredInOrder /\ [Next]_vars => DeliveredInOrder'
  BY DeliveryStep
<1> QED BY <1>1, <1>2, QueueAlways, PTL DEF Spec

----------------------------------------------------------------------------
(* Waking up. *)

Enough(q) ==
  open_[q] /\ In(q, "waiting") # {} =>
    Cardinality(In(q, "woken")) >= Len(queue[q])

LEMMA WokenFinite ==
  ASSUME NEW q
  PROVE  IsFiniteSet(In(q, "woken")) /\ Cardinality(In(q, "woken")) \in Nat
<1>1. In(q, "woken") \subseteq Popper
  BY DEF In
<1>2. IsFiniteSet(In(q, "woken"))
  BY <1>1, PopperAssumption, FS_Subset
<1> QED BY <1>2, FS_CardinalityType

\* What happens on other queues does not matter to q.
LEMMA EnoughElsewhere ==
  ASSUME NEW q \in Queue, Enough(q), open_'[q] = open_[q], queue'[q] = queue[q],
         \A p \in Popper : \/ popper'[p] = popper[p]
                           \/ popper[p].q # q /\ popper'[p].q # q
  PROVE  Enough(q)'
<1>1. In(q, "waiting")' = In(q, "waiting") /\ In(q, "woken")' = In(q, "woken")
  BY DEF In
<1> QED BY <1>1 DEF Enough

\* A thread that waits on q is woken, or one that was woken goes.
LEMMA OneMoreWoken ==
  ASSUME TypeOK, NEW q \in Queue, NEW p \in In(q, "waiting"),
         popper' = [popper EXCEPT ![p].pc = "woken"]
  PROVE  Cardinality(In(q, "woken")') = Cardinality(In(q, "woken")) + 1
<1>1. p \in Popper /\ popper[p].q = q /\ popper[p].pc = "waiting"
  BY DEF In
<1>2. popper' = [popper EXCEPT ![p] = [popper[p] EXCEPT !.pc = "woken"]]
  OBVIOUS
<1>3. popper'[p].pc = "woken" /\ popper'[p].q = q
  BY <1>1, <1>2 DEF TypeOK
<1>4. \A r \in Popper \ {p} : popper'[r] = popper[r]
  BY <1>2 DEF TypeOK
<1>5. In(q, "woken")' = In(q, "woken") \cup {p} /\ p \notin In(q, "woken")
  BY <1>1, <1>3, <1>4 DEF In
<1> QED BY <1>5, WokenFinite, FS_AddElement

LEMMA OneGoes ==
  ASSUME TypeOK, NEW q \in Queue, NEW p \in Popper,
         popper' = [popper EXCEPT ![p] = Idle]
  PROVE  /\ In(q, "waiting")' \subseteq In(q, "waiting")
         /\ Cardinality(In(q, "woken")') >= Cardinality(In(q, "woken")) - 1
<1>1. popper'[p].pc = "idle" /\ \A r \in Popper \ {p} : popper'[r] = popper[r]
  BY DEF TypeOK, Idle
<1>2. /\ In(q, "waiting")' \subseteq In(q, "waiting")
      /\ In(q, "woken")' = In(q, "woken") \ {p}
  BY <1>1 DEF In
<1>w. IsFiniteSet(In(q, "woken")) /\ Cardinality(In(q, "woken")) \in Nat
  BY WokenFinite
<1>3. CASE p \in In(q, "woken")
  <2>1. Cardinality(In(q, "woken") \ {p}) = Cardinality(In(q, "woken")) - 1
    BY <1>3, <1>w, FS_RemoveElement
  <2>2. Cardinality(In(q, "woken")') = Cardinality(In(q, "woken")) - 1
    BY <1>2, <2>1
  <2> QED BY <1>2, <1>w, <2>2
<1>4. CASE p \notin In(q, "woken")
  <2>1. In(q, "woken") \ {p} = In(q, "woken")
    BY <1>4
  <2>2. Cardinality(In(q, "woken")') = Cardinality(In(q, "woken"))
    BY <1>2, <2>1
  <2> QED BY <1>2, <1>w, <2>2
<1> QED BY <1>2, <1>3, <1>4

\* An empty queue needs nobody awake.
LEMMA EnoughEmpty ==
  ASSUME NEW q \in Queue, queue'[q] = <<>>,
         Cardinality(In(q, "woken")') \in Nat
  PROVE  Enough(q)'
<1>1. Len(queue'[q]) = 0
  BY EmptySeq
<1> QED BY <1>1 DEF Enough

LEMMA WakeStep ==
  ASSUME QueueInv, NEW q \in Queue, Enough(q), [Next]_vars
  PROVE  Enough(q)'
<1> USE DEF QueueInv
<1>f. Cardinality(In(q, "woken")) \in Nat /\ Cardinality(In(q, "woken")') \in Nat
  <2>1. In(q, "woken")' \subseteq Popper
    BY DEF In
  <2>2. IsFiniteSet(In(q, "woken")')
    BY <2>1, PopperAssumption, FS_Subset
  <2> QED BY <2>2, WokenFinite, FS_CardinalityType
<1>n. NoQueue # q
  BY NoQueueAssumption
<1>1. ASSUME UNCHANGED <<queue, open_, popper>> PROVE Enough(q)'
  BY <1>1 DEF Enough, In
<1>2. ASSUME NEW p \in Queue, CreateBegin(p) PROVE Enough(q)'
  <2>1. CASE p = q
    BY <1>2, <2>1 DEF CreateBegin, LifeInv, Enough
  <2>2. CASE p # q
    BY <1>2, <2>2, EnoughElsewhere DEF CreateBegin, TypeOK
  <2> QED BY <2>1, <2>2
<1>3. ASSUME NEW p \in Queue, AddEventQueue(p) PROVE Enough(q)'
  <2>1. CASE p = q
    BY <1>3, <2>1 DEF AddEventQueue, LifeInv, Enough, In
  <2>2. CASE p # q
    BY <1>3, <2>2, EnoughElsewhere DEF AddEventQueue, TypeOK
  <2> QED BY <2>1, <2>2
<1>4. ASSUME NEW p \in Queue, DestroyQueue(p) PROVE Enough(q)'
  BY <1>1, <1>4 DEF DestroyQueue
<1>5. CASE ChangeState \/ NotifyEvent \/ NotifyDone \/ ProducerGone
  BY <1>1, <1>5 DEF ChangeState, NotifyEvent, NotifyDone, ProducerGone
<1>6. ASSUME NEW p \in Queue, Push(p) PROVE Enough(q)'
  <2>1. open_' = open_ /\ (open_[p] => NotifyOne(p)) /\ (~open_[p] => popper' = popper)
    BY <1>6 DEF Push
  <2>2. state_ > 0
    BY <1>6 DEF Push, LoopInv
  <2>3. /\ open_[p] => queue'[p] = Append(queue[p], state_)
        /\ ~open_[p] => queue'[p] = queue[p]
        /\ \A r \in Queue \ {p} : queue'[r] = queue[r]
    BY <1>6, <2>2, PushType
  <2>4. CASE ~open_[p]
    BY <2>1, <2>3, <2>4, EnoughElsewhere
  <2>5. CASE open_[p] /\ In(p, "waiting") = {}
    <3>1. popper' = popper
      BY <2>1, <2>5 DEF NotifyOne
    <3>2. CASE p = q
      BY <2>5, <3>1, <3>2 DEF Enough, In
    <3>3. CASE p # q
      BY <2>1, <2>3, <3>1, <3>3, EnoughElsewhere
    <3> QED BY <3>2, <3>3
  <2>6. CASE open_[p] /\ In(p, "waiting") # {}
    <3>1. PICK w \in In(p, "waiting") : popper' = [popper EXCEPT ![w].pc = "woken"]
      BY <2>1, <2>6 DEF NotifyOne
    <3>2. CASE p = q
      <4>1. Cardinality(In(q, "woken")') = Cardinality(In(q, "woken")) + 1
        BY <3>1, <3>2, OneMoreWoken
      <4>2. Cardinality(In(q, "woken")) >= Len(queue[q])
        BY <2>6, <3>2 DEF Enough
      <4>3. Len(queue'[q]) = Len(queue[q]) + 1 /\ Len(queue[q]) \in Nat
        <5>1. queue[q] \in Seq(EventNo) /\ state_ \in EventNo
          BY <2>2, MaxEventsAssumption DEF TypeOK, EventNo
        <5> QED BY <2>3, <2>6, <3>2, <5>1, AppendProperties, LenProperties
      <4>4. Cardinality(In(q, "woken")') >= Len(queue'[q])
        BY <1>f, <4>1, <4>2, <4>3
      <4> QED BY <4>4 DEF Enough
    <3>3. CASE p # q
      <4>1. w \in Popper /\ popper[w].q = p
        BY DEF In
      <4>2. popper' = [popper EXCEPT ![w] = [popper[w] EXCEPT !.pc = "woken"]]
        BY <3>1
      <4>3. popper'[w].q = p /\ \A r \in Popper \ {w} : popper'[r] = popper[r]
        BY <4>1, <4>2 DEF TypeOK
      <4> QED BY <2>1, <2>3, <3>3, <4>1, <4>3, EnoughElsewhere
    <3> QED BY <3>2, <3>3
  <2> QED BY <2>4, <2>5, <2>6
<1>7. ASSUME NEW p \in Queue, CloseBody(p), queue' = queue PROVE Enough(q)'
  <2>1. CASE p = q
    BY <1>7, <2>1, CloseType DEF Enough
  <2>2. CASE p # q
    <3>1. \A r \in Popper : \/ popper'[r] = popper[r]
                            \/ popper[r].q # q /\ popper'[r].q # q
      BY <1>7, <2>2 DEF CloseBody, NotifyAll, In, TypeOK
    <3> QED BY <1>7, <2>2, <3>1, CloseType, EnoughElsewhere
  <2> QED BY <2>1, <2>2
<1>8. CASE CloseNext
  <2>1. Head(targets) \in Queue
    BY <1>8, HeadTailProperties DEF CloseNext, TypeOK
  <2> QED BY <1>7, <1>8, <2>1 DEF CloseNext
<1>9. ASSUME NEW p \in Queue, Close(p) PROVE Enough(q)'
  BY <1>7, <1>9 DEF Close
<1>10. ASSUME NEW r \in Queue, queue[r] # <<>>, TakeFront(r), open_' = open_,
              In(q, "waiting")' \subseteq In(q, "waiting"),
              r = q => Cardinality(In(q, "woken")') >= Cardinality(In(q, "woken")) - 1,
              r # q => In(q, "woken")' = In(q, "woken")
       PROVE  Enough(q)'
  <2>1. /\ Len(queue'[r]) = Len(queue[r]) - 1
        /\ \A x \in Queue \ {r} : queue'[x] = queue[x]
    BY <1>10, TakeFrontType
  <2>2. Len(queue[q]) \in Nat
    BY LenProperties DEF TypeOK
  <2>3. CASE r = q
    BY <1>f, <1>10, <2>1, <2>2, <2>3 DEF Enough
  <2>4. CASE r # q
    BY <1>10, <2>1, <2>4 DEF Enough
  <2> QED BY <2>3, <2>4
<1>11. ASSUME NEW p \in Popper, NEW r \in Queue, PopFront(p, r) PROVE Enough(q)'
  <2>1. popper' = popper /\ open_' = open_ /\ queue[r] # <<>> /\ TakeFront(r)
    BY <1>11 DEF PopFront
  <2>2. In(q, "waiting")' = In(q, "waiting") /\ In(q, "woken")' = In(q, "woken")
    BY <2>1 DEF In
  <2> QED BY <1>f, <1>10, <2>1, <2>2
<1>12. ASSUME NEW p \in Popper, NEW r \in Queue, PopWait(p, r) PROVE Enough(q)'
  <2>1. CASE r = q
    BY <1>f, <1>12, <2>1, EnoughEmpty DEF PopWait
  <2>2. CASE r # q
    <3>1. PICK timed \in BOOLEAN :
            popper' = [popper EXCEPT ![p] =
                         [pc |-> "waiting", q |-> r, timed |-> timed]]
      BY <1>12 DEF PopWait
    <3>2. /\ popper'[p].q = r /\ popper[p].q = NoQueue
          /\ \A x \in Popper \ {p} : popper'[x] = popper[x]
      BY <1>12, <3>1 DEF PopWait, Idle, TypeOK
    <3> QED BY <1>n, <1>12, <2>2, <3>2, EnoughElsewhere DEF PopWait
  <2> QED BY <2>1, <2>2
<1>13. ASSUME NEW p \in Popper, popper[p].pc # "idle", Resume(p) PROVE Enough(q)'
  <2> DEFINE r == popper[p].q
  <2>1. /\ r \in Queue /\ open_' = open_ /\ popper' = [popper EXCEPT ![p] = Idle]
        /\ open_[r] => queue[r] # <<>> /\ TakeFront(r)
        /\ ~open_[r] => UNCHANGED <<queue, got>>
    BY <1>13 DEF Resume, LifeInv
  <2>2. /\ In(q, "waiting")' \subseteq In(q, "waiting")
        /\ Cardinality(In(q, "woken")') >= Cardinality(In(q, "woken")) - 1
    BY <2>1, OneGoes
  <2>3. popper'[p].q = NoQueue /\ \A x \in Popper \ {p} : popper'[x] = popper[x]
    BY <2>1 DEF Idle, TypeOK
  <2>4. r # q => In(q, "woken")' = In(q, "woken")
    BY <1>n, <2>3 DEF In
  <2> HIDE DEF r
  <2>5. CASE open_[r]
    BY <1>10, <2>1, <2>2, <2>4, <2>5
  <2>6. CASE ~open_[r] /\ r = q
    BY <2>1, <2>6 DEF Enough
  <2>7. CASE ~open_[r] /\ r # q
    BY <1>n, <2>1, <2>3, <2>7, EnoughElsewhere DEF r
  <2> QED BY <2>5, <2>6, <2>7
<1>14. ASSUME NEW p \in Popper, WaitAgain(p) \/ Timeout(p) PROVE Enough(q)'
  <2>1. /\ UNCHANGED <<queue, open_>> /\ queue[popper[p].q] = <<>>
        /\ \/ popper' = [popper EXCEPT ![p] = Idle]
           \/ popper' = [popper EXCEPT ![p].pc = "waiting"]
    BY <1>14 DEF WaitAgain, Timeout
  <2>2. CASE popper[p].q = q
    BY <1>f, <2>1, <2>2, EnoughEmpty
  <2>3. CASE popper[p].q # q
    <3>1. [popper EXCEPT ![p].pc = "waiting"] =
            [popper EXCEPT ![p] = [popper[p] EXCEPT !.pc = "waiting"]]
      OBVIOUS
    <3>2. [popper[p] EXCEPT !.pc = "waiting"].q = popper[p].q
      BY DEF TypeOK
    <3>3. popper'[p].q # q /\ \A x \in Popper \ {p} : popper'[x] = popper[x]
      BY <1>n, <2>1, <2>3, <3>1, <3>2 DEF Idle, TypeOK
    <3> QED BY <2>1, <2>3, <3>3, EnoughElsewhere
  <2> QED BY <2>2, <2>3
<1>15. CASE UNCHANGED vars
  BY <1>1, <1>15
<1> QED
  BY <1>2, <1>3, <1>4, <1>5, <1>6, <1>8, <1>9, <1>11, <1>12, <1>13, <1>14, <1>15
  DEF Next, Publish, Woken, WakeUp, WakeSpurious

\* One notify_one() per push() loses no wakeup: as long as a thread sleeps on
\* an open queue, as many threads are on their way as it holds events.
THEOREM WakeupNotLost == Spec => []NoLostWakeup
<1>1. NoLostWakeup <=> \A q \in Queue : Enough(q)
  BY DEF NoLostWakeup, Enough
<1>2. Init => NoLostWakeup
  BY DEF Init, NoLostWakeup
<1>3. QueueInv /\ NoLostWakeup /\ [Next]_vars => NoLostWakeup'
  <2> SUFFICES ASSUME QueueInv, NoLostWakeup, [Next]_vars, NEW q \in Queue
               PROVE  Enough(q)'
    BY DEF NoLostWakeup, Enough
  <2> QED BY <1>1, WakeStep
<1> QED BY <1>2, <1>3, QueueAlways, PTL DEF Spec
=============================================================================
