------------------------- MODULE SessionThreadProofs -------------------------
(***************************************************************************)
(* Proofs about the thread of a session, for any number of listeners,       *)
(* sessions, timers and ticks: of ApiWorker, which runs the session and     *)
(* calls the listeners, and of PeriodicTimers, whose handlers its           *)
(* io_context runs.                                                         *)
(*                                                                         *)
(* ApiWorker's listeners are handed from the queue to the list and on to    *)
(* the callers of removeListener().  WorkerInv says where each of them is   *)
(* (Places), whom the thread may still call (Lists), what each has been     *)
(* called with (Calls, Heard), what the thread knows of its session (Views) *)
(* and what closing tells of the queue (Ends).                              *)
(*                                                                         *)
(* What a handler of a timer may still do is decided by where its wait was  *)
(* when the handle was destroyed, and whether io_ctx runs after close() by  *)
(* where runUntilStateChanges() was; TimersInv ties these pieces of state   *)
(* together.                                                                *)
(***************************************************************************)
EXTENDS ApiWorker, PeriodicTimers, SequenceTheorems, TLAPS

----------------------------------------------------------------------------
(* PeriodicTimers *)

\* A handle that is not destroyed has its timer in the map, and a timer that
\* was never created neither has a handle nor waits.
Mapped ==
  \A i \in Timer :
    /\ handle[i] \in {"held", "moved"} => timer[i] = "mapped"
    /\ timer[i] = "none" <=> handle[i] = "none"
    /\ timer[i] = "none" => wait[i] = "none"

\* The wait of an erased timer is never pending, and its handler is still to
\* be called, or at work, only if it was when the handle was destroyed.
Erased ==
  \A i \in Timer :
    /\ timer[i] = "erased" =>
         /\ wait[i] # "pending"
         /\ wait[i] \in {"fired", "running", "rearm", "undefined"} => late[i]
    /\ wait[i] = "undefined" => timer[i] = "erased"

\* A wait that expires has a callback left within the bound.
Bounded == \A i \in Timer : wait[i] = "fired" => ticks[i] < MaxTicks

\* A closed session's io_ctx stays stopped, unless close() came in between.
Halted == closed /\ ~stale => io_stopped /\ io # "enter"

TimersInv == TimersTypeOK /\ Mapped /\ Erased /\ Bounded /\ Halted

LEMMA InitInv == TimersInit => TimersInv
<1> SUFFICES ASSUME TimersInit PROVE TimersInv
  OBVIOUS
<1>1. TimersTypeOK
  <2>1. 0 \in 0 .. MaxTicks
    BY MaxTicksAssumption
  <2>2. ticks \in [Timer -> 0 .. MaxTicks]
    BY <2>1 DEF TimersInit
  <2> QED
    BY <2>2, Zenon DEF TimersInit, TimersTypeOK
<1>2. Mapped /\ Erased /\ Bounded /\ Halted
  BY DEF TimersInit, Mapped, Erased, Bounded, Halted
<1> QED
  BY <1>1, <1>2 DEF TimersInv

LEMMA UserKeepsInv ==
  ASSUME TimersInv, NEW j \in Timer,
         Create(j) \/ Move(j) \/ DestroyHandle(j)
  PROVE  TimersInv'
<1>1. CASE Create(j)
  BY <1>1 DEF Create, TimersInv, TimersTypeOK, Mapped, Erased, Bounded,
      Halted, ioVars
<1>2. CASE Move(j)
  BY <1>2 DEF Move, TimersInv, TimersTypeOK, Mapped, Erased, Bounded,
      Halted, ioVars
<1>3. CASE DestroyHandle(j)
  <2> DEFINE b == wait[j] \in {"fired", "running", "rearm"}
  <2>0. late' = late \/ late' = [late EXCEPT ![j] = b]
    BY <1>3 DEF DestroyHandle
  <2>1. late' \in [Timer -> BOOLEAN]
    <3>1. b \in BOOLEAN
      OBVIOUS
    <3> HIDE DEF b
    <3> QED
      BY <3>1, <2>0 DEF TimersInv, TimersTypeOK
  <2>2. TimersTypeOK' /\ Mapped' /\ Bounded' /\ Halted'
    BY <1>3, <2>1 DEF DestroyHandle, CancelOne, Cancelled, TimersInv, TimersTypeOK, Mapped,
                      Erased, Bounded, Halted, ioVars
  <2>3. Erased'
    <3>1. CASE handle[j] = "moved"
      BY <1>3, <3>1 DEF DestroyHandle, TimersInv, Erased
    <3>2. CASE handle[j] = "held"
      <4>1. /\ timer' = [timer EXCEPT ![j] = "erased"]
            /\ wait' = [wait EXCEPT ![j] = Cancelled(@)]
            /\ late' = [late EXCEPT ![j] = b]
        BY <1>3, <3>2 DEF DestroyHandle, CancelOne
      <4>2. b => late'[j]
        <5> HIDE DEF b
        <5> QED
          BY <4>1 DEF TimersInv, TimersTypeOK
      <4>3. wait[j] # "undefined"
        BY <3>2 DEF TimersInv, Mapped, Erased
      <4>4. \A i \in Timer : i # j => late'[i] = late[i]
        BY <4>1, Zenon DEF TimersInv, TimersTypeOK
      <4> QED
        BY <4>1, <4>2, <4>3, <4>4 DEF Cancelled, TimersInv, TimersTypeOK, Erased
    <3> QED
      BY <1>3, <3>1, <3>2 DEF DestroyHandle
  <2> QED
    BY <2>2, <2>3 DEF TimersInv
<1> QED
  BY <1>1, <1>2, <1>3

LEMMA HandlerKeepsInv ==
  ASSUME TimersInv, NEW j \in Timer,
         \/ Expire(j) \/ Aborted(j) \/ Callback(j)
         \/ CallbackReturns(j) \/ Rearm(j)
  PROVE  TimersInv'
<1>1. CASE Expire(j)
  BY <1>1 DEF Expire, TimersInv, TimersTypeOK, Mapped, Erased, Bounded,
      Halted, ioVars
<1>2. CASE Aborted(j)
  BY <1>2 DEF Aborted, TimersInv, TimersTypeOK, Mapped, Erased, Bounded,
      Halted, ioVars
<1>3. CASE Callback(j)
  BY <1>3, MaxTicksAssumption
  DEF Callback, TimersInv, TimersTypeOK, Mapped, Erased, Bounded,
      Halted, ioVars
<1>4. CASE CallbackReturns(j)
  BY <1>4 DEF CallbackReturns, TimersInv, TimersTypeOK, Mapped, Erased, Bounded,
      Halted,
              ioVars
<1>5. CASE Rearm(j)
  BY <1>5 DEF Rearm, Rearmed, TimersInv, TimersTypeOK, Mapped, Erased, Bounded,
      Halted,
              ioVars
<1> QED
  BY <1>1, <1>2, <1>3, <1>4, <1>5

LEMMA LoopKeepsInv ==
  ASSUME TimersInv, CheckApi \/ RestartIo \/ Return
  PROVE  TimersInv'
<1>1. CASE CheckApi
  BY <1>1 DEF CheckApi, TimersInv, TimersTypeOK, Mapped, Erased, Bounded,
      Halted
<1>2. CASE RestartIo
  BY <1>2 DEF RestartIo, TimersInv, TimersTypeOK, Mapped, Erased, Bounded,
      Halted
<1>3. CASE Return
  BY <1>3 DEF Return, TimersInv, TimersTypeOK, Mapped, Erased, Bounded,
      Halted
<1> QED
  BY <1>1, <1>2, <1>3

LEMMA StopKeepsInv ==
  ASSUME TimersInv, Close \/ Stop
  PROVE  TimersInv'
<1>1. CASE Close
  BY <1>1 DEF Close, Cancelled, TimersInv, TimersTypeOK, Mapped, Erased, Bounded,
      Halted
<1>2. CASE Stop
  BY <1>2 DEF Stop, TimersInv, TimersTypeOK, Mapped, Erased, Bounded,
      Halted
<1> QED
  BY <1>1, <1>2

LEMMA NextKeepsInv == TimersInv /\ [TimersNext]_timerVars => TimersInv'
<1> SUFFICES ASSUME TimersInv, [TimersNext]_timerVars PROVE TimersInv'
  OBVIOUS
<1>1. CASE UNCHANGED timerVars
  BY <1>1 DEF timerVars, ioVars, TimersInv, TimersTypeOK, Mapped, Erased, Bounded,
      Halted
<1>2. CASE TimersNext
  BY <1>2, UserKeepsInv, HandlerKeepsInv, LoopKeepsInv, StopKeepsInv
  DEF TimersNext, RunStep
<1> QED
  BY <1>1, <1>2

\* Every state has its type, and the invariant above holds in it.
THEOREM TimersInvariant == TimersSpec => []TimersInv
<1>1. TimersInit => TimersInv
  BY InitInv
<1>2. TimersInv /\ [TimersNext]_timerVars => TimersInv'
  BY NextKeepsInv
<1> QED
  BY <1>1, <1>2, PTL DEF TimersSpec

\* However many timers there are and wherever their handlers are when a handle
\* is destroyed: a timer that is destroyed is started again only by a handler
\* that was queued or running at that moment.
THEOREM DestroyedTimers == TimersSpec => []DestroyedInTime
<1>1. TimersInv => DestroyedInTime
  BY DEF TimersInv, Erased, DestroyedInTime
<1> QED
  BY <1>1, TimersInvariant, PTL

\* A callback begins after the destruction of its handle only if the handle was
\* moved, or if its handler was queued before.
THEOREM QuietTimers == TimersSpec => QuietAfterDestroy
<1>1. TimersInv /\ [TimersNext]_timerVars =>
        [\A i \in Timer :
           wait'[i] = "running" /\ wait[i] # "running" /\ handle[i] = "destroyed"
             => \/ timer[i] = "mapped"
                \/ late[i] /\ wait[i] = "fired"]_timerVars
  <2> SUFFICES ASSUME TimersInv, TimersNext, NEW i \in Timer,
                      wait'[i] = "running", wait[i] # "running",
                      handle[i] = "destroyed"
               PROVE  timer[i] = "mapped" \/ (late[i] /\ wait[i] = "fired")
    OBVIOUS
  <2>1. wait[i] = "fired"
    BY DEF TimersNext, RunStep, TimersInv, TimersTypeOK, Create, Move, DestroyHandle, CancelOne,
           Cancelled, Close, Stop, CheckApi, RestartIo, Return, Expire, Aborted,
           Callback, CallbackReturns, Rearm, Rearmed
  <2> QED
    BY <2>1 DEF TimersInv, TimersTypeOK, Mapped, Erased
<1> QED
  BY <1>1, TimersInvariant, PTL DEF TimersSpec, QuietAfterDestroy

\* After close() no callback begins, unless runUntilStateChanges() was between
\* its check of api_ and restart().
THEOREM QuietClosed == TimersSpec => QuietAfterClose
<1>1. TimersInv /\ [TimersNext]_timerVars =>
        [\A i \in Timer :
           wait'[i] = "running" /\ wait[i] # "running" /\ closed => stale]_timerVars
  <2> SUFFICES ASSUME TimersInv, TimersNext, NEW i \in Timer,
                      wait'[i] = "running", wait[i] # "running", closed
               PROVE  stale
    OBVIOUS
  <2>1. ~io_stopped
    BY DEF TimersNext, RunStep, TimersInv, TimersTypeOK, Create, Move, DestroyHandle, CancelOne,
           Cancelled, Close, Stop, CheckApi, RestartIo, Return, Expire, Aborted,
           Callback, CallbackReturns, Rearm, Rearmed, Free
  <2> QED
    BY <2>1 DEF TimersInv, TimersTypeOK, Halted
<1> QED
  BY <1>1, TimersInvariant, PTL DEF TimersSpec, QuietAfterClose

----------------------------------------------------------------------------
(* ApiWorker: the invariant. *)

\* l is in the list s, and s has no element twice.
In(s, l) == \E i \in 1 .. Len(s) : s[i] = l
Once(s) == \A i, j \in 1 .. Len(s) : s[i] = s[j] => i = j

Added(l) == [listener |-> l, type |-> "add"]
Removal(l) == [listener |-> l, type |-> "remove"]

\* Where a listener is, given where its owner is: nowhere yet; in the queue or
\* in the list, with its removal queued or not; among those removed; told.
Placed(u, adding, removing, listed, taken, complete) ==
  \/ u = "out" /\ ~adding /\ ~removing /\ ~listed /\ ~taken /\ ~complete
  \/ u = "in" /\ ~removing /\ (adding <=> ~listed) /\ ~taken /\ ~complete
  \/ u = "removing" /\ removing /\ (adding <=> ~listed) /\ ~taken /\ ~complete
  \/ u = "removing" /\ taken /\ ~adding /\ ~removing /\ ~listed /\ ~complete
  \/ /\ u \in {"removing", "gone"}
     /\ complete /\ ~adding /\ ~removing /\ ~listed /\ ~taken

\* No action is queued twice, and an addition comes before the removal.
QueueOrder(q) ==
  /\ Once(q)
  /\ \A l \in Listener : \A i, j \in 1 .. Len(q) :
       q[i] = Added(l) /\ q[j] = Removal(l) => i < j

Places ==
  /\ QueueOrder(listener_action_queue_)
  /\ Once(listeners) /\ Once(removed_listeners)
  /\ \A l \in Listener :
       Placed(user[l], In(listener_action_queue_, Added(l)),
              In(listener_action_queue_, Removal(l)), In(listeners, l),
              In(removed_listeners, l), action_complete[l])

Telling == {"tell_state", "tell_open", "tell_added", "tell_lost",
            "tell_removed"}

\* The listeners that are still to be called are in the list; the removed ones
\* are kept from one critical section to the next.
Lists ==
  /\ Once(todo) /\ \A l \in Listener : In(todo, l) => In(listeners, l)
  /\ todo # <<>> => pc \in Telling
  /\ removed_listeners # <<>> => pc \in {"apply", "removed"}
  /\ add_notify_index <= Len(listeners)

\* The thread ends when it has worked off the queue after ~Api() had cleared
\* running_.
Ends ==
  /\ running_ <=> api = "alive"
  /\ closing => ~running_ /\ listener_action_queue_ = <<>>
  /\ pc \in {"ending", "tell_lost", "tell_removed", "done"} => closing

\* Fresh: a listener that was told nothing yet.
Fresh(l) == added[l] = 0 /\ told[l].session = 0

\* listenerRemoved() was called ...
WasRemoved(l) ==
  \/ action_complete[l]
  \/ pc \in {"tell_removed", "done"} /\ In(listeners, l) /\ ~In(todo, l)

\* ... as often as it should, and listenerAdded() only for fresh listeners.
Calls ==
  /\ \A l \in Listener :
       /\ added[l] < 2
       /\ removed[l] = IF WasRemoved(l) THEN 1 ELSE 0
       /\ user[l] = "out" \/ In(listener_action_queue_, Added(l)) => Fresh(l)
       /\ pc = "tell_added" /\ In(todo, l) => Fresh(l)
  /\ pc \in {"apply", "removed"} =>
       \A i \in 1 .. Len(listeners) :
         i > add_notify_index => Fresh(listeners[i])

\* The session the thread has, and what it takes its state to be.
Views ==
  /\ active_session \in {0, sessions}
  /\ pc \notin {"close", "clear", "opened", "done"} => (connected <=> HasSession)
  /\ pc \in {"close", "clear", "opened"} => ~connected /\ HasSession
  /\ pc \in {"enter", "run", "expired", "tell_state", "check", "tell_open",
             "tell_lost"} => HasSession
  /\ pc \in {"top", "enter", "run", "expired", "check", "process", "apply",
             "removed", "tell_open", "tell_added", "ending"} /\ connected
       => prev_session_state # "session_lost"
  /\ pc = "done" => active_session = 0

\* The thread has told l that the session it has is lost.
ToldLost(l) ==
  \/ pc \in {"close", "clear", "tell_removed"}
  \/ pc = "tell_lost" /\ ~In(todo, l)
  \/ pc = "tell_state" /\ prev_session_state = "session_lost" /\ ~In(todo, l)

Heard ==
  \A l \in Listener :
    LET t == told[l]
    IN  /\ t.session <= sessions
        /\ t.session = 0 => t.state # "session_lost"
        /\ pc = "opened" => t.session < active_session
        /\ pc = "tell_open" /\ In(todo, l) => t.session < active_session
        /\ In(listeners, l) /\ t.session # 0 =>
             (t.state = "session_lost" <=> t.session # active_session \/ ToldLost(l))

WorkerInv == TypeOK /\ Places /\ Lists /\ Ends /\ Calls /\ Views /\ Heard

----------------------------------------------------------------------------
(* Lists. *)

LEMMA EmptyFacts == Once(<<>>) /\ \A x : ~In(<<>>, x)
  BY DEF Once, In

LEMMA AppendIn ==
  ASSUME NEW S, NEW s \in Seq(S), NEW x \in S
  PROVE  /\ Append(s, x) \in Seq(S)
         /\ Len(Append(s, x)) = Len(s) + 1
         /\ \A i \in 1 .. Len(s) : Append(s, x)[i] = s[i]
         /\ Append(s, x)[Len(s) + 1] = x
         /\ \A y : In(Append(s, x), y) <=> In(s, y) \/ y = x
         /\ Once(s) /\ ~In(s, x) => Once(Append(s, x))
<1> DEFINE t == Append(s, x)
<1>1. /\ t \in Seq(S) /\ Len(t) = Len(s) + 1 /\ Len(s) \in Nat
      /\ \A i \in 1 .. Len(s) : t[i] = s[i]
      /\ t[Len(s) + 1] = x
  BY AppendProperties
<1> HIDE DEF t
<1>2. \A y : In(t, y) <=> In(s, y) \/ y = x
  BY <1>1 DEF In
<1>3. Once(s) /\ ~In(s, x) => Once(t)
  BY <1>1 DEF In, Once
<1> QED
  BY <1>1, <1>2, <1>3 DEF t

LEMMA TailIn ==
  ASSUME NEW S, NEW s \in Seq(S), s # <<>>
  PROVE  /\ Tail(s) \in Seq(S) /\ Head(s) \in S /\ Head(s) = s[1]
         /\ Len(Tail(s)) = Len(s) - 1 /\ Len(s) \in Nat \ {0}
         /\ \A i \in 1 .. Len(s) - 1 : Tail(s)[i] = s[i + 1]
         /\ In(s, Head(s))
         /\ \A y : In(Tail(s), y) => In(s, y)
         /\ \A y : In(s, y) /\ y # Head(s) => In(Tail(s), y)
         /\ Once(s) => Once(Tail(s)) /\ ~In(Tail(s), Head(s))
<1> DEFINE t == Tail(s)
           h == Head(s)
<1>1. /\ t \in Seq(S) /\ h \in S /\ Len(t) = Len(s) - 1
      /\ \A i \in 1 .. Len(s) - 1 : t[i] = s[i + 1]
  BY HeadTailProperties
<1>2. h = s[1] /\ Len(s) \in Nat \ {0}
  OBVIOUS
<1> HIDE DEF t, h
<1>3. In(s, h) /\ \A y : In(t, y) => In(s, y)
  BY <1>1, <1>2 DEF In
<1>4. \A y : In(s, y) /\ y # h => In(t, y)
  <2> SUFFICES ASSUME NEW y, In(s, y), y # h PROVE In(t, y)
    OBVIOUS
  <2>1. PICK i \in 1 .. Len(s) : s[i] = y
    BY DEF In
  <2>2. i - 1 \in 1 .. Len(t) /\ t[i - 1] = y
    BY <1>1, <1>2, <2>1
  <2> QED
    BY <2>2 DEF In
<1>5. Once(s) => Once(t)
  BY <1>1, <1>2 DEF Once
<1>6. Once(s) => ~In(t, h)
  BY <1>1, <1>2 DEF Once, In
<1> QED
  BY <1>1, <1>2, <1>3, <1>4, <1>5, <1>6 DEF t, h

LEMMA RemoveAtFacts ==
  ASSUME NEW S, NEW s \in Seq(S), NEW k \in 1 .. Len(s)
  PROVE  /\ RemoveAt(s, k) \in Seq(S)
         /\ Len(RemoveAt(s, k)) = Len(s) - 1
         /\ \A i \in 1 .. Len(s) - 1 :
              RemoveAt(s, k)[i] = IF i < k THEN s[i] ELSE s[i + 1]
<1> DEFINE u == SubSeq(s, 1, k - 1)
           v == SubSeq(s, k + 1, Len(s))
<1>0. Len(s) \in Nat /\ \A i \in 1 .. Len(s) : s[i] \in S
  OBVIOUS
<1>1. u \in Seq(S) /\ Len(u) = k - 1 /\ \A i \in 1 .. k - 1 : u[i] = s[i]
  BY <1>0, SubSeqProperties
<1>2. /\ v \in Seq(S) /\ Len(v) = Len(s) - k
      /\ \A i \in 1 .. Len(s) - k : v[i] = s[k + i]
  BY <1>0, SubSeqProperties
<1> HIDE DEF u, v
<1>3. /\ u \o v \in Seq(S) /\ Len(u \o v) = Len(u) + Len(v)
      /\ \A i \in 1 .. Len(u) + Len(v) :
           (u \o v)[i] = IF i <= Len(u) THEN u[i] ELSE v[i - Len(u)]
  BY <1>1, <1>2, ConcatProperties
<1>4. RemoveAt(s, k) = u \o v
  BY DEF RemoveAt, u, v
<1>5. ASSUME NEW i \in 1 .. Len(s) - 1
      PROVE  (u \o v)[i] = IF i < k THEN s[i] ELSE s[i + 1]
  <2>1. i \in 1 .. Len(u) + Len(v) /\ i \in Nat /\ k \in Nat
    BY <1>0, <1>1, <1>2
  <2>2. (u \o v)[i] = IF i <= Len(u) THEN u[i] ELSE v[i - Len(u)]
    BY <1>3, <2>1, Zenon
  <2>3. CASE i < k
    <3>1. i <= Len(u) /\ i \in 1 .. k - 1
      BY <1>1, <2>1, <2>3
    <3> QED
      BY <1>1, <2>2, <2>3, <3>1, Zenon
  <2>4. CASE ~(i < k)
    <3>1. ~(i <= Len(u)) /\ i - Len(u) \in 1 .. Len(s) - k
      BY <1>0, <1>1, <2>1, <2>4
    <3>2. v[i - Len(u)] = s[k + (i - Len(u))]
      BY <1>2, <3>1, Zenon
    <3>3. k + (i - Len(u)) = i + 1
      BY <1>1, <2>1
    <3> QED
      BY <2>2, <2>4, <3>1, <3>2, <3>3, Zenon
  <2> QED
    BY <2>3, <2>4
<1>6. Len(u \o v) = Len(s) - 1
  BY <1>0, <1>1, <1>2, <1>3
<1> QED
  BY <1>3, <1>4, <1>5, <1>6, Zenon

LEMMA RemoveAtIn ==
  ASSUME NEW S, NEW s \in Seq(S), Once(s), NEW k \in 1 .. Len(s)
  PROVE  /\ Once(RemoveAt(s, k))
         /\ \A y : In(RemoveAt(s, k), y) <=> In(s, y) /\ y # s[k]
<1> DEFINE t == RemoveAt(s, k)
<1>1. /\ Len(t) = Len(s) - 1 /\ Len(s) \in Nat
      /\ \A i \in 1 .. Len(s) - 1 : t[i] = IF i < k THEN s[i] ELSE s[i + 1]
  <2>1. Len(s) \in Nat
    OBVIOUS
  <2> QED
    BY <2>1, RemoveAtFacts, Zenon
<1> HIDE DEF t
<1>2. Once(t)
  BY <1>1 DEF Once
<1>3. \A y : In(t, y) => In(s, y) /\ y # s[k]
  BY <1>1 DEF Once, In
<1>4. ASSUME NEW y, In(s, y), y # s[k] PROVE In(t, y)
  <2>1. PICK i \in 1 .. Len(s) : s[i] = y
    BY <1>4 DEF In
  <2>2. CASE i < k
    BY <1>1, <2>1, <2>2 DEF In
  <2>3. CASE i > k
    <3>1. i - 1 \in 1 .. Len(t) /\ t[i - 1] = y
      BY <1>1, <2>1, <2>3
    <3> QED
      BY <3>1 DEF In
  <2> QED
    BY <2>1, <2>2, <2>3, <1>4
<1> QED
  BY <1>2, <1>3, <1>4 DEF t

LEMMA SubSeqIn ==
  ASSUME NEW S, NEW s \in Seq(S), NEW n \in 0 .. Len(s)
  PROVE  /\ SubSeq(s, n + 1, Len(s)) \in Seq(S)
         /\ Once(s) => Once(SubSeq(s, n + 1, Len(s)))
         /\ \A y : In(SubSeq(s, n + 1, Len(s)), y) =>
                     \E i \in 1 .. Len(s) : i > n /\ s[i] = y
<1> DEFINE t == SubSeq(s, n + 1, Len(s))
<1>0. Len(s) \in Nat /\ \A i \in 1 .. Len(s) : s[i] \in S
  OBVIOUS
<1>1. /\ t \in Seq(S) /\ Len(t) = Len(s) - n
      /\ \A i \in 1 .. Len(s) - n : t[i] = s[n + i]
  BY <1>0, SubSeqProperties
<1> HIDE DEF t
<1>2. ASSUME Once(s) PROVE Once(t)
  <2> SUFFICES ASSUME NEW i \in 1 .. Len(t), NEW j \in 1 .. Len(t),
                      t[i] = t[j]
               PROVE  i = j
    BY DEF Once
  <2>1. n + i \in 1 .. Len(s) /\ n + j \in 1 .. Len(s) /\ s[n + i] = s[n + j]
    BY <1>0, <1>1
  <2>2. n + i = n + j
    BY <1>2, <2>1 DEF Once
  <2> QED
    BY <2>2, <1>0, <1>1
<1>3. \A y : In(t, y) => \E i \in 1 .. Len(s) : i > n /\ s[i] = y
  BY <1>0, <1>1 DEF In
<1> QED
  BY <1>1, <1>2, <1>3 DEF t

LEMMA RangeIn ==
  ASSUME NEW S, NEW s \in Seq(S), NEW x
  PROVE  x \in Range(s) <=> In(s, x)
  BY DEF Range, In

----------------------------------------------------------------------------
(* ApiWorker: types. *)

\* TypeOK, taken apart: the flags, and the rest.
Flags ==
  /\ running_ \in BOOLEAN /\ connected \in BOOLEAN /\ closing \in BOOLEAN
  /\ active_control_flags \in BOOLEAN /\ control_flags_ \in BOOLEAN
  /\ is_running_ \in BOOLEAN /\ attached \in BOOLEAN
  /\ stopped \in BOOLEAN /\ armed \in BOOLEAN

Shapes ==
  /\ active_session_ \in SessionNo
  /\ listener_action_queue_ \in Seq(Action)
  /\ user \in [Listener -> {"out", "in", "removing", "gone"}]
  /\ action_complete \in [Listener -> BOOLEAN]
  /\ api \in {"alive", "joining", "destroyed"}
  /\ pc \in {"top", "enter", "run", "expired", "tell_state", "check",
             "close", "clear", "opened", "tell_open", "process", "apply",
             "removed", "tell_added", "ending", "tell_lost",
             "tell_removed", "done"}
  /\ todo \in Seq(Listener)
  /\ active_session \in SessionNo
  /\ prev_session_state \in State
  /\ listeners \in Seq(Listener) /\ add_notify_index \in Nat
  /\ removed_listeners \in Seq(Listener)
  /\ state_ \in State
  /\ sockets \in {"closed", "open", "connected"}
  /\ sessions \in SessionNo
  /\ told \in [Listener -> [session : SessionNo, state : State]]
  /\ added \in [Listener -> 0 .. 2] /\ removed \in [Listener -> 0 .. 2]

LEMMA TypeParts == TypeOK <=> Flags /\ Shapes
  BY DEF TypeOK, Flags, Shapes

LEMMA InitType == Init => TypeOK
<1> SUFFICES ASSUME Init PROVE TypeOK
  OBVIOUS
<1>1. 0 \in SessionNo
  BY MaxSessionsAssumption DEF SessionNo
<1>2. told \in [Listener -> [session : SessionNo, state : State]]
  BY <1>1 DEF Init, State
<1>3. Flags
  BY DEF Init, Flags
<1>4. action_complete \in [Listener -> BOOLEAN]
  BY DEF Init
<1>5. Shapes
  BY <1>1, <1>2, <1>4 DEF Init, Shapes, State
<1> QED
  BY <1>3, <1>5, TypeParts

LEMMA UserFlags ==
  ASSUME Flags,
         \/ \E l \in Listener : \/ AddListener(l) \/ RemoveListener(l)
                                \/ RemoveReturn(l)
         \/ Destroy \/ Join \/ Register \/ RegisterFailed \/ UserClose
         \/ KeepAliveExpired \/ Disconnected \/ ConnectionClosed
  PROVE  Flags'
<1> USE DEF Flags, Go, apiVars, userVars, localVars, viewVars, listVars,
            sessionVars, historyVars
<1>1. CASE \E l \in Listener : AddListener(l) \/ RemoveListener(l)
  BY <1>1 DEF AddListener, RemoveListener, QueueAction, StopActive
<1>2. CASE \E l \in Listener : RemoveReturn(l)
  BY <1>2 DEF RemoveReturn
<1>3. CASE Destroy
  BY <1>3 DEF Destroy, StopActive
<1>4. CASE Join
  BY <1>4 DEF Join
<1>5. CASE Register
  BY <1>5 DEF Register
<1>6. CASE RegisterFailed
  BY <1>6 DEF RegisterFailed
<1>7. CASE UserClose
  BY <1>7 DEF UserClose, CloseBody
<1>8. CASE KeepAliveExpired
  BY <1>8 DEF KeepAliveExpired
<1>9. CASE Disconnected
  BY <1>9 DEF Disconnected, DisconnectedBody
<1>10. CASE ConnectionClosed
  BY <1>10 DEF ConnectionClosed, DisconnectedBody
<1> QED
  BY <1>1, <1>2, <1>3, <1>4, <1>5, <1>6, <1>7, <1>8, <1>9, <1>10

LEMMA ThreadFlags ==
  ASSUME Flags, Loop \/ Open, ~Disconnected
  PROVE  Flags'
<1> USE DEF Flags, Go, apiVars, userVars, localVars, viewVars, listVars,
            sessionVars, historyVars
<1>1. CASE RunInvalid \/ RunReturn \/ Restart \/ Enter
  BY <1>1 DEF RunInvalid, RunReturn, Returns, Restart, Enter
<1>2. CASE \/ CallSessionStateChanged \/ CallSessionOpened \/ CallSessionLost
           \/ CallListenerAdded \/ CallListenerRemoved
  BY <1>2 DEF CallSessionStateChanged, CallSessionOpened, CallSessionLost,
              TellState, CallListenerAdded, CallListenerRemoved
<1>3. CASE StateTold \/ OpenTold \/ AddedTold
  BY <1>3 DEF StateTold, OpenTold, AddedTold
<1>4. CASE CloseLost \/ CloseAtEnd
  BY <1>4 DEF CloseLost, CloseAtEnd, CloseBody
<1>5. CASE ClearLost \/ CheckFlags \/ Ending \/ ThreadEnd
  BY <1>5 DEF ClearLost, CheckFlags, Ending, ThreadEnd
<1>6. CASE OpenSession \/ OpenFailed \/ Opened
  BY <1>6 DEF OpenSession, OpenFailed, Opened
<1>7. CASE TakeQueue \/ ApplyAction \/ QueueTaken \/ CallListenersRemoved
  BY <1>7 DEF TakeQueue, ApplyAction, QueueTaken, CallListenersRemoved
<1> QED
  BY <1>1, <1>2, <1>3, <1>4, <1>5, <1>6, <1>7 DEF Loop, Open

LEMMA UserShapes ==
  ASSUME Shapes,
         \/ \E l \in Listener : \/ AddListener(l) \/ RemoveListener(l)
                                \/ RemoveReturn(l)
         \/ Destroy \/ Join \/ Register \/ RegisterFailed \/ UserClose
         \/ KeepAliveExpired \/ Disconnected \/ ConnectionClosed
  PROVE  Shapes'
<1> USE DEF Go, apiVars, userVars, localVars, viewVars, listVars,
            sessionVars, historyVars
<1>1. ASSUME NEW l \in Listener, AddListener(l) \/ RemoveListener(l)
      PROVE  Shapes'
  <2>1. Added(l) \in Action /\ Removal(l) \in Action
    BY DEF Added, Removal, Action
  <2>2. \/ listener_action_queue_' = Append(listener_action_queue_, Added(l))
        \/ listener_action_queue_' = Append(listener_action_queue_, Removal(l))
    BY <1>1 DEF AddListener, RemoveListener, QueueAction, Added, Removal
  <2>3. listener_action_queue_' \in Seq(Action)
    <3>1. \A a \in Action : Append(listener_action_queue_, a) \in Seq(Action)
      BY AppendProperties DEF Shapes
    <3> QED
      BY <2>1, <2>2, <3>1, Zenon
  <2> QED
    BY <1>1, <2>3 DEF AddListener, RemoveListener, QueueAction, Shapes
<1>2. CASE \E l \in Listener : RemoveReturn(l)
  BY <1>2 DEF RemoveReturn, Shapes
<1>3. CASE Destroy \/ Join
  BY <1>3 DEF Destroy, Join, Shapes
<1>4. CASE Register \/ RegisterFailed \/ UserClose
  BY <1>4 DEF Register, RegisterFailed, UserClose, CloseBody, Shapes, State
<1>5. CASE KeepAliveExpired \/ Disconnected \/ ConnectionClosed
  BY <1>5 DEF KeepAliveExpired, Disconnected, ConnectionClosed,
              DisconnectedBody, Shapes, State
<1> QED
  BY <1>1, <1>2, <1>3, <1>4, <1>5

LEMMA TwiceType == \A n \in 0 .. 2 : Twice(n) \in 0 .. 2
  BY DEF Twice

LEMMA TellShapes ==
  ASSUME Shapes, Flags,
         \/ CallSessionStateChanged \/ CallSessionOpened \/ CallSessionLost
         \/ CallListenerAdded \/ CallListenerRemoved
  PROVE  Shapes'
<1> USE DEF Go, apiVars, userVars, localVars, viewVars, listVars,
            sessionVars, historyVars
<1>1. ASSUME todo # <<>>
      PROVE  Tail(todo) \in Seq(Listener) /\ Head(todo) \in Listener
  BY <1>1, HeadTailProperties DEF Shapes
<1>2. CASE CallSessionStateChanged \/ CallSessionOpened \/ CallSessionLost
  <2>1. PICK st \in State : \E at \in {"tell_state", "tell_open", "tell_lost"} :
          TellState(at, st)
    BY <1>2 DEF CallSessionStateChanged, CallSessionOpened, CallSessionLost,
                Shapes, State
  <2>2. told' \in [Listener -> [session : SessionNo, state : State]]
    BY <1>1, <2>1 DEF TellState, Shapes
  <2> QED
    BY <1>1, <2>1, <2>2 DEF TellState, Shapes
<1>3. CASE CallListenerAdded
  <2>1. told' \in [Listener -> [session : SessionNo, state : State]]
    BY <1>1, <1>3 DEF CallListenerAdded, Shapes
  <2>2. added' \in [Listener -> 0 .. 2]
    BY <1>1, <1>3, TwiceType DEF CallListenerAdded, Shapes
  <2> QED
    BY <1>1, <1>3, <2>1, <2>2 DEF CallListenerAdded, Shapes
<1>4. CASE CallListenerRemoved
  <2>1. removed' \in [Listener -> 0 .. 2]
    BY <1>1, <1>4, TwiceType DEF CallListenerRemoved, Shapes
  <2> QED
    BY <1>1, <1>4, <2>1 DEF CallListenerRemoved, Shapes
<1> QED
  BY <1>2, <1>3, <1>4

LEMMA QueueShapes ==
  ASSUME Shapes, Once(listeners), add_notify_index <= Len(listeners),
         TakeQueue \/ ApplyAction \/ QueueTaken \/ CallListenersRemoved
  PROVE  Shapes'
<1> USE DEF Go, apiVars, userVars, localVars, viewVars, listVars,
            sessionVars, historyVars
<1>0. Len(listeners) \in Nat
  BY DEF Shapes
<1>1. CASE TakeQueue
  BY <1>0, <1>1 DEF TakeQueue, Shapes
<1>2. CASE ApplyAction
  <2> DEFINE l == Head(listener_action_queue_).listener
  <2>1. /\ Tail(listener_action_queue_) \in Seq(Action)
        /\ Head(listener_action_queue_) \in Action
    BY <1>2, HeadTailProperties DEF Shapes, ApplyAction
  <2>2. l \in Listener
    BY <2>1 DEF Action
  <2>3. ApplyAdd(l) \/ ApplyRemove(l)
    BY <1>2 DEF ApplyAction
  <2>4. /\ listeners' \in Seq(Listener) /\ add_notify_index' \in Nat
        /\ removed_listeners' \in Seq(Listener)
    <3> HIDE DEF l
    <3>1. CASE ApplyAdd(l)
      BY <2>2, <3>1, AppendProperties DEF ApplyAdd, Shapes
    <3>2. CASE ApplyRemove(l)
      <4>1. removed_listeners' \in Seq(Listener)
        BY <2>2, <3>2, AppendProperties DEF ApplyRemove, Shapes
      <4>2. CASE l \in Range(listeners)
        <5> DEFINE k == CHOOSE i \in DOMAIN listeners : listeners[i] = l
        <5>1. k \in 1 .. Len(listeners) /\ listeners[k] = l
          BY <4>2 DEF Range, Shapes
        <5> HIDE DEF k
        <5>2. RemoveAt(listeners, k) \in Seq(Listener)
          BY <5>1, RemoveAtFacts DEF Shapes
        <5>3. listeners' = RemoveAt(listeners, k)
          BY <3>2, <4>2 DEF ApplyRemove, Without, k
        <5>4. add_notify_index' \in Nat
          BY <1>0, <3>2, <4>2, <5>1 DEF ApplyRemove, Shapes
        <5> QED
          BY <4>1, <5>2, <5>3, <5>4
      <4>3. CASE l \notin Range(listeners)
        BY <3>2, <4>1, <4>3 DEF ApplyRemove, Shapes
      <4> QED
        BY <4>2, <4>3
    <3> QED
      BY <2>3, <3>1, <3>2
  <2> QED
    BY <1>2, <2>1, <2>4 DEF ApplyAction, Shapes
<1>3. CASE QueueTaken
  BY <1>3 DEF QueueTaken, Shapes
<1>4. CASE CallListenersRemoved
  <2>1. removed' \in [Listener -> 0 .. 2]
    BY <1>4 DEF CallListenersRemoved, Shapes, Twice
  <2>2. action_complete' \in [Listener -> BOOLEAN]
    BY <1>4, Zenon DEF CallListenersRemoved, Shapes
  <2>3. todo' \in Seq(Listener)
    <3>1. add_notify_index \in 0 .. Len(listeners)
      BY <1>0 DEF Shapes
    <3> QED
      BY <1>4, <3>1, SubSeqIn DEF CallListenersRemoved, Shapes
  <2> QED
    BY <1>4, <2>1, <2>2, <2>3 DEF CallListenersRemoved, Shapes
<1> QED
  BY <1>1, <1>2, <1>3, <1>4

LEMMA ThreadShapes ==
  ASSUME Shapes,
         \/ RunInvalid \/ Restart \/ Enter \/ RunReturn \/ StateTold
         \/ CloseLost \/ ClearLost \/ CheckFlags \/ Opened \/ OpenTold
         \/ AddedTold \/ Ending \/ CloseAtEnd \/ ThreadEnd \/ Open
  PROVE  Shapes'
<1> USE DEF Go, apiVars, userVars, localVars, viewVars, listVars,
            sessionVars, historyVars
<1>0. 0 \in SessionNo /\ <<>> \in Seq(Listener)
  BY MaxSessionsAssumption DEF SessionNo
<1>1. CASE RunInvalid \/ RunReturn
  BY <1>0, <1>1 DEF RunInvalid, RunReturn, Returns, Shapes, State
<1>2. CASE Restart \/ Enter \/ StateTold \/ OpenTold \/ AddedTold \/ CheckFlags
  BY <1>2 DEF Restart, Enter, StateTold, OpenTold, AddedTold, CheckFlags, Shapes
<1>3. CASE CloseLost \/ CloseAtEnd
  BY <1>3 DEF CloseLost, CloseAtEnd, CloseBody, Shapes, State
<1>4. CASE ClearLost \/ Opened \/ Ending \/ ThreadEnd
  BY <1>0, <1>4 DEF ClearLost, Opened, Ending, ThreadEnd, Shapes, State
<1>5. CASE OpenSession
  <2>1. sessions + 1 \in SessionNo
    BY <1>5, MaxSessionsAssumption DEF OpenSession, Shapes, SessionNo
  <2> QED
    BY <1>5, <2>1 DEF OpenSession, Shapes, State
<1>6. CASE OpenFailed
  BY <1>6 DEF OpenFailed, Shapes
<1> QED
  BY <1>1, <1>2, <1>3, <1>4, <1>5, <1>6 DEF Open

LEMMA TypeStep ==
  ASSUME TypeOK, Once(listeners), add_notify_index <= Len(listeners),
         [Next]_vars
  PROVE  TypeOK'
<1>1. Flags /\ Shapes
  BY TypeParts
<1>2. CASE UNCHANGED vars
  BY <1>2 DEF vars, TypeOK, apiVars, userVars, localVars, viewVars, listVars,
              sessionVars, historyVars
<1>3. CASE Next
  <2>1. Flags'
    BY <1>1, <1>3, UserFlags, ThreadFlags DEF Next, Loop
  <2>2. Shapes'
    BY <1>1, <1>3, UserShapes, TellShapes, QueueShapes, ThreadShapes
    DEF Next, Loop
  <2> QED
    BY <2>1, <2>2 DEF TypeOK, Flags, Shapes
<1> QED
  BY <1>2, <1>3

----------------------------------------------------------------------------
(* ApiWorker: where the listeners are. *)

placeVars == <<listener_action_queue_, user, action_complete, listeners,
               removed_listeners>>

\* The steps that move a listener.
Moves ==
  \/ \E l \in Listener : AddListener(l) \/ RemoveListener(l) \/ RemoveReturn(l)
  \/ ApplyAction \/ CallListenersRemoved

LEMMA OtherSteps == ASSUME [Next]_vars, ~Moves PROVE UNCHANGED placeVars
<1> USE DEF placeVars, Go, apiVars, userVars, localVars, viewVars, listVars,
            sessionVars, historyVars
<1>1. CASE UNCHANGED vars
  BY <1>1 DEF vars
<1>2. CASE \/ Destroy \/ Join \/ Register \/ RegisterFailed \/ UserClose
           \/ KeepAliveExpired \/ Disconnected \/ ConnectionClosed
  BY <1>2 DEF Destroy, Join, Register, RegisterFailed, UserClose,
              KeepAliveExpired, Disconnected, ConnectionClosed
<1>3. CASE \/ RunInvalid \/ Restart \/ Enter \/ RunReturn \/ StateTold
           \/ CloseLost \/ ClearLost \/ CheckFlags \/ Opened \/ OpenTold
  BY <1>3 DEF RunInvalid, Restart, Enter, RunReturn, Returns, StateTold,
              CloseLost, ClearLost, CheckFlags, Opened, OpenTold
<1>4. CASE \/ AddedTold \/ Ending \/ CloseAtEnd \/ ThreadEnd \/ Open
           \/ TakeQueue \/ QueueTaken
  BY <1>4 DEF AddedTold, Ending, CloseAtEnd, ThreadEnd, Open, OpenSession,
              OpenFailed, TakeQueue, QueueTaken
<1>5. CASE \/ CallSessionStateChanged \/ CallSessionOpened \/ CallSessionLost
           \/ CallListenerAdded \/ CallListenerRemoved
  BY <1>5 DEF CallSessionStateChanged, CallSessionOpened, CallSessionLost,
              TellState, CallListenerAdded, CallListenerRemoved
<1> QED
  BY <1>1, <1>2, <1>3, <1>4, <1>5 DEF Next, Loop, Moves

LEMMA ActionNames ==
  /\ \A l, m : Added(l) = Added(m) <=> l = m
  /\ \A l, m : Removal(l) = Removal(m) <=> l = m
  /\ \A l, m : Added(l) # Removal(m)
  /\ \A l \in Listener : Added(l) \in Action /\ Removal(l) \in Action
  /\ \A a \in Action : /\ a.listener \in Listener
                       /\ a.type = "add" => a = Added(a.listener)
                       /\ a.type = "remove" => a = Removal(a.listener)
                       /\ a.type \in {"add", "remove"}
<1>1. \A l, m : Added(l) = Added(m) <=> l = m
  BY DEF Added
<1>2. \A l, m : Removal(l) = Removal(m) <=> l = m
  BY DEF Removal
<1>3. \A l, m : Added(l) # Removal(m)
  BY DEF Added, Removal
<1>4. \A l \in Listener : Added(l) \in Action /\ Removal(l) \in Action
  BY DEF Added, Removal, Action
<1>5. \A a \in Action : /\ a.listener \in Listener
                        /\ a.type = "add" => a = Added(a.listener)
                        /\ a.type = "remove" => a = Removal(a.listener)
                        /\ a.type \in {"add", "remove"}
  BY DEF Added, Removal, Action
<1> QED
  BY <1>1, <1>2, <1>3, <1>4, <1>5, Zenon

LEMMA InitPlaces == Init => Places
<1> SUFFICES ASSUME Init PROVE Places
  OBVIOUS
<1>1. QueueOrder(<<>>)
  BY EmptyFacts DEF QueueOrder
<1> QED
  BY <1>1, EmptyFacts DEF Init, Places, Placed

\* addListener()
LEMMA AddPlaces ==
  ASSUME TypeOK, Places, NEW m \in Listener, AddListener(m)
  PROVE  Places'
<1> DEFINE q == listener_action_queue_
           r == listener_action_queue_'
<1>1. q \in Seq(Action) /\ Added(m) \in Action
  BY ActionNames DEF TypeOK
<1>2. /\ r = Append(q, Added(m)) /\ user[m] = "out"
      /\ user' = [user EXCEPT ![m] = "in"]
      /\ UNCHANGED <<action_complete, listeners, removed_listeners>>
  BY DEF AddListener, QueueAction, Added, localVars, listVars
<1>3. ~In(q, Added(m)) /\ ~In(q, Removal(m)) /\ ~In(listeners, m)
      /\ ~In(removed_listeners, m) /\ ~action_complete[m]
  BY <1>2 DEF Places, Placed
<1>4. /\ Len(r) = Len(q) + 1 /\ Len(q) \in Nat
      /\ \A i \in 1 .. Len(q) : r[i] = q[i]
      /\ r[Len(q) + 1] = Added(m)
      /\ \A y : In(r, y) <=> In(q, y) \/ y = Added(m)
      /\ Once(q) => Once(r)
  BY <1>1, <1>2, <1>3, AppendIn
<1>5. QueueOrder(r)
  <2>0. QueueOrder(q)
    BY DEF Places
  <2> HIDE DEF q, r
  <2>1. Once(r)
    BY <1>4, <2>0 DEF QueueOrder
  <2>2. ASSUME NEW l \in Listener, NEW i \in 1 .. Len(r), NEW j \in 1 .. Len(r),
               r[i] = Added(l), r[j] = Removal(l)
        PROVE  i < j
    <3>1. j \in 1 .. Len(q) /\ q[j] = Removal(l)
      BY <1>4, <2>2, ActionNames
    <3>2. In(q, Removal(l))
      BY <3>1 DEF In
    <3>3. l # m
      BY <1>3, <3>2
    <3>4. i \in 1 .. Len(q) /\ q[i] = Added(l)
      BY <1>4, <2>2, <3>3, ActionNames
    <3> QED
      BY <2>0, <3>1, <3>4 DEF QueueOrder
  <2> QED
    BY <2>1, <2>2 DEF QueueOrder
<1>6. ASSUME NEW l \in Listener
      PROVE  Placed(user'[l], In(r, Added(l)), In(r, Removal(l)),
                    In(listeners, l), In(removed_listeners, l),
                    action_complete[l])
  <2> HIDE DEF q, r
  <2>0. Placed(user[l], In(q, Added(l)), In(q, Removal(l)), In(listeners, l),
               In(removed_listeners, l), action_complete[l])
    BY DEF Places, q
  <2>1. CASE l = m
    <3>1. user'[l] = "in" /\ In(r, Added(l)) /\ ~In(r, Removal(l))
      BY <1>2, <1>3, <1>4, <2>1, ActionNames DEF TypeOK
    <3> QED
      BY <1>3, <2>1, <3>1 DEF Placed
  <2>2. CASE l # m
    <3>1. /\ user'[l] = user[l]
          /\ In(r, Added(l)) <=> In(q, Added(l))
          /\ In(r, Removal(l)) <=> In(q, Removal(l))
      BY <1>2, <1>4, <2>2, ActionNames DEF TypeOK
    <3> QED
      BY <2>0, <3>1, Zenon DEF Placed
  <2> QED
    BY <2>1, <2>2
<1> QED
  BY <1>2, <1>5, <1>6, Zenon DEF Places

\* removeListener()
LEMMA RemovePlaces ==
  ASSUME TypeOK, Places, NEW m \in Listener, RemoveListener(m)
  PROVE  Places'
<1> DEFINE q == listener_action_queue_
           r == listener_action_queue_'
<1>1. q \in Seq(Action) /\ Removal(m) \in Action
  BY ActionNames DEF TypeOK
<1>2. /\ r = Append(q, Removal(m)) /\ user[m] = "in"
      /\ user' = [user EXCEPT ![m] = "removing"]
      /\ UNCHANGED <<action_complete, listeners, removed_listeners>>
  BY DEF RemoveListener, QueueAction, Removal, localVars, listVars
<1>3. /\ ~In(q, Removal(m)) /\ (In(q, Added(m)) <=> ~In(listeners, m))
      /\ ~In(removed_listeners, m) /\ ~action_complete[m]
  BY <1>2 DEF Places, Placed
<1>4. /\ Len(r) = Len(q) + 1 /\ Len(q) \in Nat
      /\ \A i \in 1 .. Len(q) : r[i] = q[i]
      /\ r[Len(q) + 1] = Removal(m)
      /\ \A y : In(r, y) <=> In(q, y) \/ y = Removal(m)
      /\ Once(q) => Once(r)
  BY <1>1, <1>2, <1>3, AppendIn
<1>5. QueueOrder(r)
  <2>0. QueueOrder(q)
    BY DEF Places
  <2> HIDE DEF q, r
  <2>1. Once(r)
    BY <1>4, <2>0 DEF QueueOrder
  <2>2. ASSUME NEW l \in Listener, NEW i \in 1 .. Len(r), NEW j \in 1 .. Len(r),
               r[i] = Added(l), r[j] = Removal(l)
        PROVE  i < j
    <3>1. i \in 1 .. Len(q) /\ q[i] = Added(l)
      BY <1>4, <2>2, ActionNames
    <3>2. CASE j = Len(q) + 1
      BY <1>4, <3>1, <3>2
    <3>3. CASE j \in 1 .. Len(q)
      <4>1. q[j] = Removal(l)
        BY <1>4, <2>2, <3>3
      <4> QED
        BY <2>0, <3>1, <3>3, <4>1 DEF QueueOrder
    <3> QED
      BY <1>4, <3>2, <3>3
  <2> QED
    BY <2>1, <2>2 DEF QueueOrder
<1>6. ASSUME NEW l \in Listener
      PROVE  Placed(user'[l], In(r, Added(l)), In(r, Removal(l)),
                    In(listeners, l), In(removed_listeners, l),
                    action_complete[l])
  <2> HIDE DEF q, r
  <2>0. Placed(user[l], In(q, Added(l)), In(q, Removal(l)), In(listeners, l),
               In(removed_listeners, l), action_complete[l])
    BY DEF Places, q
  <2>1. CASE l = m
    <3>1. /\ user'[l] = "removing" /\ In(r, Removal(l))
          /\ In(r, Added(l)) <=> In(q, Added(l))
      BY <1>2, <1>3, <1>4, <2>1, ActionNames DEF TypeOK
    <3> QED
      BY <1>3, <2>1, <3>1 DEF Placed
  <2>2. CASE l # m
    <3>1. /\ user'[l] = user[l]
          /\ In(r, Added(l)) <=> In(q, Added(l))
          /\ In(r, Removal(l)) <=> In(q, Removal(l))
      BY <1>2, <1>4, <2>2, ActionNames DEF TypeOK
    <3> QED
      BY <2>0, <3>1, Zenon DEF Placed
  <2> QED
    BY <2>1, <2>2
<1> QED
  BY <1>2, <1>5, <1>6, Zenon DEF Places

\* removeListener() returns.
LEMMA ReturnPlaces ==
  ASSUME TypeOK, Places, NEW m \in Listener, RemoveReturn(m)
  PROVE  Places'
<1>1. /\ user[m] = "removing" /\ action_complete[m]
      /\ user' = [user EXCEPT ![m] = "gone"]
      /\ UNCHANGED <<listener_action_queue_, action_complete, listeners,
                     removed_listeners>>
  BY DEF RemoveReturn, apiVars, localVars, listVars
<1>2. ASSUME NEW l \in Listener
      PROVE  Placed(user'[l], In(listener_action_queue_, Added(l)),
                    In(listener_action_queue_, Removal(l)), In(listeners, l),
                    In(removed_listeners, l), action_complete[l])
  <2>0. Placed(user[l], In(listener_action_queue_, Added(l)),
               In(listener_action_queue_, Removal(l)), In(listeners, l),
               In(removed_listeners, l), action_complete[l])
    BY DEF Places
  <2>1. user'[l] = IF l = m THEN "gone" ELSE user[l]
    BY <1>1 DEF TypeOK
  <2> QED
    BY <1>1, <2>0, <2>1 DEF Placed
<1> QED
  BY <1>1, <1>2, Zenon DEF Places

\* The first action of the queue leaves it.
LEMMA QueueTail ==
  ASSUME NEW q \in Seq(Action), q # <<>>, QueueOrder(q)
  PROVE  /\ QueueOrder(Tail(q))
         /\ Head(q) \in Action /\ In(q, Head(q)) /\ ~In(Tail(q), Head(q))
         /\ \A a : a # Head(q) => (In(Tail(q), a) <=> In(q, a))
         /\ \A l \in Listener : Head(q) = Removal(l) => ~In(q, Added(l))
<1> DEFINE t == Tail(q)
           h == Head(q)
<1>1. /\ h \in Action /\ h = q[1] /\ Len(t) = Len(q) - 1 /\ Len(q) \in Nat \ {0}
      /\ \A i \in 1 .. Len(q) - 1 : t[i] = q[i + 1]
      /\ In(q, h)
      /\ \A y : In(t, y) => In(q, y)
      /\ \A y : In(q, y) /\ y # h => In(t, y)
      /\ Once(t) /\ ~In(t, h)
  BY TailIn DEF QueueOrder
<1> HIDE DEF t, h
<1>2. ASSUME NEW l \in Listener, NEW i \in 1 .. Len(t), NEW j \in 1 .. Len(t),
             t[i] = Added(l), t[j] = Removal(l)
      PROVE  i < j
  <2>1. /\ i + 1 \in 1 .. Len(q) /\ j + 1 \in 1 .. Len(q)
        /\ q[i + 1] = Added(l) /\ q[j + 1] = Removal(l)
    BY <1>1, <1>2
  <2>2. i + 1 < j + 1
    BY <2>1 DEF QueueOrder
  <2> QED
    BY <1>1, <2>2
<1>3. QueueOrder(t)
  BY <1>1, <1>2 DEF QueueOrder
<1>4. ASSUME NEW l \in Listener, h = Removal(l), In(q, Added(l)) PROVE FALSE
  <2>1. PICK i \in 1 .. Len(q) : q[i] = Added(l)
    BY <1>4 DEF In
  <2>2. 1 \in 1 .. Len(q) /\ q[1] = Removal(l)
    BY <1>1, <1>4
  <2> QED
    BY <1>1, <2>1, <2>2 DEF QueueOrder
<1> QED
  BY <1>1, <1>3, <1>4 DEF t, h

\* The thread takes an addition from the queue, ...
LEMMA ApplyAddPlaces ==
  ASSUME TypeOK, Places, ApplyAction, NEW m \in Listener,
         Head(listener_action_queue_) = Added(m)
  PROVE  /\ Places'
         /\ listeners' = Append(listeners, m) /\ ~In(listeners, m)
         /\ add_notify_index' = add_notify_index
<1> DEFINE q == listener_action_queue_
           r == listener_action_queue_'
<1>1. /\ q \in Seq(Action) /\ q # <<>> /\ r = Tail(q)
      /\ UNCHANGED <<user, action_complete>>
  BY DEF ApplyAction, TypeOK, userVars
<1>2. /\ QueueOrder(r) /\ In(q, Added(m)) /\ ~In(r, Added(m))
      /\ \A a : a # Added(m) => (In(r, a) <=> In(q, a))
  BY <1>1, QueueTail DEF Places
<1>3. ApplyAdd(m)
  BY ActionNames DEF ApplyAction, Added
<1>4. ~In(listeners, m) /\ ~In(removed_listeners, m)
  BY <1>2 DEF Places, Placed
<1>5. /\ listeners' = Append(listeners, m)
      /\ UNCHANGED <<removed_listeners, add_notify_index>>
  BY <1>3 DEF ApplyAdd
<1>6. /\ Once(listeners')
      /\ \A y : In(listeners', y) <=> In(listeners, y) \/ y = m
  BY <1>4, <1>5, AppendIn DEF TypeOK, Places
<1>7. ASSUME NEW l \in Listener
      PROVE  Placed(user[l], In(r, Added(l)), In(r, Removal(l)),
                    In(listeners', l), In(removed_listeners, l),
                    action_complete[l])
  <2> HIDE DEF q, r
  <2>0. Placed(user[l], In(q, Added(l)), In(q, Removal(l)), In(listeners, l),
               In(removed_listeners, l), action_complete[l])
    BY DEF Places, q
  <2>1. In(r, Removal(l)) <=> In(q, Removal(l))
    BY <1>2, ActionNames
  <2>2. In(r, Added(l)) <=> In(q, Added(l)) /\ l # m
    BY <1>2, ActionNames
  <2>3. In(listeners', l) <=> In(listeners, l) \/ l = m
    BY <1>6
  <2> QED
    BY <1>2, <2>0, <2>1, <2>2, <2>3 DEF Placed
<1> QED
  BY <1>1, <1>2, <1>4, <1>5, <1>6, <1>7, Zenon DEF Places

\* ... or a removal, whose listener it has in its list.
LEMMA ApplyRemovePlaces ==
  ASSUME TypeOK, Places, ApplyAction, NEW m \in Listener,
         Head(listener_action_queue_) = Removal(m)
  PROVE  /\ Places'
         /\ \E k \in 1 .. Len(listeners) :
              listeners[k] = m /\ listeners' = RemoveAt(listeners, k)
         /\ add_notify_index' = IF Len(listeners) - 1 < add_notify_index
                                  THEN add_notify_index - 1
                                  ELSE add_notify_index
<1> DEFINE q == listener_action_queue_
           r == listener_action_queue_'
<1>1. /\ q \in Seq(Action) /\ q # <<>> /\ r = Tail(q)
      /\ UNCHANGED <<user, action_complete>>
  BY DEF ApplyAction, TypeOK, userVars
<1>2. /\ QueueOrder(r) /\ In(q, Removal(m)) /\ ~In(r, Removal(m))
      /\ \A a : a # Removal(m) => (In(r, a) <=> In(q, a))
      /\ ~In(q, Added(m))
  BY <1>1, QueueTail DEF Places
<1>3. ApplyRemove(m)
  BY ActionNames DEF ApplyAction, Removal
<1>4. /\ In(listeners, m) /\ ~In(removed_listeners, m)
      /\ user[m] = "removing" /\ ~action_complete[m]
  BY <1>2 DEF Places, Placed
<1>5. m \in Range(listeners)
  BY <1>4, RangeIn DEF TypeOK
<1>6. /\ listeners' = Without(m)
      /\ removed_listeners' = Append(removed_listeners, m)
      /\ add_notify_index' = IF Len(listeners) - 1 < add_notify_index
                               THEN add_notify_index - 1
                               ELSE add_notify_index
  BY <1>3, <1>5 DEF ApplyRemove
<1>7. PICK k \in 1 .. Len(listeners) :
        listeners[k] = m /\ Without(m) = RemoveAt(listeners, k)
  <2> DEFINE c == CHOOSE i \in DOMAIN listeners : listeners[i] = m
  <2>1. c \in DOMAIN listeners /\ listeners[c] = m
    BY <1>5 DEF Range
  <2>2. c \in 1 .. Len(listeners)
    BY <2>1 DEF TypeOK
  <2> QED
    BY <2>1, <2>2 DEF Without
<1>8. /\ Once(listeners')
      /\ \A y : In(listeners', y) <=> In(listeners, y) /\ y # m
  BY <1>6, <1>7, RemoveAtIn DEF TypeOK, Places
<1>9. /\ Once(removed_listeners')
      /\ \A y : In(removed_listeners', y) <=> In(removed_listeners, y) \/ y = m
  BY <1>4, <1>6, AppendIn DEF TypeOK, Places
<1>10. ASSUME NEW l \in Listener
       PROVE  Placed(user[l], In(r, Added(l)), In(r, Removal(l)),
                     In(listeners', l), In(removed_listeners', l),
                     action_complete[l])
  <2> HIDE DEF q, r
  <2>0. Placed(user[l], In(q, Added(l)), In(q, Removal(l)), In(listeners, l),
               In(removed_listeners, l), action_complete[l])
    BY DEF Places, q
  <2>1. In(r, Added(l)) <=> In(q, Added(l))
    BY <1>2, ActionNames
  <2>2. In(r, Removal(l)) <=> In(q, Removal(l)) /\ l # m
    BY <1>2, ActionNames
  <2>3. In(listeners', l) <=> In(listeners, l) /\ l # m
    BY <1>8
  <2>4. In(removed_listeners', l) <=> In(removed_listeners, l) \/ l = m
    BY <1>9
  <2> QED
    BY <1>2, <1>4, <2>0, <2>1, <2>2, <2>3, <2>4 DEF Placed
<1>11. Places'
  BY <1>1, <1>2, <1>8, <1>9, <1>10, Zenon DEF Places
<1> QED
  BY <1>6, <1>7, <1>11

\* The owners of the removed listeners may return.
LEMMA CompletePlaces ==
  ASSUME TypeOK, Places, CallListenersRemoved
  PROVE  /\ Places'
         /\ \A l \in Listener : action_complete'[l] <=>
              action_complete[l] \/ In(removed_listeners, l)
         /\ \A l \in Listener : removed'[l] =
              IF In(removed_listeners, l) THEN Twice(removed[l]) ELSE removed[l]
<1>1. /\ removed_listeners' = <<>>
      /\ UNCHANGED <<listener_action_queue_, user, listeners>>
  BY DEF CallListenersRemoved, apiVars
<1>2. \A l \in Listener : action_complete'[l] <=>
        action_complete[l] \/ In(removed_listeners, l)
  <2>1. action_complete' = [l \in Listener |->
          action_complete[l] \/ l \in Range(removed_listeners)]
    BY DEF CallListenersRemoved
  <2>2. \A l \in Listener : l \in Range(removed_listeners) <=>
                              In(removed_listeners, l)
    BY RangeIn DEF TypeOK
  <2> QED
    BY <2>1, <2>2, Zenon
<1>3. \A l \in Listener : removed'[l] =
        IF In(removed_listeners, l) THEN Twice(removed[l]) ELSE removed[l]
  BY RangeIn DEF TypeOK, CallListenersRemoved
<1>4. ASSUME NEW l \in Listener
      PROVE  Placed(user[l], In(listener_action_queue_, Added(l)),
                    In(listener_action_queue_, Removal(l)), In(listeners, l),
                    In(<<>>, l), action_complete'[l])
  <2>0. Placed(user[l], In(listener_action_queue_, Added(l)),
               In(listener_action_queue_, Removal(l)), In(listeners, l),
               In(removed_listeners, l), action_complete[l])
    BY DEF Places
  <2>1. action_complete'[l] <=> action_complete[l] \/ In(removed_listeners, l)
    BY <1>2
  <2>2. ~In(<<>>, l)
    BY EmptyFacts
  <2> QED
    BY <2>0, <2>1, <2>2 DEF Placed
<1>5. Places'
  BY <1>1, <1>4, EmptyFacts, Zenon DEF Places
<1> QED
  BY <1>2, <1>3, <1>5

LEMMA PlacesStep == ASSUME TypeOK, Places, [Next]_vars PROVE Places'
<1>1. CASE Moves
  <2>1. CASE ApplyAction
    <3> DEFINE a == Head(listener_action_queue_)
    <3>1. a \in Action
      BY <2>1, HeadTailProperties DEF ApplyAction, TypeOK
    <3> HIDE DEF a
    <3>2. PICK m \in Listener : a = Added(m) \/ a = Removal(m)
      BY <3>1, ActionNames
    <3> QED
      BY <2>1, <3>2, ApplyAddPlaces, ApplyRemovePlaces DEF a
  <2> QED
    BY <1>1, <2>1, AddPlaces, RemovePlaces, ReturnPlaces, CompletePlaces
    DEF Moves
<1>2. CASE ~Moves
  BY <1>2, OtherSteps DEF placeVars, Places
<1> QED
  BY <1>1, <1>2

----------------------------------------------------------------------------
(* ApiWorker: whom the thread may still call, and when it ends. *)

\* The calls of one listener each.
Tells ==
  \/ CallSessionStateChanged \/ CallSessionOpened \/ CallSessionLost
  \/ CallListenerAdded \/ CallListenerRemoved

LEMMA InitLists == Init => Lists
  BY EmptyFacts DEF Init, Lists

LEMMA TellLists ==
  ASSUME TypeOK, Lists, Tells
  PROVE  Lists'
<1> USE DEF apiVars, userVars, localVars, viewVars, listVars, sessionVars,
            historyVars
<1>1. /\ todo # <<>> /\ todo' = Tail(todo)
      /\ UNCHANGED <<pc, listeners, removed_listeners, add_notify_index>>
  BY DEF Tells, CallSessionStateChanged, CallSessionOpened, CallSessionLost,
         TellState, CallListenerAdded, CallListenerRemoved
<1>2. Once(todo') /\ \A y : In(todo', y) => In(todo, y)
  BY <1>1, TailIn DEF TypeOK, Lists
<1> QED
  BY <1>1, <1>2 DEF Lists

LEMMA ApplyLists ==
  ASSUME TypeOK, Places, Lists, ApplyAction
  PROVE  Lists'
<1> DEFINE a == Head(listener_action_queue_)
<1>1. a \in Action
  BY HeadTailProperties DEF ApplyAction, TypeOK
<1>2. PICK m \in Listener : a = Added(m) \/ a = Removal(m)
  <2> HIDE DEF a
  <2> QED
    BY <1>1, ActionNames
<1>3. pc = "apply" /\ pc' = "apply" /\ todo' = todo /\ todo = <<>>
  BY DEF ApplyAction, Lists, Telling
<1>4. add_notify_index \in Nat /\ Len(listeners) \in Nat
  BY DEF TypeOK
<1>5. add_notify_index' <= Len(listeners')
  <2>1. CASE a = Added(m)
    <3>1. listeners' = Append(listeners, m) /\ add_notify_index' = add_notify_index
      BY <2>1, ApplyAddPlaces
    <3>2. Len(listeners') = Len(listeners) + 1
      BY <3>1, AppendIn DEF TypeOK
    <3> QED
      BY <1>4, <3>1, <3>2 DEF Lists
  <2>2. CASE a = Removal(m)
    <3>1. PICK k \in 1 .. Len(listeners) : listeners' = RemoveAt(listeners, k)
      BY <2>2, ApplyRemovePlaces
    <3>2. Len(listeners') = Len(listeners) - 1
      BY <3>1, RemoveAtFacts DEF TypeOK
    <3>3. add_notify_index' = IF Len(listeners) - 1 < add_notify_index
                                THEN add_notify_index - 1
                                ELSE add_notify_index
      BY <2>2, ApplyRemovePlaces
    <3> QED
      BY <1>4, <3>2, <3>3 DEF Lists
  <2> QED
    BY <1>2, <2>1, <2>2
<1> QED
  BY <1>3, <1>5, EmptyFacts DEF Lists

LEMMA QueueLists ==
  ASSUME TypeOK, Places, Lists, TakeQueue \/ QueueTaken \/ CallListenersRemoved
  PROVE  Lists'
<1>0. Len(listeners) \in Nat
  BY DEF TypeOK
<1>1. CASE TakeQueue \/ QueueTaken
  <2>1. todo = <<>>
    BY <1>1 DEF TakeQueue, QueueTaken, Go, Lists, Telling
  <2> QED
    BY <1>0, <1>1, <2>1, EmptyFacts DEF TakeQueue, QueueTaken, Go, Lists, Telling
<1>2. CASE CallListenersRemoved
  <2>1. /\ pc' = "tell_added" /\ removed_listeners' = <<>>
        /\ todo' = SubSeq(listeners, add_notify_index + 1, Len(listeners))
        /\ UNCHANGED <<listeners, add_notify_index>>
    BY <1>2 DEF CallListenersRemoved, Go
  <2>2. add_notify_index \in 0 .. Len(listeners)
    BY <1>0 DEF TypeOK, Lists
  <2>3. /\ Once(todo')
        /\ \A y : In(todo', y) => \E i \in 1 .. Len(listeners) :
                                    i > add_notify_index /\ listeners[i] = y
    BY <2>1, <2>2, SubSeqIn DEF TypeOK, Places
  <2>4. \A y : In(todo', y) => In(listeners, y)
    BY <2>3 DEF In
  <2> QED
    BY <2>1, <2>3, <2>4 DEF Lists, Telling
<1> QED
  BY <1>1, <1>2

LEMMA OtherLists ==
  ASSUME TypeOK, Places, Lists, [Next]_vars, ~Tells, ~ApplyAction, ~TakeQueue,
         ~QueueTaken, ~CallListenersRemoved
  PROVE  Lists'
<1> USE DEF Lists, Telling, Go, apiVars, userVars, localVars, viewVars,
            listVars, sessionVars, historyVars
<1>1. CASE UNCHANGED vars
  BY <1>1 DEF vars
<1>2. CASE \/ \E l \in Listener : \/ AddListener(l) \/ RemoveListener(l)
                                  \/ RemoveReturn(l)
           \/ Destroy \/ Join \/ Register \/ RegisterFailed \/ UserClose
  BY <1>2 DEF AddListener, RemoveListener, QueueAction, RemoveReturn, Destroy,
              Join, Register, RegisterFailed, UserClose
<1>3. CASE KeepAliveExpired \/ Disconnected \/ ConnectionClosed
  BY <1>3 DEF KeepAliveExpired, Disconnected, ConnectionClosed
<1>4. CASE RunInvalid \/ RunReturn \/ Opened \/ Ending \/ CloseAtEnd
  BY <1>4, EmptyFacts DEF RunInvalid, RunReturn, Returns, Opened, Ending, CloseAtEnd, Places
<1>5. CASE \/ Restart \/ Enter \/ StateTold \/ CloseLost \/ ClearLost
           \/ CheckFlags \/ OpenTold \/ AddedTold \/ ThreadEnd
  BY <1>5, EmptyFacts DEF Restart, Enter, StateTold, CloseLost, ClearLost,
         CheckFlags, OpenTold, AddedTold, ThreadEnd
<1>6. CASE OpenSession \/ OpenFailed
  BY <1>6, EmptyFacts DEF OpenSession, OpenFailed
<1> QED
  BY <1>1, <1>2, <1>3, <1>4, <1>5, <1>6 DEF Next, Loop, Open, Tells

LEMMA ListsStep == ASSUME TypeOK, Places, Lists, [Next]_vars PROVE Lists'
  BY TellLists, ApplyLists, QueueLists, OtherLists

LEMMA InitEnds == Init => Ends
  BY DEF Init, Ends

LEMMA EndsStep == ASSUME TypeOK, Ends, [Next]_vars PROVE Ends'
<1> USE DEF Ends, Go, apiVars, userVars, localVars, viewVars,
            listVars, sessionVars, historyVars
<1>0. running_ \in BOOLEAN /\ closing \in BOOLEAN
  BY DEF TypeOK
<1>1. CASE UNCHANGED vars
  BY <1>1 DEF vars
<1>2. CASE \E l \in Listener : \/ AddListener(l) \/ RemoveListener(l)
                               \/ RemoveReturn(l)
  BY <1>2 DEF AddListener, RemoveListener, QueueAction, RemoveReturn
<1>3. CASE Destroy
  BY <1>3 DEF Destroy
<1>4. CASE Join \/ Register \/ RegisterFailed \/ UserClose
  BY <1>4 DEF Join, Register, RegisterFailed, UserClose
<1>5. CASE KeepAliveExpired \/ Disconnected \/ ConnectionClosed
  BY <1>5 DEF KeepAliveExpired, Disconnected, ConnectionClosed
<1>6. CASE RunInvalid \/ RunReturn \/ Opened \/ Ending \/ CloseAtEnd
  BY <1>6 DEF RunInvalid, RunReturn, Returns, Opened, Ending, CloseAtEnd
<1>7. CASE \/ Restart \/ Enter \/ StateTold \/ CloseLost \/ ClearLost
           \/ CheckFlags \/ OpenTold \/ ThreadEnd
  BY <1>7 DEF Restart, Enter, StateTold, CloseLost, ClearLost, CheckFlags,
              OpenTold, ThreadEnd
<1>8. CASE AddedTold
  BY <1>8 DEF AddedTold
<1>9. CASE OpenSession \/ OpenFailed
  BY <1>9 DEF OpenSession, OpenFailed
<1>10. CASE Tells
  BY <1>10 DEF Tells, CallSessionStateChanged, CallSessionOpened,
               CallSessionLost, TellState, CallListenerAdded, CallListenerRemoved
<1>11. CASE TakeQueue \/ CallListenersRemoved
  BY <1>11 DEF TakeQueue, CallListenersRemoved
<1>12. CASE QueueTaken
  BY <1>0, <1>12 DEF QueueTaken
<1>13. CASE ApplyAction
  BY <1>13 DEF ApplyAction
<1> QED
  BY <1>1, <1>2, <1>3, <1>4, <1>5, <1>6, <1>7, <1>8, <1>9, <1>10, <1>11,
     <1>12, <1>13 DEF Next, Loop, Open, Tells

----------------------------------------------------------------------------
(* ApiWorker: listenerAdded() and listenerRemoved(). *)

LEMMA InitCalls == Init => Calls
  BY EmptyFacts DEF Init, Calls, WasRemoved, Fresh

\* A listener of the list is not to be added any more, and not removed yet.
LEMMA ListedFacts ==
  ASSUME Places, NEW l \in Listener, In(listeners, l)
  PROVE  /\ user[l] # "out" /\ ~In(listener_action_queue_, Added(l))
         /\ ~action_complete[l]
  BY DEF Places, Placed

\* Calls holds on as long as no listener is moved or called, also when the
\* thread goes on without working on its lists, ...
LEMMA QuietCalls ==
  ASSUME Calls,
         UNCHANGED <<placeVars, added, removed, told>>,
         \/ UNCHANGED <<pc, todo, add_notify_index>>
         \/ {pc, pc'} \cap {"apply", "removed", "tell_added", "tell_removed",
                            "done"} = {}
  PROVE  Calls'
<1>1. \A l : Fresh(l)' <=> Fresh(l)
  BY DEF Fresh
<1>2. \A l \in Listener : WasRemoved(l)' <=> WasRemoved(l)
  BY DEF WasRemoved, placeVars
<1> QED
  BY <1>1, <1>2 DEF Calls, placeVars

\* ... and in the steps around the queue and at the end.
LEMMA PhaseCalls ==
  ASSUME TypeOK, Places, Lists, Calls,
         \/ TakeQueue \/ QueueTaken \/ AddedTold \/ Ending \/ CloseAtEnd
         \/ ThreadEnd
  PROVE  Calls'
<1> USE DEF Go, apiVars, userVars, localVars, viewVars, listVars, sessionVars,
            historyVars
<1>1. UNCHANGED <<placeVars, added, removed, told>>
  BY DEF TakeQueue, QueueTaken, AddedTold, Ending, CloseAtEnd, ThreadEnd, placeVars
<1>2. \A l : Fresh(l)' <=> Fresh(l)
  BY <1>1 DEF Fresh
<1>3. \A l \in Listener : WasRemoved(l)' <=> WasRemoved(l)
  <2>1. CASE TakeQueue \/ QueueTaken \/ AddedTold
    BY <1>1, <2>1 DEF TakeQueue, QueueTaken, AddedTold, WasRemoved, placeVars
  <2>2. CASE Ending \/ CloseAtEnd
    BY <1>1, <2>2 DEF Ending, CloseAtEnd, WasRemoved, placeVars
  <2>3. CASE ThreadEnd
    BY <1>1, <2>3 DEF ThreadEnd, WasRemoved, placeVars
  <2> QED
    BY <2>1, <2>2, <2>3
<1>4. pc' # "tell_added"
  BY DEF TakeQueue, QueueTaken, AddedTold, Ending, CloseAtEnd, ThreadEnd
<1>5. ASSUME pc' \in {"apply", "removed"}, NEW i \in 1 .. Len(listeners'),
             i > add_notify_index'
      PROVE  Fresh(listeners'[i])
  <2>1. CASE TakeQueue
    BY <1>1, <1>5, <2>1 DEF TakeQueue, TypeOK
  <2>2. CASE QueueTaken
    BY <1>1, <1>5, <2>2 DEF QueueTaken, Calls
  <2> QED
    BY <1>5, <2>1, <2>2 DEF AddedTold, Ending, CloseAtEnd, ThreadEnd
<1> QED
  BY <1>1, <1>2, <1>3, <1>4, <1>5 DEF Calls, placeVars

LEMMA UserCalls ==
  ASSUME TypeOK, Places, Calls, NEW m \in Listener,
         AddListener(m) \/ RemoveListener(m) \/ RemoveReturn(m)
  PROVE  Calls'
<1>1. UNCHANGED <<action_complete, listeners, added, removed, told, pc, todo,
                  add_notify_index>>
  BY DEF AddListener, RemoveListener, QueueAction, RemoveReturn, localVars,
         listVars, historyVars
<1>2. \A l : Fresh(l)' <=> Fresh(l)
  BY <1>1 DEF Fresh
<1>3. \A l \in Listener : WasRemoved(l)' <=> WasRemoved(l)
  BY <1>1 DEF WasRemoved
<1>4. ASSUME NEW l \in Listener,
             user'[l] = "out" \/ In(listener_action_queue_', Added(l))
      PROVE  Fresh(l)
  <2>1. user'[l] = "out" => user[l] = "out"
    BY DEF AddListener, RemoveListener, RemoveReturn, TypeOK
  <2>2. \/ In(listener_action_queue_', Added(l)) =>
             In(listener_action_queue_, Added(l))
        \/ l = m /\ user[m] = "out"
    <3>1. CASE AddListener(m)
      <4>1. listener_action_queue_' = Append(listener_action_queue_, Added(m))
        BY <3>1 DEF AddListener, QueueAction, Added
      <4>2. In(listener_action_queue_', Added(l)) =>
              In(listener_action_queue_, Added(l)) \/ Added(l) = Added(m)
        BY <4>1, AppendIn, ActionNames DEF TypeOK
      <4> QED
        BY <3>1, <4>2, ActionNames DEF AddListener
    <3>2. CASE RemoveListener(m)
      <4>1. listener_action_queue_' = Append(listener_action_queue_, Removal(m))
        BY <3>2 DEF RemoveListener, QueueAction, Removal
      <4>2. In(listener_action_queue_', Added(l)) =>
              In(listener_action_queue_, Added(l)) \/ Added(l) = Removal(m)
        BY <4>1, AppendIn, ActionNames DEF TypeOK
      <4> QED
        BY <4>2, ActionNames
    <3>3. CASE RemoveReturn(m)
      BY <3>3 DEF RemoveReturn, apiVars
    <3> QED
      BY <3>1, <3>2, <3>3
  <2> QED
    BY <1>4, <2>1, <2>2 DEF Calls
<1> QED
  BY <1>1, <1>2, <1>3, <1>4 DEF Calls

LEMMA ApplyCalls ==
  ASSUME TypeOK, Places, Lists, Calls, ApplyAction
  PROVE  Calls'
<1> DEFINE a == Head(listener_action_queue_)
<1>1. a \in Action
  BY HeadTailProperties DEF ApplyAction, TypeOK
<1>2. PICK m \in Listener : a = Added(m) \/ a = Removal(m)
  <2> HIDE DEF a
  <2> QED
    BY <1>1, ActionNames
<1>3. /\ pc = "apply" /\ pc' = "apply"
      /\ listener_action_queue_ # <<>>
      /\ listener_action_queue_' = Tail(listener_action_queue_)
      /\ UNCHANGED <<user, action_complete, added, removed, told, todo>>
  BY DEF ApplyAction, userVars, historyVars
<1>4. \A y : In(listener_action_queue_', y) => In(listener_action_queue_, y)
  BY <1>3, TailIn DEF TypeOK
<1>5. \A l : Fresh(l)' <=> Fresh(l)
  BY <1>3 DEF Fresh
<1>6. \A l \in Listener : WasRemoved(l)' <=> WasRemoved(l)
  BY <1>3 DEF WasRemoved
<1>7. add_notify_index \in Nat /\ Len(listeners) \in Nat
  BY DEF TypeOK
<1>8. ASSUME NEW i \in 1 .. Len(listeners'), i > add_notify_index'
      PROVE  Fresh(listeners'[i])
  <2>1. CASE a = Added(m)
    <3>1. listeners' = Append(listeners, m) /\ add_notify_index' = add_notify_index
      BY <2>1, ApplyAddPlaces
    <3>2. /\ Len(listeners') = Len(listeners) + 1
          /\ \A n \in 1 .. Len(listeners) : listeners'[n] = listeners[n]
          /\ listeners'[Len(listeners) + 1] = m
      BY <3>1, AppendIn DEF TypeOK
    <3>3. In(listener_action_queue_, Added(m))
      BY <1>3, <2>1, TailIn DEF TypeOK
    <3>4. Fresh(m)
      BY <3>3 DEF Calls
    <3>5. CASE i = Len(listeners) + 1
      BY <3>2, <3>4, <3>5
    <3>6. CASE i \in 1 .. Len(listeners)
      BY <1>3, <1>8, <3>1, <3>2, <3>6 DEF Calls
    <3> QED
      BY <1>7, <3>2, <3>5, <3>6
  <2>2. CASE a = Removal(m)
    <3>1. PICK k \in 1 .. Len(listeners) : listeners' = RemoveAt(listeners, k)
      BY <2>2, ApplyRemovePlaces
    <3>2. /\ Len(listeners') = Len(listeners) - 1
          /\ \A n \in 1 .. Len(listeners) - 1 :
               listeners'[n] = IF n < k THEN listeners[n] ELSE listeners[n + 1]
      <4>1. listeners \in Seq(Listener)
        BY DEF TypeOK
      <4> QED
        BY <3>1, <4>1, RemoveAtFacts, Zenon
    <3>3. add_notify_index' = IF Len(listeners) - 1 < add_notify_index
                                THEN add_notify_index - 1
                                ELSE add_notify_index
      BY <2>2, ApplyRemovePlaces
    <3>4. add_notify_index <= Len(listeners)
      BY DEF Lists
    <3>5. add_notify_index < i /\ i \in 1 .. Len(listeners) - 1
      <4>1. i \in 1 .. Len(listeners) - 1 /\ i \in Nat
        BY <1>7, <3>2
      <4>2. ~(Len(listeners) - 1 < add_notify_index)
        BY <1>7, <1>8, <3>3, <3>4, <4>1
      <4> QED
        BY <1>8, <3>3, <4>1, <4>2
    <3>6. PICK n \in {i, i + 1} : listeners'[i] = listeners[n]
      BY <3>2, <3>5
    <3>7. n \in 1 .. Len(listeners) /\ n > add_notify_index
      BY <1>7, <3>5, <3>6
    <3> QED
      BY <1>3, <3>6, <3>7 DEF Calls
  <2> QED
    BY <1>2, <2>1, <2>2
<1> QED
  BY <1>3, <1>4, <1>5, <1>6, <1>8 DEF Calls

LEMMA CompleteCalls ==
  ASSUME TypeOK, Places, Lists, Calls, CallListenersRemoved
  PROVE  Calls'
<1>1. /\ pc = "removed" /\ pc' = "tell_added"
      /\ todo' = SubSeq(listeners, add_notify_index + 1, Len(listeners))
      /\ UNCHANGED <<listener_action_queue_, user, listeners, added, told>>
  BY DEF CallListenersRemoved, Go, apiVars
<1>2. \A l : Fresh(l)' <=> Fresh(l)
  BY <1>1 DEF Fresh
<1>3. ASSUME NEW l \in Listener, In(todo', l) PROVE Fresh(l)
  <2>1. add_notify_index \in 0 .. Len(listeners)
    BY DEF TypeOK, Lists
  <2>2. \E i \in 1 .. Len(listeners) : i > add_notify_index /\ listeners[i] = l
    BY <1>1, <1>3, <2>1, SubSeqIn DEF TypeOK
  <2> QED
    BY <1>1, <2>2 DEF Calls
<1>4. ASSUME NEW l \in Listener
      PROVE  removed'[l] = IF WasRemoved(l)' THEN 1 ELSE 0
  <2>1. action_complete'[l] <=> action_complete[l] \/ In(removed_listeners, l)
    BY CompletePlaces
  <2>2. removed'[l] =
          IF In(removed_listeners, l) THEN Twice(removed[l]) ELSE removed[l]
    BY CompletePlaces
  <2>3. In(removed_listeners, l) => ~action_complete[l]
    BY DEF Places, Placed
  <2>4. removed[l] = IF action_complete[l] THEN 1 ELSE 0
    BY <1>1 DEF Calls, WasRemoved
  <2>5. WasRemoved(l)' <=> action_complete'[l]
    BY <1>1 DEF WasRemoved
  <2> QED
    BY <2>1, <2>2, <2>3, <2>4, <2>5 DEF Twice
<1>5. ASSUME NEW l \in Listener
      PROVE  /\ added'[l] < 2
             /\ user'[l] = "out" \/ In(listener_action_queue_', Added(l)) => Fresh(l)
  BY <1>1 DEF Calls
<1> QED
  BY <1>1, <1>2, <1>3, <1>4, <1>5 DEF Calls

\* A call of one listener of the list, which is the first to be called.
LEMMA TellFacts ==
  ASSUME TypeOK, Places, Lists, Tells
  PROVE  /\ Head(todo) \in Listener /\ In(todo, Head(todo))
         /\ In(listeners, Head(todo)) /\ ~In(todo', Head(todo))
         /\ \A l : l # Head(todo) => (In(todo', l) <=> In(todo, l))
         /\ UNCHANGED <<pc, placeVars, add_notify_index, prev_session_state,
                        active_session, sessions>>
         /\ pc \in Telling
<1> USE DEF placeVars, apiVars, userVars, localVars, viewVars, listVars,
            sessionVars, historyVars
<1>1. /\ todo # <<>> /\ todo' = Tail(todo)
      /\ UNCHANGED <<pc, placeVars, add_notify_index, prev_session_state,
                     active_session, sessions>>
  BY DEF Tells, CallSessionStateChanged, CallSessionOpened, CallSessionLost,
         TellState, CallListenerAdded, CallListenerRemoved
<1>2. /\ Head(todo) \in Listener /\ In(todo, Head(todo))
      /\ ~In(todo', Head(todo))
      /\ \A l : In(todo', l) => In(todo, l)
      /\ \A l : In(todo, l) /\ l # Head(todo) => In(todo', l)
  BY <1>1, TailIn DEF TypeOK, Lists
<1> QED
  BY <1>1, <1>2 DEF Lists

LEMMA TellCalls ==
  ASSUME TypeOK, Places, Lists, Calls, Tells
  PROVE  Calls'
<1>0. PICK h \in Listener : h = Head(todo)
  BY TellFacts
<1>1. /\ h \in Listener /\ In(todo, h)
      /\ In(listeners, h) /\ ~In(todo', h)
      /\ \A l : l # h => (In(todo', l) <=> In(todo, l))
      /\ UNCHANGED <<pc, listener_action_queue_, user, action_complete,
                     listeners, add_notify_index>>
      /\ pc \in Telling
  BY <1>0, TellFacts DEF placeVars
<1>2. user[h] # "out" /\ ~In(listener_action_queue_, Added(h)) /\ ~action_complete[h]
  BY <1>1, ListedFacts
<1>3. /\ \A l \in Listener : l # h =>
           added'[l] = added[l] /\ removed'[l] = removed[l] /\ told'[l] = told[l]
      /\ added'[h] = added[h] \/ (pc = "tell_added" /\ added'[h] = Twice(added[h]))
      /\ IF pc = "tell_removed" THEN removed'[h] = Twice(removed[h])
                                ELSE removed'[h] = removed[h]
  <2>1. CASE CallSessionStateChanged \/ CallSessionOpened \/ CallSessionLost
    <3>1. PICK at \in {"tell_state", "tell_open", "tell_lost"}, st \in State :
            TellState(at, st)
      BY <2>1 DEF CallSessionStateChanged, CallSessionOpened, CallSessionLost,
                  State, TypeOK
    <3> QED
      BY <1>0, <1>1, <3>1 DEF TellState, TypeOK
  <2>2. CASE CallListenerAdded
    BY <1>0, <1>1, <2>2 DEF CallListenerAdded, TypeOK
  <2>3. CASE CallListenerRemoved
    BY <1>0, <1>1, <2>3 DEF CallListenerRemoved, TypeOK
  <2> QED
    BY <2>1, <2>2, <2>3 DEF Tells
<1>4. \A l \in Listener : l # h => (Fresh(l)' <=> Fresh(l))
  BY <1>3 DEF Fresh
<1>5. \A l \in Listener : l # h => (WasRemoved(l)' <=> WasRemoved(l))
  BY <1>1 DEF WasRemoved
<1>6. added'[h] < 2
  BY <1>1, <1>3 DEF Calls, Fresh, Twice, TypeOK
<1>7. removed'[h] = IF WasRemoved(h)' THEN 1 ELSE 0
  <2>1. removed[h] = 0
    BY <1>1, <1>2 DEF Calls, WasRemoved
  <2>2. WasRemoved(h)' <=> pc = "tell_removed"
    BY <1>1, <1>2 DEF WasRemoved, Telling
  <2> QED
    BY <1>3, <2>1, <2>2 DEF Twice
<1>8. pc \notin {"apply", "removed"}
  BY <1>1 DEF Telling
<1>9. ASSUME NEW l \in Listener
      PROVE  /\ added'[l] < 2
             /\ removed'[l] = IF WasRemoved(l)' THEN 1 ELSE 0
             /\ user'[l] = "out" \/ In(listener_action_queue_', Added(l)) => Fresh(l)'
             /\ pc' = "tell_added" /\ In(todo', l) => Fresh(l)'
  <2>1. CASE l = h
    BY <1>1, <1>2, <1>6, <1>7, <2>1
  <2>2. CASE l # h
    BY <1>1, <1>3, <1>4, <1>5, <2>2 DEF Calls
  <2> QED
    BY <2>1, <2>2
<1> QED
  BY <1>1, <1>8, <1>9 DEF Calls

LEMMA CallsStep ==
  ASSUME TypeOK, Places, Lists, Calls, [Next]_vars
  PROVE  Calls'
<1> USE DEF Go, apiVars, userVars, localVars, viewVars, listVars, sessionVars,
            historyVars
<1>1. CASE \/ UNCHANGED vars \/ Destroy \/ Join \/ Register \/ RegisterFailed
           \/ UserClose
  <2>1. UNCHANGED <<placeVars, added, removed, told, pc, todo, add_notify_index>>
    BY <1>1 DEF vars, Destroy, Join, Register, RegisterFailed, UserClose,
                placeVars
  <2> QED
    BY <2>1, QuietCalls
<1>2. CASE \/ KeepAliveExpired \/ Disconnected \/ ConnectionClosed
           \/ RunInvalid \/ RunReturn \/ Restart \/ Enter \/ Opened
  <2>1. /\ UNCHANGED <<placeVars, added, removed, told>>
        /\ {pc, pc'} \cap {"apply", "removed", "tell_added", "tell_removed",
                           "done"} = {}
    BY <1>2 DEF KeepAliveExpired, Disconnected, ConnectionClosed, RunInvalid,
                RunReturn, Returns, Restart, Enter, Opened, placeVars
  <2> QED
    BY <2>1, QuietCalls
<1>3. CASE \/ StateTold \/ CloseLost \/ ClearLost \/ CheckFlags \/ OpenTold
           \/ OpenSession \/ OpenFailed
  <2>1. /\ UNCHANGED <<placeVars, added, removed, told>>
        /\ {pc, pc'} \cap {"apply", "removed", "tell_added", "tell_removed",
                           "done"} = {}
    BY <1>3 DEF StateTold, CloseLost, ClearLost, CheckFlags, OpenTold,
                OpenSession, OpenFailed, placeVars
  <2> QED
    BY <2>1, QuietCalls
<1> QED
  BY <1>1, <1>2, <1>3, UserCalls, PhaseCalls, ApplyCalls, CompleteCalls,
     TellCalls
  DEF Next, Loop, Open, Tells

----------------------------------------------------------------------------
(* ApiWorker: the session, and what the listeners hear of it. *)

LEMMA InitViews == Init => Views
  BY DEF Init, Views, HasSession

LEMMA ViewsStep ==
  ASSUME TypeOK, Views, [Next]_vars
  PROVE  Views'
<1> USE DEF Views, HasSession, Go, apiVars, userVars, localVars, viewVars,
            listVars, sessionVars, historyVars
<1>0. connected \in BOOLEAN /\ sessions \in Nat
  BY MaxSessionsAssumption DEF TypeOK, SessionNo
<1>1. CASE UNCHANGED vars
  BY <1>1 DEF vars
<1>2. CASE \E l \in Listener : \/ AddListener(l) \/ RemoveListener(l)
                               \/ RemoveReturn(l)
  BY <1>2 DEF AddListener, RemoveListener, QueueAction, RemoveReturn
<1>3. CASE Destroy \/ Join \/ Register \/ RegisterFailed \/ UserClose
  BY <1>3 DEF Destroy, Join, Register, RegisterFailed, UserClose
<1>4. CASE KeepAliveExpired \/ Disconnected \/ ConnectionClosed
  BY <1>4 DEF KeepAliveExpired, Disconnected, ConnectionClosed
<1>5. CASE RunInvalid \/ RunReturn
  BY <1>0, <1>5 DEF RunInvalid, RunReturn, Returns
<1>6. CASE Restart \/ Enter \/ CheckFlags
  BY <1>6 DEF Restart, Enter, CheckFlags
<1>7. CASE StateTold
  BY <1>0, <1>7 DEF StateTold
<1>8. CASE CloseLost \/ ClearLost
  BY <1>8 DEF CloseLost, ClearLost
<1>9. CASE OpenSession
  BY <1>0, <1>9 DEF OpenSession
<1>10. CASE OpenFailed \/ OpenTold
  BY <1>10 DEF OpenFailed, OpenTold
<1>11. CASE Opened
  BY <1>11 DEF Opened
<1>12. CASE AddedTold
  BY <1>12 DEF AddedTold
<1>13. CASE Ending
  BY <1>13 DEF Ending
<1>14. CASE CloseAtEnd \/ ThreadEnd
  BY <1>14 DEF CloseAtEnd, ThreadEnd
<1>15. CASE TakeQueue \/ ApplyAction \/ QueueTaken \/ CallListenersRemoved
  BY <1>15 DEF TakeQueue, ApplyAction, QueueTaken, CallListenersRemoved
<1>16. CASE Tells
  BY <1>16 DEF Tells, CallSessionStateChanged, CallSessionOpened,
               CallSessionLost, TellState, CallListenerAdded, CallListenerRemoved
<1> QED
  BY <1>1, <1>2, <1>3, <1>4, <1>5, <1>6, <1>7, <1>8, <1>9, <1>10, <1>11,
     <1>12, <1>13, <1>14, <1>15, <1>16 DEF Next, Loop, Open, Tells

LEMMA InitHeard == Init => Heard
  BY EmptyFacts DEF Init, Heard

\* As long as nobody is told of the session that there is, ...
LEMMA QuietHeard ==
  ASSUME Heard,
         UNCHANGED <<told, sessions, active_session, listeners>>,
         pc' = "opened" => pc = "opened",
         \A l \in Listener :
           /\ pc' = "tell_open" /\ In(todo', l) => pc = "tell_open" /\ In(todo, l)
           /\ In(listeners, l) => (ToldLost(l)' <=> ToldLost(l))
  PROVE  Heard'
  BY DEF Heard

\* ... it being lost or not; ...
LEMMA StillHeard ==
  ASSUME TypeOK, Places, Lists, Views, Heard, [Next]_vars,
         ~Tells, ~ApplyAction, ~OpenSession, ~Opened, ~ClearLost, ~Ending,
         ~ThreadEnd
  PROVE  Heard'
<1> USE DEF Go, apiVars, userVars, localVars, viewVars, listVars, sessionVars,
            historyVars
<1>1. CASE \/ UNCHANGED vars \/ Destroy \/ Join \/ Register \/ RegisterFailed
           \/ UserClose
           \/ \E l \in Listener : \/ AddListener(l) \/ RemoveListener(l)
                                  \/ RemoveReturn(l)
  <2>1. UNCHANGED <<told, sessions, active_session, listeners, pc, todo,
                    prev_session_state>>
    BY <1>1 DEF vars, Destroy, Join, Register, RegisterFailed, UserClose,
                AddListener, RemoveListener, QueueAction, RemoveReturn
  <2>2. \A l \in Listener : ToldLost(l)' <=> ToldLost(l)
    BY <2>1 DEF ToldLost
  <2> QED
    BY <2>1, <2>2, QuietHeard
<1>2. CASE \/ KeepAliveExpired \/ Disconnected \/ ConnectionClosed \/ Restart
           \/ Enter \/ CheckFlags \/ OpenFailed \/ TakeQueue \/ QueueTaken
           \/ CallListenersRemoved \/ AddedTold \/ OpenTold
  <2>1. /\ UNCHANGED <<told, sessions, active_session, listeners>>
        /\ {pc, pc'} \cap {"close", "clear", "tell_removed", "tell_lost",
                           "tell_state"} = {}
        /\ pc' \notin {"opened", "tell_open"}
    BY <1>2 DEF KeepAliveExpired, Disconnected, ConnectionClosed, Restart,
                Enter, CheckFlags, OpenFailed, TakeQueue, QueueTaken,
                CallListenersRemoved, AddedTold, OpenTold
  <2>2. \A l \in Listener : ToldLost(l)' <=> ToldLost(l)
    BY <2>1 DEF ToldLost
  <2> QED
    BY <2>1, <2>2, QuietHeard
<1>3. CASE RunInvalid \/ RunReturn
  <2>1. /\ UNCHANGED <<told, sessions, active_session, listeners>>
        /\ pc \in {"top", "run"} /\ pc' = "tell_state"
        /\ prev_session_state' # prev_session_state => todo' = listeners
    BY <1>3 DEF RunInvalid, RunReturn, Returns, NewState
  <2>2. prev_session_state # "session_lost"
    <3>1. connected
      BY <1>3 DEF RunInvalid, RunReturn, Views
    <3> QED
      BY <2>1, <3>1 DEF Views
  <2>3. \A l \in Listener : In(listeners, l) => (ToldLost(l)' <=> ToldLost(l))
    BY <2>1, <2>2 DEF ToldLost
  <2> QED
    BY <2>1, <2>3, QuietHeard
<1>4. CASE StateTold
  <2>1. /\ UNCHANGED <<told, sessions, active_session, listeners>>
        /\ pc = "tell_state" /\ todo = <<>>
        /\ pc' = IF prev_session_state = "session_lost" THEN "close" ELSE "check"
    BY <1>4 DEF StateTold
  <2>2. \A l \in Listener : ToldLost(l)' <=> ToldLost(l)
    BY <2>1, EmptyFacts DEF ToldLost
  <2> QED
    BY <2>1, <2>2, QuietHeard
<1>5. CASE CloseLost \/ CloseAtEnd
  <2>1. /\ UNCHANGED <<told, sessions, active_session, listeners>>
        /\ \/ pc = "close" /\ pc' = "clear"
           \/ pc = "tell_lost" /\ todo = <<>> /\ pc' = "tell_removed"
    BY <1>5 DEF CloseLost, CloseAtEnd
  <2>2. \A l \in Listener : ToldLost(l)' <=> ToldLost(l)
    BY <2>1, EmptyFacts DEF ToldLost
  <2> QED
    BY <2>1, <2>2, QuietHeard
<1> QED
  BY <1>1, <1>2, <1>3, <1>4, <1>5 DEF Next, Loop, Open, Tells

\* ... when a session comes or goes; ...
LEMMA SessionHeard ==
  ASSUME TypeOK, Places, Lists, Views, Heard,
         OpenSession \/ Opened \/ ClearLost \/ Ending \/ ThreadEnd
  PROVE  Heard'
<1> USE DEF Go, apiVars, userVars, localVars, viewVars, listVars, sessionVars,
            historyVars
<1>0. /\ sessions \in Nat /\ active_session \in Nat
      /\ \A l \in Listener : told[l].session \in Nat
  BY MaxSessionsAssumption DEF TypeOK, SessionNo
<1>1. CASE OpenSession
  <2>1. /\ pc = "top" /\ pc' = "opened" /\ UNCHANGED <<told, listeners>>
        /\ sessions' = sessions + 1 /\ active_session' = sessions + 1
        /\ active_session = 0
    BY <1>1 DEF OpenSession, Views, HasSession
  <2>2. ASSUME NEW l \in Listener, In(listeners, l), told[l].session # 0
        PROVE  told[l].state = "session_lost"
    BY <2>1, <2>2 DEF Heard
  <2>3. ASSUME NEW l \in Listener
        PROVE  told[l].session <= sessions
    BY DEF Heard
  <2>4. ASSUME NEW l \in Listener
        PROVE  told[l].session < sessions + 1 /\ told[l].session <= sessions + 1
    BY <1>0, <2>3
  <2>5. \A l \in Listener : told[l].session # sessions + 1
    BY <1>0, <2>4
  <2> QED
    BY <2>1, <2>2, <2>4, <2>5 DEF Heard
<1>2. CASE Opened
  <2>1. /\ pc = "opened" /\ pc' = "tell_open"
        /\ UNCHANGED <<told, sessions, active_session, listeners>>
    BY <1>2 DEF Opened
  <2>2. \A l \in Listener : ToldLost(l)' <=> ToldLost(l)
    BY <2>1 DEF ToldLost
  <2> QED
    BY <2>1, <2>2 DEF Heard
<1>3. CASE ClearLost \/ ThreadEnd
  <2>1. /\ pc \in {"clear", "tell_removed"} /\ pc' \in {"top", "done"}
        /\ UNCHANGED <<told, sessions, listeners>> /\ active_session' = 0
    BY <1>3 DEF ClearLost, ThreadEnd
  <2>2. ASSUME NEW l \in Listener, In(listeners, l), told[l].session # 0
        PROVE  told[l].state = "session_lost"
    BY <2>1, <2>2 DEF Heard, ToldLost
  <2> QED
    BY <2>1, <2>2 DEF Heard
<1>4. CASE Ending
  <2>1. /\ pc = "ending" /\ todo' = listeners
        /\ pc' = IF HasSession THEN "tell_lost" ELSE "tell_removed"
        /\ UNCHANGED <<told, sessions, active_session, listeners>>
    BY <1>4 DEF Ending
  <2>2. CASE HasSession
    <3>1. \A l \in Listener : In(listeners, l) => (ToldLost(l)' <=> ToldLost(l))
      BY <2>1, <2>2 DEF ToldLost
    <3> QED
      BY <2>1, <2>2, <3>1, QuietHeard
  <2>3. CASE ~HasSession
    <3>1. ASSUME NEW l \in Listener, In(listeners, l), told[l].session # 0
          PROVE  told[l].state = "session_lost"
      BY <2>3, <3>1 DEF Heard, HasSession
    <3> QED
      BY <2>1, <2>3, <3>1 DEF Heard, HasSession
  <2> QED
    BY <2>2, <2>3
<1> QED
  BY <1>1, <1>2, <1>3, <1>4

\* ... when a listener comes or goes; ...
LEMMA ApplyHeard ==
  ASSUME TypeOK, Places, Calls, Heard, ApplyAction
  PROVE  Heard'
<1> DEFINE a == Head(listener_action_queue_)
<1>1. a \in Action
  BY HeadTailProperties DEF ApplyAction, TypeOK
<1>2. PICK m \in Listener : a = Added(m) \/ a = Removal(m)
  <2> HIDE DEF a
  <2> QED
    BY <1>1, ActionNames
<1>3. /\ pc = "apply" /\ pc' = "apply" /\ listener_action_queue_ # <<>>
      /\ UNCHANGED <<told, sessions, active_session>>
  BY DEF ApplyAction, viewVars, historyVars
<1>4. ASSUME NEW l \in Listener, In(listeners', l), told[l].session # 0
      PROVE  In(listeners, l)
  <2>1. CASE a = Added(m)
    <3>1. listeners' = Append(listeners, m)
      BY <2>1, ApplyAddPlaces
    <3>2. In(listeners', l) => In(listeners, l) \/ l = m
      BY <3>1, AppendIn DEF TypeOK
    <3>3. In(listener_action_queue_, Added(m))
      BY <1>3, <2>1, TailIn DEF TypeOK
    <3>4. told[m].session = 0
      BY <3>3 DEF Calls, Fresh
    <3> QED
      BY <1>4, <3>2, <3>4
  <2>2. CASE a = Removal(m)
    <3>1. PICK k \in 1 .. Len(listeners) : listeners' = RemoveAt(listeners, k)
      BY <2>2, ApplyRemovePlaces
    <3>2. In(listeners', l) => In(listeners, l)
      BY <3>1, RemoveAtIn DEF TypeOK, Places
    <3> QED
      BY <1>4, <3>2
  <2> QED
    BY <1>2, <2>1, <2>2
<1>5. \A l : ~ToldLost(l) /\ ~ToldLost(l)'
  BY <1>3 DEF ToldLost
<1> QED
  BY <1>3, <1>4, <1>5 DEF Heard

\* What a call tells the first listener that is to be called.
LEMMA WhatIsTold ==
  ASSUME TypeOK, Places, Lists, Calls, Views, Tells
  PROVE  LET h == Head(todo)
         IN  /\ \A l \in Listener : l # h => told'[l] = told[l]
             /\ \/ told'[h] = told[h] /\ pc \in {"tell_added", "tell_removed"}
                \/ /\ told'[h].session = active_session /\ active_session # 0
                   /\ \/ /\ pc = "tell_state"
                         /\ told'[h].state = prev_session_state
                      \/ pc = "tell_open" /\ told'[h].state # "session_lost"
                      \/ pc = "tell_lost" /\ told'[h].state = "session_lost"
                      \/ /\ pc = "tell_added" /\ told'[h].state # "session_lost"
                         /\ told[h].session = 0
<1>0. Head(todo) \in Listener
  BY TellFacts
<1>1. CASE CallSessionStateChanged
  BY <1>0, <1>1 DEF CallSessionStateChanged, TellState, TypeOK, Views, HasSession
<1>2. CASE CallSessionOpened
  BY <1>0, <1>2 DEF CallSessionOpened, TellState, TypeOK, Views, HasSession
<1>3. CASE CallSessionLost
  BY <1>0, <1>3 DEF CallSessionLost, TellState, TypeOK, Views, HasSession
<1>4. CASE CallListenerAdded
  <2>1. told[Head(todo)].session = 0
    BY <1>0, <1>4, TellFacts DEF Tells, CallListenerAdded, Calls, Fresh
  <2> QED
    BY <1>0, <1>4, <2>1 DEF CallListenerAdded, TypeOK, Views, HasSession
<1>5. CASE CallListenerRemoved
  BY <1>0, <1>5 DEF CallListenerRemoved
<1> QED
  BY <1>1, <1>2, <1>3, <1>4, <1>5 DEF Tells

\* ... and when a listener is told.
LEMMA TellHeard ==
  ASSUME TypeOK, Places, Lists, Calls, Views, Heard, Tells
  PROVE  Heard'
<1>0. PICK h \in Listener : h = Head(todo)
  BY TellFacts
<1>1. /\ In(todo, h) /\ In(listeners, h) /\ ~In(todo', h)
      /\ \A l : l # h => (In(todo', l) <=> In(todo, l))
      /\ UNCHANGED <<pc, listeners, prev_session_state, active_session, sessions>>
      /\ pc \in Telling
  BY <1>0, TellFacts DEF placeVars
<1>2. /\ \A l \in Listener : l # h => told'[l] = told[l]
      /\ \/ told'[h] = told[h] /\ pc \in {"tell_added", "tell_removed"}
         \/ /\ told'[h].session = active_session /\ active_session # 0
            /\ \/ pc = "tell_state" /\ told'[h].state = prev_session_state
               \/ pc = "tell_open" /\ told'[h].state # "session_lost"
               \/ pc = "tell_lost" /\ told'[h].state = "session_lost"
               \/ /\ pc = "tell_added" /\ told'[h].state # "session_lost"
                  /\ told[h].session = 0
  BY <1>0, WhatIsTold
<1>3. \A l \in Listener : l # h => (ToldLost(l)' <=> ToldLost(l))
  BY <1>1 DEF ToldLost
<1>4. active_session <= sessions
  BY MaxSessionsAssumption DEF Views, TypeOK, SessionNo
<1>5. ToldLost(h)' <=> \/ pc \in {"tell_removed", "tell_lost"}
                       \/ pc = "tell_state" /\ prev_session_state = "session_lost"
  BY <1>1 DEF ToldLost, Telling
<1>6. pc' \notin {"opened"}
  BY <1>1 DEF Telling
<1>7. ASSUME told'[h] = told[h], pc \in {"tell_added", "tell_removed"}
      PROVE  Heard'
  <2>1. ToldLost(h)' <=> ToldLost(h)
    BY <1>5, <1>7 DEF ToldLost
  <2>2. \A l \in Listener : told'[l] = told[l] /\ (ToldLost(l)' <=> ToldLost(l))
    BY <1>2, <1>3, <1>7, <2>1
  <2> QED
    BY <1>1, <1>6, <1>7, <2>2 DEF Heard
<1>8. ASSUME told'[h].session = active_session, active_session # 0,
             \/ pc = "tell_state" /\ told'[h].state = prev_session_state
             \/ pc = "tell_open" /\ told'[h].state # "session_lost"
             \/ pc = "tell_lost" /\ told'[h].state = "session_lost"
             \/ pc = "tell_added" /\ told'[h].state # "session_lost"
      PROVE  Heard'
  <2>1. told'[h].state = "session_lost" <=> ToldLost(h)'
    BY <1>5, <1>8
  <2>2. /\ \A l \in Listener : l # h => told'[l] = told[l]
        /\ \A l \in Listener : l # h => (In(todo', l) <=> In(todo, l))
        /\ ~In(todo', h)
    BY <1>1, <1>2
  <2> SUFFICES ASSUME NEW l \in Listener
               PROVE  /\ told'[l].session <= sessions'
                      /\ told'[l].session = 0 => told'[l].state # "session_lost"
                      /\ pc' = "opened" => told'[l].session < active_session'
                      /\ pc' = "tell_open" /\ In(todo', l) =>
                           told'[l].session < active_session'
                      /\ In(listeners', l) /\ told'[l].session # 0 =>
                           (told'[l].state = "session_lost" <=>
                              told'[l].session # active_session' \/ ToldLost(l)')
    BY DEF Heard
  <2>3. CASE l = h
    BY <1>1, <1>4, <1>6, <1>8, <2>1, <2>3
  <2>4. CASE l # h
    <3>1. told'[l] = told[l] /\ (In(todo', l) <=> In(todo, l))
          /\ (ToldLost(l)' <=> ToldLost(l))
      BY <1>3, <2>2, <2>4
    <3> QED
      BY <1>1, <1>6, <3>1 DEF Heard
  <2> QED
    BY <2>3, <2>4
<1> QED
  BY <1>2, <1>7, <1>8

LEMMA HeardStep ==
  ASSUME TypeOK, Places, Lists, Calls, Views, Heard, [Next]_vars
  PROVE  Heard'
  BY StillHeard, SessionHeard, ApplyHeard, TellHeard

----------------------------------------------------------------------------
(* ApiWorker: the theorems. *)

\* Every state of the worker has its type, and the invariant above holds in it.
THEOREM WorkerInvariant == Spec => []WorkerInv
<1>1. Init => WorkerInv
  BY InitType, InitPlaces, InitLists, InitEnds, InitCalls, InitViews, InitHeard
  DEF WorkerInv
<1>2. WorkerInv /\ [Next]_vars => WorkerInv'
  <2> SUFFICES ASSUME WorkerInv, [Next]_vars PROVE WorkerInv'
    OBVIOUS
  <2>1. TypeOK'
    BY TypeStep DEF WorkerInv, Places, Lists
  <2>2. Places' /\ Lists' /\ Ends'
    BY PlacesStep, ListsStep, EndsStep DEF WorkerInv
  <2>3. Calls' /\ Views' /\ Heard'
    BY CallsStep, ViewsStep, HeardStep DEF WorkerInv
  <2> QED
    BY <2>1, <2>2, <2>3 DEF WorkerInv
<1> QED
  BY <1>1, <1>2, PTL DEF Spec

\* However many listeners are added and removed, in whatever batches: when
\* removeListener() has returned, the thread neither has its listener in its
\* list nor is about to call it.
THEOREM NoLateCall == Spec => []NoCallAfterRemove
<1>1. WorkerInv => NoCallAfterRemove
  <2> SUFFICES ASSUME WorkerInv, NEW l \in Listener, user[l] = "gone"
               PROVE  l \notin Range(listeners \o todo)
    BY DEF NoCallAfterRemove
  <2>1. ~In(listeners, l)
    BY DEF WorkerInv, Places, Placed
  <2>2. ~In(todo, l)
    BY <2>1 DEF WorkerInv, Lists
  <2>3. listeners \in Seq(Listener) /\ todo \in Seq(Listener)
    BY DEF WorkerInv, TypeOK
  <2>4. /\ listeners \o todo \in Seq(Listener)
        /\ Len(listeners \o todo) = Len(listeners) + Len(todo)
        /\ \A i \in 1 .. Len(listeners) + Len(todo) :
             (listeners \o todo)[i] =
               IF i <= Len(listeners) THEN listeners[i]
               ELSE todo[i - Len(listeners)]
    BY <2>3, ConcatProperties
  <2>5. ~In(listeners \o todo, l)
    <3> SUFFICES ASSUME NEW i \in 1 .. Len(listeners) + Len(todo),
                        (listeners \o todo)[i] = l
                 PROVE  FALSE
      BY <2>4 DEF In
    <3>1. Len(listeners) \in Nat /\ Len(todo) \in Nat
      BY <2>3
    <3>2. CASE i <= Len(listeners)
      BY <2>1, <2>4, <3>1, <3>2 DEF In
    <3>3. CASE i > Len(listeners)
      <4>1. /\ i - Len(listeners) \in 1 .. Len(todo)
            /\ todo[i - Len(listeners)] = l
        BY <2>4, <3>1, <3>3
      <4> QED
        BY <2>2, <4>1 DEF In
    <3> QED
      BY <3>1, <3>2, <3>3
  <2> QED
    BY <2>4, <2>5, RangeIn
<1> QED
  BY <1>1, WorkerInvariant, PTL

\* No listener is told twice that it was added or removed, and the thread does
\* not end before each listener that was ever handed to addListener() has been
\* told of its removal.
THEOREM RemovedExactlyOnce == Spec => []RemovedOnce
<1>1. WorkerInv => RemovedOnce
  <2> SUFFICES ASSUME WorkerInv, NEW l \in Listener
               PROVE  /\ added[l] < 2 /\ removed[l] < 2
                      /\ pc = "done" /\ user[l] # "out" => removed[l] = 1
    BY DEF RemovedOnce
  <2>1. added[l] < 2 /\ removed[l] = IF WasRemoved(l) THEN 1 ELSE 0
    BY DEF WorkerInv, Calls
  <2>2. ASSUME pc = "done", user[l] # "out" PROVE WasRemoved(l)
    <3>1. listener_action_queue_ = <<>> /\ removed_listeners = <<>> /\ todo = <<>>
      BY <2>2 DEF WorkerInv, Ends, Lists, Telling
    <3>2. In(listeners, l) \/ action_complete[l]
      BY <2>2, <3>1, EmptyFacts DEF WorkerInv, Places, Placed
    <3> QED
      BY <2>2, <3>1, <3>2, EmptyFacts DEF WasRemoved
  <2> QED
    BY <2>1, <2>2
<1> QED
  BY <1>1, WorkerInvariant, PTL

\* However many sessions come and go: a listener hears of the next one only
\* when the last one was told to be lost, and nothing more of one that was.
THEOREM InTurn == Spec => SessionsInTurn
<1>1. WorkerInv /\ [Next]_vars =>
        [\A l \in Listener :
           told'[l] # told[l] =>
             IF told[l].session \in {0, told'[l].session}
               THEN told[l].state # "session_lost"
               ELSE /\ told[l].state = "session_lost"
                    /\ told'[l].session > told[l].session]_vars
  <2> SUFFICES ASSUME WorkerInv, Next, NEW l \in Listener, told'[l] # told[l]
               PROVE  IF told[l].session \in {0, told'[l].session}
                        THEN told[l].state # "session_lost"
                        ELSE /\ told[l].state = "session_lost"
                             /\ told'[l].session > told[l].session
    OBVIOUS
  <2>1. Tells
    BY DEF Next, Loop, Open, Tells, AddListener, RemoveListener, QueueAction,
           RemoveReturn, Destroy, Join, Register, RegisterFailed, UserClose,
           KeepAliveExpired, Disconnected, ConnectionClosed, RunInvalid,
           RunReturn, Returns, Restart, Enter, CheckFlags, StateTold, CloseLost,
           ClearLost, OpenSession, OpenFailed, OpenTold, Opened, AddedTold,
           Ending, CloseAtEnd, ThreadEnd, TakeQueue, ApplyAction, QueueTaken,
           CallListenersRemoved, historyVars
  <2>2. l = Head(todo) /\ In(todo, l) /\ In(listeners, l)
    BY <2>1, TellFacts, WhatIsTold DEF WorkerInv
  <2>3. /\ told'[l].session = active_session /\ active_session # 0
        /\ \/ pc \in {"tell_state", "tell_open", "tell_lost"}
           \/ told[l].session = 0
    BY <2>1, <2>2, WhatIsTold DEF WorkerInv
  <2>4. /\ told[l].session = 0 => told[l].state # "session_lost"
        /\ told[l].session <= sessions
        /\ told[l].session # 0 =>
             (told[l].state = "session_lost" <=>
                told[l].session # active_session \/ ToldLost(l))
    BY <2>2 DEF WorkerInv, Heard
  <2>5. told[l].session # 0 => ~ToldLost(l)
    BY <2>2, <2>3 DEF ToldLost
  <2>6. /\ active_session = sessions /\ sessions \in Nat
        /\ told[l].session \in Nat
    BY <2>3, MaxSessionsAssumption DEF WorkerInv, Views, TypeOK, SessionNo
  <2> QED
    BY <2>3, <2>4, <2>5, <2>6
<1> QED
  BY <1>1, WorkerInvariant, PTL DEF Spec, SessionsInTurn
=============================================================================
