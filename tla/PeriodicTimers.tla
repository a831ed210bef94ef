--------------------------- MODULE PeriodicTimers ---------------------------
(***************************************************************************)
(* Session::createPeriodicTimer() and PeriodicTimerHandle                   *)
(* (core/src/session.cpp, core/inc/sc-api/core/session.h) against the thread*)
(* that runs the session's io_context.                                      *)
(*                                                                         *)
(* A timer lives in periodic_timers until its handle is destroyed; the      *)
(* handler of its wait keeps a reference to it, calls the callback and waits*)
(* again.  Destroying and closing take Session::m_, a handler does not.     *)
(* asio (external): cancel() makes a wait that has not expired end with an  *)
(* error; a handler that is queued already is not called back; io_ctx.stop()*)
(* lets the running handler end and starts no other.                        *)
(***************************************************************************)
EXTENDS Naturals

CONSTANTS Timer,      \* the timers
          MaxTicks    \* bound: callbacks per timer

ASSUME MaxTicksAssumption == MaxTicks \in Nat

VARIABLES
  timer,    \* per timer: "none", "mapped" in periodic_timers, or "erased"
  wait,     \* per timer: its wait, "none", "pending", "fired" (its handler is
            \* queued), "aborted" (queued with an error), "running" (the
            \* callback), "rearm" (it has returned) or "undefined"
  handle,   \* per timer: "none", "held", "moved" or "destroyed"
  ticks,    \* per timer: callbacks
  closed,   \* close() has been called; api_ = nullptr
  io_stopped,  \* of io_ctx
  io,       \* runUntilStateChanges(): "out", "enter" after its check of api_,
            \* "run" in io_ctx.run()
  late,     \* history, per timer: its handler was queued or running when its
            \* handle was destroyed
  stale     \* history: close() came after that check and before restart()

ioVars == <<closed, io_stopped, io>>
timerVars == <<timer, wait, handle, ticks, ioVars, late, stale>>

TimersTypeOK ==
  /\ timer \in [Timer -> {"none", "mapped", "erased"}]
  /\ wait \in [Timer -> {"none", "pending", "fired", "aborted", "running",
                         "rearm", "undefined"}]
  /\ handle \in [Timer -> {"none", "held", "moved", "destroyed"}]
  /\ ticks \in [Timer -> 0 .. MaxTicks]
  /\ closed \in BOOLEAN /\ io_stopped \in BOOLEAN
  /\ io \in {"out", "enter", "run"}
  /\ late \in [Timer -> BOOLEAN] /\ stale \in BOOLEAN

TimersInit ==
  /\ timer = [i \in Timer |-> "none"] /\ wait = [i \in Timer |-> "none"]
  /\ handle = [i \in Timer |-> "none"] /\ ticks = [i \in Timer |-> 0]
  /\ closed = FALSE /\ io_stopped = FALSE /\ io = "out"
  /\ late = [i \in Timer |-> FALSE] /\ stale = FALSE

----------------------------------------------------------------------------
(* The user of the session. *)

\* createPeriodicTimer()
Create(i) ==
  /\ timer[i] = "none"
  /\ timer' = [timer EXCEPT ![i] = "mapped"]
  /\ wait' = [wait EXCEPT ![i] = "pending"]
  /\ handle' = [handle EXCEPT ![i] = "held"]
  /\ UNCHANGED <<ticks, ioVars, late, stale>>

\* The move constructor and the move assignment swap handle_ alone: session_
\* of the new handle is empty.
Move(i) ==
  /\ handle[i] = "held"
  /\ handle' = [handle EXCEPT ![i] = "moved"]
  /\ UNCHANGED <<timer, wait, ticks, ioVars, late, stale>>

Cancelled(w) == IF w = "pending" THEN "aborted" ELSE w

\* Mutant: the timer is taken out of the map without being cancelled.
CancelOne_Not(i) == wait

CancelOne(i) == [wait EXCEPT ![i] = Cancelled(@)]

\* PeriodicTimerHandle::destroy(), on any thread, in a callback too.  With an
\* empty session_ it does nothing.
DestroyHandle(i) ==
  /\ handle[i] \in {"held", "moved"}
  /\ handle' = [handle EXCEPT ![i] = "destroyed"]
  /\ IF handle[i] = "held"
     THEN /\ timer' = [timer EXCEPT ![i] = "erased"]
          /\ wait' = CancelOne(i)
          /\ late' = [late EXCEPT ![i] = wait[i] \in {"fired", "running", "rearm"}]
     ELSE UNCHANGED <<timer, wait, late>>
  /\ UNCHANGED <<ticks, ioVars, stale>>

\* close() cancels the timers of the map and stops io_ctx.
Close ==
  /\ ~closed /\ closed' = TRUE /\ io_stopped' = TRUE
  /\ wait' = [i \in Timer |->
                IF timer[i] = "mapped" THEN Cancelled(wait[i]) ELSE wait[i]]
  /\ stale' = (io = "enter")
  /\ UNCHANGED <<timer, handle, ticks, io, late>>

\* Session::stop(), for instance from Api::addListener().
Stop ==
  /\ ~io_stopped /\ io_stopped' = TRUE
  /\ UNCHANGED <<timer, wait, handle, ticks, closed, io, late, stale>>

----------------------------------------------------------------------------
(* The thread in runUntilStateChanges(). *)

CheckApi ==
  /\ io = "out" /\ ~closed /\ io' = "enter"
  /\ UNCHANGED <<timer, wait, handle, ticks, closed, io_stopped, late, stale>>

RestartIo ==
  /\ io = "enter" /\ io' = "run" /\ io_stopped' = FALSE
  /\ UNCHANGED <<timer, wait, handle, ticks, closed, late, stale>>

Running(i) == wait[i] \in {"running", "rearm"}

Return ==
  /\ io = "run" /\ io_stopped /\ \A i \in Timer : ~Running(i)
  /\ io' = "out"
  /\ UNCHANGED <<timer, wait, handle, ticks, closed, io_stopped, late, stale>>

Free == io = "run" /\ ~io_stopped /\ \A i \in Timer : ~Running(i)

\* A wait expires: its handler is queued.
Expire(i) ==
  /\ Free /\ wait[i] = "pending" /\ ticks[i] < MaxTicks
  /\ wait' = [wait EXCEPT ![i] = "fired"]
  /\ UNCHANGED <<timer, handle, ticks, ioVars, late, stale>>

\* The handler of startPeriodicTimer(): nothing after an error, ...
Aborted(i) ==
  /\ Free /\ wait[i] = "aborted"
  /\ wait' = [wait EXCEPT ![i] = "none"]
  /\ UNCHANGED <<timer, handle, ticks, ioVars, late, stale>>

\* ... else the callback ...
Callback(i) ==
  /\ Free /\ wait[i] = "fired"
  /\ wait' = [wait EXCEPT ![i] = "running"]
  /\ ticks' = [ticks EXCEPT ![i] = @ + 1]
  /\ UNCHANGED <<timer, handle, ioVars, late, stale>>

CallbackReturns(i) ==
  /\ wait[i] = "running"
  /\ wait' = [wait EXCEPT ![i] = "rearm"]
  /\ UNCHANGED <<timer, handle, ticks, ioVars, late, stale>>

\* Mutant: the timer is not started again.
Rearmed_Not(i) == "none"

\* Starting a timer that is destroyed is undefined.
Rearmed(i) == IF timer[i] = "mapped" THEN "pending" ELSE "undefined"

\* ... and startPeriodicTimer() on the timer it refers to.
Rearm(i) ==
  /\ wait[i] = "rearm"
  /\ wait' = [wait EXCEPT ![i] = Rearmed(i)]
  /\ UNCHANGED <<timer, handle, ticks, ioVars, late, stale>>

----------------------------------------------------------------------------

RunStep ==
  \/ CheckApi \/ RestartIo \/ Return
  \/ \E i \in Timer : Aborted(i) \/ Callback(i) \/ CallbackReturns(i) \/ Rearm(i)

TimersNext ==
  \/ RunStep \/ Close \/ Stop
  \/ \E i \in Timer : Create(i) \/ Move(i) \/ DestroyHandle(i) \/ Expire(i)

\* A thread calls runUntilStateChanges() again and again; while it is in
\* io_ctx.run() time passes and handlers are taken in the order they were
\* queued, so that one timer does not keep another from its turn; a callback
\* returns.
TimersFairness ==
  /\ WF_timerVars(CheckApi) /\ WF_timerVars(RestartIo) /\ WF_timerVars(Return)
  /\ \A i \in Timer :
       /\ SF_timerVars(Expire(i)) /\ SF_timerVars(Callback(i))
       /\ WF_timerVars(CallbackReturns(i)) /\ WF_timerVars(Rearm(i))

TimersSpec == TimersInit /\ [][TimersNext]_timerVars /\ TimersFairness

----------------------------------------------------------------------------
(* Properties *)

\* A handler starts a timer that is destroyed only if it was queued, or running
\* (the callback that destroys its own handle included), when the handle was
\* destroyed (session.cpp:706, 722).
DestroyedInTime ==
  \A i \in Timer : wait[i] = "undefined" => late[i]

\* A callback begins after its handle was destroyed only in that case or if the
\* handle was moved before, and then only once in the first case.
QuietAfterDestroy ==
  [][\A i \in Timer :
       wait'[i] = "running" /\ wait[i] # "running" /\ handle[i] = "destroyed"
         => \/ timer[i] = "mapped"
            \/ late[i] /\ wait[i] = "fired"]_timerVars

\* After close() a callback begins only if runUntilStateChanges() has looked at
\* api_ before close() and restarts io_ctx after it (session.cpp:522-527).
QuietAfterClose ==
  [][\A i \in Timer :
       wait'[i] = "running" /\ wait[i] # "running" /\ closed => stale]_timerVars

\* A timer of an open session whose handle is not destroyed ticks on, moved or
\* not, once io_ctx is not stopped any more.
TicksOn ==
  <>[](~io_stopped) =>
    \A i \in Timer : \A n \in 0 .. MaxTicks - 1 :
      handle[i] \in {"held", "moved"} /\ ticks[i] = n
        ~> ticks[i] > n \/ handle[i] = "destroyed" \/ closed
=============================================================================
