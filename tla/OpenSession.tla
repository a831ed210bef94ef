---------------------------- MODULE OpenSession ----------------------------
(***************************************************************************)
(* Opening and closing sessions: ApiCore::Impl (core/src/api_core.cpp) and  *)
(* the locks that it shares with Session (core/src/session.cpp).            *)
(*                                                                         *)
(* The backend publishes its session in the core block of shared memory and *)
(* makes revision_counter odd while it does.  openSession() copies the      *)
(* reference optimistically, opens the block it names, and makes the session*)
(* the active one, all under Impl::m_.  close() takes Session::m_ and then  *)
(* Impl::m_; createEventQueue() takes them in the other order.              *)
(*                                                                         *)
(* The k-th session of the backend is the number k: it is the id and the    *)
(* path in the core block, and the id in its own block.  The n-th Session   *)
(* object is the number n, 0 is nullptr.  Memory is sequentially consistent.*)
(* A reference to a session that an undelivered event keeps is left out.    *)
(***************************************************************************)
EXTENDS Naturals, FiniteSets

CONSTANTS Thread,       \* threads of the program that use the ApiCore
          MaxUpdates,   \* bound: updates of the core block by the backend
          Incompatible, \* backend sessions that tryOpeningSession() refuses
          MaxBusy,      \* bound: copies that fit into timeout_duration
          MaxObjects,   \* bound: Session objects
          MaxCalls      \* bound: calls

ASSUME BoundsAssumption ==
  /\ MaxUpdates \in Nat /\ MaxBusy \in Nat \ {0}
  /\ MaxObjects \in Nat /\ MaxCalls \in Nat
ASSUME NoThreadAssumption == "none" \notin Thread

Object == 1 .. MaxObjects
Backend == 0 .. MaxUpdates
Field == [active : BOOLEAN, id : Backend, path : Backend]

VARIABLES
  revision_counter, core,   \* the core block: its counter and its fields
  target,                   \* what the update in progress writes there
  alive,                    \* backend sessions whose block is ACTIVE
  m_, sm_,                  \* holder of Impl::m_, of each Session::m_
  active_session_,          \* Impl's session
  objects,                  \* per Session: state_, api_ and the backend session
  handles,                  \* per thread: its shared_ptr<Session>
  pc,                       \* per thread: where it is
  session_ref,              \* openSession(): the stack slot of session_ref,
  start_revision, copied,   \* ... the revision it starts at, whether it is whole
  busy,                     \* ... the failed copies
  arg,                      \* per thread: the session its call is about
  api,                      \* ApiCore: "alive" or "destroyed"
  calls                     \* number of calls

backendVars == <<revision_counter, core, target, alive>>
lockVars == <<m_, sm_>>
copyVars == <<session_ref, start_revision, copied, busy>>
vars == <<backendVars, lockVars, active_session_, objects, handles, pc,
          copyVars, arg, api, calls>>

Opening == {"core", "loop", "state", "id", "path", "check", "block",
            "refs", "construct", "get"}

TypeOK ==
  /\ revision_counter \in 0 .. 2 * MaxUpdates
  /\ core \in Field /\ target \in Field
  /\ alive \subseteq Backend
  /\ m_ \in Thread \cup {"none"}
  /\ sm_ \in [Object -> Thread \cup {"none"}]
  /\ active_session_ \in 0 .. MaxObjects
  /\ objects \in [Object -> [state : {"unused", "open", "invalid", "dead"},
                             api : BOOLEAN, of : Backend]]
  /\ handles \in [Thread -> SUBSET Object]
  /\ pc \in [Thread -> Opening \cup {"idle", "queue", "close", "closed",
                                     "registering"}]
  /\ session_ref \in [Thread -> [id : Backend, path : Backend]]
  /\ start_revision \in [Thread -> 0 .. 2 * MaxUpdates]
  /\ copied \in [Thread -> BOOLEAN]
  /\ busy \in [Thread -> 0 .. MaxBusy]
  /\ arg \in [Thread -> 0 .. MaxObjects]
  /\ api \in {"alive", "destroyed"}
  /\ calls \in 0 .. MaxCalls

\* The path 0 names no shared memory: what an uninitialised session_ref holds.
Init ==
  /\ revision_counter = 0
  /\ core = [active |-> FALSE, id |-> 0, path |-> 0] /\ target = core
  /\ alive = {}
  /\ m_ = "none" /\ sm_ = [s \in Object |-> "none"]
  /\ active_session_ = 0
  /\ objects = [s \in Object |-> [state |-> "unused", api |-> FALSE, of |-> 0]]
  /\ handles = [t \in Thread |-> {}]
  /\ pc = [t \in Thread |-> "idle"]
  /\ session_ref = [t \in Thread |-> [id |-> 0, path |-> 0]]
  /\ start_revision = [t \in Thread |-> 0]
  /\ copied = [t \in Thread |-> FALSE]
  /\ busy = [t \in Thread |-> 0]
  /\ arg = [t \in Thread |-> 0]
  /\ api = "alive" /\ calls = 0

Go(t, from, to) == pc[t] = from /\ pc' = [pc EXCEPT ![t] = to]

----------------------------------------------------------------------------
(* The backend (external): a session's block is complete before the core   *)
(* block names it.                                                          *)

Publish ==
  /\ revision_counter % 2 = 0 /\ revision_counter < 2 * MaxUpdates
  /\ revision_counter' = revision_counter + 1
  /\ LET k == revision_counter \div 2 + 1
     IN \/ /\ target' = [active |-> TRUE, id |-> k, path |-> k]
           /\ alive' = alive \cup {k}
        \/ target' = [core EXCEPT !.active = FALSE] /\ UNCHANGED alive
  /\ UNCHANGED <<core, lockVars, active_session_, objects, handles, pc,
                 copyVars, arg, api, calls>>

WriteField(f) ==
  /\ revision_counter % 2 = 1
  /\ core[f] # target[f]
  /\ core' = [core EXCEPT ![f] = target[f]]
  /\ UNCHANGED <<revision_counter, target, alive, lockVars, active_session_,
                 objects, handles, pc, copyVars, arg, api, calls>>

Published ==
  /\ revision_counter % 2 = 1 /\ core = target
  /\ revision_counter' = revision_counter + 1
  /\ UNCHANGED <<core, target, alive, lockVars, active_session_, objects,
                 handles, pc, copyVars, arg, api, calls>>

\* The backend ends a session, properly or not.
SessionEnds(k) ==
  /\ k \in alive /\ alive' = alive \ {k}
  /\ UNCHANGED <<revision_counter, core, target, lockVars, active_session_,
                 objects, handles, pc, copyVars, arg, api, calls>>

----------------------------------------------------------------------------
(* ApiCore::openSession() *)

Idle(t) == pc[t] = "idle" /\ api = "alive" /\ calls < MaxCalls
TakeM(t) == m_ = "none" /\ m_' = t

\* session_state_ is never assigned, so its check always passes.
OpenSession(t) ==
  /\ Idle(t) /\ TakeM(t)
  /\ Cardinality({s \in Object : objects[s].state = "unused"}) > 0
  /\ Go(t, "idle", "core")
  /\ busy' = [busy EXCEPT ![t] = 0]
  /\ calls' = calls + 1
  /\ UNCHANGED <<backendVars, sm_, active_session_, objects, handles,
                 session_ref, start_revision, copied, arg, api>>

\* It fails: the locals are dead, session_ref stays on the stack.
Fail(t) ==
  /\ m_' = "none"
  /\ pc' = [pc EXCEPT ![t] = "idle"]
  /\ busy' = [busy EXCEPT ![t] = 0]
  /\ start_revision' = [start_revision EXCEPT ![t] = 0]
  /\ copied' = [copied EXCEPT ![t] = FALSE]

\* openCoreShmHandle(): the core block is there once the backend has run.
OpenCoreShmHandle(t) ==
  /\ pc[t] = "core"
  /\ IF revision_counter = 0
     THEN Fail(t)
     ELSE /\ Go(t, "core", "loop")
          /\ UNCHANGED <<m_, busy, start_revision, copied>>
  /\ UNCHANGED <<backendVars, sm_, active_session_, objects, handles,
                 session_ref, arg, api, calls>>

\* A mutant: the loop goes on.
TimeOut_Never(t) == pc[t] = "loop" /\ busy[t] > 0 /\ UNCHANGED vars

\* The loop is over when timeout_duration is: error_timeout.
TimeOut(t) ==
  /\ pc[t] = "loop" /\ busy[t] > 0
  /\ Fail(t)
  /\ UNCHANGED <<backendVars, sm_, active_session_, objects, handles,
                 session_ref, arg, api, calls>>

\* error_busy: another round.
Busy(t) ==
  /\ pc' = [pc EXCEPT ![t] = "loop"]
  /\ busy' = [busy EXCEPT ![t] = @ + 1]

\* tryCopySessionRef(): the revision must be even ...
ReadRevision(t) ==
  /\ pc[t] = "loop" /\ busy[t] < MaxBusy
  /\ start_revision' = [start_revision EXCEPT ![t] = revision_counter]
  /\ IF revision_counter % 2 = 1
     THEN Busy(t)
     ELSE Go(t, "loop", "state") /\ UNCHANGED busy
  /\ copied' = [copied EXCEPT ![t] = FALSE]
  /\ UNCHANGED <<backendVars, lockVars, active_session_, objects, handles,
                 session_ref, arg, api, calls>>

\* ... the backend active; openSession() ignores that error and goes on with
\* whatever session_ref holds ...
ReadState(t) ==
  /\ Go(t, "state", IF core.active THEN "id" ELSE "block")
  /\ UNCHANGED <<backendVars, lockVars, active_session_, objects, handles,
                 copyVars, arg, api, calls>>

ReadId(t) ==
  /\ Go(t, "id", "path")
  /\ session_ref' = [session_ref EXCEPT ![t].id = core.id]
  /\ UNCHANGED <<backendVars, lockVars, active_session_, objects, handles,
                 start_revision, copied, busy, arg, api, calls>>

ReadPath(t) ==
  /\ Go(t, "path", "check")
  /\ session_ref' = [session_ref EXCEPT ![t].path = core.path]
  /\ UNCHANGED <<backendVars, lockVars, active_session_, objects, handles,
                 start_revision, copied, busy, arg, api, calls>>

\* Mutant: the revision is not compared.
Undisturbed_Always(t) == TRUE

Undisturbed(t) == revision_counter = start_revision[t]

\* ... and the revision unchanged.
CheckRevision(t) ==
  /\ pc[t] = "check"
  /\ IF Undisturbed(t)
     THEN /\ Go(t, "check", "block")
          /\ copied' = [copied EXCEPT ![t] = TRUE] /\ UNCHANGED busy
     ELSE Busy(t) /\ UNCHANGED copied
  /\ UNCHANGED <<backendVars, lockVars, active_session_, objects, handles,
                 session_ref, start_revision, arg, api, calls>>

\* The block that session_ref.path names must have its id and be ACTIVE.
OpenBlock(t) ==
  /\ pc[t] = "block"
  /\ IF session_ref[t].id = session_ref[t].path /\ session_ref[t].path \in alive
     THEN Go(t, "block", "refs") /\ UNCHANGED <<m_, busy, start_revision, copied>>
     ELSE Fail(t)
  /\ UNCHANGED <<backendVars, sm_, active_session_, objects, handles,
                 session_ref, arg, api, calls>>

\* tryOpeningSession(): versions, packet sizes, references and keys are fine,
\* and the core block still names the session.
CheckSession(t) ==
  /\ pc[t] = "refs"
  /\ IF session_ref[t].id \notin Incompatible /\ core.id = session_ref[t].id
     THEN Go(t, "refs", "construct")
          /\ UNCHANGED <<m_, busy, start_revision, copied>>
     ELSE Fail(t)
  /\ UNCHANGED <<backendVars, sm_, active_session_, objects, handles,
                 session_ref, arg, api, calls>>

\* One of the session's blocks cannot be opened: the backend is gone.
OpenBlocksFailed(t) ==
  /\ pc[t] = "construct" /\ session_ref[t].id \notin alive
  /\ Fail(t)
  /\ UNCHANGED <<backendVars, sm_, active_session_, objects, handles,
                 session_ref, arg, api, calls>>

Held(s) == active_session_ = s \/ \E t \in Thread : s \in handles[t]
HandleHeld(s) == \E t \in Thread : s \in handles[t]

\* Mutant: m_ is not given back before getSession().
Unlock_Late(t) == UNCHANGED m_

Unlock(t) == m_' = "none"

\* active_session_ = constructSession(): the Session that was there is
\* destroyed, under m_, when nobody else refers to it.
Construct(t) ==
  /\ pc[t] = "construct"
  /\ LET n == CHOOSE o \in Object :
                /\ objects[o].state = "unused"
                /\ \A q \in Object : objects[q].state = "unused" => o <= q
         old == active_session_
     IN /\ objects' = [objects EXCEPT ![n] =
             [state |-> "open", api |-> TRUE, of |-> session_ref[t].id]]
        /\ active_session_' = n
        /\ IF old # 0 /\ ~HandleHeld(old)
           THEN /\ Go(t, "construct", "close")
                /\ arg' = [arg EXCEPT ![t] = old]
                /\ UNCHANGED m_
           ELSE /\ Go(t, "construct", "get")
                /\ arg' = [arg EXCEPT ![t] = n]
                /\ Unlock(t)
  /\ busy' = [busy EXCEPT ![t] = 0]
  /\ start_revision' = [start_revision EXCEPT ![t] = 0]
  /\ copied' = [copied EXCEPT ![t] = FALSE]
  /\ UNCHANGED <<backendVars, sm_, handles, session_ref, api, calls>>

Keep(t, s) == handles' = [handles EXCEPT ![t] = @ \cup ({s} \ {0})]
Return(t) ==
  pc' = [pc EXCEPT ![t] = "idle"] /\ arg' = [arg EXCEPT ![t] = 0]

\* session_handle_out = getSession(), with m_ taken again.
GetSession(t) ==
  /\ pc[t] = "get" /\ m_ = "none"
  /\ Keep(t, active_session_)
  /\ Return(t)
  /\ UNCHANGED <<backendVars, lockVars, active_session_, objects, copyVars,
                 api, calls>>

GetOpenSession(t) ==
  /\ Idle(t) /\ m_ = "none" /\ active_session_ \notin handles[t] \cup {0}
  /\ Keep(t, active_session_)
  /\ calls' = calls + 1
  /\ UNCHANGED <<backendVars, lockVars, active_session_, objects, pc,
                 copyVars, arg, api>>

----------------------------------------------------------------------------
(* Session::close(), ~Session(), registerToControl(), createEventQueue() *)

Begin(t, place, s) ==
  /\ pc' = [pc EXCEPT ![t] = place] /\ arg' = [arg EXCEPT ![t] = s]

Close(t, s) ==
  /\ pc[t] = "idle" /\ s \in handles[t] /\ calls < MaxCalls
  /\ Begin(t, "close", s)
  /\ calls' = calls + 1
  /\ UNCHANGED <<backendVars, lockVars, active_session_, objects, handles,
                 copyVars, api>>

\* A thread lets its handle go; the last one destroys the session.
DropHandle(t, s) ==
  /\ pc[t] = "idle" /\ s \in handles[t]
  /\ handles' = [handles EXCEPT ![t] = @ \ {s}]
  /\ IF active_session_ = s \/ \E u \in Thread \ {t} : s \in handles[u]
     THEN UNCHANGED <<pc, arg>>
     ELSE Begin(t, "close", s)
  /\ UNCHANGED <<backendVars, lockVars, active_session_, objects, copyVars,
                 api, calls>>

\* What is left of a session when close() or ~Session() is over.
Closed(s) == IF Held(s) THEN "invalid" ELSE "dead"

\* close() takes Session::m_; with api_ it goes on to sessionClosed() ...
CloseLock(t) ==
  LET s == arg[t]
      attached == objects[s].state = "open" /\ objects[s].api
  IN /\ pc[t] = "close" /\ sm_[s] = "none"
     /\ objects' = [objects EXCEPT
                      ![s].state = IF attached THEN "invalid" ELSE Closed(s)]
     /\ IF attached
        THEN Begin(t, "closed", s) /\ sm_' = [sm_ EXCEPT ![s] = t]
        ELSE Return(t) /\ UNCHANGED sm_
     /\ UNCHANGED <<backendVars, m_, active_session_, handles, copyVars, api,
                    calls>>

\* Mutant: sessionClosed() does not look which session it is.
Forget_Any(s) == 0

Forget(s) == IF active_session_ = s THEN 0 ELSE active_session_

\* ... which takes Impl::m_; then api_ = nullptr.
SessionClosed(t) ==
  LET s == arg[t]
  IN /\ pc[t] = "closed" /\ m_ = "none"
     /\ active_session_' = Forget(s)
     /\ objects' = [objects EXCEPT
          ![s].api = FALSE,
          ![s].state = IF HandleHeld(s) THEN "invalid" ELSE "dead"]
     /\ sm_' = [sm_ EXCEPT ![s] = "none"]
     /\ Return(t)
     /\ UNCHANGED <<backendVars, m_, handles, copyVars, api, calls>>

\* registerToControl() holds Session::m_ while it waits for the backend.
RegisterToControl(t, s) ==
  /\ pc[t] = "idle" /\ s \in handles[t] /\ calls < MaxCalls
  /\ sm_[s] = "none" /\ sm_' = [sm_ EXCEPT ![s] = t]
  /\ Begin(t, "registering", s)
  /\ calls' = calls + 1
  /\ UNCHANGED <<backendVars, m_, active_session_, objects, handles,
                 copyVars, api>>

Registered(t) ==
  /\ pc[t] = "registering"
  /\ sm_' = [sm_ EXCEPT ![arg[t]] = "none"]
  /\ Return(t)
  /\ UNCHANGED <<backendVars, m_, active_session_, objects, handles,
                 copyVars, api, calls>>

\* createEventQueue() with a session takes Impl::m_ ...
CreateEventQueue(t) ==
  /\ Idle(t) /\ active_session_ # 0 /\ TakeM(t)
  /\ Begin(t, "queue", active_session_)
  /\ calls' = calls + 1
  /\ UNCHANGED <<backendVars, sm_, active_session_, objects, handles,
                 copyVars, api>>

\* ... and Session::m_, pushes the session's state and adds the queue.
AddEventQueue(t) ==
  /\ pc[t] = "queue" /\ sm_[arg[t]] = "none"
  /\ m_' = "none"
  /\ Return(t)
  /\ UNCHANGED <<backendVars, sm_, active_session_, objects, handles,
                 copyVars, api, calls>>

\* ~Impl() detaches the active session.
Detach(s) == [objects EXCEPT ![s].api = FALSE,
                             ![s].state = IF HandleHeld(s) THEN @ ELSE "dead"]

\* ~ApiCore(): no call is in progress, and no other session is open.
DestroyApi ==
  /\ api = "alive" /\ \A t \in Thread : pc[t] = "idle"
  /\ \A s \in Object : objects[s].state = "open" => s = active_session_
  /\ api' = "destroyed"
  /\ objects' = IF active_session_ = 0 THEN objects ELSE Detach(active_session_)
  /\ active_session_' = 0
  /\ UNCHANGED <<backendVars, lockVars, handles, pc, copyVars, arg, calls>>

----------------------------------------------------------------------------

OpenStep(t) ==
  \/ OpenCoreShmHandle(t) \/ TimeOut(t)
  \/ ReadRevision(t) \/ ReadState(t) \/ ReadId(t) \/ ReadPath(t)
  \/ CheckRevision(t) \/ OpenBlock(t) \/ CheckSession(t)
  \/ OpenBlocksFailed(t) \/ Construct(t) \/ GetSession(t)

LockStep(t) == CloseLock(t) \/ SessionClosed(t) \/ AddEventQueue(t)

Call(t) ==
  \/ OpenSession(t) \/ GetOpenSession(t) \/ CreateEventQueue(t)
  \/ \E s \in Object : Close(t, s) \/ DropHandle(t, s) \/ RegisterToControl(t, s)

BackendNext ==
  \/ Publish \/ Published
  \/ \E f \in {"active", "id", "path"} : WriteField(f)
  \/ \E k \in Backend : SessionEnds(k)

Next ==
  \/ BackendNext \/ DestroyApi
  \/ \E t \in Thread : Call(t) \/ OpenStep(t) \/ LockStep(t) \/ Registered(t)

Spec == Init /\ [][Next]_vars

\* A thread that is in a call is scheduled.  The backend may do nothing, and
\* may never answer a registration.
FairSpec ==
  Spec /\ \A t \in Thread : WF_vars(OpenStep(t)) /\ WF_vars(LockStep(t))

----------------------------------------------------------------------------
(* Properties *)

\* A reference that tryCopySessionRef() reports as copied has the id and the
\* path of one publication, however the backend's writes and the reads of it
\* interleave (api_core.cpp:133-170).
RefFromOnePublication ==
  \A t \in Thread : copied[t] => session_ref[t].id = session_ref[t].path

\* The holder of the lock that t waits for, or "none".
WaitsFor(t) ==
  CASE pc[t] \in {"closed", "get"} -> m_
    [] pc[t] \in {"close", "queue"} -> sm_[arg[t]]
    [] OTHER -> "none"

\* Every thread of S waits for a thread of S: none of them goes on.
Stuck(S) == S # {} /\ \A t \in S : WaitsFor(t) \in S

\* createEventQueue() waits for the session that another thread is closing.
QueueWhileClosing(t) ==
  /\ {pc[t], pc[WaitsFor(t)]} = {"queue", "closed"}
  /\ arg[t] = arg[WaitsFor(t)]

\* openSession() destroys the session it has just replaced.
DestroysReplaced(t) ==
  pc[t] = "closed" /\ m_ = t /\ arg[t] \notin handles[t] \cup {active_session_}

\* Threads wait for each other in two cases only: createEventQueue() takes
\* Impl::m_ and Session::m_ in the opposite order of close() of that session,
\* and openSession() holds Impl::m_ while it destroys a session that it replaces
\* and that nobody else refers to (api_core.cpp:285, 334, session.cpp:94).
WaitCycles ==
  \A S \in SUBSET Thread :
    Stuck(S) => \E t \in S : QueueWhileClosing(t) \/ DestroysReplaced(t)

\* The active session only changes to a newer one, when it has been closed
\* itself or with the ApiCore: closing a session that was replaced leaves the
\* newer one alone (api_core.cpp:109-115).
ActiveKept ==
  [][active_session_' # active_session_ =>
       \/ active_session_' > active_session_
       \/ objects[active_session_].state = "invalid"
       \/ api' = "destroyed"]_vars

\* openSession() comes to an end, whatever the backend does to the core block,
\* unless threads wait for each other or for an answer to a registration.
OpenReturns ==
  \A t \in Thread :
    pc[t] \in Opening ~>
      \/ pc[t] = "idle"
      \/ \E u \in Thread : pc[u] = "registering"
      \/ \E S \in SUBSET Thread : Stuck(S)
=============================================================================
