----------------------------- MODULE ApiWorker -----------------------------
(***************************************************************************)
(* The background thread of Api (core/src/api.cpp) and the life of the      *)
(* session it runs (core/src/session.cpp).  threadFunc() opens a session,   *)
(* runs its io_context until something stops it, tells the listeners, and   *)
(* takes over the listener actions that addListener() and removeListener()  *)
(* queue.  ~Api() ends the thread.                                          *)
(*                                                                         *)
(* The n-th session is the number n, 0 is nullptr.  A critical section of   *)
(* Api::m_, sync_state_.m or Session::m_ is one action, but for the one that*)
(* works off the queue, an action per element; so is the part of            *)
(* threadFunc() between two of them, and so is a call of one listener.      *)
(* Timed waits of threadFunc() always end; how long they take is left out.  *)
(*                                                                         *)
(* A user adds a listener once, removes it at most once, and destroys the   *)
(* Api when no other call is in progress.                                   *)
(***************************************************************************)
EXTENDS Naturals, Sequences, SequencesExt

CONSTANTS Listener,     \* listeners
          MaxSessions   \* bound: sessions that are opened

ASSUME MaxSessionsAssumption == MaxSessions \in Nat

VARIABLES
  running_, active_session_, listener_action_queue_,  \* Api's, under Api::m_
  user,             \* per listener: where its owner is
  action_complete,  \* per listener: removeListener()'s flag
  api,              \* the Api: "alive", "joining" in ~Api() or "destroyed"
  pc, todo,         \* threadFunc(): where it is, the listeners still to call
  active_session, connected, prev_session_state, listeners, add_notify_index,
  active_control_flags, removed_listeners, closing,   \* its locals
  state_, control_flags_, is_running_, attached, \* the session; api_ # nullptr
  stopped, armed,   \* io_ctx is stopped, periodic_update_timer is running
  sockets,          \* the session's: "closed", "open" (UDP), "connected"
  sessions,         \* number of sessions opened so far
  told,             \* history, per listener: the session and state it knows of
  added, removed    \* history, per listener: calls of listenerAdded() and of
                    \* listenerRemoved(), counted up to 2

apiVars == <<running_, active_session_, listener_action_queue_>>
userVars == <<user, action_complete, api>>
viewVars == <<active_session, connected, prev_session_state,
              active_control_flags>>
listVars == <<listeners, add_notify_index, removed_listeners, closing>>
localVars == <<viewVars, listVars>>
sessionVars == <<state_, control_flags_, is_running_, attached, stopped, armed,
                 sockets>>
historyVars == <<told, added, removed>>
vars == <<apiVars, userVars, pc, todo, localVars, sessions, sessionVars,
          historyVars>>

State == {"invalid", "connected_monitor", "connected_control", "session_lost"}
Action == [listener : Listener, type : {"add", "remove"}]
SessionNo == 0 .. MaxSessions

TypeOK ==
  /\ running_ \in BOOLEAN /\ active_session_ \in SessionNo
  /\ listener_action_queue_ \in Seq(Action)
  /\ user \in [Listener -> {"out", "in", "removing", "gone"}]
  /\ action_complete \in [Listener -> BOOLEAN]
  /\ api \in {"alive", "joining", "destroyed"}
  /\ pc \in {"top", "enter", "run", "expired", "tell_state", "check",
             "close", "clear", "opened", "tell_open", "process", "apply",
             "removed", "tell_added", "ending", "tell_lost",
             "tell_removed", "done"}
  /\ todo \in Seq(Listener)
  /\ active_session \in SessionNo /\ connected \in BOOLEAN
  /\ prev_session_state \in State
  /\ listeners \in Seq(Listener) /\ add_notify_index \in Nat
  /\ active_control_flags \in BOOLEAN /\ control_flags_ \in BOOLEAN
  /\ removed_listeners \in Seq(Listener) /\ closing \in BOOLEAN
  /\ state_ \in State
  /\ is_running_ \in BOOLEAN /\ attached \in BOOLEAN
  /\ stopped \in BOOLEAN /\ armed \in BOOLEAN
  /\ sockets \in {"closed", "open", "connected"}
  /\ sessions \in SessionNo
  /\ told \in [Listener -> [session : SessionNo, state : State]]
  /\ added \in [Listener -> 0 .. 2] /\ removed \in [Listener -> 0 .. 2]

Init ==
  /\ running_ = TRUE /\ active_session_ = 0 /\ listener_action_queue_ = <<>>
  /\ user = [l \in Listener |-> "out"]
  /\ action_complete = [l \in Listener |-> FALSE]
  /\ api = "alive"
  /\ pc = "top" /\ todo = <<>>
  /\ active_session = 0 /\ connected = FALSE /\ prev_session_state = "invalid"
  /\ listeners = <<>> /\ add_notify_index = 0 /\ active_control_flags = FALSE
  /\ removed_listeners = <<>> /\ closing = FALSE
  /\ state_ = "invalid" /\ control_flags_ = FALSE /\ is_running_ = FALSE
  /\ attached = FALSE /\ stopped = FALSE /\ armed = FALSE
  /\ sockets = "closed"
  /\ sessions = 0
  /\ told = [l \in Listener |-> [session |-> 0, state |-> "invalid"]]
  /\ added = [l \in Listener |-> 0] /\ removed = [l \in Listener |-> 0]

Go(from, to) == pc = from /\ pc' = to
Twice(n) == IF n = 2 THEN 2 ELSE n + 1

----------------------------------------------------------------------------
(* Users of the Api. *)

\* The thread has Api::m_ while it works on the queue.
Locked == pc = "apply"

\* The end of addListener(), removeListener() and ~Api(): Session::stop(), if
\* there is a session.  cv_.notify_all() only has an effect on ~Api(): the
\* predicate of both waits is !running_.
StopActive == stopped' = (stopped \/ active_session_ # 0)

QueueAction(l, type) ==
  /\ api = "alive" /\ ~Locked
  /\ listener_action_queue_' =
       Append(listener_action_queue_, [listener |-> l, type |-> type])
  /\ StopActive
  /\ UNCHANGED <<running_, active_session_, action_complete, api, pc, todo,
                 localVars, sessions, state_, control_flags_, is_running_,
                 attached, armed, sockets, historyVars>>

AddListener(l) ==
  /\ user[l] = "out" /\ user' = [user EXCEPT ![l] = "in"]
  /\ QueueAction(l, "add")

RemoveListener(l) ==
  /\ user[l] = "in" /\ user' = [user EXCEPT ![l] = "removing"]
  /\ QueueAction(l, "remove")

\* sync_state_.cv.wait() of removeListener() is over.
RemoveReturn(l) ==
  /\ user[l] = "removing" /\ action_complete[l]
  /\ user' = [user EXCEPT ![l] = "gone"]
  /\ UNCHANGED <<apiVars, action_complete, api, pc, todo, localVars,
                 sessions, sessionVars, historyVars>>

\* ~Api(), up to thread_.join() ...
Destroy ==
  /\ api = "alive" /\ ~Locked /\ \A l \in Listener : user[l] # "removing"
  /\ api' = "joining" /\ running_' = FALSE
  /\ StopActive
  /\ UNCHANGED <<active_session_, listener_action_queue_, user,
                 action_complete, pc, todo, localVars, sessions, state_,
                 control_flags_, is_running_, attached, armed, sockets,
                 historyVars>>

\* ... and its return.
Join ==
  /\ api = "joining" /\ pc = "done"
  /\ api' = "destroyed"
  /\ UNCHANGED <<apiVars, user, action_complete, pc, todo, localVars,
                 sessions, sessionVars, historyVars>>

----------------------------------------------------------------------------
(* The session. *)

HasSession == active_session # 0

\* registerToControl() succeeds, in the callback of a control enabler or in
\* some thread that has the session; the backend grants some of the flags.  The
\* UDP socket must not be open yet; the state is not looked at.
Register ==
  /\ HasSession /\ sockets = "closed"
  /\ sockets' = "connected" /\ state_' = "connected_control"
  /\ control_flags_' = TRUE
  /\ stopped' = (stopped \/ is_running_)
  /\ UNCHANGED <<apiVars, userVars, pc, todo, localVars, sessions,
                 is_running_, attached, armed, historyVars>>

\* It fails after it has opened the UDP socket.
RegisterFailed ==
  /\ HasSession /\ sockets = "closed"
  /\ sockets' = "open"
  /\ UNCHANGED <<apiVars, userVars, pc, todo, localVars, sessions, state_,
                 control_flags_, is_running_, attached, stopped, armed,
                 historyVars>>

\* Session::close(); sessionClosed() makes ApiCore forget the session.
CloseBody ==
  IF state_ = "invalid" THEN UNCHANGED sessionVars
  ELSE /\ state_' = "invalid" /\ attached' = FALSE
       /\ armed' = FALSE /\ sockets' = "closed" /\ stopped' = TRUE
       /\ UNCHANGED <<control_flags_, is_running_>>

\* A user closes the session.
UserClose ==
  /\ HasSession /\ state_ # "invalid"
  /\ CloseBody
  /\ UNCHANGED <<apiVars, userVars, pc, todo, localVars, sessions,
                 historyVars>>

\* disconnected().
DisconnectedBody ==
  /\ armed' = FALSE /\ state_' = "session_lost"
  /\ stopped' = (stopped \/ is_running_)
  /\ UNCHANGED <<control_flags_, is_running_, attached>>

\* periodicUpdate() in the io_context finds that the keep-alive counter has
\* not moved for too long, and gives Session::m_ back ...
KeepAliveExpired ==
  /\ Go("run", "expired")
  /\ armed /\ ~stopped /\ state_ = "connected_monitor"
  /\ UNCHANGED <<apiVars, userVars, todo, localVars, sessions, sessionVars,
                 historyVars>>

\* ... to call disconnected(), whatever the state is by then.
Disconnected ==
  /\ Go("expired", "run")
  /\ DisconnectedBody
  /\ UNCHANGED <<apiVars, userVars, todo, localVars, sessions, sockets,
                 historyVars>>

\* The handler of startReceive() finds the connection closed.
ConnectionClosed ==
  /\ pc = "run" /\ sockets = "connected" /\ ~stopped
  /\ sockets' = "open"
  /\ DisconnectedBody
  /\ UNCHANGED <<apiVars, userVars, pc, todo, localVars, sessions,
                 historyVars>>

----------------------------------------------------------------------------
(* threadFunc(): the session. *)

\* Mutant: the loss of the session is not a change to tell.
NewState_NotLost(session_state) ==
  session_state # prev_session_state /\ session_state # "session_lost"

NewState(session_state) == session_state # prev_session_state

\* runUntilStateChanges() returns; a new state is told to every listener.
Returns(session_state) ==
  /\ pc' = "tell_state"
  /\ prev_session_state' = session_state
  /\ todo' = IF NewState(session_state) THEN listeners ELSE <<>>
  /\ UNCHANGED <<apiVars, userVars, active_session, connected,
                 active_control_flags, listVars, sessions, historyVars>>

\* On a session that is closed it does so at once.
RunInvalid ==
  /\ pc = "top" /\ connected /\ ~attached
  /\ Returns("invalid")
  /\ UNCHANGED sessionVars

\* On another: io_ctx.restart() if it is stopped, ...
Restart ==
  /\ Go("top", "enter") /\ connected /\ attached
  /\ stopped' = FALSE
  /\ UNCHANGED <<apiVars, userVars, todo, localVars, sessions, state_,
                 control_flags_, is_running_, attached, armed, sockets,
                 historyVars>>

\* ... is_running_ = true ...
Enter ==
  /\ Go("enter", "run")
  /\ is_running_' = TRUE
  /\ UNCHANGED <<apiVars, userVars, todo, localVars, sessions, state_,
                 control_flags_, attached, stopped, armed, sockets,
                 historyVars>>

\* ... and io_ctx.run(), which returns when it is stopped.
RunReturn ==
  /\ pc = "run" /\ stopped
  /\ Returns(state_)
  /\ is_running_' = FALSE
  /\ UNCHANGED <<state_, control_flags_, attached, stopped, armed, sockets>>

\* sessionStateChanged() of the next listener.
TellState(at, state) ==
  /\ pc = at /\ todo # <<>>
  /\ todo' = Tail(todo)
  /\ told' = [told EXCEPT ![Head(todo)] =
                [session |-> active_session, state |-> state]]
  /\ UNCHANGED <<apiVars, userVars, pc, localVars, sessions, sessionVars,
                 added, removed>>

CallSessionStateChanged == TellState("tell_state", prev_session_state)

\* After the loop: a lost session is closed, and the flags of another one
\* looked at.
StateTold ==
  /\ pc = "tell_state" /\ todo = <<>>
  /\ IF prev_session_state = "session_lost"
       THEN pc' = "close" /\ connected' = FALSE
       ELSE pc' = "check" /\ UNCHANGED connected
  /\ UNCHANGED <<apiVars, userVars, todo, active_session, prev_session_state,
                 listVars, active_control_flags, sessions,
                 sessionVars, historyVars>>

CloseLost ==
  /\ Go("close", "clear")
  /\ CloseBody
  /\ UNCHANGED <<apiVars, userVars, todo, localVars, sessions, historyVars>>

\* active_session_ = nullptr, a pause, active_session.reset().
ClearLost ==
  /\ Go("clear", "top")
  /\ active_session_' = 0 /\ active_session' = 0
  /\ UNCHANGED <<running_, listener_action_queue_, userVars, todo, connected,
                 prev_session_state, listVars, active_control_flags,
                 sessions, sessionVars, historyVars>>

\* getControlFlags(), and controlFlagsChanged() of the listeners, which has no
\* effect here.
CheckFlags ==
  /\ Go("check", "process")
  /\ active_control_flags' = control_flags_
  /\ UNCHANGED <<apiVars, userVars, todo, active_session, connected,
                 prev_session_state, listVars, sessions, sessionVars,
                 historyVars>>

\* openSession() constructs a session; a new io_context is not stopped.
OpenSession ==
  /\ Go("top", "opened") /\ ~connected /\ sessions < MaxSessions
  /\ sessions' = sessions + 1 /\ active_session' = sessions + 1
  /\ state_' = "connected_monitor" /\ control_flags_' = FALSE
  /\ is_running_' = FALSE /\ attached' = TRUE
  /\ stopped' = FALSE /\ armed' = TRUE /\ sockets' = "closed"
  /\ UNCHANGED <<apiVars, userVars, todo, connected, prev_session_state,
                 active_control_flags, listVars, historyVars>>

\* openSession() fails.
OpenFailed ==
  /\ Go("top", "process") /\ ~connected
  /\ UNCHANGED <<apiVars, userVars, todo, localVars, sessions, sessionVars,
                 historyVars>>

\* The rest of that branch: the session is published, then told.
Opened ==
  /\ Go("opened", "tell_open")
  /\ active_session_' = active_session
  /\ active_control_flags' = FALSE
  /\ prev_session_state' = "connected_monitor"
  /\ connected' = TRUE
  /\ todo' = listeners
  /\ UNCHANGED <<running_, listener_action_queue_, userVars, active_session,
                 listVars, sessions, sessionVars, historyVars>>

CallSessionOpened == TellState("tell_open", "connected_monitor")

OpenTold ==
  /\ Go("tell_open", "process") /\ todo = <<>>
  /\ UNCHANGED <<apiVars, userVars, todo, localVars, sessions, sessionVars,
                 historyVars>>

----------------------------------------------------------------------------
(* threadFunc(): the listener actions. *)

\* Under Api::m_, after the wait of a thread without a session.  The lock is
\* held until the queue is worked off.
TakeQueue ==
  /\ Go("process", "apply")
  /\ add_notify_index' = Len(listeners)
  /\ UNCHANGED <<apiVars, userVars, todo, viewVars, listeners,
                 removed_listeners, closing, sessions, sessionVars,
                 historyVars>>

ApplyAdd(l) ==
  /\ listeners' = Append(listeners, l)
  /\ UNCHANGED <<add_notify_index, removed_listeners>>

\* The list without l, which is in it once.
Without(l) ==
  RemoveAt(listeners, CHOOSE i \in DOMAIN listeners : listeners[i] = l)

\* Mutant: the listener is not erased.
ApplyRemove_NotErased(l) ==
  /\ removed_listeners' = Append(removed_listeners, l)
  /\ UNCHANGED <<listeners, add_notify_index>>

\* What std::remove() returns is the new end of the list, not the place of the
\* listener.
ApplyRemove(l) ==
  /\ IF l \in Range(listeners)
       THEN /\ listeners' = Without(l)
            /\ add_notify_index' = IF Len(listeners) - 1 < add_notify_index
                                     THEN add_notify_index - 1
                                     ELSE add_notify_index
       ELSE UNCHANGED <<listeners, add_notify_index>>
  /\ removed_listeners' = Append(removed_listeners, l)

\* The next action of the queue.
ApplyAction ==
  /\ pc = "apply" /\ listener_action_queue_ # <<>>
  /\ LET action == Head(listener_action_queue_)
     IN  \/ action.type = "add" /\ ApplyAdd(action.listener)
         \/ action.type = "remove" /\ ApplyRemove(action.listener)
  /\ listener_action_queue_' = Tail(listener_action_queue_)
  /\ UNCHANGED <<running_, active_session_, userVars, pc, todo, viewVars,
                 closing, sessions, sessionVars, historyVars>>

\* The end of the loop, and of the critical section.
QueueTaken ==
  /\ Go("apply", "removed") /\ listener_action_queue_ = <<>>
  /\ closing' = ~running_
  /\ UNCHANGED <<apiVars, userVars, todo, viewVars, listeners,
                 add_notify_index, removed_listeners, sessions, sessionVars,
                 historyVars>>

\* Mutant: only the last of several calls of removeListener() is completed.
CallListenersRemoved_Last ==
  /\ Go("removed", "tell_added")
  /\ removed' = [l \in Listener |->
                   IF l \in Range(removed_listeners) THEN Twice(removed[l])
                   ELSE removed[l]]
  /\ action_complete' = [l \in Listener |->
                           \/ action_complete[l]
                           \/ /\ removed_listeners # <<>>
                              /\ l = Last(removed_listeners)]
  /\ removed_listeners' = <<>>
  /\ todo' = SubSeq(listeners, add_notify_index + 1, Len(listeners))
  /\ UNCHANGED <<apiVars, user, api, viewVars, listeners, add_notify_index,
                 closing, sessions, sessionVars, told, added>>

\* listenerRemoved() of the listeners removed, under sync_state_.m.
CallListenersRemoved ==
  /\ Go("removed", "tell_added")
  /\ removed' = [l \in Listener |->
                   IF l \in Range(removed_listeners) THEN Twice(removed[l])
                   ELSE removed[l]]
  /\ action_complete' = [l \in Listener |->
                           action_complete[l] \/ l \in Range(removed_listeners)]
  /\ removed_listeners' = <<>>
  /\ todo' = SubSeq(listeners, add_notify_index + 1, Len(listeners))
  /\ UNCHANGED <<apiVars, user, api, viewVars, listeners, add_notify_index,
                 closing, sessions, sessionVars, told, added>>

\* listenerAdded() of the next listener, with the session as it is.
CallListenerAdded ==
  /\ pc = "tell_added" /\ todo # <<>>
  /\ todo' = Tail(todo)
  /\ added' = [added EXCEPT ![Head(todo)] = Twice(@)]
  /\ told' = IF HasSession
               THEN [told EXCEPT ![Head(todo)] =
                       [session |-> active_session,
                        state |-> prev_session_state]]
               ELSE told
  /\ UNCHANGED <<apiVars, userVars, pc, localVars, sessions, sessionVars,
                 removed>>

\* Mutant: running_ is read here, when the lock is given back.
AddedTold_ReadsLate ==
  /\ pc = "tell_added" /\ todo = <<>>
  /\ pc' = IF running_ THEN "top" ELSE "ending"
  /\ UNCHANGED <<apiVars, userVars, todo, localVars, sessions, sessionVars,
                 historyVars>>

\* The end of the loop's body.
AddedTold ==
  /\ pc = "tell_added" /\ todo = <<>>
  /\ pc' = IF closing THEN "ending" ELSE "top"
  /\ UNCHANGED <<apiVars, userVars, todo, localVars, sessions, sessionVars,
                 historyVars>>

\* After the loop: an open session is withdrawn, ...
Ending ==
  /\ Go("ending", IF HasSession THEN "tell_lost" ELSE "tell_removed")
  /\ active_session_' = 0
  /\ todo' = listeners
  /\ UNCHANGED <<running_, listener_action_queue_, userVars, localVars,
                 sessions, sessionVars, historyVars>>

\* ... told to be lost ...
CallSessionLost == TellState("tell_lost", "session_lost")

\* ... and closed, ...
CloseAtEnd ==
  /\ Go("tell_lost", "tell_removed") /\ todo = <<>>
  /\ CloseBody
  /\ todo' = listeners
  /\ UNCHANGED <<apiVars, userVars, localVars, sessions, historyVars>>

\* ... and every listener is removed.
CallListenerRemoved ==
  /\ pc = "tell_removed" /\ todo # <<>>
  /\ todo' = Tail(todo)
  /\ removed' = [removed EXCEPT ![Head(todo)] = Twice(@)]
  /\ UNCHANGED <<apiVars, userVars, pc, localVars, sessions, sessionVars, told,
                 added>>

ThreadEnd ==
  /\ Go("tell_removed", "done") /\ todo = <<>>
  /\ active_session' = 0
  /\ UNCHANGED <<apiVars, userVars, todo, connected, prev_session_state,
                 active_control_flags, listVars, sessions, sessionVars,
                 historyVars>>

----------------------------------------------------------------------------

\* What the background thread does by itself; OpenSession, KeepAliveExpired
\* and ConnectionClosed wait for the backend.
Loop ==
  \/ RunInvalid \/ Restart \/ Enter \/ RunReturn
  \/ CallSessionStateChanged \/ StateTold \/ CloseLost \/ ClearLost
  \/ CheckFlags
  \/ Opened \/ CallSessionOpened \/ OpenTold \/ Disconnected
  \/ TakeQueue \/ ApplyAction \/ QueueTaken
  \/ CallListenersRemoved \/ CallListenerAdded \/ AddedTold
  \/ Ending \/ CallSessionLost \/ CloseAtEnd \/ CallListenerRemoved
  \/ ThreadEnd

Open == OpenSession \/ OpenFailed

Next ==
  \/ Loop \/ Open \/ KeepAliveExpired \/ ConnectionClosed
  \/ Register \/ RegisterFailed \/ UserClose \/ Destroy \/ Join
  \/ \E l \in Listener : \/ AddListener(l) \/ RemoveListener(l)
                         \/ RemoveReturn(l)

Spec == Init /\ [][Next]_vars

\* The thread runs; its attempts to open a session come to an end, in
\* whatever way.  The backend need not do anything, nor need users, except
\* return from a call whose wait is over.
Fairness ==
  /\ WF_vars(Loop) /\ WF_vars(Open) /\ WF_vars(Join)
  /\ \A l \in Listener : WF_vars(RemoveReturn(l))

FairSpec == Spec /\ Fairness

----------------------------------------------------------------------------
(* Properties. *)

\* Once removeListener() has returned its listener may be destroyed: the
\* thread has it neither in its list nor among those it is about to call.
NoCallAfterRemove ==
  \A l \in Listener : user[l] = "gone" => l \notin Range(listeners \o todo)

\* What one listener hears of sessions: the next one only when the last one
\* was told to be lost, and nothing more of one that was.
SessionsInTurn ==
  [][\A l \in Listener :
       told'[l] # told[l] =>
         IF told[l].session \in {0, told'[l].session}
           THEN told[l].state # "session_lost"
           ELSE /\ told[l].state = "session_lost"
                /\ told'[l].session > told[l].session]_vars

\* listenerAdded() comes "before any sessionStateChanged calls" (api.h:42): who
\* has heard of a session knows that he was added.
AddedFirst == \A l \in Listener : told[l].session # 0 => added[l] > 0

\* listenerAdded() is "only called once", listenerRemoved() too; and when the
\* thread has ended every listener that was added has been removed, also one
\* that came just before ~Api().
RemovedOnce ==
  \A l \in Listener :
    /\ added[l] < 2 /\ removed[l] < 2
    /\ pc = "done" /\ user[l] # "out" => removed[l] = 1

\* removeListener() returns unless the thread sits in io_ctx.run(), with no
\* stop() to come.
RemoveReturnsOrRuns ==
  \A l \in Listener :
    user[l] = "removing" ~> user[l] = "gone" \/ (pc = "run" /\ ~stopped)
=============================================================================
