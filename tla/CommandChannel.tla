--------------------------- MODULE CommandChannel ---------------------------
(***************************************************************************)
(* The command channel of a session (core/src/session.cpp): user threads   *)
(* issue commands with Session::asyncCommand or Session::blockingCommand,  *)
(* the requests leave through one TCP socket, and the thread that runs the *)
(* session's io_context parses the responses and calls the callbacks.      *)
(*                                                                         *)
(* A command is known by its cmd_id.  Every critical section of            *)
(* main_socket_mutex is one action: none of them blocks, and parsePacket   *)
(* unlocks before it calls the callback.  The io thread runs one           *)
(* completion handler at a time; a handler that unlocks, or that calls out,*)
(* is split there, and `io' says which half comes next.                    *)
(***************************************************************************)
EXTENDS Naturals, Sequences, FiniteSets

CONSTANTS User,         \* threads that issue commands
          MaxCommands,  \* bound: commands issued in a behaviour (< 2^32 - 1,
                        \* so command_id_counter reaches no id twice, nor -1)
          Twice,        \* the commands a broken backend may answer twice
          CloseAgain    \* bound: whether a session that was registered again
                        \* after close() is closed, and registered, once more

ASSUME MaxCommandsAssumption == MaxCommands \in Nat
ASSUME TwiceAssumption == Twice \subseteq 0 .. MaxCommands - 1

ASSUME CloseAgainAssumption == CloseAgain \in BOOLEAN

ASSUME UserAssumption == User \cap {"none", "async"} = {}

CmdId == 0 .. MaxCommands - 1
NoCmd == MaxCommands

\* What is stored for a command: the callback of an asyncCommand, or the one a
\* blocking call builds over its thread's s_cmd_sync_state.
Callback == User \cup {"async"}

VARIABLES
  main_socket,              \* main_socket.is_open()
  link,                     \* the TCP connection behind it, as the OS has it
  receiving_in_progress,    \* an async_read_some is outstanding
  io_stopped,               \* io_ctx.stop() by close(); nothing runs it again
  state_,                   \* Session::State
  command_id_counter,
  handlers,                 \* command_result_handlers
  tx_queue,                 \* main_socket_tx_queue
  send_in_progress,
  writes,                   \* async_writes whose handler has not run
  io,                       \* what the io thread is in the middle of
  receive_buffer,           \* documents read and not parsed yet
  user,                     \* per thread: the call it is in
  result_set,               \* per thread: s_cmd_sync_state.result == nullptr
  wire,                     \* requests the backend has got, in order
  unanswered,               \* of these, the ones it has not responded to
  rx,                       \* responses on their way to the client
  accepted,                 \* history: requests queued for this connection,
                            \* in the order startSendCommand took them
  abandoned,                \* history: commands that had left the queue before
                            \* this connection, which it does not carry
  called                    \* history: ids whose callback has been called

socketVars == <<main_socket, link, receiving_in_progress, io_stopped,
                state_>>
sendVars == <<command_id_counter, handlers, tx_queue, send_in_progress,
              writes, accepted, abandoned>>
userVars == <<user, result_set>>
backendVars == <<wire, unanswered, rx>>
vars == <<socketVars, sendVars, userVars, backendVars, io, receive_buffer,
          called>>

\* A thread in no call; the io thread at a point where it holds no callback.
IoAt(pc) == [pc |-> pc, cmd |-> NoCmd, cb |-> "none"]
Idle == IoAt("idle")

TypeOK ==
  /\ main_socket \in {"closed", "open"}
  /\ link \in {"none", "registering", "up", "reset", "failed"}
  /\ receiving_in_progress \in BOOLEAN
  /\ io_stopped \in BOOLEAN
  /\ state_ \in {"connected_monitor", "connected_control", "session_lost",
                "invalid"}
  /\ command_id_counter \in 0 .. MaxCommands
  /\ handlers \in [CmdId -> Callback \cup {"none"}]
  /\ tx_queue \in Seq(CmdId)
  /\ send_in_progress \in BOOLEAN
  /\ writes \in SUBSET CmdId
  /\ io \in [pc : {"idle", "next_send", "parsing", "callback", "disconnected"},
             cmd : CmdId \cup {NoCmd}, cb : Callback \cup {"none"}]
  /\ receive_buffer \in Seq(CmdId)
  /\ user \in [User -> [pc : {"idle", "has_id", "sync_locked", "waiting"},
                        cmd : CmdId \cup {NoCmd},
                        cb : Callback \cup {"none"}]]
  /\ result_set \in [User -> BOOLEAN]
  /\ wire \in Seq(CmdId)
  /\ unanswered \in SUBSET CmdId
  /\ rx \in Seq(CmdId)
  /\ accepted \in Seq(CmdId)
  /\ abandoned \in SUBSET CmdId
  /\ called \in SUBSET CmdId

Init ==
  /\ main_socket = "closed" /\ link = "none"
  /\ receiving_in_progress = FALSE /\ io_stopped = FALSE
  /\ state_ = "connected_monitor"
  /\ command_id_counter = 0 /\ handlers = [c \in CmdId |-> "none"] /\ tx_queue = <<>>
  /\ send_in_progress = FALSE /\ writes = {} /\ accepted = <<>> /\ abandoned = {}
  /\ io = Idle /\ receive_buffer = <<>>
  /\ user = [u \in User |-> Idle]
  /\ result_set = [u \in User |-> TRUE]
  /\ wire = <<>> /\ unanswered = {} /\ rx = <<>>
  /\ called = {}

----------------------------------------------------------------------------
(* The connection. *)

Transferred(c) == \E i \in 1 .. Len(wire) : wire[i] = c
InSeq(c, s) == \E i \in 1 .. Len(s) : s[i] = c

\* A new connection begins with what main_socket_tx_queue still holds, of the
\* one before it too.  Nothing else is carried over: an async_write of the old
\* socket is aborted, and what it had carried is not repeated.
NewConnection ==
  /\ accepted' = tx_queue
  /\ abandoned' = writes \cup
       {c \in CmdId : handlers[c] # "none" /\ ~InSeq(c, tx_queue)}
  /\ UNCHANGED <<command_id_counter, handlers, tx_queue, send_in_progress,
                 writes, backendVars>>

\* registerToControl() connects the socket, which opens it to commands of other
\* threads before the registration is through.  It tests no state: close() has
\* closed both sockets, so that it connects a closed session once more, though
\* nobody runs its io_context ...
Connect ==
  /\ main_socket = "closed" /\ link = "none"
  /\ main_socket' = "open" /\ link' = "registering"
  /\ NewConnection
  /\ UNCHANGED <<receiving_in_progress, io_stopped, state_,
                 userVars, io, receive_buffer, called>>

\* ... or fails to, which leaves the socket open: asio opens it first.  The UDP
\* socket is open by then too, and the attempts that follow fail on that.
ConnectFailed ==
  /\ main_socket = "closed" /\ link = "none"
  /\ main_socket' = "open" /\ link' = "failed"
  /\ NewConnection
  /\ UNCHANGED <<receiving_in_progress, io_stopped, state_,
                 userVars, io, receive_buffer, called>>

\* The registration is answered: the session is connected_control, and there is
\* a read outstanding, a new one or the one startReceive() finds in progress.
Register ==
  /\ link = "registering"
  /\ link' = "up" /\ state_' = "connected_control"
  /\ receiving_in_progress' = TRUE
  /\ UNCHANGED <<main_socket, io_stopped, sendVars, userVars, backendVars, io,
                 receive_buffer, called>>

\* It is refused, or the answer cannot be read.  The UDP socket stays open, on
\* which a further attempt fails until close().
RegisterFailed ==
  /\ link = "registering"
  /\ main_socket' = "closed" /\ link' = "reset"
  /\ UNCHANGED <<receiving_in_progress, io_stopped, state_, sendVars, userVars,
                 backendVars, io, receive_buffer, called>>

\* The peer closes or resets the connection (eof, connection_reset), or the
\* OS gives it up with another error (timed_out, network_down).  What the
\* backend had not answered stays unanswered for good.
LinkDown ==
  /\ link = "up"
  /\ link' \in {"reset", "failed"}
  /\ unanswered' = {}
  /\ UNCHANGED <<main_socket, receiving_in_progress, io_stopped, state_,
                 sendVars, userVars, wire, rx, io, receive_buffer, called>>

\* Session::close(): close both sockets and stop the io_context.  A handler
\* that is already executing runs to its end.  Session::m_ keeps it out of a
\* registration.  With the connection ends what is recorded of it.
Close ==
  /\ state_ # "invalid" /\ link # "registering"
  /\ io_stopped => CloseAgain
  /\ main_socket' = "closed" /\ link' = "none"
  /\ io_stopped' = TRUE /\ state_' = "invalid"
  /\ wire' = <<>> /\ unanswered' = {} /\ rx' = <<>> /\ accepted' = <<>>
  /\ UNCHANGED <<receiving_in_progress, command_id_counter,
                 handlers, tx_queue, send_in_progress, writes, abandoned,
                 userVars, io, receive_buffer, called>>

----------------------------------------------------------------------------
(* Issuing a command. *)

\* Mutant: the whole queue is cleared when its front is sent.
StartNextSendNoLock_Clear(q) ==
  IF send_in_progress \/ q = <<>>
    THEN tx_queue' = q /\ UNCHANGED <<send_in_progress, writes>>
    ELSE /\ tx_queue' = <<>>
         /\ writes' = writes \cup {Head(q)}
         /\ send_in_progress' = TRUE

\* startNextSendNoLock(), applied to the queue q: what the send variables
\* become.
StartNextSendNoLock(q) ==
  IF send_in_progress \/ q = <<>>
    THEN /\ tx_queue' = q
         /\ UNCHANGED <<send_in_progress, writes>>
    ELSE /\ tx_queue' = Tail(q)
         /\ writes' = writes \cup {Head(q)}
         /\ send_in_progress' = TRUE

\* fetch_add on command_id_counter; a blocking call also points
\* s_cmd_sync_state.result at its own result.
TakeId(u) ==
  /\ user[u].pc = "idle"
  /\ command_id_counter < MaxCommands
  /\ command_id_counter' = command_id_counter + 1
  /\ \E cb \in {"async", u} :
       /\ user' = [user EXCEPT ![u] = [pc |-> "has_id", cb |-> cb,
                                       cmd |-> command_id_counter]]
       /\ result_set' = [result_set EXCEPT ![u] = @ /\ cb = "async"]
  /\ UNCHANGED <<socketVars, handlers, tx_queue, send_in_progress, writes,
                 accepted, abandoned, backendVars, io, receive_buffer, called>>

\* startSendCommand() when the socket is not open: the call returns false.
StartSendRefused(u) ==
  /\ user[u].pc = "has_id"
  /\ main_socket = "closed"
  /\ user' = [user EXCEPT ![u] = Idle]
  /\ UNCHANGED <<socketVars, sendVars, result_set, backendVars, io,
                 receive_buffer, called>>

\* Mutant: the request is put at the front of the queue.
StartSend_Front(u) ==
  /\ user[u].pc = "has_id"
  /\ main_socket = "open"
  /\ handlers' = [handlers EXCEPT ![user[u].cmd] = user[u].cb]
  /\ accepted' = Append(accepted, user[u].cmd)
  /\ StartNextSendNoLock(<<user[u].cmd>> \o tx_queue)
  /\ user' = [user EXCEPT ![u] =
                IF user[u].cb = "async" THEN Idle
                ELSE [pc |-> "sync_locked", cmd |-> user[u].cmd,
                      cb |-> user[u].cb]]
  /\ UNCHANGED <<socketVars, command_id_counter, abandoned, result_set,
                 backendVars, io, receive_buffer, called>>

\* startSendCommand() on an open socket: register the callback, queue the
\* request, start sending if nothing is being sent.
StartSend(u) ==
  /\ user[u].pc = "has_id"
  /\ main_socket = "open"
  /\ handlers' = [handlers EXCEPT ![user[u].cmd] = user[u].cb]
  /\ accepted' = Append(accepted, user[u].cmd)
  /\ StartNextSendNoLock(Append(tx_queue, user[u].cmd))
  /\ user' = [user EXCEPT ![u] =
                IF user[u].cb = "async" THEN Idle
                ELSE [pc |-> "sync_locked", cmd |-> user[u].cmd,
                      cb |-> user[u].cb]]
  /\ UNCHANGED <<socketVars, command_id_counter, abandoned, result_set,
                 backendVars, io, receive_buffer, called>>

\* cv.wait of a blocking call gives up sync_state.mutex ...
BeginWait(u) ==
  /\ user[u].pc = "sync_locked"
  /\ user' = [user EXCEPT ![u] = [pc |-> "waiting", cmd |-> user[u].cmd,
                                  cb |-> user[u].cb]]
  /\ UNCHANGED <<socketVars, sendVars, result_set, backendVars,
                 io, receive_buffer, called>>

\* Mutant: cv.wait without its predicate returns on a spurious wakeup.
EndWait_NoPredicate(u) ==
  /\ user[u].pc = "waiting"
  /\ user' = [user EXCEPT ![u] = Idle]
  /\ UNCHANGED <<socketVars, sendVars, result_set, backendVars,
                 io, receive_buffer, called>>

\* ... and returns when the callback has cleared sync_state.result.
EndWait(u) ==
  /\ user[u].pc = "waiting" /\ result_set[u]
  /\ user' = [user EXCEPT ![u] = Idle]
  /\ UNCHANGED <<socketVars, sendVars, result_set, backendVars,
                 io, receive_buffer, called>>

----------------------------------------------------------------------------
(* Handlers run by the io thread. *)

\* Mutant: the handler does not go on to startNextSend().
WriteDone_NoNext(c) ==
  /\ io.pc = "idle" /\ ~io_stopped
  /\ c \in writes /\ \E i \in 1 .. Len(wire) : wire[i] = c
  /\ writes' = writes \ {c}
  /\ send_in_progress' = FALSE
  /\ UNCHANGED <<socketVars, command_id_counter, handlers, tx_queue, accepted,
                 abandoned, userVars, backendVars, io, receive_buffer, called>>

\* async_write succeeded: its handler clears send_in_progress without the
\* lock, and goes on to startNextSend().
WriteDone(c) ==
  /\ io.pc = "idle" /\ ~io_stopped
  /\ c \in writes /\ \E i \in 1 .. Len(wire) : wire[i] = c
  /\ writes' = writes \ {c}
  /\ send_in_progress' = FALSE
  /\ io' = IoAt("next_send")
  /\ UNCHANGED <<socketVars, command_id_counter, handlers, tx_queue, accepted,
                 abandoned, userVars, backendVars, receive_buffer, called>>

\* startNextSend(): the same under the lock.
NextSend ==
  /\ io.pc = "next_send"
  /\ StartNextSendNoLock(tx_queue)
  /\ io' = Idle
  /\ UNCHANGED <<socketVars, command_id_counter, handlers, accepted, abandoned,
                 userVars, backendVars, receive_buffer, called>>

\* async_write failed: the handler clears send_in_progress and logs.
WriteFailed(c) ==
  /\ io.pc = "idle" /\ ~io_stopped
  /\ c \in writes /\ \A i \in 1 .. Len(wire) : wire[i] # c
  /\ link \in {"reset", "failed"}
  /\ writes' = writes \ {c}
  /\ send_in_progress' = FALSE
  /\ UNCHANGED <<socketVars, command_id_counter, handlers, tx_queue, accepted,
                 abandoned, userVars, backendVars, io, receive_buffer, called>>

\* async_read_some returned k whole documents: tryParsePacket starts on them.
ReadDocuments(k) ==
  /\ io.pc = "idle" /\ ~io_stopped
  /\ receiving_in_progress /\ main_socket = "open"
  /\ k \in 1 .. Len(rx)
  /\ receive_buffer' = SubSeq(rx, 1, k)
  /\ rx' = SubSeq(rx, k + 1, Len(rx))
  /\ receiving_in_progress' = FALSE
  /\ io' = IoAt("parsing")
  /\ UNCHANGED <<main_socket, link, io_stopped, state_, sendVars,
                 userVars, wire, unanswered, called>>

\* parsePacket() of the next document: take the callback out of the map, or
\* drop a document nobody waits for.
ParsePacket ==
  /\ io.pc = "parsing" /\ receive_buffer # <<>>
  /\ LET c == Head(receive_buffer) IN
       /\ handlers' = [handlers EXCEPT ![c] = "none"]
       /\ IF handlers[c] = "none" THEN UNCHANGED io
          ELSE io' = [pc |-> "callback", cmd |-> c, cb |-> handlers[c]]
  /\ receive_buffer' = Tail(receive_buffer)
  /\ UNCHANGED <<socketVars, command_id_counter, tx_queue, send_in_progress,
                 writes, accepted, abandoned, userVars, backendVars, called>>

\* The callback of an asyncCommand: user code.
CallAsync ==
  /\ io.pc = "callback" /\ io.cb = "async"
  /\ called' = called \cup {io.cmd}
  /\ io' = IoAt("parsing")
  /\ UNCHANGED <<socketVars, sendVars, userVars, backendVars, receive_buffer>>

\* The callback of a blocking call: it needs sync_state.mutex, which the
\* caller holds until it waits; then it stores the result and notifies.
CallBlocking ==
  /\ io.pc = "callback" /\ io.cb \in User
  /\ user[io.cb].pc # "sync_locked"
  /\ result_set' = [result_set EXCEPT ![io.cb] = TRUE]
  /\ called' = called \cup {io.cmd}
  /\ io' = IoAt("parsing")
  /\ UNCHANGED <<socketVars, sendVars, user, backendVars,
                 receive_buffer>>

\* Mutant: startReceive() is not called again.
ResumeReceive_NotArmed ==
  /\ io.pc = "parsing" /\ receive_buffer = <<>>
  /\ io' = Idle
  /\ UNCHANGED <<socketVars, sendVars, userVars, backendVars, receive_buffer,
                 called>>

\* The buffer is parsed: startReceive() again.
ResumeReceive ==
  /\ io.pc = "parsing" /\ receive_buffer = <<>>
  /\ receiving_in_progress' = TRUE
  /\ io' = Idle
  /\ UNCHANGED <<main_socket, link, io_stopped, state_, sendVars,
                 userVars, backendVars, receive_buffer, called>>

\* async_read_some failed with eof or connection_reset: close the socket ...
ReadEof ==
  /\ io.pc = "idle" /\ ~io_stopped
  /\ receiving_in_progress /\ main_socket = "open" /\ link = "reset"
  /\ receiving_in_progress' = FALSE
  /\ main_socket' = "closed"
  /\ rx' = <<>>
  /\ io' = IoAt("disconnected")
  /\ UNCHANGED <<link, io_stopped, state_, sendVars, userVars, wire,
                 unanswered, receive_buffer, called>>

\* ... and call disconnected(), which needs Session::m_.
Disconnected ==
  /\ io.pc = "disconnected" /\ link # "registering"
  /\ state_' = "session_lost"
  /\ io' = Idle
  /\ UNCHANGED <<main_socket, link, receiving_in_progress, io_stopped, sendVars,
                 userVars, backendVars, receive_buffer, called>>

\* async_read_some failed with any other error: only logged.
ReadFailed ==
  /\ io.pc = "idle" /\ ~io_stopped
  /\ receiving_in_progress /\ (link = "failed" \/ main_socket = "closed")
  /\ receiving_in_progress' = FALSE
  /\ UNCHANGED <<main_socket, link, io_stopped, state_, sendVars,
                 userVars, backendVars, io, receive_buffer, called>>

----------------------------------------------------------------------------
(* The backend (external). *)

\* The bytes of one async_write arrive.
Transfer(c) ==
  /\ link = "up" /\ main_socket = "open"
  /\ c \in writes \ abandoned /\ \A i \in 1 .. Len(wire) : wire[i] # c
  /\ wire' = Append(wire, c)
  /\ unanswered' = unanswered \cup {c}
  /\ UNCHANGED <<socketVars, sendVars, userVars, rx, io,
                 receive_buffer, called>>

\* "Each command always produces exactly one response document", in any order.
Respond(c) ==
  /\ link = "up" /\ c \in unanswered
  /\ unanswered' = unanswered \ {c}
  /\ rx' = Append(rx, c)
  /\ UNCHANGED <<socketVars, sendVars, userVars, wire, io,
                 receive_buffer, called>>

\* A backend that breaks that rule: two documents carry the same cmd_id.
RespondTwice(c) ==
  /\ link = "up" /\ c \in Twice \cap unanswered
  /\ unanswered' = unanswered \ {c}
  /\ rx' = rx \o <<c, c>>
  /\ UNCHANGED <<socketVars, sendVars, userVars, wire, io, receive_buffer,
                 called>>

UserStep(u) == \/ StartSendRefused(u) \/ StartSend(u)
               \/ BeginWait(u) \/ EndWait(u)

IoStep == \/ \E c \in CmdId : WriteDone(c) \/ WriteFailed(c)
          \/ NextSend \/ ParsePacket \/ CallAsync \/ CallBlocking
          \/ ResumeReceive \/ ReadEof \/ Disconnected \/ ReadFailed

Read == \E k \in 1 .. Len(rx) : ReadDocuments(k)

Next ==
  \/ Connect \/ ConnectFailed \/ Register \/ RegisterFailed
  \/ LinkDown \/ Close
  \/ \E u \in User : TakeId(u) \/ UserStep(u)
  \/ IoStep \/ Read
  \/ \E c \in CmdId : Transfer(c) \/ Respond(c) \/ RespondTwice(c)

Spec == Init /\ [][Next]_vars

\* The user threads, the io thread and the backend keep running, each of the
\* three as long as it can do anything; nobody has to connect, to issue a
\* command, to close or to break the link.
Fairness ==
  /\ WF_vars(\E u \in User : UserStep(u))
  /\ WF_vars(IoStep \/ Read)
  /\ WF_vars(\E c \in CmdId : Transfer(c) \/ Respond(c))

FairSpec == Spec /\ Fairness
----------------------------------------------------------------------------
(* Properties. *)

\* asio allows one composed async_write per stream at a time, or the bytes of
\* two requests interleave.  startNextSendNoLock is called from the user
\* threads and from the write handler, which clears send_in_progress outside
\* the lock; still no two writes are ever outstanding.
OneWriteInFlight == \A a, b \in writes : a = b

\* While the connection is up, the backend has got the requests in the order
\* startSendCommand queued them, none lost, none twice: what it has, what is
\* being written and what is queued make up what was accepted, on the first
\* connection and on one made after close().
RequestOrder ==
  link = "up" =>
    LET writing == {c \in writes \ abandoned : ~Transferred(c)}
    IN  IF writing = {} THEN wire \o tx_queue = accepted
        ELSE \E c \in writing : wire \o <<c>> \o tx_queue = accepted

\* A queued request is never left behind: as long as the connection is up
\* somebody is sending, or the write handler is about to call startNextSend.
\* Not on a connection made after close(): its io_context runs no write handler.
QueueNotStuck ==
  link = "up" /\ ~io_stopped /\ tx_queue # <<>> =>
    send_in_progress \/ io.pc = "next_send"

\* The callback of a blocking call writes through s_cmd_sync_state.result into
\* a local variable of the caller.  Whenever it is about to run, that caller
\* is still in the call, waits for this very command, and has no result yet.
CallbackTargetLive ==
  io.pc = "callback" /\ io.cb \in User =>
    /\ user[io.cb].pc \in {"sync_locked", "waiting"}
    /\ user[io.cb].cmd = io.cmd
    /\ ~result_set[io.cb]

\* A callback is called at most once, however many documents carry its
\* cmd_id: once it was called nothing is left to call it again.
CalledAtMostOnce ==
  \A c \in called : handlers[c] = "none" /\ io.cmd # c

\* A callback that is still to be called is owed by someone: while a connection
\* is up its request is queued, being written, at the backend, or its response
\* is on the way.  Only a registration after close() keeps callbacks that nobody
\* owes in command_result_handlers, and only those of requests that had left the
\* queue for the connection before it.
PendingAccounted ==
  link = "up" =>
    \A c \in CmdId : handlers[c] # "none" =>
      \/ io_stopped /\ c \in abandoned
      \/ InSeq(c, tx_queue) \/ c \in writes
      \/ c \in unanswered \/ InSeq(c, rx) \/ InSeq(c, receive_buffer)

\* The inductive invariant behind CallbackTargetLive and CalledAtMostOnce.
\* A command id is held by one thread before it is sent, then by the map of
\* callbacks, then by the io thread, and is then used up.
Waits(u, c) ==
  /\ user[u].pc \in {"sync_locked", "waiting"}
  /\ user[u].cmd = c
  /\ ~result_set[u]

IdsOfUsers ==
  \A u \in User : user[u].pc # "idle" =>
    /\ user[u].cmd \in CmdId /\ user[u].cmd < command_id_counter
    /\ user[u].cb \in {"async", u}
    /\ user[u].pc # "has_id" => user[u].cb = u
    /\ \A v \in User \ {u} : user[v].pc # "idle" => user[v].cmd # user[u].cmd

IdsUnsent ==
  \A u \in User : user[u].pc = "has_id" =>
    /\ handlers[user[u].cmd] = "none"
    /\ user[u].cmd \notin called /\ user[u].cmd # io.cmd
    /\ user[u].cb = u => ~result_set[u]

IdsInMap ==
  \A c \in CmdId : handlers[c] # "none" =>
    /\ c < command_id_counter
    /\ c \notin called /\ c # io.cmd
    /\ handlers[c] \in User => Waits(handlers[c], c)

IdsUsed == \A c \in called : c < command_id_counter /\ c # io.cmd

IdOfIo ==
  IF io.pc = "callback"
    THEN /\ io.cmd \in CmdId /\ io.cmd < command_id_counter
         /\ io.cb \in Callback
         /\ io.cb \in User => Waits(io.cb, io.cmd)
    ELSE io.cmd = NoCmd

IdInv == IdsOfUsers /\ IdsUnsent /\ IdsInMap /\ IdsUsed /\ IdOfIo

\* As long as the connection holds and the session has not been closed, so that
\* its io_context is run, a blocking call comes back.
BlockingCallReturns ==
  \A u \in User :
    user[u].pc \in {"sync_locked", "waiting"} ~>
      (user[u].pc = "idle" \/ link # "up" \/ io_stopped)

\* session.h: a blocking command "blocks until reply is received or connection
\* is lost": once disconnected() has run, the caller gets out.
BlockingCallReturnsWhenLost ==
  \A u \in User :
    (user[u].pc = "waiting" /\ state_ = "session_lost") ~> (user[u].pc = "idle")
=============================================================================
