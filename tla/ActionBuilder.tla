---------------------------- MODULE ActionBuilder ----------------------------
(***************************************************************************)
(* ActionBuilder (core/src/action.cpp): actions are assembled in a buffer  *)
(* and sent as one UDP datagram over the high priority socket of the       *)
(* session.  A builder belongs to one thread; the socket, the io_context   *)
(* thread and the session are shared.                                      *)
(*                                                                         *)
(* The buffer is kept as its size, the headers and the payloads in it by   *)
(* byte offset, and the list of the actions its owner has built.           *)
(***************************************************************************)
EXTENDS Integers, Sequences, FiniteSets

CONSTANTS
    Builders,     \* the builders, each used by one thread
    Payloads,     \* initial payload sizes
    Resizes,      \* sizes given to resizePayload()
    MaxActions,   \* bound: actions built
    MaxSends      \* bound: datagrams handed to the socket

(* The largest payload that the uint16_t size of an action header can describe; it is
   larger than any UDP datagram. *)
MaxPayload == 65527

ASSUME PayloadsAssumption ==
    /\ Payloads \subseteq 0 .. MaxPayload /\ Resizes \subseteq 0 .. MaxPayload
    /\ MaxActions \in Nat /\ MaxSends \in Nat

VARIABLES
    bld,      \* the builders
    call,     \* what the owner of a builder is doing: "idle", or inside sendBlocking()
    status,   \* the atomic a caller handed to asyncSend()
    ops,      \* datagrams in async_send_to, [owner, sync, data]
    wire,     \* datagrams the socket accepted
    session,  \* [id, open]: controller id and whether close() has been called
    count     \* actions built so far, which tells them apart

actionVars == <<bld, call, status, ops, wire, session, count>>

HeaderSize == 8
U16(n) == n % 65536

(* An action: its number, its kind and what its payload holds. *)
Action(k, x) == [no |-> count + 1, kind |-> k, data |-> x]

(* The owner's view of one action: where it starts, how it was begun, the action, the
   length of its payload and whether resizePayload changed that. *)
Entry(at, how, a, n) == [at |-> at, how |-> how, action |-> a, len |-> n, resized |-> FALSE]

Empty == [size |-> 0, start |-> 0, hdr |-> << >>, pay |-> << >>, built |-> << >>]

Header(a, n) == [action |-> a, controller |-> session.id, size |-> U16(HeaderSize + n)]

(* Memory f after v was written at offset x. *)
Store(f, x, v) == [y \in DOMAIN f \cup {x} |-> IF y = x THEN v ELSE f[y]]

(* operator new at offset h of a buffer resized for one more action; the payload follows
   the end of what was there before. *)
Extend(s, h, how, a, n) ==
    [size  |-> s.size + HeaderSize + n,
     start |-> s.size,
     hdr   |-> Store(s.hdr, h, Header(a, n)),
     pay   |-> Store(s.pay, s.size + HeaderSize, a),
     built |-> Append(s.built, Entry(s.size, how, a, n))]

build(s, a, n) == Extend(s, s.size, "build", a, n)

(* startBuilding() places the header at the start of the buffer. *)
startBuilding(s, a, n) == Extend(s, 0, "start", a, n)

(* The payload of the last action becomes n bytes long (action.cpp:66); action.h:62-65
   has it grow by n bytes instead.  Nothing in the library calls it. *)
resizePayload(s, n) ==
    [s EXCEPT !.size = s.start + HeaderSize + n,
              !.built[Len(s.built)] = [@ EXCEPT !.len = n, !.resized = TRUE]]

NoHeader == [action |-> [no |-> 0, kind |-> "none", data |-> << >>], controller |-> 0, size |-> 0]

(* A mutant: the size of the header is never filled in. *)
finalize_Not(s) == s

(* The size of the last action; memory that is no header yet reads as zero. *)
finalize(s) ==
    LET h == IF s.start \in DOMAIN s.hdr THEN s.hdr[s.start] ELSE NoHeader IN
    [s EXCEPT !.hdr = Store(s.hdr, s.start, [h EXCEPT !.size = U16(s.size - s.start)])]

(* A mutant: the buffer keeps what was sent. *)
reset_Keep(s) == s

reset(s) == Empty

(***************************************************************************)
(* The owner of a builder.                                                 *)
(***************************************************************************)
ActionInit ==
    /\ bld    = [w \in Builders |-> Empty]
    /\ call   = [w \in Builders |-> "idle"]
    /\ status = [w \in Builders |-> "none"]
    /\ ops = << >> /\ wire = << >> /\ count = 0
    /\ session = [id |-> 0, open |-> TRUE]

Idle(w)  == call[w] = "idle"
CanBuild == session.id # 0 /\ count < MaxActions
Put(w, s) == bld' = [bld EXCEPT ![w] = s]

Build(w, n) ==
    /\ Idle(w) /\ CanBuild /\ Put(w, build(bld[w], Action("raw", << >>), n))
    /\ count' = count + 1 /\ UNCHANGED <<call, status, ops, wire, session>>

StartBuilding(w, n) ==
    /\ Idle(w) /\ CanBuild /\ Put(w, startBuilding(bld[w], Action("raw", << >>), n))
    /\ count' = count + 1 /\ UNCHANGED <<call, status, ops, wire, session>>

ResizePayload(w, n) ==
    /\ Idle(w) /\ bld[w].built # << >> /\ ~bld[w].built[Len(bld[w].built)].resized
    /\ Put(w, resizePayload(bld[w], n))
    /\ UNCHANGED <<call, status, ops, wire, session, count>>

Reset(w) ==
    Idle(w) /\ Put(w, reset(bld[w])) /\ UNCHANGED <<call, status, ops, wire, session, count>>

Outcomes == IF session.open THEN {"ok", "would_block", "error"} ELSE {"error"}

CanSend == Len(wire) + Len(ops) < MaxSends

(* What a send_to that returned o leaves behind in sendNonBlocking(). *)
sendNonBlocking(w, o) ==
    IF bld[w].size = 0
      THEN Put(w, reset(bld[w])) /\ UNCHANGED wire
      ELSE LET d == finalize(bld[w]) IN
           /\ wire' = IF o = "ok" THEN Append(wire, d) ELSE wire
           /\ Put(w, IF o = "would_block" THEN d ELSE reset(d))

SendNonBlocking(w, o) ==
    /\ Idle(w) /\ CanSend /\ o \in Outcomes /\ sendNonBlocking(w, o)
    /\ UNCHANGED <<call, status, ops, session, count>>

(* One action started in a builder with content s and sent in the same call. *)
BuildAndSend(w, s, a, n, o) ==
    LET d == finalize(startBuilding(s, a, n)) IN
    /\ o \in Outcomes
    /\ wire' = IF o = "ok" THEN Append(wire, d) ELSE wire
    /\ Put(w, IF o = "would_block" THEN d ELSE reset(d))
    /\ count' = count + 1 /\ UNCHANGED <<call, status, ops, session>>

(* sendBlocking(): as sendNonBlocking(), but would_block starts an asynchronous send and waits on the
   condition variable of the session. *)
SendBlocking(w, o) ==
    /\ Idle(w) /\ CanSend /\ o \in Outcomes
    /\ IF o = "would_block" /\ bld[w].size > 0
         THEN /\ LET d == finalize(bld[w]) IN
                 Put(w, d) /\ ops' = Append(ops, [owner |-> w, sync |-> TRUE, data |-> d])
              /\ call' = [call EXCEPT ![w] = "waiting"] /\ UNCHANGED wire
         ELSE sendNonBlocking(w, o) /\ UNCHANGED <<ops, call>>
    /\ UNCHANGED <<status, session, count>>

(* The predicate of the wait holds: result was written under high_prio_mutex. *)
WakeUp(w) ==
    /\ call[w] \in {"complete", "failed"}
    /\ call' = [call EXCEPT ![w] = "idle"] /\ Put(w, reset(bld[w]))
    /\ UNCHANGED <<status, ops, wire, session, count>>

(* The buffer moves into the completion handler; the builder is left empty. *)
AsyncSend(w) ==
    /\ Idle(w) /\ CanSend /\ status[w] # "inprogress" /\ Put(w, reset(bld[w]))
    /\ IF bld[w].size = 0
         THEN status' = [status EXCEPT ![w] = "failed"] /\ UNCHANGED ops
         ELSE /\ status' = [status EXCEPT ![w] = "inprogress"]
              /\ ops' = Append(ops, [owner |-> w, sync |-> FALSE, data |-> finalize(bld[w])])
    /\ UNCHANGED <<call, wire, session, count>>

(***************************************************************************)
(* The io_context thread and the session.                                  *)
(***************************************************************************)
(* A mutant: a failed send does not notify. *)
Settled_Complete(op, res) ==
    IF op.sync /\ res = "complete" THEN [call EXCEPT ![op.owner] = res] ELSE call

(* The handler of sendBlocking() writes the result for the caller that waits. *)
Settled(op, res) == IF op.sync THEN [call EXCEPT ![op.owner] = res] ELSE call

(* Completion of the oldest operation, while io_ctx runs. *)
IoComplete(o) ==
    /\ session.open /\ ops # << >> /\ o \in {"ok", "error"}
    /\ LET op  == Head(ops)
           res == IF o = "ok" THEN "complete" ELSE "failed"
       IN  /\ wire' = IF o = "ok" THEN Append(wire, op.data) ELSE wire
           /\ call'   = Settled(op, res)
           /\ status' = IF op.sync THEN status ELSE [status EXCEPT ![op.owner] = res]
    /\ ops' = Tail(ops) /\ UNCHANGED <<bld, session, count>>

(* registerToControl() succeeded. *)
Register ==
    /\ session.open /\ session.id = 0 /\ session' = [session EXCEPT !.id = 1]
    /\ UNCHANGED <<bld, call, status, ops, wire, count>>

(* Session::close() closes the socket and stops io_ctx: no handler runs any more. *)
CloseSession ==
    /\ session.open /\ session' = [session EXCEPT !.open = FALSE]
    /\ UNCHANGED <<bld, call, status, ops, wire, count>>

Owner(w) ==
    \/ \E n \in Payloads : Build(w, n) \/ StartBuilding(w, n)
    \/ \E n \in Resizes : ResizePayload(w, n)
    \/ \E o \in Outcomes : SendNonBlocking(w, o) \/ SendBlocking(w, o)
    \/ Reset(w) \/ AsyncSend(w) \/ WakeUp(w)

Shared == (\E o \in Outcomes : IoComplete(o)) \/ Register \/ CloseSession

ActionNext == (\E w \in Builders : Owner(w)) \/ Shared

(* The io_context thread runs, and a woken caller goes on. *)
ActionFairness ==
    /\ WF_actionVars(\E o \in Outcomes : IoComplete(o))
    /\ \A w \in Builders : WF_actionVars(WakeUp(w))

ActionSpec == ActionInit /\ [][ActionNext]_actionVars /\ ActionFairness

(***************************************************************************)
(* Properties.                                                             *)
(***************************************************************************)
(* Actions that a builder holds side by side: startBuilding() only for the first of them,
   and no resizePayload() of one that is followed by another. *)
SideBySide(s) ==
    \A i \in DOMAIN s.built :
        /\ s.built[i].how = "start" => i = 1
        /\ s.built[i].resized => i = Len(s.built)

(* A receiver that steps from header to header, by the size each one states, meets exactly
   the actions built, from controller id, and the last one ends with the datagram.  How long
   a resized payload has to be is left open, for action.h:62-65 and action.cpp:65-68 differ
   about it; its header has to say how long it is. *)
AsBuilt(d, id) ==
    \A i \in DOMAIN d.built :
        LET e    == d.built[i]
            next == IF i = Len(d.built) THEN d.size ELSE d.built[i + 1].at
        IN  /\ i = 1 => e.at = 0
            /\ e.resized \/ next = e.at + HeaderSize + e.len
            /\ d.hdr[e.at] = [action |-> e.action, controller |-> id, size |-> next - e.at]
            /\ d.pay[e.at + HeaderSize] = e.action

(* Whatever was built, resized, refused by a full socket or sent before, a datagram whose
   actions were begun side by side carries each of them whole, under its own header: at the
   length asked for, or, once resized, at the length its header states. *)
DatagramsAsBuilt == \A i \in DOMAIN wire : SideBySide(wire[i]) => AsBuilt(wire[i], session.id)

Holds(d) == {d.built[i].action : i \in DOMAIN d.built}

(* No action is sent twice: not by a retry after would_block, not through the buffer that
   an asynchronous send has taken over. *)
SentOnce ==
    /\ \A i, j \in DOMAIN wire : i # j => Holds(wire[i]) \cap Holds(wire[j]) = {}
    /\ \A i \in DOMAIN wire, w \in Builders :
          Idle(w) => Holds(wire[i]) \cap Holds(bld[w]) = {}

(* Every send gets its result while the session stays open: the caller of sendBlocking
   returns, the status of asyncSend is settled. *)
SendsResolve ==
    \A w \in Builders :
        /\ (call[w] # "idle") ~> (call[w] = "idle" \/ ~session.open)
        /\ (status[w] = "inprogress") ~> (status[w] # "inprogress" \/ ~session.open)
==============================================================================
