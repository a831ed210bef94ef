---------------------------- MODULE TelemetryGroup ----------------------------
(***************************************************************************)
(* Telemetry (core/src/telemetry.cpp): the table of definitions that the   *)
(* backend extends in shared memory and TelemetrySystem copies, and an     *)
(* update group that registers handles and sends their values through an   *)
(* action builder.                                                         *)
(***************************************************************************)
EXTENDS ActionBuilder, FiniteSetsExt, Functions

CONSTANTS
    Group,      \* the builder of the group
    Definition, \* definitions in the order the backend publishes them, [id, name, class]
    Initial,    \* definitions present when the session is opened
    MaxDefs,    \* definitions that fit into the shared memory block
    Handles,    \* telemetry handles
    Handle,     \* name and class of each handle
    Lists,      \* lists given to set()
    Addable,    \* handles given to add()
    MaxList,    \* bound: length of the list
    WordBits    \* bools in one word, 32 in the code

(* Classes of types as in baseTypeSizeIndex: 0 for bool, then 64, 32, 16 and 8 bits. *)
Classes == 0 .. 4
Width   == [c \in 1 .. 4 |-> <<8, 4, 2, 1>>[c]]

ASSUME TelemetryAssumption ==
    /\ Group \in Builders /\ WordBits \in Nat \ {0} /\ MaxDefs \in Nat
    /\ Definition \in Seq([id : Nat, name : STRING, class : Classes])
    /\ Initial \in 0 .. Len(Definition)
    /\ \A i, j \in DOMAIN Definition :
          Definition[i].id # 0 /\ (Definition[i].id = Definition[j].id => i = j)
    /\ Handle \in [Handles -> [name : STRING, class : Classes]]
    /\ Lists \subseteq Seq(Handles) /\ Addable \subseteq Handles

VARIABLES
    published,  \* definition_count in shared memory
    known,      \* definitions in cur_defs_
    user_defs,  \* definitions in the TelemetryDefinitions of the user, -1 for none
    list,       \* telemetries_
    ref,        \* ref_state_.id of each handle
    bufs,       \* base_value_bufs_, as handles
    prepared,   \* prepared_
    inited,     \* configure() has given the builder its session
    gone        \* the group has been destroyed

groupVars == <<list, ref, bufs, prepared, inited, gone>>
telVars   == <<actionVars, published, known, user_defs, groupVars>>

TelInit ==
    /\ ActionInit
    /\ published = Initial /\ known = 0 /\ user_defs = -1
    /\ list = << >> /\ ref = [h \in Handles |-> 0] /\ bufs = << >>
    /\ prepared = FALSE /\ inited = FALSE /\ gone = FALSE

(***************************************************************************)
(* Definitions.                                                            *)
(***************************************************************************)
(* External: definitions are only ever added. *)
Publish ==
    /\ published < Len(Definition) /\ published' = published + 1
    /\ UNCHANGED <<actionVars, known, user_defs, groupVars>>

(* Copy what is new; what was copied before cannot change within a session. *)
updateDefinitions ==
    /\ known' = Min({published, MaxDefs})
    /\ UNCHANGED <<actionVars, published, user_defs, groupVars>>

getDefinitions ==
    user_defs' = known /\ UNCHANGED <<actionVars, published, known, groupVars>>

(* TelemetryDefinitions::find(name, type), 0 when there is none. *)
find(h) ==
    LET same == {i \in 1 .. user_defs : /\ Definition[i].name = Handle[h].name
                                        /\ Definition[i].class = Handle[h].class}
    IN  IF same = {} THEN 0 ELSE Definition[Min(same)].id

(***************************************************************************)
(* The group.                                                              *)
(***************************************************************************)
Members(l) == {l[i] : i \in DOMAIN l}

(* The order of std::sort: by class, then by id. *)
Less(a, b, r) ==
    \/ Handle[a].class < Handle[b].class
    \/ Handle[a].class = Handle[b].class /\ r[a] < r[b]

(* Everything std::sort may produce. *)
Sorted(l, r) ==
    {q \in {[i \in DOMAIN l |-> l[p[i]]] : p \in Bijection(DOMAIN l, DOMAIN l)} :
        \A i, j \in DOMAIN l : i < j => ~Less(q[j], q[i], r)}

(* What is left of q when only the places in kept stay. *)
Subsequence(q, kept) ==
    [k \in 1 .. Cardinality(kept) |->
        q[CHOOSE i \in kept : Cardinality({j \in kept : j <= i}) = k]]

(* A mutant: duplicates stay. *)
Unique_Not(q, r) == q

(* std::unique by id; handles that were not found are never duplicates. *)
Unique(q, r) ==
    Subsequence(q, {i \in DOMAIN q : i = 1 \/ r[q[i - 1]] = 0 \/ r[q[i]] # r[q[i - 1]]})

Resolved(q, r) == Subsequence(q, {i \in DOMAIN q : r[q[i]] # 0})

CountOf(l, c) == Cardinality({i \in DOMAIN l : Handle[l[i]].class = c})

(* "Bools are stored as 32bit words and total space used by them is aligned to 8 bytes" *)
ExpectedSize(l) ==
    ((CountOf(l, 0) + 3 * WordBits - 1) \div (2 * WordBits)) * 8
    + 8 * CountOf(l, 1) + 4 * CountOf(l, 2) + 2 * CountOf(l, 3) + CountOf(l, 4)

RegisterAction(l, r) ==
    Action("register", [ids |-> [i \in DOMAIN l |-> r[l[i]]], size |-> ExpectedSize(l)])

set(l) ==
    /\ ~gone /\ list' = l /\ prepared' = FALSE
    /\ UNCHANGED <<actionVars, published, known, user_defs, ref, bufs, inited, gone>>

add(h) ==
    /\ ~gone /\ Len(list) < MaxList /\ list' = Append(list, h) /\ prepared' = FALSE
    /\ UNCHANGED <<actionVars, published, known, user_defs, ref, bufs, inited, gone>>

(* configure(): resolve, sort, drop duplicates, register.  sendBlocking() ends with
   "ok" or "error"; without a controller id nothing is sent. *)
configure(o) ==
    /\ ~gone /\ user_defs >= 0 /\ list # << >> /\ count < MaxActions
    /\ ref' = [h \in Handles |-> IF h \in Members(list) THEN find(h) ELSE ref[h]]
    /\ \E q \in Sorted(list, ref') : list' = Unique(q, ref')
    /\ bufs' = Resolved(list', ref')
    /\ IF session.id = 0
         THEN /\ prepared' = FALSE /\ Put(Group, Empty)
              /\ UNCHANGED <<call, status, ops, wire, session, count>>
         ELSE /\ BuildAndSend(Group, Empty, RegisterAction(bufs', ref'), 6 + 2 * Len(bufs'), o)
              /\ prepared' = (o = "ok")
    /\ inited' = TRUE /\ UNCHANGED <<published, known, user_defs, gone>>

(* The bits of word k: the word is not cleared for the next 32 bools. *)
BoolWord(k, v) ==
    {j % WordBits : j \in {i \in 0 .. CountOf(bufs, 0) - 1 :
                              i < (k + 1) * WordBits /\ v[bufs[i + 1]]}}

Words == (CountOf(bufs, 0) + WordBits - 1) \div WordBits

(* A mutant: the values follow the words at once. *)
AlignUp8_Not(n) == n

AlignUp8(n) == ((n + 7) \div 8) * 8

(* Values in front of those of class c, and how many of the n values of a class are
   copied when m of them and of those behind have been. *)
Before(c) == Cardinality({i \in DOMAIN bufs : Handle[bufs[i]].class < c})
Copied(m, n) == IF m < 0 THEN 0 ELSE IF m > n THEN n ELSE m

(* Where value i, which is not a bool, is copied to: the loops go class by class. *)
Offset(i) ==
    AlignUp8(4 + 4 * Words)
    + 8 * Copied(i - 1 - Before(1), CountOf(bufs, 1)) + 4 * Copied(i - 1 - Before(2), CountOf(bufs, 2))
    + 2 * Copied(i - 1 - Before(3), CountOf(bufs, 3)) + Copied(i - 1 - Before(4), CountOf(bufs, 4))

(* The values v that the handles hold when send() is called. *)
SetValues(v) ==
    Action("set", [words  |-> [k \in 1 .. Words |-> BoolWord(k - 1, v)],
                   values |-> [i \in CountOf(bufs, 0) + 1 .. Len(bufs) |->
                                  [at |-> Offset(i), val |-> v[bufs[i]]]],
                   of     |-> [i \in DOMAIN bufs |-> [h |-> bufs[i], val |-> v[bufs[i]]]],
                   size   |-> ExpectedSize(bufs) + 4])

send(v, o) ==
    /\ ~gone /\ prepared /\ count < MaxActions
    /\ BuildAndSend(Group, bld[Group], SetValues(v), ExpectedSize(bufs) + 4, o)
    /\ UNCHANGED <<published, known, user_defs, groupVars>>

(* disable(): an empty group; possible once configure() has given the builder a session. *)
disable(o) ==
    /\ ~gone /\ session.id # 0 /\ inited /\ count < MaxActions
    /\ BuildAndSend(Group, bld[Group], Action("register", [ids |-> << >>, size |-> 0]), 6, o)
    /\ prepared' = FALSE
    /\ UNCHANGED <<published, known, user_defs, list, ref, bufs, inited, gone>>

(* ~TelemetryUpdateGroup() is empty. *)
DestroyGroup ==
    /\ ~gone /\ gone' = TRUE
    /\ UNCHANGED <<actionVars, published, known, user_defs, list, ref, bufs, prepared, inited>>

TelNext ==
    \/ Publish \/ updateDefinitions \/ getDefinitions \/ DestroyGroup
    \/ \E l \in Lists : set(l)
    \/ \E h \in Addable : add(h)
    \/ \E o \in {"ok", "error"} : configure(o) \/ disable(o)
    \/ \E v \in [Members(bufs) -> BOOLEAN], o \in Outcomes : send(v, o)
    \/ (Register \/ CloseSession) /\ UNCHANGED <<published, known, user_defs, groupVars>>

TelSpec == TelInit /\ [][TelNext]_telVars

(***************************************************************************)
(* Properties.                                                             *)
(***************************************************************************)
FirstAction(i) == wire[i].built[1].action
Clean(i) == SideBySide(wire[i])

(* The registration that the backend has when it receives datagram i. *)
Registered(i) ==
    LET before == {j \in 1 .. i - 1 : Clean(j) /\ FirstAction(j).kind = "register"}
    IN  FirstAction(Max(before)).data

(* What is set fits a registration g: a value for each telemetry, in their order, of the
   type that the definition has; no telemetry is registered twice. *)
Fits(d, g) ==
    /\ Len(d.of) = Len(g.ids) /\ d.size = g.size + 4
    /\ \A k, m \in DOMAIN g.ids : g.ids[k] = g.ids[m] => k = m
    /\ \A k \in DOMAIN g.ids : \E i \in DOMAIN Definition :
          Definition[i] = [id |-> g.ids[k], name |-> Handle[d.of[k].h].name,
                      class |-> Handle[d.of[k].h].class]

(* The values of a set packet are those of the telemetries registered last, whatever was
   added, reconfigured, disabled or failed to be sent in between. *)
SetMatchesRegistration ==
    \A i \in DOMAIN wire : (Clean(i) /\ FirstAction(i).kind = "set") =>
        Fits(FirstAction(i).data, Registered(i))

(* Every value has a place of its own: behind the words of the bools, inside the payload
   and at a multiple of its width; the first 32 bools are the bits of the first word. *)
Exact(d) ==
    LET w(k) == Width[Handle[d.of[k].h].class]
    IN  /\ 4 + 4 * Len(d.words) <= d.size
        /\ \A k \in DOMAIN d.values :
              /\ 4 + 4 * Len(d.words) <= d.values[k].at /\ d.values[k].at + w(k) <= d.size
              /\ d.values[k].at % w(k) = 0 /\ d.values[k].val = d.of[k].val
              /\ k + 1 \in DOMAIN d.values => d.values[k].at + w(k) <= d.values[k + 1].at
        /\ \A k \in DOMAIN d.of \ DOMAIN d.values :
              k <= WordBits => ((k - 1) \in d.words[1]) = d.of[k].val

(* The size computed by configure() is enough for what send() writes, and the offsets of
   send() are those of the sorted types. *)
SetPayloadExact ==
    \A i \in DOMAIN wire : FirstAction(i).kind = "set" => Exact(FirstAction(i).data)
==============================================================================
