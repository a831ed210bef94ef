----------------------------- MODULE InfoDocument -----------------------------
(***************************************************************************)
(* The documents the backend publishes through shared memory, built with   *)
(* the builder and read by the parsers.  The backend describes devices, or *)
(* the simulator, one entry at a time and in any order; an entry is an     *)
(* element of the document together with what it stands for.               *)
(***************************************************************************)
EXTENDS BsonDocument, SimDataParser

CONSTANTS
    DeviceEntries,   \* [key, type, val, len, sub, nodes, field, means]
    SimEntries,
    MaxEntries,      \* bound for each kind: entries of a document, a section counting twice
    MaxBefore        \* bound: entries with which a second device is begun

VARIABLE described   \* the entries of each device, or of the simulator, in order

infoVars == <<allVars, described>>

Published == {"device", "simdata"}

SE == INSTANCE SequencesExt

InfoInit == DocInit /\ described = << >>

(* Room for entries: a section counts twice. *)
Weight(e) == IF e.type = "DOC" THEN 2 ELSE 1
Used == SE!FoldSeq(LAMBDA e, n : n + Weight(e), 0, SE!FlattenSeq(described))

BeginPublishing(k) ==
    /\ phase = "new" /\ phase' = "open"
    /\ b' = initializeVector(b, 100, 0, 0) /\ Started(k, << >>, <<0>>)
    /\ described' = IF k = "simdata" THEN <<<< >>>> ELSE << >>

DeviceKey == KeyOf("dev", 3)

BeginDevice ==
    /\ phase = "open" /\ kind = "device" /\ b.depth = 0
    /\ Len(described) < 2 /\ Used <= MaxBefore
    /\ b' = docBeginSubDoc(b, DeviceKey) /\ Began(DeviceKey, "DOC", << >>)
    /\ described' = Append(described, << >>) /\ UNCHANGED <<phase, readVars>>

(* One more element of the device, or of the simulator's document. *)
Describe(e) ==
    /\ phase = "open" /\ kind \in Published /\ Used + Weight(e) <= MaxEntries[kind]
    /\ b.depth = IF kind = "device" THEN 1 ELSE 0
    /\ b' = IF e.type = "DOC" THEN docAddSubDoc(b, e.key, e.sub) ELSE docAddElement(b, e.key, e)
    /\ Added(e.key, e.type, e.val, e.nodes)
    /\ described' = [described EXCEPT ![Len(described)] = Append(@, e)]
    /\ UNCHANGED <<phase, readVars>>

EndDevice ==
    /\ kind = "device" /\ EndDocument
    /\ opened' = Pop(opened) /\ UNCHANGED <<kind, tree, readVars, described>>

FinishPublishing ==
    /\ kind \in Published /\ b.depth = 0 /\ Finish
    /\ UNCHANGED <<buildVars, readVars, described>>

InfoNext ==
    \/ kind \notin Published /\ DocNext /\ UNCHANGED described
    \/ \E k \in Published : BeginPublishing(k)
    \/ BeginDevice \/ EndDevice \/ FinishPublishing
    \/ kind = "device" /\ \E e \in DeviceEntries : Describe(e)
    \/ kind = "simdata" /\ \E e \in SimEntries : Describe(e)

InfoSpec == InfoInit /\ [][InfoNext]_infoVars

(***************************************************************************)
(* What the entries stand for.                                             *)
(***************************************************************************)
FirstKey(es, k) ==
    LET I == {i \in DOMAIN es : es[i].key.name = k} IN
    IF I = {} THEN 0 ELSE CHOOSE i \in I : \A j \in I : i <= j

(* The meaning of the last entry for field f behind position p. *)
MeantBehind(es, p, f, default) ==
    LET I == {i \in DOMAIN es : i > p /\ es[i].field = f} IN
    IF I = {} THEN default ELSE es[CHOOSE i \in I : \A j \in I : j <= i].means

Owned(inputs, this) ==
    [i \in DOMAIN inputs |->
        [inputs[i] EXCEPT !.variable.dev = IF @ = "this" THEN this ELSE @]]

(* A device is known by both its ids. *)
Known(es) ==
    LET l == FirstKey(es, "logical_id")
        u == FirstKey(es, "device_uid")
    IN  l > 0 /\ u > 0 /\ es[l].field = "id" /\ es[u].field = "uid"

Meant(es) ==
    LET id == es[FirstKey(es, "logical_id")].means
        field(f, default) == MeantBehind(es, 0, f, default)
    IN  [uid |-> es[FirstKey(es, "device_uid")].means, id |-> id,
         role |-> field("role", "wheel"), connected |-> field("connected", "false"),
         usb |-> field("usb", << >>),
         controls |-> field("controls", << >>),
         inputs |-> Owned(field("inputs", << >>), id),
         feedbacks |-> field("feedbacks", << >>),
         hid |-> field("hid", [axis |-> << >>, buttons |-> << >>])]

(* The parser does not look at what stands in front of device_uid. *)
Overlooked(es, f) ==
    /\ \E i \in DOMAIN es : es[i].field = f
    /\ \A i \in DOMAIN es : es[i].field = f => i < FirstKey(es, "device_uid")

Unnamed == "unnamed"   \* the name of a control that is given none

ControlsAsDescribed(cs, meant) ==
    /\ Len(cs) = Len(meant)
    /\ \A i \in DOMAIN meant :
          /\ [cs[i] EXCEPT !.name = ""] = [meant[i] EXCEPT !.name = ""]
          /\ meant[i].name # Unnamed => cs[i].name = meant[i].name

DeviceAsDescribed(d, es) ==
    LET m == Meant(es) IN
    /\ DOMAIN d = DOMAIN m
    /\ \A f \in DOMAIN m \ {"controls"} : Overlooked(es, f) \/ d[f] = m[f]
    /\ Overlooked(es, "controls") \/ ControlsAsDescribed(d.controls, m.controls)

DevicesAsDescribed(ds, dess) ==
    /\ Len(ds) = Len(dess)
    /\ \A i \in DOMAIN dess : DeviceAsDescribed(ds[i], dess[i])

(* The ids listed by the entries for field f, all of them. *)
RECURSIVE Listed(_, _)
Listed(es, f) ==
    IF es = << >> THEN << >>
    ELSE (IF Head(es).field = f THEN Head(es).means ELSE << >>) \o Listed(Tail(es), f)

Ids(items) == [i \in DOMAIN items |-> items[i].id]

(* The item that the active session names: link is "vehicle" or "track". *)
Linked(es, ids, link) ==
    LET active == MeantBehind(es, 0, "active", "")
        named  == {s \in SE!ToSet(Listed(es, "sessions")) : s.id = active /\ s[link] \in SE!ToSet(ids)}
    IN  IF named = {} THEN "" ELSE (CHOOSE s \in named : TRUE)[link]

SimAsDescribed(d, es) ==
    /\ \A f \in {"vehicles", "tracks", "participants", "tires"} : Ids(d[f]) = Listed(es, f)
    /\ Ids(d.sessions) = Ids(Listed(es, "sessions"))
    /\ getPlayerVehicle(Bytes, d).id = Linked(es, Listed(es, "vehicles"), "vehicle")
    /\ getCurrentTrack(Bytes, d).id = Linked(es, Listed(es, "tracks"), "track")
    /\ (d.sim.at > 0) = (MeantBehind(es, 0, "sim", "") # "" /\ MeantBehind(es, 0, "active_sim", "") # "")

(* The parsers of device_info.cpp and sim_data.cpp find in a document that passed
   validate() what the backend described, whatever the order of its entries: devices with
   both ids, the last of repeated sections, every item of repeated lists, and the items
   the active session refers to.  Two things are excepted: the name of a control that is
   given none, which device_info.h:53 promises to be the id and parseControls() leaves
   empty, and a field all of whose entries stand in front of device_uid, which the parser
   passes over. *)
ParsedAsDescribed ==
    (phase = "done" /\ kind \in Published /\ validate(Bytes, b.offset - b.start)) =>
        IF kind = "device"
          THEN DevicesAsDescribed(parseDeviceInfo(Bytes), SelectSeq(described, Known))
          ELSE SimAsDescribed(parseFromRaw(Bytes), described[1])
==============================================================================
