---------------------------- MODULE SimDataParser ----------------------------
(***************************************************************************)
(* What SimDataProvider makes of a simulator data document                 *)
(* (core/src/sim_data.cpp): the items of its lists, the session that is    *)
(* active, and the look ups that follow a property of that session to      *)
(* another item.                                                           *)
(***************************************************************************)
EXTENDS DeviceInfoParser

CONSTANT
    HexDigits   \* key -> its characters: the values of hex digits, 16 for others

(* Participants and tires are keyed by four hex digits. *)
convertStringNumericKey(k) ==
    LET c == HexDigits[k] IN
    IF Len(c) # 4 \/ \E i \in DOMAIN c : c[i] > 15 THEN -1
    ELSE ((c[1] * 16 + c[2]) * 16 + c[3]) * 16 + c[4]

(* docAddSubDocHex16Key: the digits of a 16 bit id. *)
Hex16(id) == <<id \div 4096, (id \div 256) % 16, (id \div 16) % 16, id % 16>>

(* The sub documents of every list with the name k, with the offset each starts at. *)
RECURSIVE Items(_, _, _)
Items(m, lists, k) ==
    IF lists = << >> THEN << >> ELSE
    LET n    == Head(lists)
        docs == SelectSeq(Inside(m, n, {}), LAMBDA e : e.type = "DOC")
    IN  (IF n.type = "DOC" /\ n.key.name = k
           THEN [i \in DOMAIN docs |-> [id |-> docs[i].key.name, at |-> docs[i].off]]
           ELSE << >>) \o Items(m, Tail(lists), k)

Numbered(items) ==
    LET valid == SelectSeq(items, LAMBDA x : convertStringNumericKey(x.id) # -1) IN
    [i \in DOMAIN valid |-> [valid[i] EXCEPT !.id = convertStringNumericKey(@)]]

NoItem == [id |-> "", at |-> 0]

(* getVehicle, getTrack, getSession, getParticipant and getTire: the first with the id. *)
ById(items, id) ==
    LET I == {i \in DOMAIN items : items[i].id = id} IN
    IF I = {} THEN NoItem ELSE items[CHOOSE i \in I : \A j \in I : i <= j]

(* parseFromRaw: the lists are entered, of "sim" the place is kept. *)
parseFromRaw(m) ==
    LET els  == Visited(m, ReaderAt(m), {"DOC"})
        all(k) == Items(m, els, k)
        sim  == Hits(els, "DOC", "sim")
    IN  [vehicles |-> all("vehicles"), sessions |-> all("sessions"), tracks |-> all("tracks"),
         participants |-> Numbered(all("participants")), tires |-> Numbered(all("tires")),
         current |-> ById(all("sessions"), Str(m, els, "active_session", "")),
         sim |-> IF sim = {} \/ Str(m, els, "active_sim", "") = "" THEN NoItem
                 ELSE [id |-> Str(m, els, "active_sim", ""), at |-> Last(els, "DOC", "sim").off]]

(* SimDataSubSection::getProperty of the item at offset o, as found first in it. *)
getProperty(m, o, k, types) ==
    LET doc == subdocument(m, o)
        n   == Found(doc, ReaderAt(doc), k)
    IN  IF n.type \in types THEN ValueAt(doc, n) ELSE "none"

(* The item of the list that the current session names by property k. *)
NamedByCurrent(m, d, items, k) ==
    LET id == getProperty(m, d.current.at, k, {"STR"}) IN
    IF d.current.at = 0 \/ id = "none" THEN NoItem ELSE ById(items, id)

getPlayerVehicle(m, d) == NamedByCurrent(m, d, d.vehicles, Name("player_vehicle_id", 17))
getCurrentTrack(m, d)  == NamedByCurrent(m, d, d.tracks, Name("track_id", 8))
==============================================================================
