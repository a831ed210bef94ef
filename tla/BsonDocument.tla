----------------------------- MODULE BsonDocument -----------------------------
(***************************************************************************)
(* A builder, alone or inside the two classes that wrap it, and a reader   *)
(* of the document it has built.  The history variables record what the    *)
(* caller asked the builder for, as a tree of elements, and where the      *)
(* reader stands in that tree.                                             *)
(***************************************************************************)
EXTENDS BsonBuilder, BsonReader

CONSTANTS
    OwnKeys,        \* names of commands and ids of simulators
    MaxTree         \* bound for each kind: the tree grows while it is smaller

VARIABLES
    kind,      \* who drives the builder: "plain", "command", "sim", "device", "simdata"
    tree,      \* elements the builder accepted: [parent, type, key, val]
    opened,    \* elements whose sub document is open, 0 for the main document
    r,         \* the reader, or NoReader
    path,      \* containers the reader entered: [id, begin]
    last       \* element the reader last stood on in the current document

buildVars == <<kind, tree, opened>>
readVars  == <<r, path, last>>
allVars   == <<vars, buildVars, readVars>>

NoReader == [type |-> "closed"]
Top(s)   == s[Len(s)]
Pop(s)   == SubSeq(s, 1, Len(s) - 1)

(* The document finish() returned, as the reader sees it. *)
Bytes == [o \in {x - b.start : x \in DOMAIN b.mem} |-> b.mem[o + b.start]]

(* Elements are written in the order in which they are added. *)
IdAt(o) == Cardinality({x \in DOMAIN b.mem : b.mem[x].kind = "type" /\ x <= o + b.start})

DocInit == /\ Init /\ kind = "plain" /\ tree = << >> /\ opened = <<0>>
           /\ r = NoReader /\ path = << >> /\ last = 0

(***************************************************************************)
(* Building.  A call that was accepted moved the offset.                   *)
(***************************************************************************)
Accepted == b'.offset > b.offset

Node(p, t, k, x) == [parent |-> p, type |-> t, key |-> k, val |-> x]

(* The key an element of an array must have: the number of elements before it. *)
PositionKey ==
    ArrayKey(Cardinality({i \in DOMAIN tree : tree[i].parent = Top(opened)}))

(* Element n and the elements nodes copied with it from another document. *)
Grow(n, nodes) ==
    LET id == Len(tree) + 1
        moved(x) == [x EXCEPT !.parent = id + x.parent]
    IN  tree' = tree \o <<n>> \o [i \in DOMAIN nodes |-> moved(nodes[i])]

Added(k, t, x, nodes) ==
    /\ IF Accepted THEN Grow(Node(Top(opened), t, k, x), nodes) ELSE UNCHANGED tree
    /\ UNCHANGED <<kind, opened>>

Began(k, t, nodes) ==
    /\ IF Accepted
         THEN Grow(Node(Top(opened), t, k, ""), nodes) /\ opened' = Append(opened, Len(tree) + 1)
         ELSE UNCHANGED <<tree, opened>>
    /\ UNCHANGED kind

Started(k, nodes, stack) ==
    r = NoReader /\ kind' = k /\ tree' = nodes /\ opened' = stack /\ UNCHANGED readVars

(***************************************************************************)
(* CommandRequest and SimDataUpdateBuilder open two documents and leave    *)
(* the inner one to the caller.                                            *)
(***************************************************************************)
KeyOf(n, l)  == [arr |-> -1, name |-> n, len |-> l]
TypeKey      == KeyOf("00type", 6)
ServiceKey   == KeyOf("service", 7)
CmdKey       == KeyOf("cmd", 3)
UserDataKey  == KeyOf("user-data", 9)
ActiveSimKey == KeyOf("active_sim", 10)
SimKey       == KeyOf("sim", 3)
VehiclesKey  == KeyOf("vehicles", 8)

I32(x)  == [type |-> "I32", val |-> x, len |-> 0]
Text(x) == [type |-> "STR", val |-> x, len |-> 4]

RequestSize == 100   \* buffer_.resize(100)

(* CommandRequest::initialize up to the document of the command. *)
requestHeader(s) ==
    docBeginSubDoc(docAddElement(docAddElement(initializeVector(s, RequestSize, 0, 0),
        TypeKey, I32("1")), ServiceKey, Text("serv")), CmdKey)

commandInitialize(s, k)          == docBeginSubDoc(requestHeader(s), k)
commandInitializeFrom(s, k, sub) == docBeginSubDocFrom(requestHeader(s), k, sub)

(* CommandRequest::finalize: close both documents, add the id of the command. *)
closeAndAddId(s)   == docAddElement(endDocument(endDocument(s)), UserDataKey, I32("id"))
commandFinalize(s) == finish(closeAndAddId(s))

RequestNodes(k) == <<Node(0, "I32", TypeKey, "1"), Node(0, "STR", ServiceKey, "serv"),
                     Node(0, "DOC", CmdKey, ""), Node(3, "DOC", k, "")>>

(* SimDataUpdateBuilder(sim_id, activate_sim), and initialize(). *)
simInitialize(s, n, activate, k) ==
    LET e == initializeVector(s, n, 0, 0)
        a == IF activate THEN docAddElement(e, ActiveSimKey, Text("simu")) ELSE e
    IN  docBeginSubDoc(docBeginSubDoc(a, SimKey), k)

SimNodes(activate, k) ==
    IF activate THEN <<Node(0, "STR", ActiveSimKey, "simu"), Node(0, "DOC", SimKey, ""),
                       Node(2, "DOC", k, "")>>
                ELSE <<Node(0, "DOC", SimKey, ""), Node(1, "DOC", k, "")>>

(* buildAndSet(id, builder): one finished item under the name of its list. *)
buildAndSet(s, k, sub) == endDocument(docAddSubDoc(docBeginSubDoc(s, VehiclesKey), k, sub))
simFinish(s) == finish(endDocument(endDocument(s)))

Budget == Len(tree) < MaxTree[kind]

Idle == phase = "new" \/ (phase = "done" /\ b.grow)

CommandInitialize(k) ==
    /\ Idle /\ phase' = "open" /\ b' = commandInitialize(b, k)
    /\ Started("command", RequestNodes(k), <<0, 3, 4>>)

CommandInitializeFrom(k, sub) ==
    /\ Idle /\ phase' = "open" /\ b' = commandInitializeFrom(b, k, sub)
    /\ Started("command", RequestNodes(k) \o
                 [i \in DOMAIN sub.nodes |-> [sub.nodes[i] EXCEPT !.parent = @ + 4]], <<0, 3, 4>>)

CommandFinalize ==
    /\ phase = "open" /\ kind = "command" /\ b.depth = 2
    /\ b' = commandFinalize(b)
    /\ phase' = IF b.error THEN "open" ELSE "done"
    /\ tree' = Append(tree, Node(0, "I32", UserDataKey, "id"))
    /\ opened' = <<0>> /\ UNCHANGED <<kind, readVars>>

SimInitialize(n, activate, k) ==
    /\ Idle /\ phase' = "open" /\ b' = simInitialize(b, n, activate, k)
    /\ Started("sim", SimNodes(activate, k), IF activate THEN <<0, 2, 3>> ELSE <<0, 1, 2>>)

SimBuildAndSet(k, sub) ==
    /\ kind = "sim" /\ Budget /\ InDoc /\ b' = buildAndSet(b, k, sub) /\ UNCHANGED phase
    /\ LET id == Len(tree) + 1 IN
       tree' = tree \o <<Node(Top(opened), "DOC", VehiclesKey, ""), Node(id, "DOC", k, "")>>
                    \o [i \in DOMAIN sub.nodes |-> [sub.nodes[i] EXCEPT !.parent = @ + id + 1]]
    /\ UNCHANGED <<kind, opened, readVars>>

SimFinish ==
    /\ phase = "open" /\ kind = "sim" /\ b.depth = 2
    /\ b' = simFinish(b) /\ phase' = IF b.error THEN "open" ELSE "done"
    /\ opened' = <<0>> /\ UNCHANGED <<kind, tree, readVars>>

(* The documents the wrappers opened are theirs to close. *)
OwnDepth == IF kind = "plain" THEN 0 ELSE 2

Build ==
    \/ /\ \/ Budget /\ \E k \in Names :
               \/ \E v \in Values : DocAddElement(k, v) /\ Added(k, v.type, v.val, << >>)
               \/ \E sub \in SubDocs :
                    \/ DocAddSubDoc(k, sub) /\ Added(k, "DOC", "", sub.nodes)
                    \/ DocBeginSubDocFrom(k, sub) /\ Began(k, "DOC", sub.nodes)
               \/ DocBeginSubDoc(k) /\ Began(k, "DOC", << >>)
               \/ DocBeginSubArray(k) /\ Began(k, "ARRAY", << >>)
          \/ /\ Budget
             /\ \/ \E v \in Values : ArrayAddElement(v) /\ Added(PositionKey, v.type, v.val, << >>)
                \/ ArrayBeginSubDoc /\ Began(PositionKey, "DOC", << >>)
                \/ ArrayBeginSubArray /\ Began(PositionKey, "ARRAY", << >>)
          \/ /\ b.depth > OwnDepth /\ (EndDocument \/ EndArray)
             /\ opened' = Pop(opened) /\ UNCHANGED <<kind, tree>>
          \/ kind = "plain" /\ Finish /\ UNCHANGED buildVars
          \/ InitializeBuffer /\ UNCHANGED buildVars
       /\ UNCHANGED readVars
    \/ InitializeVector /\ Started("plain", << >>, <<0>>)
    \/ \E k \in Names, sub \in SubDocs : SimBuildAndSet(k, sub)
    \/ \E k \in OwnKeys :
         \/ CommandInitialize(k)
         \/ \E sub \in SubDocs : CommandInitializeFrom(k, sub)
         \/ \E n \in VecSizes, activate \in BOOLEAN : SimInitialize(n, activate, k)
    \/ CommandFinalize \/ SimFinish

(***************************************************************************)
(* Reading.                                                                *)
(***************************************************************************)
Reading == phase = "done" /\ r # NoReader

ReadOpen ==
    /\ phase = "done" /\ r = NoReader
    /\ r' = Reader(Bytes, b.offset - b.start)
    /\ path' = <<[id |-> 0, begin |-> 4]>> /\ last' = 0
    /\ UNCHANGED <<vars, buildVars>>

(* The reader moved within the current document. *)
Moved(s, from) ==
    /\ Reading /\ r' = s
    /\ last' = IF s.type \in ElementTypes THEN IdAt(s.elem) ELSE from
    /\ UNCHANGED <<vars, buildVars, path>>

ReadNext      == Moved(next(Bytes, r), last)
ReadSeekBegin == Moved(seekBegin(r), 0)

ReadBeginSub ==
    /\ Reading /\ r' = beginSub(Bytes, r)
    /\ IF CanBegin(r) THEN path' = Append(path, [id |-> last, begin |-> r'.off]) /\ last' = 0
                      ELSE UNCHANGED <<path, last>>
    /\ UNCHANGED <<vars, buildVars>>

ReadEndSub ==
    /\ Reading /\ r' = endSub(r)
    /\ IF r.layers # << >> THEN last' = Top(path).id /\ path' = Pop(path)
                           ELSE UNCHANGED <<path, last>>
    /\ UNCHANGED <<vars, buildVars>>

ReadSeekKey(k)     == Moved(seekKey(Bytes, r, k), last)
ReadSeekNextKey(k) == Moved(seekNextKey(Bytes, r, k), last)
ReadSeekIndex(i)   == Moved(seekIndex(Bytes, r, i), last)

Members(p) == {i \in DOMAIN tree : tree[i].parent = p}

(* The rules the callers in this repository keep: documents are searched before they
   are left and re-entered, not between seekBegin() and next(), by key in documents and by
   a valid, different index in arrays. *)
Searchable == Reading /\ r.begin = Top(path).begin /\ (r.type = "BEGIN" => r.elem < r.begin)

Read ==
    \/ ReadOpen \/ ReadNext \/ ReadBeginSub \/ ReadEndSub
    \/ Searchable /\ ReadSeekBegin
    \/ Searchable /\ r.arr = -2 /\ \E k \in Names : ReadSeekKey(k) \/ ReadSeekNextKey(k)
    \/ Searchable /\ r.arr > -2 /\ \E i \in 0 .. Cardinality(Members(Top(path).id)) - 1 :
            i # r.arr /\ ReadSeekIndex(i)

DocNext == Build \/ Read

DocSpec == DocInit /\ [][DocNext]_allVars

(***************************************************************************)
(* Properties.                                                             *)
(***************************************************************************)
Level[i \in 0 .. Len(tree)] == IF i = 0 THEN 0 ELSE 1 + Level[tree[i].parent]

(* BsonReader::validate accepts a document that finish() hands out exactly when a reader
   can follow its nesting; and what a reader then finds is what the caller added: the
   element it stands on has the type, key and value given to the builder, a bool in an
   array comes back negated. *)
ReadsWhatWasBuilt ==
    /\ (phase = "done" /\ r = NoReader) =>
          (validate(Bytes, b.offset - b.start) <=>
              \A i \in DOMAIN tree : tree[i].type \in Container => Level[i] <= MaxSubdocs)
    /\ (Reading /\ r.type \in ElementTypes) =>
          LET n == tree[IdAt(r.elem)] IN
          /\ r.type = n.type /\ r.key = n.key
          /\ (r.type = "BOOL" /\ r.key.arr >= 0) \/ ValueAt(Bytes, r) = n.val
          /\ r.arr > -2 => r.arr = r.key.arr

Cursor == INSTANCE DocumentCursor WITH
    path  <- IF path = << >> THEN << >> ELSE [i \in 1 .. Len(path) - 1 |-> path[i + 1].id],
    state <- CASE r.type = "closed" -> "closed"
               [] r.type = "BEGIN"  -> "begin"
               [] r.type = "END"    -> "end"
               [] r.type = "FORMAT_ERROR" -> "error"
               [] OTHER             -> "elem",
    tree  <- IF r.type = "closed" THEN << >> ELSE tree

(* The reader implements the iterator over the tree that was built: next, beginSub and
   endSub visit its elements in order, searches find the first match or leave the reader
   where it is, save from in front of the first element (MissAtBegin), nothing fails.  Of a
   search after endSub() it says nothing (Searchable). *)
ReaderIsCursor == Cursor!CursorSpec
==============================================================================
