---------------------------- MODULE DocumentCursor ----------------------------
(***************************************************************************)
(* What a reader of a document promises: an iterator over a tree of        *)
(* elements.  Element i of the tree has a parent, an earlier element or 0  *)
(* for the document itself, and the elements of a document are visited in  *)
(* the order in which they were added to it.                               *)
(***************************************************************************)
EXTENDS Integers, Sequences, FiniteSetsExt

VARIABLES
    tree,    \* sequence of elements [parent, type, key, ...]
    path,    \* the containers that have been entered, outermost first
    last,    \* the element last visited in the current document, or 0
    state    \* "closed", "begin" (before an element), "elem" or "end"

cursorVars == <<tree, path, last, state>>

Current == IF path = << >> THEN 0 ELSE path[Len(path)]
Members == {i \in DOMAIN tree : tree[i].parent = Current}

Stand(i) == last' = i /\ state' = "elem" /\ UNCHANGED <<tree, path>>

CursorInit == path = << >> /\ last = 0 /\ state = "closed"

(* A reader is put at the beginning of some document. *)
Open == state = "closed" /\ state' = "begin" /\ path' = << >> /\ last' = 0

(* What follows the element last visited, or the end when nothing does. *)
Step ==
    /\ state \in {"begin", "elem"}
    /\ LET later == {i \in Members : i > last} IN
       IF later = {} THEN state' = "end" /\ UNCHANGED <<tree, path, last>>
                     ELSE Stand(Min(later))

Enter ==
    /\ state = "elem" /\ tree[last].type \in {"DOC", "ARRAY"}
    /\ path' = Append(path, last) /\ last' = 0 /\ state' = "begin" /\ UNCHANGED tree

(* Reading continues behind the container that is left. *)
Leave ==
    /\ path # << >> /\ state # "closed"
    /\ path' = SubSeq(path, 1, Len(path) - 1)
    /\ last' = Current /\ state' = "begin" /\ UNCHANGED tree

Rewind == state # "closed" /\ last' = 0 /\ state' = "begin" /\ UNCHANGED <<tree, path>>

(* Find stands on the first member with a key; FindNext looks only ahead. *)
Find == \E i \in Members :
    /\ \A j \in Members : tree[j].key = tree[i].key => i <= j
    /\ state # "closed" /\ Stand(i)

FindNext == \E i \in Members :
    /\ i > last /\ state # "closed" /\ Stand(i)
    /\ \A j \in Members : (j > last /\ tree[j].key = tree[i].key) => i <= j

(* A search that fails leaves the iterator where it is, a stutter, as bson_reader.h:77
   and :89 say of seekKey and seekNextKey ("The current offset is not changed").  The
   exception: one that fails from in front of the first element ends at the end, since
   the code has no element to go back to (bson_reader.cpp:186, 203, 237). *)
MissAtBegin ==
    state = "begin" /\ last = 0 /\ state' = "end" /\ UNCHANGED <<tree, path, last>>

CursorNext == Open \/ Step \/ Enter \/ Leave \/ Rewind \/ Find \/ FindNext \/ MissAtBegin

CursorSpec == CursorInit /\ [][CursorNext]_cursorVars
==============================================================================
