----------------------------- MODULE BsonBuilder -----------------------------
(***************************************************************************)
(* The BSON writer (core/src/util/bson_builder.cpp).  The buffer is kept   *)
(* at the granularity of fields: mem maps the byte offset at which a field *)
(* starts to the field, and a field knows its width in bytes, so offsets,  *)
(* sizes and the capacity arithmetic are those of the code while the bytes *)
(* of a number or a string are one abstract value.                         *)
(***************************************************************************)
EXTENDS Integers, Sequences, FiniteSets

CONSTANTS
    Names,        \* keys of document elements, [arr |-> -1, name, len]
    Values,       \* scalar elements to add, [type, val, len]
    SubDocs,      \* finished documents to embed, [size, toks, nodes]
    FixedSizes,   \* sizes of caller supplied buffers
    Starts,       \* start offsets in a vector
    Footers,      \* bytes reserved behind the document
    VecSizes,     \* sizes a vector may have before initialize()
    Slack,        \* what vector::reserve allocates beyond the request
    MaxDepth,     \* bound: nesting depth
    ArrayLimit,   \* bound: indices taken per array
    MaxElements   \* bound: an element is added while the document has fewer

Types == {"DOUBLE", "STR", "DOC", "ARRAY", "BINARY", "BOOL", "NULL", "I32", "I64"}

Key == [arr : {-1} \cup Nat, name : STRING, len : Nat]

NoKey == [arr |-> -1, name |-> "", len |-> 0]

(* Fields [kind, val, num, key, width] by the offset at which they start, none of them
   reaching beyond n. *)
FieldsOK(toks, n) ==
    /\ DOMAIN toks \subseteq Nat
    /\ \A d \in DOMAIN toks : toks[d].width \in Nat /\ d + toks[d].width <= n

ASSUME NamesAssumption == Names \subseteq Key
ASSUME ValuesAssumption ==
    Values \subseteq [type : Types \ {"DOC", "ARRAY"}, val : STRING, len : Nat]
ASSUME SubDocsAssumption ==
    \A sub \in SubDocs :
        /\ sub.size \in Nat /\ sub.size >= 5
        /\ FieldsOK(sub.toks, sub.size)
        /\ \A d \in DOMAIN sub.toks :
              d < sub.size - 1 => d + sub.toks[d].width <= sub.size - 1
ASSUME SizesAssumption ==
    /\ FixedSizes \subseteq Nat /\ \A n \in FixedSizes : n >= 5
    /\ Starts \subseteq Nat /\ Footers \subseteq Nat /\ VecSizes \subseteq Nat
    /\ ArrayLimit \in 0 .. 100
    /\ Slack \in Nat /\ MaxDepth \in Nat /\ MaxElements \in Nat

VARIABLES
    b,       \* the builder: a record of its members and of the buffer
    phase    \* "new", "open" or "done" (finish() has returned the document)

(***************************************************************************)
(* Fields and how they are written.                                        *)
(***************************************************************************)
TypeField(t)   == [kind |-> "type", val |-> t, num |-> 0, key |-> NoKey, width |-> 1]
KeyField(k)    == [kind |-> "key", val |-> "", num |-> 0, key |-> k, width |-> k.len + 1]
IntField(n)    == [kind |-> "int", val |-> "", num |-> n, key |-> NoKey, width |-> 4]
ValField(x, w) == [kind |-> "val", val |-> x, num |-> 0, key |-> NoKey, width |-> w]
EndField       == [kind |-> "end", val |-> "", num |-> 0, key |-> NoKey, width |-> 1]

(* memcpy of the fields toks to offset o. *)
Write(mem, o, toks) ==
    [x \in DOMAIN mem \cup {o + d : d \in DOMAIN toks} |->
        IF x - o \in DOMAIN toks THEN toks[x - o] ELSE mem[x]]

FixedSize == [DOUBLE |-> 8, I64 |-> 8, I32 |-> 4, BOOL |-> 1, NULL |-> 0]

(* Strings: length, characters, NUL; binaries: length, subtype, bytes. *)
ValueSize(v) == IF v.type \in DOMAIN FixedSize THEN FixedSize[v.type] ELSE v.len + 5

ValueFields(v) ==
    CASE v.type = "NULL" -> [d \in {} |-> EndField]
      [] v.type \in {"STR", "BINARY"} ->
            [d \in {0, 4} |->
                IF d = 0 THEN IntField(IF v.type = "STR" THEN v.len + 1 ELSE v.len)
                         ELSE ValField(v.val, v.len + 1)]
      [] OTHER -> [d \in {0} |-> ValField(v.val, ValueSize(v))]

(* arrayAddElement(bool) stores the negation of its argument. *)
ArrayValue(v) ==
    IF v.type = "BOOL" THEN [v EXCEPT !.val = IF @ = "true" THEN "false" ELSE "true"] ELSE v

(* fillArrayDocKey below 100 elements, where it is the decimal index. *)
ArrayKey(i) == [arr |-> i, name |-> "", len |-> IF i < 10 THEN 1 ELSE 2]

(***************************************************************************)
(* Capacity.  Room is what verifyEnoughCapacity answers and Reserve what   *)
(* it does; a vector always grows to the bytes asked for, or more.         *)
(***************************************************************************)
Room(s, n) == s.usage + n <= s.capacity \/ s.grow

(* A mutant: the vector grows by the slack, whatever is asked for. *)
Reserve_Slack(s, n) ==
    IF s.usage + n <= s.capacity THEN s ELSE [s EXCEPT !.capacity = s.capacity + Slack]

Reserve(s, n) ==
    IF s.usage + n <= s.capacity THEN s ELSE [s EXCEPT !.capacity = s.usage + n + Slack]

Refuse(s) == [s EXCEPT !.error = TRUE]

currentDocIsArray(s) == s.depth \in s.arrays

(* verifyCapacityAndInsertKey: reserve, then type and key; n bytes of value follow. *)
InsertKey(s, t, k, n) ==
    LET g == Reserve(s, n + 2 + k.len) IN
    [g EXCEPT !.mem = Write(g.mem, g.offset,
                            [d \in {0, 1} |-> IF d = 0 THEN TypeField(t) ELSE KeyField(k)]),
              !.offset = g.offset + 2 + k.len,
              !.usage  = g.usage + n + 2 + k.len]

(* Append n bytes of value behind the key. *)
PutValue(s, toks, n) ==
    [s EXCEPT !.mem = Write(s.mem, s.offset, toks), !.offset = s.offset + n]

(* A mutant: every element has index 0. *)
TakeIndex_Not(s) == s

(* verifyCapacityAndInsertArrayKey takes the index before it knows there is room. *)
TakeIndex(s) == [s EXCEPT !.idx[Len(s.idx)] = s.idx[Len(s.idx)] + 1]
NextKey(s)   == ArrayKey(s.idx[Len(s.idx)])

(* One element with a value of n bytes. *)
Add(s, k, t, toks, n) ==
    IF Room(s, n + 2 + k.len) THEN PutValue(InsertKey(s, t, k, n), toks, n) ELSE Refuse(s)

(* Open a sub document or array whose header is followed by n - 5 copied bytes. *)
Begin(s, k, t, toks, n) ==
    IF ~Room(s, n + 2 + k.len)
      THEN Refuse(s)
      ELSE LET g == InsertKey(s, t, k, n) IN
           [g EXCEPT !.sizes  = Append(g.sizes, g.offset),
                     !.idx    = IF t = "ARRAY" THEN Append(g.idx, 0) ELSE g.idx,
                     !.mem    = Write(g.mem, g.offset, toks),
                     !.offset = g.offset + n - 1,
                     !.depth  = g.depth + 1,
                     !.arrays = IF t = "ARRAY" THEN g.arrays \cup {g.depth + 1}
                                               ELSE g.arrays \ {g.depth + 1}]

NoFields == [d \in {} |-> EndField]

(* What docBeginSubDoc copies of a document: neither its size nor its end. *)
Body(sub) == [d \in {x \in DOMAIN sub.toks : 4 <= x /\ x < sub.size - 1} |-> sub.toks[d]]

(***************************************************************************)
(* The operations, as functions of the builder.                            *)
(***************************************************************************)
docAddElement(s, k, v) == Add(s, k, v.type, ValueFields(v), ValueSize(v))
arrayAddElement(s, v) ==
    Add(TakeIndex(s), NextKey(s), v.type, ValueFields(ArrayValue(v)), ValueSize(v))
docAddSubDoc(s, k, sub)       == Add(s, k, "DOC", sub.toks, sub.size)
docBeginSubDoc(s, k)          == Begin(s, k, "DOC", NoFields, 5)
docBeginSubDocFrom(s, k, sub) == Begin(s, k, "DOC", Body(sub), sub.size)
docBeginSubArray(s, k)        == Begin(s, k, "ARRAY", NoFields, 5)
arrayBeginSubDoc(s)           == Begin(TakeIndex(s), NextKey(s), "DOC", NoFields, 5)
arrayBeginSubArray(s)         == Begin(TakeIndex(s), NextKey(s), "ARRAY", NoFields, 5)

(* Terminate the innermost document and fill in its size. *)
Close(s) ==
    LET from == s.sizes[Len(s.sizes)] IN
    [s EXCEPT !.mem    = Write(Write(s.mem, s.offset, [d \in {0} |-> EndField]),
                               from, [d \in {0} |-> IntField(s.offset + 1 - from)]),
              !.offset = s.offset + 1,
              !.depth  = s.depth - 1,
              !.sizes  = SubSeq(s.sizes, 1, Len(s.sizes) - 1)]

endDocument(s) == Close(s)
endArray(s)    == [Close(s) EXCEPT !.idx = SubSeq(s.idx, 1, Len(s.idx) - 1)]

CanFinish(s) == s.depth = 0 /\ ~s.error

(* finish() of a complete document; otherwise it returns null and writes nothing. *)
finish(s) ==
    IF ~CanFinish(s) THEN s ELSE
    [s EXCEPT !.mem    = Write(Write(s.mem, s.offset, [d \in {0} |-> EndField]),
                               s.start, [d \in {0} |-> IntField(s.offset + 1 - s.start)]),
              !.offset = s.offset + 1]

(* The members initialize() sets; depth, the stacks and the error flag stay. *)
initialize(s, cap, from, foot, vec) ==
    [s EXCEPT !.mem      = NoFields,
              !.capacity = cap,
              !.start    = from,
              !.footer   = foot,
              !.grow     = vec \/ s.grow,
              !.offset   = from + 4,
              !.usage    = from + foot + 5]

initializeBuffer(s, n) == initialize(s, n, 0, 0, FALSE)

(* A vector that is too small for an empty document is enlarged. *)
initializeVector(s, n, from, foot) ==
    initialize(s, IF n < 5 + from + foot THEN 10 + from + foot ELSE n, from, foot, TRUE)

Default == [mem |-> NoFields, offset |-> 0, usage |-> 0, capacity |-> 0, start |-> 0,
            footer |-> 0, grow |-> FALSE, depth |-> 0, arrays |-> {}, error |-> FALSE,
            sizes |-> << >>, idx |-> << >>]

(***************************************************************************)
(* The life of one builder: initialized, filled, finished and, when it     *)
(* writes to a vector, initialized again.                                  *)
(***************************************************************************)
vars == <<b, phase>>

Elements(s) == Cardinality({o \in DOMAIN s.mem : s.mem[o].kind = "type"})

InDoc   == phase = "open" /\ ~currentDocIsArray(b) /\ Elements(b) < MaxElements
InArray == /\ phase = "open" /\ currentDocIsArray(b) /\ Elements(b) < MaxElements
           /\ b.idx[Len(b.idx)] < ArrayLimit
CanNest == b.depth < MaxDepth

Init == b = Default /\ phase = "new"

InitializeBuffer ==
    /\ phase = "new" /\ phase' = "open"
    /\ \E n \in FixedSizes : b' = initializeBuffer(b, n)

InitializeVector ==
    /\ phase = "new" \/ (phase = "done" /\ b.grow)
    /\ phase' = "open"
    /\ \E n \in VecSizes, from \in Starts, foot \in Footers :
          b' = initializeVector(b, n, from, foot)

DocAddElement(k, v)  == InDoc /\ b' = docAddElement(b, k, v) /\ UNCHANGED phase
DocAddSubDoc(k, sub) == InDoc /\ b' = docAddSubDoc(b, k, sub) /\ UNCHANGED phase
DocBeginSubDoc(k)    == InDoc /\ CanNest /\ b' = docBeginSubDoc(b, k) /\ UNCHANGED phase
DocBeginSubDocFrom(k, sub) ==
    InDoc /\ CanNest /\ b' = docBeginSubDocFrom(b, k, sub) /\ UNCHANGED phase
DocBeginSubArray(k)  == InDoc /\ CanNest /\ b' = docBeginSubArray(b, k) /\ UNCHANGED phase

ArrayAddElement(v)   == InArray /\ b' = arrayAddElement(b, v) /\ UNCHANGED phase
ArrayBeginSubDoc     == InArray /\ CanNest /\ b' = arrayBeginSubDoc(b) /\ UNCHANGED phase
ArrayBeginSubArray   == InArray /\ CanNest /\ b' = arrayBeginSubArray(b) /\ UNCHANGED phase

(* The asserts of endDocument and endArray are the caller's obligation. *)
EndDocument ==
    /\ phase = "open" /\ b.depth > 0 /\ ~currentDocIsArray(b)
    /\ b' = endDocument(b) /\ UNCHANGED phase

EndArray ==
    /\ phase = "open" /\ b.depth > 0 /\ currentDocIsArray(b)
    /\ b' = endArray(b) /\ UNCHANGED phase

Finish ==
    /\ phase = "open"
    /\ b' = finish(b)
    /\ phase' = IF CanFinish(b) THEN "done" ELSE "open"

Next ==
    \/ InitializeBuffer \/ InitializeVector
    \/ \E k \in Names, v \in Values : DocAddElement(k, v)
    \/ \E k \in Names, sub \in SubDocs : DocAddSubDoc(k, sub) \/ DocBeginSubDocFrom(k, sub)
    \/ \E k \in Names : DocBeginSubDoc(k) \/ DocBeginSubArray(k)
    \/ \E v \in Values : ArrayAddElement(v)
    \/ ArrayBeginSubDoc \/ ArrayBeginSubArray
    \/ EndDocument \/ EndArray \/ Finish

Spec == Init /\ [][Next]_vars

(***************************************************************************)
(* Properties.                                                             *)
(***************************************************************************)
Builder(mem) ==
    [mem : {mem}, offset : Nat, usage : Nat, capacity : Nat, start : Nat, footer : Nat,
     grow : BOOLEAN, depth : Nat, arrays : SUBSET Nat, error : BOOLEAN,
     sizes : Seq(Nat), idx : Seq(Nat)]

(* The members of the builder are of their types. *)
BuilderTypeOK == phase \in {"new", "open", "done"} /\ b \in Builder(b.mem)

(* Everything written lies between the start of the document and the write position. *)
WrittenBehindOffset ==
    FieldsOK(b.mem, b.offset) /\ \A o \in DOMAIN b.mem : b.start <= o

(* One entry of document_size_offsets_ for every open sub document, each the place of a
   size field that has been reserved. *)
SizesReserved ==
    /\ Len(b.sizes) = b.depth
    /\ phase # "open" => b.depth = 0
    /\ \A i \in 1 .. Len(b.sizes) : b.start + 4 <= b.sizes[i] /\ b.sizes[i] + 4 <= b.offset

(* The accounting of verifyEnoughCapacity: in use are the bytes written, the footer, and
   a terminator for the document and for every open sub document. *)
UsageExact ==
    /\ b.offset + b.footer <= b.capacity
    /\ phase = "open" => /\ b.usage = b.offset + b.footer + b.depth + 1
                         /\ b.usage <= b.capacity
                         /\ b.start + 4 <= b.offset

(* The inductive invariant behind WritesInBounds. *)
BuilderInv == BuilderTypeOK /\ WrittenBehindOffset /\ SizesReserved /\ UsageExact

(* One index counter for every open array, so that array elements get the counter of the
   array they are added to. *)
CounterPerArray == Len(b.idx) = Cardinality({d \in 1 .. b.depth : d \in b.arrays})

(* No operation writes outside the buffer or into the reserved footer: endDocument,
   endArray and finish, which check nothing, find the room that was set aside for them. *)
WritesInBounds ==
    \A o \in DOMAIN b.mem :
        b.start <= o /\ o + b.mem[o].width <= b.capacity - b.footer
==============================================================================
