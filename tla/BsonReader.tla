------------------------------ MODULE BsonReader ------------------------------
(***************************************************************************)
(* The BSON reader (core/src/util/bson_reader.cpp): a cursor over the      *)
(* fields of a buffer.  A reader is a record of the members of the class;  *)
(* each operation is a function from the buffer and a reader to a reader.  *)
(***************************************************************************)
EXTENDS Integers, Sequences

CONSTANT MaxSubdocs   \* k_max_subdocs, the layers a reader can enter

Scalars   == [DOUBLE |-> 8, I64 |-> 8, I32 |-> 4, BOOL |-> 1, NULL |-> 0]
Container == {"DOC", "ARRAY"}
Sized     == {"STR", "BINARY"}
ElementTypes == DOMAIN Scalars \cup Container \cup Sized

(* geti32 of what is stored at offset o. *)
IntAt(m, o) == IF o \in DOMAIN m /\ m[o].kind = "int" THEN m[o].num ELSE -1

(* Bytes of the value of type t at offset o, its length prefix included. *)
SizeAt(m, t, o) ==
    CASE t \in DOMAIN Scalars -> Scalars[t]
      [] t = "STR"            -> IntAt(m, o) + 4
      [] t = "BINARY"         -> IntAt(m, o) + 5
      [] t \in Container      -> IntAt(m, o)
      [] OTHER                -> -1

(* What next() compares with the end of the document: 9 for the 8 byte scalars. *)
CheckedSize(m, t, o) == IF t \in {"DOUBLE", "I64"} THEN 9 ELSE SizeAt(m, t, o)

(* A reader of the document at offset 0; size is that of the buffer. *)
Reader(m, size) ==
    LET doc == IntAt(m, 0)
        ok  == size >= 5 /\ doc >= 0 /\ doc <= size
    IN  [type |-> IF ok THEN "BEGIN" ELSE "FORMAT_ERROR",
         off |-> IF ok THEN 4 ELSE 0, elem |-> 0, arr |-> -2,
         begin |-> IF ok THEN 4 ELSE 0, end |-> IF ok THEN doc ELSE 0,
         key |-> [arr |-> -1, name |-> "", len |-> 0], layers |-> << >>]

(* readKey: the key that starts at o, up to its NUL before the end of the document. *)
HasKey(m, r, o) == o \in DOMAIN m /\ m[o].kind = "key" /\ o + m[o].width <= r.end

(* The type, the key and the value's place of the element at o, or the end. *)
ReadElement(m, r, o) ==
    LET f == IF o \in DOMAIN m THEN m[o].kind ELSE "none"
        t == m[o].val
        v == o + 2 + m[o + 1].key.len
    IN  CASE f = "end" -> [r EXCEPT !.elem = o, !.type = "END", !.off = o + 1]
          [] f = "type" /\ HasKey(m, r, o + 1) /\ CheckedSize(m, t, v) \in 0 .. r.end - v ->
                [r EXCEPT !.elem = o, !.type = t, !.key = m[o + 1].key, !.off = v,
                          !.arr = IF r.arr >= -1 THEN r.arr + 1 ELSE r.arr]
          [] OTHER -> [r EXCEPT !.elem = o, !.type = "FORMAT_ERROR"]

(* Skip the current value and read the next element. *)
next(m, r) ==
    IF r.type \in {"END", "FORMAT_ERROR", "UNSUPPORTED"} THEN r
    ELSE ReadElement(m, r, IF r.type = "BEGIN" THEN r.off ELSE r.off + SizeAt(m, r.type, r.off))

seekBegin(r) ==
    [r EXCEPT !.off = r.begin, !.type = "BEGIN", !.arr = IF r.arr > -2 THEN -1 ELSE r.arr]

(* A mutant: the offset of the value. *)
elementOffset_Value(r) == [offset |-> r.off, arr |-> r.arr]

elementOffset(r) == [offset |-> r.elem, arr |-> r.arr]

(* Refused outside the current document; the index is set before next() counts it. *)
seek(m, r, p) ==
    IF r.begin <= p.offset /\ p.offset < r.end
      THEN next(m, [r EXCEPT !.type = "BEGIN", !.off = p.offset, !.arr = p.arr])
      ELSE r

(* The loops of the seek functions: next() until the element or the end is met; n is
   the reader after a call of next(). *)
RECURSIVE UntilKey(_, _, _)
UntilKey(m, n, k) ==
    IF n.type \notin ElementTypes \/ n.key = k THEN n ELSE UntilKey(m, next(m, n), k)

RECURSIVE UntilIndex(_, _, _)
UntilIndex(m, n, i) ==
    IF n.type \notin ElementTypes \/ n.arr = i THEN n ELSE UntilIndex(m, next(m, n), i)

ScanKey(m, r, k)   == UntilKey(m, next(m, r), k)
ScanIndex(m, r, i) == UntilIndex(m, next(m, r), i)

(* Return to where the search began when it ran to the end. *)
OrBack(m, n, p) == IF n.type = "END" THEN seek(m, n, p) ELSE n

seekKey(m, r, k)     == OrBack(m, ScanKey(m, seekBegin(r), k), elementOffset(r))
seekNextKey(m, r, k) == OrBack(m, ScanKey(m, r, k), elementOffset(r))

(* Only a reader that is past index i starts from the beginning. *)
seekIndex(m, r, i) ==
    IF i < 0 \/ r.arr = -2 THEN r
    ELSE OrBack(m, ScanIndex(m, IF r.arr > i THEN seekBegin(r) ELSE r, i), elementOffset(r))

CanBegin(r) == r.type \in Container /\ Len(r.layers) < MaxSubdocs

beginSub(m, r) ==
    IF ~CanBegin(r) THEN r ELSE
    [r EXCEPT !.layers = Append(r.layers, [begin |-> r.begin, end |-> r.end, arr |-> r.arr]),
              !.end    = r.off + IntAt(m, r.off),
              !.off    = r.off + 4,
              !.begin  = r.off + 4,
              !.arr    = IF r.type = "ARRAY" THEN -1 ELSE -2,
              !.type   = "BEGIN"]

(* The begin offset of the outer document is not restored. *)
endSub(r) ==
    IF r.layers = << >> THEN r ELSE
    LET outer == r.layers[Len(r.layers)] IN
    [r EXCEPT !.off    = r.end,
              !.end    = outer.end,
              !.arr    = outer.arr,
              !.layers = SubSeq(r.layers, 1, Len(r.layers) - 1),
              !.type   = "BEGIN"]

(* validate(): walk the document and everything nested in it; n as above. *)
RECURSIVE Walk(_, _, _)
Walk(m, n, depth) ==
    CASE n.type = "FORMAT_ERROR"   -> FALSE
      [] n.type = "END"            -> depth = 0 \/ Walk(m, next(m, endSub(n)), depth - 1)
      [] n.type \in Container      -> CanBegin(n) /\ Walk(m, next(m, beginSub(m, n)), depth + 1)
      [] OTHER                     -> Walk(m, next(m, n), depth)

validate(m, size) ==
    size >= 5 /\ IntAt(m, 0) <= size /\ Walk(m, next(m, Reader(m, size)), 0)

(* The stored value of the current element, what tryGetValue and rawElement give. *)
ValueAt(m, r) ==
    CASE r.type = "NULL"           -> ""
      [] r.type \in Sized          -> m[r.off + 4].val
      [] r.type \in Container      -> ""
      [] OTHER                     -> m[r.off].val
==============================================================================
