-------------------------- MODULE BsonBuilderProofs --------------------------
(***************************************************************************)
(* Proof that a BsonBuilder never writes outside its buffer, for every     *)
(* set of keys, values, embedded documents and buffer sizes.               *)
(***************************************************************************)
EXTENDS BsonBuilder, TLAPS

(* What holds of a builder record whose document reaches up to its offset. *)
Good(s) ==
    /\ s \in Builder(s.mem)
    /\ FieldsOK(s.mem, s.offset)
    /\ \A o \in DOMAIN s.mem : s.start <= o
    /\ Len(s.sizes) = s.depth
    /\ \A i \in 1 .. Len(s.sizes) : s.start + 4 <= s.sizes[i] /\ s.sizes[i] + 4 <= s.offset
    /\ s.start + 4 <= s.offset

Accounted(s) == s.usage = s.offset + s.footer + s.depth + 1 /\ s.usage <= s.capacity

OpenInv(s) == Good(s) /\ Accounted(s)

LEMMA SeqElement ==
    ASSUME NEW q \in Seq(Nat), NEW i \in 1 .. Len(q)
    PROVE  q[i] \in Nat
OBVIOUS

LEMMA SeqFront ==
    ASSUME NEW q \in Seq(Nat), NEW n \in Nat, Len(q) = n + 1
    PROVE  /\ SubSeq(q, 1, Len(q) - 1) \in Seq(Nat) /\ Len(SubSeq(q, 1, Len(q) - 1)) = n
           /\ \A i \in 1 .. n : i \in 1 .. Len(q) /\ SubSeq(q, 1, Len(q) - 1)[i] = q[i]
OBVIOUS

LEMMA BuilderMembers ==
    ASSUME NEW m, NEW s \in Builder(m)
    PROVE  /\ s.mem = m /\ s.offset \in Nat /\ s.usage \in Nat /\ s.capacity \in Nat
           /\ s.start \in Nat /\ s.footer \in Nat /\ s.grow \in BOOLEAN /\ s.depth \in Nat
           /\ s.arrays \in SUBSET Nat /\ s.error \in BOOLEAN
           /\ s.sizes \in Seq(Nat) /\ s.idx \in Seq(Nat)
BY DEF Builder

(* Writing fields of at most n bytes at an offset keeps every field behind the larger of
   the old limit and the end of what is written. *)
LEMMA WriteFields ==
    ASSUME NEW mem, NEW toks, NEW o \in Nat, NEW n \in Nat, NEW hi \in Nat, NEW top \in Nat,
           NEW lo \in Nat,
           FieldsOK(mem, hi), FieldsOK(toks, n), hi <= top, o + n <= top, lo <= o,
           \A x \in DOMAIN mem : lo <= x
    PROVE  /\ FieldsOK(Write(mem, o, toks), top)
           /\ \A x \in DOMAIN Write(mem, o, toks) : lo <= x
<1> DEFINE W == Write(mem, o, toks)
<1>1. DOMAIN W = DOMAIN mem \cup {o + d : d \in DOMAIN toks}
  BY DEF Write
<1>2. ASSUME NEW x \in DOMAIN W
      PROVE  x \in Nat /\ W[x].width \in Nat /\ x + W[x].width <= top /\ lo <= x
  <2>0. x \in Nat /\ lo <= x
    BY <1>1, <1>2 DEF FieldsOK
  <2>1. CASE x - o \in DOMAIN toks
    <3>1. W[x] = toks[x - o]
      BY <1>1, <1>2, <2>1 DEF Write
    <3>2. x - o \in Nat /\ toks[x - o].width \in Nat /\ (x - o) + toks[x - o].width <= n
      BY <2>1 DEF FieldsOK
    <3> QED BY <2>0, <3>1, <3>2
  <2>2. CASE x - o \notin DOMAIN toks
    <3>1. x \in DOMAIN mem
      <4>1. ASSUME NEW d \in DOMAIN toks, x = o + d PROVE FALSE
        <5>1. d \in Nat
          BY <4>1 DEF FieldsOK
        <5>2. x - o = d
          BY <4>1, <5>1
        <5> QED BY <4>1, <5>2, <2>2
      <4> QED BY <4>1, <1>1, <1>2
    <3>2. W[x] = mem[x]
      BY <1>1, <1>2, <2>2 DEF Write
    <3>3. mem[x].width \in Nat /\ x + mem[x].width <= hi
      BY <3>1 DEF FieldsOK
    <3> QED BY <2>0, <3>2, <3>3
  <2> QED BY <2>1, <2>2
<1> QED BY <1>2 DEF FieldsOK

(* The fields of a value, of a type and key and of a terminator have the sizes the code counts. *)
LEMMA ValueFieldsOK ==
    ASSUME NEW v \in Values
    PROVE  /\ ValueSize(v) \in Nat
           /\ FieldsOK(ValueFields(v), ValueSize(v))
           /\ FieldsOK(ValueFields(ArrayValue(v)), ValueSize(v))
<1> DEFINE VT == Types \ {"DOC", "ARRAY"}
<1>1. ASSUME NEW w, w.type \in VT, w.len \in Nat
      PROVE  ValueSize(w) \in Nat /\ FieldsOK(ValueFields(w), ValueSize(w))
  <2>0. w.type \in VT /\ w.len \in Nat
    BY <1>1
  <2>1. CASE w.type = "NULL"
    BY <2>1 DEF ValueSize, ValueFields, FieldsOK, FixedSize, EndField
  <2>2. CASE w.type \in {"STR", "BINARY"}
    <3>1. ValueSize(w) = w.len + 5
      BY <2>2 DEF ValueSize, FixedSize
    <3>2. ValueFields(w) = [d \in {0, 4} |->
                IF d = 0 THEN IntField(IF w.type = "STR" THEN w.len + 1 ELSE w.len)
                         ELSE ValField(w.val, w.len + 1)]
      BY <2>2 DEF ValueFields
    <3> DEFINE F == ValueFields(w)
           m == IF w.type = "STR" THEN w.len + 1 ELSE w.len
    <3>a. DOMAIN F = {0, 4} /\ F[0] = IntField(m) /\ F[4] = ValField(w.val, w.len + 1)
      BY <3>2
    <3>b. IntField(m).width = 4 /\ ValField(w.val, w.len + 1).width = w.len + 1
      BY DEF IntField, ValField
    <3>3. DOMAIN F = {0, 4} /\ F[0].width = 4 /\ F[4].width = w.len + 1
      BY <3>a, <3>b
    <3> HIDE DEF F
    <3>4. FieldsOK(F, w.len + 5)
      BY <2>0, <3>3 DEF FieldsOK
    <3> QED BY <2>0, <3>1, <3>4 DEF F
  <2>3. CASE w.type \in {"DOUBLE", "I64", "I32", "BOOL"}
    <3>1. ValueSize(w) \in Nat
      BY <2>3 DEF ValueSize, FixedSize
    <3>2. ValueFields(w) = [d \in {0} |-> ValField(w.val, ValueSize(w))]
      BY <2>3 DEF ValueFields
    <3> QED BY <3>1, <3>2 DEF FieldsOK, ValField
  <2> QED BY <2>0, <2>1, <2>2, <2>3 DEF Types
<1>2. v \in [type : VT, val : STRING, len : Nat]
  BY ValuesAssumption
<1>3. ArrayValue(v).type = v.type /\ ArrayValue(v).len = v.len
  BY <1>2 DEF ArrayValue
<1>4. ValueSize(ArrayValue(v)) = ValueSize(v)
  BY <1>3 DEF ValueSize
<1>5. v.type \in VT /\ v.len \in Nat
  BY <1>2
<1> HIDE DEF VT
<1> QED BY <1>1, <1>3, <1>4, <1>5

(* Opening an element leaves room for its n bytes of value behind the key. *)
LEMMA InsertKeyOK ==
    ASSUME NEW s, OpenInv(s), NEW t, NEW k, k.len \in Nat, NEW n \in Nat, Room(s, n + 2 + k.len)
    PROVE  LET g == InsertKey(s, t, k, n) IN
           /\ Good(g) /\ g.usage <= g.capacity
           /\ g.usage = g.offset + n + g.footer + g.depth + 1
           /\ g.sizes = s.sizes /\ g.idx = s.idx /\ g.arrays = s.arrays /\ g.depth = s.depth
           /\ g.start = s.start
<1> DEFINE m == n + 2 + k.len
           q == Reserve(s, m)
           toks == [d \in {0, 1} |-> IF d = 0 THEN TypeField(t) ELSE KeyField(k)]
           w == Write(q.mem, q.offset, toks)
           g == InsertKey(s, t, k, n)
<1>a. s \in Builder(s.mem)
  BY DEF OpenInv, Good
<1>b. s.usage \in Nat /\ s.capacity \in Nat
  BY <1>a, BuilderMembers
<1>c. m \in Nat /\ s.usage + m \in Nat /\ s.usage + m + Slack \in Nat
  BY <1>b, SizesAssumption
<1>0. m \in Nat /\ s \in Builder(s.mem) /\ s.usage + m \in Nat /\ s.usage + m + Slack \in Nat
  BY <1>a, <1>c
<1>1. /\ q \in Builder(s.mem) /\ q.mem = s.mem /\ q.offset = s.offset /\ q.usage = s.usage
      /\ q.start = s.start /\ q.footer = s.footer /\ q.depth = s.depth /\ q.sizes = s.sizes
      /\ q.idx = s.idx /\ q.arrays = s.arrays
      /\ q.usage + m <= q.capacity
  <2> HIDE DEF m
  <2>1. CASE s.usage + m <= s.capacity
    BY <1>0, <2>1 DEF Reserve
  <2>2. CASE ~(s.usage + m <= s.capacity)
    <3> DEFINE c == s.usage + m + Slack
    <3>1. q = [s EXCEPT !.capacity = c]
      BY <2>2 DEF Reserve
    <3>2. c \in Nat /\ s.usage + m <= c
      BY <1>0, <1>b, SizesAssumption
    <3> HIDE DEF c, q
    <3> QED BY <1>0, <3>1, <3>2 DEF Builder
  <2> QED BY <2>1, <2>2
<1>2. FieldsOK(toks, 2 + k.len)
  <2>1. DOMAIN toks = {0, 1} /\ toks[0] = TypeField(t) /\ toks[1] = KeyField(k)
    OBVIOUS
  <2>2. TypeField(t).width = 1 /\ KeyField(k).width = k.len + 1
    BY DEF TypeField, KeyField
  <2> HIDE DEF toks
  <2> QED BY <2>1, <2>2 DEF FieldsOK
<1>3. FieldsOK(w, q.offset + 2 + k.len) /\ \A x \in DOMAIN w : q.start <= x
  <2>1. /\ q.offset \in Nat /\ q.start \in Nat /\ q.start <= q.offset /\ FieldsOK(q.mem, q.offset)
        /\ \A x \in DOMAIN q.mem : q.start <= x
    <3>1. s.offset \in Nat /\ s.start \in Nat
      BY <1>0, BuilderMembers
    <3> HIDE DEF q
    <3> QED BY <1>1, <3>1 DEF OpenInv, Good
  <2>2. 2 + k.len \in Nat /\ q.offset + (2 + k.len) \in Nat /\ q.offset <= q.offset + (2 + k.len)
        /\ q.offset + 2 + k.len = q.offset + (2 + k.len)
    BY <2>1
  <2> HIDE DEF q, toks
  <2> QED BY <2>1, <2>2, <1>2, WriteFields
<1>4. g = [q EXCEPT !.mem = w, !.offset = q.offset + 2 + k.len, !.usage = q.usage + n + 2 + k.len]
  BY DEF InsertKey
<1> HIDE DEF q, w, g, toks
<1>5. /\ g \in Builder(w) /\ g.mem = w /\ g.offset = q.offset + 2 + k.len
      /\ g.usage = q.usage + n + 2 + k.len /\ g.capacity = q.capacity /\ g.start = q.start
      /\ g.footer = q.footer /\ g.depth = q.depth /\ g.sizes = q.sizes /\ g.idx = q.idx
      /\ g.arrays = q.arrays
  <2>1. q.offset + 2 + k.len \in Nat /\ q.usage + n + 2 + k.len \in Nat
    <3>1. q.offset \in Nat /\ q.usage \in Nat
      BY <1>1, BuilderMembers
    <3> QED BY <3>1
  <2> QED BY <2>1, <1>1, <1>4 DEF Builder
<1>6. s.offset \in Nat /\ s.usage \in Nat /\ s.footer \in Nat /\ s.depth \in Nat /\ s.start \in Nat
      /\ s.sizes \in Seq(Nat) /\ q.capacity \in Nat
  BY <1>a, <1>1, BuilderMembers
<1>7. Good(g)
  <2>1. g \in Builder(g.mem) /\ FieldsOK(g.mem, g.offset) /\ \A o \in DOMAIN g.mem : g.start <= o
    BY <1>3, <1>5
  <2>2. Len(g.sizes) = g.depth /\ g.sizes = s.sizes /\ g.start = s.start /\ g.offset = s.offset + 2 + k.len
    BY <1>1, <1>5 DEF OpenInv, Good
  <2>3. ASSUME NEW i \in 1 .. Len(s.sizes)
        PROVE  s.start + 4 <= s.sizes[i] /\ s.sizes[i] + 4 <= s.offset + 2 + k.len
    <3>1. s.sizes[i] \in Nat
      <4>1. s.sizes \in Seq(Nat)
        BY <1>6
      <4> QED BY ONLY <4>1, i \in 1 .. Len(s.sizes), SeqElement
    <3>2. s.start + 4 <= s.sizes[i] /\ s.sizes[i] + 4 <= s.offset
      BY <2>3 DEF OpenInv, Good
    <3>3. s.start \in Nat /\ s.offset \in Nat
      BY <1>6
    <3> QED BY <3>1, <3>2, <3>3
  <2>4. s.start + 4 <= s.offset + 2 + k.len
    <3>1. s.start + 4 <= s.offset
      BY DEF OpenInv, Good
    <3> QED BY <3>1, <1>6
  <2> QED BY <2>1, <2>2, <2>3, <2>4 DEF Good
<1>8. g.usage <= g.capacity /\ g.usage = g.offset + n + g.footer + g.depth + 1
  <2>1. /\ g.usage = s.usage + n + 2 + k.len /\ g.offset = s.offset + 2 + k.len
        /\ g.footer = s.footer /\ g.depth = s.depth /\ g.capacity = q.capacity
        /\ s.usage + (n + 2 + k.len) <= q.capacity
    BY <1>1, <1>5
  <2>2. s.usage = s.offset + s.footer + s.depth + 1
    BY DEF OpenInv, Accounted
  <2> HIDE DEF m
  <2>3. /\ s.usage \in Nat /\ s.offset \in Nat /\ s.footer \in Nat /\ s.depth \in Nat
        /\ q.capacity \in Nat
    BY <1>6
  <2>4. g.usage <= g.capacity
    BY <2>1, <2>3
  <2>5. g.usage = g.offset + n + g.footer + g.depth + 1
    BY <2>1, <2>2, <2>3
  <2> QED BY <2>4, <2>5
<1> QED BY <1>1, <1>5, <1>7, <1>8 DEF g

(* A value of n bytes fills the room that InsertKey left. *)
LEMMA AddOK ==
    ASSUME NEW s, OpenInv(s), NEW t, NEW k, k.len \in Nat, NEW n \in Nat, NEW toks,
           FieldsOK(toks, n)
    PROVE  OpenInv(Add(s, k, t, toks, n)) /\ Add(s, k, t, toks, n).depth = s.depth
<1>1. CASE ~Room(s, n + 2 + k.len)
  BY <1>1 DEF Add, Refuse, OpenInv, Good, Accounted, Builder
<1>2. CASE Room(s, n + 2 + k.len)
  <2> DEFINE g == InsertKey(s, t, k, n)
             w == Write(g.mem, g.offset, toks)
             p == PutValue(g, toks, n)
  <2>1. /\ Good(g) /\ g.usage <= g.capacity /\ g.depth = s.depth
        /\ g.usage = g.offset + n + g.footer + g.depth + 1
    BY <1>2, InsertKeyOK
  <2>2. Add(s, k, t, toks, n) = p
    BY <1>2 DEF Add
  <2>3. p = [g EXCEPT !.mem = w, !.offset = g.offset + n]
    BY DEF PutValue
  <2> HIDE DEF g, p
  <2>4. /\ g.offset \in Nat /\ g.start \in Nat /\ g.start <= g.offset /\ FieldsOK(g.mem, g.offset)
        /\ \A x \in DOMAIN g.mem : g.start <= x
    BY <2>1 DEF Good, Builder
  <2>5. FieldsOK(w, g.offset + n) /\ \A x \in DOMAIN w : g.start <= x
    <3>1. g.offset + n \in Nat /\ g.offset <= g.offset + n
      BY <2>4
    <3> QED BY <2>4, <3>1, WriteFields
  <2> HIDE DEF w
  <2>6. /\ p \in Builder(w) /\ p.mem = w /\ p.offset = g.offset + n /\ p.usage = g.usage
        /\ p.capacity = g.capacity /\ p.start = g.start /\ p.footer = g.footer
        /\ p.depth = g.depth /\ p.sizes = g.sizes
    <3>1. g \in Builder(g.mem) /\ g.offset + n \in Nat
      BY <2>1, <2>4 DEF Good
    <3> QED BY <2>3, <3>1 DEF Builder
  <2>7. g.footer \in Nat /\ g.depth \in Nat /\ g.sizes \in Seq(Nat) /\ g.capacity \in Nat
        /\ g.usage \in Nat
    BY <2>1, BuilderMembers DEF Good
  <2>8. Good(p)
    <3>1. ASSUME NEW i \in 1 .. Len(g.sizes)
          PROVE  g.start + 4 <= g.sizes[i] /\ g.sizes[i] + 4 <= g.offset + n
      <4>1. g.sizes[i] \in Nat
        BY <2>7, <3>1
      <4>2. g.start + 4 <= g.sizes[i] /\ g.sizes[i] + 4 <= g.offset
        BY <2>1, <3>1 DEF Good
      <4> QED BY <4>1, <4>2, <2>4
    <3>2. Len(g.sizes) = g.depth /\ g.start + 4 <= g.offset + n
      BY <2>1, <2>4 DEF Good
    <3> QED BY <2>5, <2>6, <3>1, <3>2 DEF Good
  <2>9. Accounted(p)
    BY <2>1, <2>4, <2>6, <2>7 DEF Accounted
  <2> QED BY <2>1, <2>2, <2>6, <2>8, <2>9 DEF OpenInv
<1> QED BY <1>1, <1>2

(* Opening a sub document moves one byte less: its terminator is written when it ends. *)
LEMMA BeginOK ==
    ASSUME NEW s, OpenInv(s), NEW t, NEW k, k.len \in Nat, NEW n \in Nat, n >= 5, NEW toks,
           FieldsOK(toks, n - 1)
    PROVE  OpenInv(Begin(s, k, t, toks, n))
<1>1. CASE ~Room(s, n + 2 + k.len)
  BY <1>1 DEF Begin, Refuse, OpenInv, Good, Accounted, Builder
<1>2. CASE Room(s, n + 2 + k.len)
  <2> DEFINE g == InsertKey(s, t, k, n)
             w == Write(g.mem, g.offset, toks)
             i2 == IF t = "ARRAY" THEN Append(g.idx, 0) ELSE g.idx
             a2 == IF t = "ARRAY" THEN g.arrays \cup {g.depth + 1} ELSE g.arrays \ {g.depth + 1}
             z2 == Append(g.sizes, g.offset)
             p == Begin(s, k, t, toks, n)
  <2>1. /\ Good(g) /\ g.usage <= g.capacity
        /\ g.usage = g.offset + n + g.footer + g.depth + 1
    BY <1>2, InsertKeyOK
  <2>3. p = [g EXCEPT !.sizes = z2, !.idx = i2, !.mem = w, !.offset = g.offset + n - 1,
                      !.depth = g.depth + 1, !.arrays = a2]
    BY <1>2 DEF Begin
  <2> HIDE DEF g, p
  <2>4. /\ g.offset \in Nat /\ g.start \in Nat /\ g.start <= g.offset /\ FieldsOK(g.mem, g.offset)
        /\ \A x \in DOMAIN g.mem : g.start <= x
        /\ g.footer \in Nat /\ g.depth \in Nat /\ g.sizes \in Seq(Nat) /\ g.idx \in Seq(Nat)
        /\ g.arrays \in SUBSET Nat /\ g.capacity \in Nat /\ g.usage \in Nat
    <3>1. g \in Builder(g.mem)
      BY <2>1 DEF Good
    <3>2. /\ g.offset \in Nat /\ g.start \in Nat /\ g.footer \in Nat /\ g.depth \in Nat
          /\ g.sizes \in Seq(Nat) /\ g.idx \in Seq(Nat)
          /\ g.arrays \in SUBSET Nat /\ g.capacity \in Nat /\ g.usage \in Nat
      BY <3>1, BuilderMembers
    <3>3. g.start + 4 <= g.offset /\ FieldsOK(g.mem, g.offset) /\ \A x \in DOMAIN g.mem : g.start <= x
      BY <2>1 DEF Good
    <3>4. g.start <= g.offset
      BY <3>2, <3>3
    <3> QED BY <3>2, <3>3, <3>4
  <2>5. FieldsOK(w, g.offset + n - 1) /\ \A x \in DOMAIN w : g.start <= x
    <3>1. n - 1 \in Nat /\ g.offset + (n - 1) \in Nat /\ g.offset + (n - 1) = g.offset + n - 1
          /\ g.offset <= g.offset + (n - 1)
      BY <2>4
    <3> QED BY <2>4, <3>1, WriteFields
  <2>6. i2 \in Seq(Nat) /\ a2 \in SUBSET Nat /\ z2 \in Seq(Nat)
    BY <2>4
  <2>7. /\ Len(z2) = g.depth + 1
        /\ \A i \in 1 .. Len(z2) : g.start + 4 <= z2[i] /\ z2[i] + 4 <= g.offset + n - 1
    <3>1. Len(z2) = Len(g.sizes) + 1 /\ Len(g.sizes) = g.depth /\ z2[Len(g.sizes) + 1] = g.offset
      BY <2>1, <2>4 DEF Good
    <3>2. ASSUME NEW i \in 1 .. Len(z2)
          PROVE  g.start + 4 <= z2[i] /\ z2[i] + 4 <= g.offset + n - 1
      <4>1. CASE i = Len(z2)
        <5>1. z2[i] = g.offset
          BY <3>1, <4>1
        <5>2. g.start + 4 <= g.offset
          BY <2>1 DEF Good
        <5> QED BY <5>1, <5>2, <2>4
      <4>2. CASE i # Len(z2)
        <5>a. g.sizes \in Seq(Nat) /\ g.offset \in Nat /\ i \in 1 .. Len(g.sizes)
          BY <3>1, <3>2, <4>2, <2>4
        <5>1. i \in 1 .. Len(g.sizes) /\ z2[i] = g.sizes[i] /\ g.sizes[i] \in Nat
          BY <5>a, SeqElement
        <5>2. g.start + 4 <= g.sizes[i] /\ g.sizes[i] + 4 <= g.offset
          BY <5>1, <2>1 DEF Good
        <5>3. g.start \in Nat /\ g.offset \in Nat
          BY <2>4
        <5> QED BY <5>1, <5>2, <5>3
      <4> QED BY <4>1, <4>2
    <3> QED BY <3>1, <3>2
  <2> HIDE DEF w, i2, a2, z2
  <2>8. /\ p \in Builder(w) /\ p.mem = w /\ p.offset = g.offset + n - 1 /\ p.usage = g.usage
        /\ p.capacity = g.capacity /\ p.start = g.start /\ p.footer = g.footer
        /\ p.depth = g.depth + 1 /\ p.sizes = z2
    <3>1. g \in Builder(g.mem) /\ g.offset + n - 1 \in Nat /\ g.depth + 1 \in Nat
      BY <2>1, <2>4 DEF Good
    <3> QED BY <2>3, <2>6, <3>1 DEF Builder
  <2>9. Good(p)
    <3>1. g.start + 4 <= g.offset + n - 1
      BY <2>1, <2>4 DEF Good
    <3> QED BY <2>5, <2>7, <2>8, <3>1 DEF Good
  <2>10. Accounted(p)
    <3>1. /\ p.usage = g.offset + n + g.footer + g.depth + 1 /\ p.offset = g.offset + n - 1
          /\ p.footer = g.footer /\ p.depth = g.depth + 1 /\ p.usage <= p.capacity
      BY <2>1, <2>8
    <3>2. g.offset \in Nat /\ g.footer \in Nat /\ g.depth \in Nat
      BY <2>4
    <3> QED BY <3>1, <3>2 DEF Accounted
  <2> QED BY <2>9, <2>10 DEF OpenInv, p
<1> QED BY <1>1, <1>2

(* Taking an index changes only the counters. *)
LEMMA TakeIndexOK ==
    ASSUME NEW s, OpenInv(s)
    PROVE  OpenInv(TakeIndex(s)) /\ NextKey(s).len \in Nat
<1> DEFINE j == [s.idx EXCEPT ![Len(s.idx)] = s.idx[Len(s.idx)] + 1]
<1>1. s \in Builder(s.mem) /\ s.idx \in Seq(Nat)
  BY DEF OpenInv, Good, Builder
<1>2. j \in Seq(Nat)
  <2>1. CASE s.idx = << >>
    <3>1. j = << >>
      BY <2>1
    <3> HIDE DEF j
    <3> QED BY <3>1
  <2>2. CASE s.idx # << >>
    <3> DEFINE q == s.idx
               x == q[Len(q)] + 1
    <3>1. q \in Seq(Nat) /\ Len(q) \in 1 .. Len(q) /\ x \in Nat
      BY <1>1, <2>2
    <3>2. j = [q EXCEPT ![Len(q)] = x]
      OBVIOUS
    <3> HIDE DEF q, x, j
    <3> QED BY <3>1, <3>2
  <2> QED BY <2>1, <2>2
<1>3. TakeIndex(s) = [s EXCEPT !.idx = j]
  BY <1>1 DEF TakeIndex, Builder
<1> HIDE DEF j
<1>4. OpenInv(TakeIndex(s))
  BY <1>1, <1>2, <1>3 DEF OpenInv, Good, Accounted, Builder
<1> QED BY <1>4 DEF NextKey, ArrayKey

(* A terminator and the size of the document that starts at from. *)
Terminated(mem, off, from, x) ==
    Write(Write(mem, off, [d \in {0} |-> EndField]), from, [d \in {0} |-> IntField(x)])

(* Terminating a document writes one byte behind it. *)
LEMMA TerminateOK ==
    ASSUME NEW mem, NEW off \in Nat, NEW from \in Nat, NEW lo \in Nat, NEW x,
           FieldsOK(mem, off), \A o \in DOMAIN mem : lo <= o, lo <= from, from + 4 <= off
    PROVE  /\ FieldsOK(Terminated(mem, off, from, x), off + 1)
           /\ \A o \in DOMAIN Terminated(mem, off, from, x) : lo <= o
<1> DEFINE e == [d \in {0} |-> EndField]
           f == [d \in {0} |-> IntField(x)]
           v == Write(mem, off, e)
<1>1. FieldsOK(e, 1) /\ FieldsOK(f, 4)
  <2>1. DOMAIN e = {0} /\ e[0].width = 1 /\ DOMAIN f = {0} /\ f[0].width = 4
    BY DEF EndField, IntField
  <2> HIDE DEF e, f
  <2> QED BY <2>1 DEF FieldsOK
<1>2. off + 1 \in Nat /\ off <= off + 1 /\ from + 4 <= off + 1 /\ lo <= off
  OBVIOUS
<1> HIDE DEF e, f
<1>3. FieldsOK(v, off + 1) /\ \A o \in DOMAIN v : lo <= o
  BY <1>1, <1>2, WriteFields
<1> HIDE DEF v
<1>4. FieldsOK(Write(v, from, f), off + 1) /\ \A o \in DOMAIN Write(v, from, f) : lo <= o
  BY <1>1, <1>2, <1>3, WriteFields
<1> QED BY <1>4 DEF v, e, f, Terminated

(* Ending a sub document uses the byte that was set aside for its terminator. *)
LEMMA CloseOK ==
    ASSUME NEW s, OpenInv(s), s.depth > 0
    PROVE  OpenInv(Close(s)) /\ Close(s).idx = s.idx
<1> DEFINE from == s.sizes[Len(s.sizes)]
           w == Terminated(s.mem, s.offset, from, s.offset + 1 - from)
           z2 == SubSeq(s.sizes, 1, Len(s.sizes) - 1)
           p == Close(s)
<1>1. s \in Builder(s.mem) /\ Len(s.sizes) = s.depth
  BY DEF OpenInv, Good
<1>2. /\ s.offset \in Nat /\ s.usage \in Nat /\ s.start \in Nat /\ s.footer \in Nat
      /\ s.depth \in Nat /\ s.sizes \in Seq(Nat) /\ s.capacity \in Nat
  BY <1>1, BuilderMembers
<1>3. Len(s.sizes) \in 1 .. Len(s.sizes)
  BY <1>1, <1>2
<1>4. from \in Nat /\ s.start + 4 <= from /\ from + 4 <= s.offset
  BY <1>2, <1>3, SeqElement DEF OpenInv, Good
<1>5. FieldsOK(w, s.offset + 1) /\ \A o \in DOMAIN w : s.start <= o
  <2>1. s.start <= from /\ FieldsOK(s.mem, s.offset) /\ \A o \in DOMAIN s.mem : s.start <= o
    BY <1>2, <1>4 DEF OpenInv, Good
  <2> HIDE DEF from
  <2> QED BY <1>2, <1>4, <2>1, TerminateOK
<1>6. p = [s EXCEPT !.mem = w, !.offset = s.offset + 1, !.depth = s.depth - 1, !.sizes = z2]
  BY DEF Close, Terminated
<1>7. /\ z2 \in Seq(Nat) /\ Len(z2) = s.depth - 1
      /\ \A i \in 1 .. Len(z2) : i \in 1 .. Len(s.sizes) /\ z2[i] = s.sizes[i]
  <2>1. s.depth - 1 \in Nat /\ Len(s.sizes) = (s.depth - 1) + 1 /\ s.sizes \in Seq(Nat)
    BY <1>1, <1>2
  <2> QED BY ONLY <2>1, SeqFront
<1>8. \A i \in 1 .. Len(z2) : s.start + 4 <= z2[i] /\ z2[i] + 4 <= s.offset + 1
  <2> TAKE i \in 1 .. Len(z2)
  <2>1. i \in 1 .. Len(s.sizes) /\ z2[i] = s.sizes[i]
    BY <1>7
  <2>2. s.sizes[i] \in Nat
    BY <1>2, <2>1, SeqElement
  <2>3. s.start + 4 <= s.sizes[i] /\ s.sizes[i] + 4 <= s.offset
    BY <2>1 DEF OpenInv, Good
  <2> HIDE DEF z2
  <2> QED BY <1>2, <2>1, <2>2, <2>3
<1> HIDE DEF w, z2, p, from
<1>9. /\ p \in Builder(w) /\ p.mem = w /\ p.offset = s.offset + 1 /\ p.usage = s.usage
      /\ p.capacity = s.capacity /\ p.start = s.start /\ p.footer = s.footer
      /\ p.depth = s.depth - 1 /\ p.sizes = z2 /\ p.idx = s.idx
  <2>1. s.offset + 1 \in Nat /\ s.depth - 1 \in Nat
    BY <1>2
  <2> QED BY <1>1, <1>6, <1>7, <2>1 DEF Builder
<1>10. Good(p)
  <2>1. s.start + 4 <= s.offset + 1
    BY <1>2, <1>4
  <2> QED BY <1>5, <1>7, <1>8, <1>9, <2>1 DEF Good
<1>11. Accounted(p)
  <2>1. s.usage = s.offset + s.footer + s.depth + 1 /\ s.usage <= s.capacity
    BY DEF OpenInv, Accounted
  <2> QED BY <1>2, <1>9, <2>1 DEF Accounted
<1> QED BY <1>9, <1>10, <1>11 DEF OpenInv, p

LEMMA EndArrayOK ==
    ASSUME NEW s, OpenInv(s), s.depth > 0
    PROVE  OpenInv(endArray(s))
<1> DEFINE c == Close(s)
           j == SubSeq(s.idx, 1, Len(s.idx) - 1)
<1>1. OpenInv(c)
  BY CloseOK
<1>2. j \in Seq(Nat)
  <2>1. s \in Builder(s.mem)
    BY DEF OpenInv, Good
  <2>2. s.idx \in Seq(Nat)
    BY <2>1, BuilderMembers
  <2> QED BY <2>2
<1>3. endArray(s) = [c EXCEPT !.idx = j]
  BY DEF endArray
<1> HIDE DEF c, j
<1> QED BY <1>1, <1>2, <1>3 DEF OpenInv, Good, Accounted, Builder

(* The invariant of the specification is OpenInv while a document is being built. *)
LEMMA OpenIsInv ==
    ASSUME BuilderInv, phase = "open"
    PROVE  OpenInv(b)
BY DEF BuilderInv, BuilderTypeOK, WrittenBehindOffset, SizesReserved, UsageExact,
       OpenInv, Good, Accounted

(* Every operation that leaves the document open preserves the invariant. *)
LEMMA StaysOpen ==
    ASSUME OpenInv(b)', phase' = "open"
    PROVE  BuilderInv'
<1> USE DEF OpenInv, Good, Accounted
<1>1. b' \in Builder(b'.mem)
  OBVIOUS
<1>2. b'.offset \in Nat /\ b'.footer \in Nat /\ b'.depth \in Nat /\ b'.capacity \in Nat
  BY <1>1, BuilderMembers
<1>3. b'.offset + b'.footer <= b'.capacity
  BY <1>2
<1> QED BY <1>1, <1>3 DEF BuilderInv, BuilderTypeOK, WrittenBehindOffset, SizesReserved, UsageExact

LEMMA BuilderInit == Init => BuilderInv
BY DEF Init, Default, NoFields, BuilderInv, BuilderTypeOK, WrittenBehindOffset, SizesReserved,
       UsageExact, Builder, FieldsOK

(* initialize() of a builder without open sub documents. *)
LEMMA InitializeOK ==
    ASSUME BuilderInv, phase # "open",
           NEW cap \in Nat, NEW from \in Nat, NEW foot \in Nat, NEW vec \in BOOLEAN,
           5 + from + foot <= cap
    PROVE  OpenInv(initialize(b, cap, from, foot, vec))
<1> DEFINE p == initialize(b, cap, from, foot, vec)
<1>1. b \in Builder(b.mem) /\ b.depth = 0 /\ Len(b.sizes) = 0
  BY DEF BuilderInv, BuilderTypeOK, SizesReserved
<1>2. b.sizes \in Seq(Nat) /\ b.grow \in BOOLEAN
  BY <1>1, BuilderMembers
<1>3. (vec \/ b.grow) \in BOOLEAN /\ from + 4 \in Nat /\ from + foot + 5 \in Nat
  BY <1>2
<1>4. /\ p \in Builder(NoFields) /\ p.mem = NoFields /\ p.offset = from + 4
      /\ p.usage = from + foot + 5 /\ p.capacity = cap /\ p.start = from /\ p.footer = foot
      /\ p.depth = 0 /\ p.sizes = b.sizes
  BY <1>1, <1>2, <1>3 DEF initialize, Builder
<1>5. FieldsOK(NoFields, from + 4) /\ DOMAIN NoFields = {}
  BY DEF FieldsOK, NoFields
<1> HIDE DEF p
<1>6. Good(p)
  BY <1>1, <1>2, <1>4, <1>5 DEF Good
<1>7. Accounted(p)
  BY <1>4 DEF Accounted
<1> QED BY <1>6, <1>7 DEF OpenInv, p

LEMMA FinishOK ==
    ASSUME BuilderInv, Finish
    PROVE  BuilderInv'
<1>0. phase = "open" /\ b' = finish(b) /\ OpenInv(b)
  BY OpenIsInv DEF Finish
<1>1. CASE ~CanFinish(b)
  BY <1>0, <1>1, StaysOpen DEF Finish, finish
<1>2. CASE CanFinish(b)
  <2> DEFINE w == Terminated(b.mem, b.offset, b.start, b.offset + 1 - b.start)
  <2>1. b \in Builder(b.mem) /\ b.depth = 0 /\ Len(b.sizes) = 0
    BY <1>0, <1>2 DEF CanFinish, OpenInv, Good
  <2>2. /\ b.offset \in Nat /\ b.usage \in Nat /\ b.start \in Nat /\ b.footer \in Nat
        /\ b.capacity \in Nat
    BY <2>1, BuilderMembers
  <2>3. FieldsOK(w, b.offset + 1) /\ \A o \in DOMAIN w : b.start <= o
    <3>1. /\ FieldsOK(b.mem, b.offset) /\ \A o \in DOMAIN b.mem : b.start <= o
          /\ b.start + 4 <= b.offset /\ b.start <= b.start
      BY <1>0, <2>2 DEF OpenInv, Good
    <3> QED BY <2>2, <3>1, TerminateOK
  <2>4. b' = [b EXCEPT !.mem = w, !.offset = b.offset + 1] /\ phase' = "done"
    BY <1>0, <1>2 DEF finish, Finish, Terminated
  <2> HIDE DEF w
  <2>5. /\ b' \in Builder(w) /\ b'.mem = w /\ b'.offset = b.offset + 1 /\ b'.start = b.start
        /\ b'.footer = b.footer /\ b'.capacity = b.capacity /\ b'.depth = 0 /\ b'.sizes = b.sizes
    <3> DEFINE q == b
    <3>1. q \in Builder(q.mem) /\ q.offset + 1 \in Nat /\ b' = [q EXCEPT !.mem = w, !.offset = q.offset + 1]
      BY <2>1, <2>2, <2>4
    <3> HIDE DEF q
    <3>2. /\ b' \in Builder(w) /\ b'.mem = w /\ b'.offset = q.offset + 1 /\ b'.start = q.start
          /\ b'.footer = q.footer /\ b'.capacity = q.capacity /\ b'.depth = q.depth /\ b'.sizes = q.sizes
      BY <3>1 DEF Builder
    <3> QED BY <2>1, <3>2 DEF q
  <2>6. b'.offset + b'.footer <= b'.capacity
    <3>1. b.usage = b.offset + b.footer + b.depth + 1 /\ b.usage <= b.capacity
      BY <1>0 DEF OpenInv, Accounted
    <3> QED BY <2>1, <2>2, <2>5, <3>1
  <2> QED BY <2>1, <2>3, <2>4, <2>5, <2>6
          DEF BuilderInv, BuilderTypeOK, WrittenBehindOffset, SizesReserved, UsageExact
<1> QED BY <1>1, <1>2

(* Each step of the specification preserves the invariant. *)
LEMMA BuilderNext == BuilderInv /\ [Next]_vars => BuilderInv'
<1> SUFFICES ASSUME BuilderInv, [Next]_vars PROVE BuilderInv'
  OBVIOUS
<1>k. \A k \in Names : k.len \in Nat
  BY NamesAssumption DEF Key
<1>a. FieldsOK(NoFields, 5) /\ FieldsOK(NoFields, 5 - 1)
  BY DEF FieldsOK, NoFields
<1>1. CASE InitializeBuffer
  <2>1. PICK n \in FixedSizes : b' = initialize(b, n, 0, 0, FALSE)
    BY <1>1 DEF InitializeBuffer, initializeBuffer
  <2>2. n \in Nat /\ 5 + 0 + 0 <= n /\ phase # "open" /\ phase' = "open"
    BY <1>1, SizesAssumption DEF InitializeBuffer
  <2>3. OpenInv(b)'
    BY <2>1, <2>2, InitializeOK
  <2> QED BY <2>2, <2>3, StaysOpen
<1>2. CASE InitializeVector
  <2>1. PICK n \in VecSizes, from \in Starts, foot \in Footers :
               b' = initializeVector(b, n, from, foot)
    BY <1>2 DEF InitializeVector
  <2> DEFINE cap == IF n < 5 + from + foot THEN 10 + from + foot ELSE n
  <2>2. n \in Nat /\ from \in Nat /\ foot \in Nat /\ phase # "open" /\ phase' = "open"
    BY <1>2, SizesAssumption DEF InitializeVector
  <2>3. cap \in Nat /\ 5 + from + foot <= cap
    BY <2>2
  <2>4. b' = initialize(b, cap, from, foot, TRUE)
    BY <2>1 DEF initializeVector
  <2> HIDE DEF cap
  <2>5. OpenInv(b)'
    BY <2>2, <2>3, <2>4, InitializeOK
  <2> QED BY <2>2, <2>5, StaysOpen
<1>3. ASSUME NEW k \in Names, NEW v \in Values, DocAddElement(k, v) PROVE BuilderInv'
  <2>1. phase = "open" /\ phase' = "open" /\ b' = Add(b, k, v.type, ValueFields(v), ValueSize(v))
    BY <1>3 DEF DocAddElement, InDoc, docAddElement
  <2>2. OpenInv(b)'
    BY <1>k, <2>1, OpenIsInv, ValueFieldsOK, AddOK
  <2> QED BY <2>1, <2>2, StaysOpen
<1>4. ASSUME NEW k \in Names, NEW sub \in SubDocs, DocAddSubDoc(k, sub) PROVE BuilderInv'
  <2>1. phase = "open" /\ phase' = "open" /\ b' = Add(b, k, "DOC", sub.toks, sub.size)
    BY <1>4 DEF DocAddSubDoc, InDoc, docAddSubDoc
  <2>2. sub.size \in Nat /\ FieldsOK(sub.toks, sub.size)
    BY SubDocsAssumption
  <2>3. OpenInv(b)'
    BY <1>k, <2>1, <2>2, OpenIsInv, AddOK
  <2> QED BY <2>1, <2>3, StaysOpen
<1>5. ASSUME NEW k \in Names, NEW sub \in SubDocs, DocBeginSubDocFrom(k, sub) PROVE BuilderInv'
  <2>1. phase = "open" /\ phase' = "open" /\ b' = Begin(b, k, "DOC", Body(sub), sub.size)
    BY <1>5 DEF DocBeginSubDocFrom, InDoc, docBeginSubDocFrom
  <2>2. sub.size \in Nat /\ sub.size >= 5 /\ FieldsOK(Body(sub), sub.size - 1)
    BY SubDocsAssumption DEF FieldsOK, Body
  <2>3. OpenInv(b)'
    BY <1>k, <2>1, <2>2, OpenIsInv, BeginOK
  <2> QED BY <2>1, <2>3, StaysOpen
<1>6. ASSUME NEW k \in Names, DocBeginSubDoc(k) \/ DocBeginSubArray(k) PROVE BuilderInv'
  <2>1. /\ phase = "open" /\ phase' = "open"
        /\ b' = Begin(b, k, "DOC", NoFields, 5) \/ b' = Begin(b, k, "ARRAY", NoFields, 5)
    BY <1>6 DEF DocBeginSubDoc, DocBeginSubArray, InDoc, docBeginSubDoc, docBeginSubArray
  <2>2. OpenInv(b)'
    BY <1>k, <1>a, <2>1, OpenIsInv, BeginOK
  <2> QED BY <2>1, <2>2, StaysOpen
<1>7. ASSUME NEW v \in Values, ArrayAddElement(v) PROVE BuilderInv'
  <2>1. /\ phase = "open" /\ phase' = "open"
        /\ b' = Add(TakeIndex(b), NextKey(b), v.type, ValueFields(ArrayValue(v)), ValueSize(v))
    BY <1>7 DEF ArrayAddElement, InArray, arrayAddElement
  <2>2. OpenInv(b)'
    BY <2>1, OpenIsInv, TakeIndexOK, ValueFieldsOK, AddOK
  <2> QED BY <2>1, <2>2, StaysOpen
<1>8. CASE ArrayBeginSubDoc \/ ArrayBeginSubArray
  <2>1. /\ phase = "open" /\ phase' = "open"
        /\ \/ b' = Begin(TakeIndex(b), NextKey(b), "DOC", NoFields, 5)
           \/ b' = Begin(TakeIndex(b), NextKey(b), "ARRAY", NoFields, 5)
    BY <1>8 DEF ArrayBeginSubDoc, ArrayBeginSubArray, InArray, arrayBeginSubDoc, arrayBeginSubArray
  <2>2. OpenInv(b)'
    BY <1>a, <2>1, OpenIsInv, TakeIndexOK, BeginOK
  <2> QED BY <2>1, <2>2, StaysOpen
<1>9. CASE EndDocument \/ EndArray
  <2>1. /\ phase = "open" /\ phase' = "open" /\ b.depth > 0
        /\ b' = Close(b) \/ b' = endArray(b)
    BY <1>9 DEF EndDocument, EndArray, endDocument
  <2>2. OpenInv(b)'
    BY <2>1, OpenIsInv, CloseOK, EndArrayOK
  <2> QED BY <2>1, <2>2, StaysOpen
<1>10. CASE Finish
  BY <1>10, FinishOK
<1>11. CASE UNCHANGED vars
  BY <1>11 DEF vars, BuilderInv, BuilderTypeOK, WrittenBehindOffset, SizesReserved, UsageExact
<1> QED BY <1>1, <1>2, <1>3, <1>4, <1>5, <1>6, <1>7, <1>8, <1>9, <1>10, <1>11 DEF Next

(* The space accounting of bson_builder.cpp is exact for every sequence of calls. *)
THEOREM BuilderInvariant == Spec => []BuilderInv
BY BuilderInit, BuilderNext, PTL DEF Spec

(* No call writes outside the buffer or into the reserved footer (bson_builder.cpp: the
   unchecked writes of endDocument, endArray and finish included). *)
THEOREM BuilderWritesInBounds == Spec => []WritesInBounds
<1>1. BuilderInv => WritesInBounds
  <2> SUFFICES ASSUME BuilderInv, NEW o \in DOMAIN b.mem
               PROVE  b.start <= o /\ o + b.mem[o].width <= b.capacity - b.footer
    BY DEF WritesInBounds
  <2>1. b \in Builder(b.mem)
    BY DEF BuilderInv, BuilderTypeOK
  <2>2. b.offset \in Nat /\ b.footer \in Nat /\ b.capacity \in Nat
    BY <2>1, BuilderMembers
  <2>3. o \in Nat /\ b.start <= o /\ b.mem[o].width \in Nat /\ o + b.mem[o].width <= b.offset
    BY DEF BuilderInv, WrittenBehindOffset, FieldsOK
  <2>4. b.offset + b.footer <= b.capacity
    BY DEF BuilderInv, UsageExact
  <2> QED BY <2>2, <2>3, <2>4
<1> QED BY <1>1, BuilderInvariant, PTL
==============================================================================
