----------------------------- MODULE ActionProofs -----------------------------
(***************************************************************************)
(* Proofs about the action builders and the force feedback pipeline: the   *)
(* backend holds the pipeline that the object names (PipelineAccounted),   *)
(* no action is sent twice (SentOnce) and a datagram carries the actions   *)
(* its owner built (DatagramsAsBuilt), for any number of builders, actions *)
(* and datagrams and any payload that an action header can describe; and   *)
(* about a telemetry group: what it sets fits the registration that the    *)
(* backend has (SetMatchesRegistration) and is laid out without overlap    *)
(* (SetPayloadExact), for any definitions, handles and word size.          *)
(***************************************************************************)
EXTENDS FfbPipeline, TelemetryGroup, FiniteSetTheorems, SequenceTheorems,
        WellFoundedInduction, TLAPS

(***************************************************************************)
(* Types.                                                                  *)
(***************************************************************************)
ActionSet == [no : Nat, kind : {"none", "raw", "effect", "clear"}, data : Seq(Int)]
EntrySet  == [at : Nat, how : {"build", "start"}, action : ActionSet, len : 0 .. MaxPayload, resized : BOOLEAN]
HeaderSet == [action : ActionSet, controller : Nat, size : Nat]
Memory(V) == UNION {[S -> V] : S \in SUBSET Nat}
BufferSet == [size : Nat, start : Nat, hdr : Memory(HeaderSet), pay : Memory(ActionSet),
              built : Seq(EntrySet)]
OpSet     == [owner : Builders, sync : BOOLEAN, data : BufferSet]

BuilderType ==
    /\ bld \in [Builders -> BufferSet]
    /\ call \in [Builders -> {"idle", "waiting", "complete", "failed"}]
    /\ ops \in Seq(OpSet) /\ wire \in Seq(BufferSet)
    /\ session \in [id : Nat, open : BOOLEAN] /\ count \in Nat

PipeType ==
    /\ pipeline_id \in -1 .. 127 /\ alive \in BOOLEAN
    /\ secure \in BOOLEAN /\ iv \in Seq(Nat) /\ (iv # << >> => Len(iv) = IvLen)

(***************************************************************************)
(* The pipeline: a live object has no destructor's command under way, and  *)
(* nothing is configured before the session is registered.                 *)
(***************************************************************************)
PipeInv ==
    /\ PipelineAccounted
    /\ alive => freeing = {}
    /\ session.id = 0 => pipeline_id = -1

(***************************************************************************)
(* Who holds which action.  An asynchronous operation of sendBlocking()    *)
(* shares its actions with the buffer of the builder that waits for it.    *)
(***************************************************************************)
Numbered(s, n) == \A a \in Holds(s) : a.no \in 1 .. n

AllNumbered ==
    /\ \A w \in Builders : Numbered(bld[w], count)
    /\ \A k \in DOMAIN ops : Numbered(ops[k].data, count)
    /\ \A i \in DOMAIN wire : Numbered(wire[i], count)
    /\ session.id = 0 => count = 0

Apart(s, t) == Holds(s) \cap Holds(t) = {}

Waits(k) == ops[k].sync => call[ops[k].owner] = "waiting"

OwnersWait ==
    /\ call[Pipeline] = "idle"
    /\ \A k \in DOMAIN ops : Waits(k)
    /\ \A k, l \in DOMAIN ops :
          k # l /\ ops[k].sync /\ ops[l].sync => ops[k].owner # ops[l].owner

HeldApart ==
    /\ \A v, w \in Builders : v # w => Apart(bld[v], bld[w])
    /\ \A k \in DOMAIN ops, w \in Builders :
          Apart(ops[k].data, bld[w]) \/ (ops[k].sync /\ ops[k].owner = w)
    /\ \A k, l \in DOMAIN ops : k # l => Apart(ops[k].data, ops[l].data)
    /\ \A k \in DOMAIN ops, i \in DOMAIN wire : Apart(ops[k].data, wire[i])
    /\ \A i, j \in DOMAIN wire : i # j => Apart(wire[i], wire[j])
    /\ \A i \in DOMAIN wire, w \in Builders :
          call[w] \in {"idle", "waiting"} => Apart(wire[i], bld[w])

(***************************************************************************)
(* The layout of a buffer whose actions were begun side by side: each      *)
(* action follows the one before it, start is the last one, and no header  *)
(* or payload has been overwritten.                                        *)
(***************************************************************************)
Laid(s, i, id) ==
    LET e == s.built[i] IN
    /\ i = 1 => e.at = 0
    /\ (IF i = Len(s.built) THEN s.size ELSE s.built[i + 1].at) = e.at + HeaderSize + e.len
    /\ IF i = Len(s.built) THEN e.at = s.start ELSE e.at + HeaderSize <= s.start
    /\ e.at \in DOMAIN s.hdr /\ e.at + HeaderSize \in DOMAIN s.pay
    /\ s.hdr[e.at].action = e.action /\ s.hdr[e.at].controller = id
    /\ ~e.resized => s.hdr[e.at].size = HeaderSize + e.len
    /\ s.pay[e.at + HeaderSize] = e.action

LaidOut(s, id) ==
    /\ s.built = << >> => s.size = 0
    /\ SideBySide(s) => \A i \in DOMAIN s.built : Laid(s, i, id)

Sent(d, id) == SideBySide(d) => AsBuilt(d, id)

LayoutInv ==
    /\ \A w \in Builders : LaidOut(bld[w], session.id)
    /\ \A k \in DOMAIN ops : Sent(ops[k].data, session.id)
    /\ \A i \in DOMAIN wire : Sent(wire[i], session.id)

------------------------------------------------------------------------------
(***************************************************************************)
(* The buffer operations.                                                  *)
(***************************************************************************)
(* A payload's size fits into the header, with the header's own. *)
LEMMA SizeFits ==
    /\ MaxPayload \in Nat /\ HeaderSize \in Nat /\ MaxPayload >= 2000
    /\ \A n \in 0 .. MaxPayload : n \in Nat /\ U16(HeaderSize + n) = HeaderSize + n
  <1>1. MaxPayload \in Nat /\ HeaderSize \in Nat /\ MaxPayload >= 2000
    BY DEF MaxPayload, HeaderSize
  <1>2. ASSUME NEW n \in 0 .. MaxPayload
        PROVE  n \in Nat /\ U16(HeaderSize + n) = HeaderSize + n
    <2>1. n \in Nat /\ n < 65528
      BY DEF MaxPayload
    <2>2. 8 + n \in Nat /\ 8 + n < 65536
      BY <2>1
    <2> QED
      BY <2>1, <2>2 DEF U16, HeaderSize
  <1> QED
    BY <1>1, <1>2

(* Arithmetic: a sum is no smaller than its first summand, and <= is transitive. *)
LEMMA SumBound == \A x, y \in Nat : x <= x + y /\ x + y \in Nat
  OBVIOUS

LEMMA LeqTransitive == \A x, y, z \in Nat : x <= y /\ y <= z => x <= z
  OBVIOUS

(* Memory stays memory. *)
LEMMA StoreType ==
    ASSUME NEW V, NEW f \in Memory(V), NEW x \in Nat, NEW v \in V
    PROVE  Store(f, x, v) \in Memory(V)
  <1>1. PICK S \in SUBSET Nat : f \in [S -> V]
    BY DEF Memory
  <1>2. Store(f, x, v) \in [S \cup {x} -> V]
    BY <1>1 DEF Store
  <1>3. S \cup {x} \in SUBSET Nat
    OBVIOUS
  <1> QED
    BY <1>2, <1>3 DEF Memory

(* What Append does to a sequence. *)
LEMMA AppendFacts ==
    ASSUME NEW S, NEW q \in Seq(S), NEW x \in S
    PROVE  /\ Append(q, x) \in Seq(S) /\ Len(Append(q, x)) = Len(q) + 1 /\ Len(q) \in Nat
           /\ Append(q, x)[Len(q) + 1] = x
           /\ \A i \in DOMAIN q : Append(q, x)[i] = q[i] /\ i # Len(q) + 1
           /\ DOMAIN Append(q, x) = 1 .. Len(q) + 1 /\ DOMAIN q = 1 .. Len(q)
  OBVIOUS

(* The empty buffer. *)
LEMMA EmptyFacts == Empty \in BufferSet /\ LaidOut(Empty, session.id) /\ Holds(Empty) = {}
  <1>1. \A V : << >> \in Memory(V)
    <2> TAKE V
    <2>1. << >> \in [{} -> V]
      OBVIOUS
    <2>2. {} \in SUBSET Nat
      OBVIOUS
    <2> QED
      BY <2>1, <2>2 DEF Memory
  <1>2. << >> \in Seq(EntrySet) /\ DOMAIN << >> = {}
    OBVIOUS
  <1>3. Empty \in BufferSet
    BY <1>1, <1>2 DEF Empty, BufferSet
  <1>4. Empty.built = << >> /\ Empty.size = 0
    BY DEF Empty
  <1> QED
    BY <1>2, <1>3, <1>4 DEF LaidOut, Holds

(* build() and startBuilding() append one action and keep the layout. *)
LEMMA ExtendFacts ==
    ASSUME NEW s \in BufferSet, LaidOut(s, session.id), session \in [id : Nat, open : BOOLEAN],
           NEW how \in {"build", "start"}, NEW a \in ActionSet, NEW n \in 0 .. MaxPayload,
           NEW h, h = IF how = "build" THEN s.size ELSE 0
    PROVE  LET t == Extend(s, h, how, a, n) IN
           /\ t \in BufferSet /\ LaidOut(t, session.id) /\ t.built # << >>
           /\ Holds(t) = Holds(s) \cup {a}
  <1> DEFINE t == Extend(s, h, how, a, n)
             e == Entry(s.size, how, a, n)
             m == Len(s.built) + 1
  <1>1. /\ s.size \in Nat /\ s.start \in Nat /\ s.built \in Seq(EntrySet)
        /\ s.hdr \in Memory(HeaderSet) /\ s.pay \in Memory(ActionSet) /\ h \in Nat
    BY DEF BufferSet
  <1>2. /\ t.size = s.size + (HeaderSize + n) /\ t.start = s.size
        /\ t.hdr = Store(s.hdr, h, Header(a, n))
        /\ t.pay = Store(s.pay, s.size + HeaderSize, a)
        /\ t.built = Append(s.built, e)
        /\ t = [size |-> t.size, start |-> t.start, hdr |-> t.hdr, pay |-> t.pay, built |-> t.built]
    BY <1>1 DEF Extend, HeaderSize
  <1>3. /\ e.at = s.size /\ e.how = how /\ e.action = a /\ e.len = n /\ e.resized = FALSE
        /\ e = [at |-> e.at, how |-> e.how, action |-> e.action, len |-> e.len, resized |-> e.resized]
    BY DEF Entry
  <1>4. Header(a, n).action = a /\ Header(a, n).controller = session.id
    BY DEF Header
  <1>5. Header(a, n).size = HeaderSize + n /\ HeaderSize + n \in Nat /\ HeaderSize + n > 0
    <2>1. Header(a, n).size = U16(HeaderSize + n)
      BY DEF Header
    <2> QED
      BY <2>1, SizeFits DEF HeaderSize
  <1>6. Header(a, n) = [action |-> a, controller |-> session.id, size |-> HeaderSize + n]
    BY <1>5 DEF Header
  <1> HIDE DEF t, e, m
  <1>7. Header(a, n) \in HeaderSet
    BY <1>5, <1>6 DEF HeaderSet
  <1>8. e \in EntrySet
    BY <1>1, <1>3 DEF EntrySet
  <1>9. t.size \in Nat /\ s.size + HeaderSize \in Nat
    BY <1>1, <1>2, <1>5 DEF HeaderSize
  <1>10. t.hdr \in Memory(HeaderSet) /\ t.pay \in Memory(ActionSet)
    <2>1. /\ Store(s.hdr, h, Header(a, n)) \in Memory(HeaderSet)
          /\ Store(s.pay, s.size + HeaderSize, a) \in Memory(ActionSet)
      BY <1>1, <1>7, <1>9, StoreType
    <2> QED
      BY <1>2, <2>1
  <1>11. /\ t.built \in Seq(EntrySet) /\ Len(t.built) = m /\ t.built[m] = e /\ m \in Nat \ {0}
         /\ \A i \in DOMAIN s.built : t.built[i] = s.built[i] /\ i # m
         /\ DOMAIN t.built = 1 .. m /\ DOMAIN s.built = 1 .. Len(s.built) /\ m = Len(s.built) + 1
         /\ Len(s.built) \in Nat
    BY <1>1, <1>2, <1>8, AppendFacts DEF m
  <1>12. t \in BufferSet
    BY <1>1, <1>2, <1>9, <1>10, <1>11 DEF BufferSet
  <1>13. /\ h \in DOMAIN t.hdr /\ t.hdr[h] = Header(a, n)
         /\ \A y \in DOMAIN s.hdr : y \in DOMAIN t.hdr /\ (y # h => t.hdr[y] = s.hdr[y])
    <2> HIDE DEF Header
    <2> QED
      BY <1>2 DEF Store
  <1>14. /\ s.size + HeaderSize \in DOMAIN t.pay /\ t.pay[s.size + HeaderSize] = a
         /\ \A y \in DOMAIN s.pay :
               y \in DOMAIN t.pay /\ (y # s.size + HeaderSize => t.pay[y] = s.pay[y])
    BY <1>2 DEF Store
  <1>15. Holds(t) = Holds(s) \cup {a}
    BY <1>3, <1>11 DEF Holds
  <1>16. ASSUME SideBySide(t), NEW i \in DOMAIN t.built
         PROVE  Laid(t, i, session.id)
    <2>1. \A j \in DOMAIN s.built :
             /\ s.built[j].how = "start" => j = 1
             /\ ~s.built[j].resized
      BY <1>11, <1>16 DEF SideBySide
    <2>2. \A j \in DOMAIN s.built : Laid(s, j, session.id)
      BY <2>1 DEF LaidOut, SideBySide
    <2>3. m = 1 => s.size = 0
      <3>1. m = 1 => s.built = << >>
        BY <1>1, <1>11
      <3> QED
        BY <3>1 DEF LaidOut
    <2>4. h = s.size
      <3>1. CASE how = "build"
        BY <3>1
      <3>2. CASE how = "start"
        <4>1. m = 1
          BY <3>2, <1>3, <1>11, <1>16 DEF SideBySide
        <4> QED
          BY <4>1, <3>2, <2>3
      <3> QED
        BY <3>1, <3>2
    <2>5. CASE i = m
      <3>1. t.built[i] = e /\ i = Len(t.built)
        BY <2>5, <1>11
      <3> QED
        <4>1. i = 1 => e.at = 0
          BY <2>3, <2>5, <1>3
        <4>2. t.size = e.at + HeaderSize + e.len /\ e.at = t.start
          BY <1>1, <1>2, <1>3, SizeFits
        <4>3. /\ e.at \in DOMAIN t.hdr /\ t.hdr[e.at].action = e.action
              /\ t.hdr[e.at].controller = session.id
              /\ t.hdr[e.at].size = HeaderSize + e.len
          BY <2>4, <1>3, <1>4, <1>5, <1>13
        <4>4. e.at + HeaderSize \in DOMAIN t.pay /\ t.pay[e.at + HeaderSize] = e.action
          BY <1>3, <1>14
        <4> QED
          BY <3>1, <4>1, <4>2, <4>3, <4>4 DEF Laid
    <2>6. CASE i # m
      <3>1. i \in DOMAIN s.built /\ i < m /\ t.built[i] = s.built[i]
        BY <2>6, <1>11
      <3>2. Laid(s, i, session.id) /\ ~s.built[i].resized
        BY <3>1, <2>1, <2>2
      <3>3. s.built[i].at \in Nat /\ s.built[i].len \in Nat
        <4>1. s.built[i] \in EntrySet
          BY <3>1, <1>1
        <4> QED
          BY <4>1 DEF EntrySet
      <3>4. s.built[i].at + HeaderSize <= s.size
        <4>1. CASE i = Len(s.built)
          <5>1. s.size = s.built[i].at + HeaderSize + s.built[i].len
            BY <4>1, <3>2 DEF Laid
          <5> QED
            BY <5>1, <3>3, SumBound, SizeFits
        <4>2. CASE i # Len(s.built)
          <5>1. Len(s.built) \in DOMAIN s.built
            BY <3>1, <1>11
          <5>2. Laid(s, Len(s.built), session.id)
            BY <5>1, <2>2
          <5>3. s.built[Len(s.built)].len \in Nat
            <6>1. s.built[Len(s.built)] \in EntrySet
              BY <5>1, <1>1
            <6> QED
              BY <6>1 DEF EntrySet
          <5>4. s.size = s.start + HeaderSize + s.built[Len(s.built)].len
            BY <5>2 DEF Laid
          <5>5. s.built[i].at + HeaderSize <= s.start
            BY <4>2, <3>2 DEF Laid
          <5> QED
            <6>1. s.start + HeaderSize \in Nat /\ s.start <= s.start + HeaderSize
              BY <1>1, SumBound, SizeFits
            <6>2. s.start + HeaderSize <= s.size
              BY <5>3, <5>4, <6>1, SumBound
            <6>3. s.start <= s.size
              BY <6>1, <6>2, <1>1, LeqTransitive
            <6>4. s.built[i].at + HeaderSize \in Nat
              BY <3>3, SumBound, SizeFits
            <6> QED
              BY <6>3, <6>4, <5>5, <1>1, LeqTransitive
        <4> QED
          BY <4>1, <4>2
      <3>5. s.built[i].at # h /\ s.built[i].at + HeaderSize # s.size + HeaderSize
        BY <3>3, <3>4, <2>4, <1>1 DEF HeaderSize
      <3>6. /\ s.built[i].at \in DOMAIN t.hdr /\ t.hdr[s.built[i].at] = s.hdr[s.built[i].at]
            /\ s.built[i].at + HeaderSize \in DOMAIN t.pay
            /\ t.pay[s.built[i].at + HeaderSize] = s.pay[s.built[i].at + HeaderSize]
        <4>1. s.built[i].at \in DOMAIN s.hdr /\ s.built[i].at + HeaderSize \in DOMAIN s.pay
          BY <3>2 DEF Laid
        <4> QED
          BY <4>1, <3>5, <1>13, <1>14
      <3>7. t.built[i + 1].at = s.built[i].at + HeaderSize + s.built[i].len
        <4>1. CASE i = Len(s.built)
          <5>1. i + 1 = m
            BY <4>1, <1>11
          <5> QED
            BY <5>1, <4>1, <3>2, <1>3, <1>11 DEF Laid
        <4>2. CASE i # Len(s.built)
          <5>1. i + 1 \in DOMAIN s.built
            BY <4>2, <3>1, <1>11
          <5> QED
            BY <5>1, <4>2, <3>2, <1>11 DEF Laid
        <4> QED
          BY <4>1, <4>2
      <3>8. i # Len(t.built) /\ t.start = s.size
        BY <2>6, <1>2, <1>11
      <3> QED
        BY <3>1, <3>2, <3>4, <3>6, <3>7, <3>8 DEF Laid
    <2> QED
      BY <2>5, <2>6
  <1>17. t.built # << >>
    BY <1>11
  <1> QED
    BY <1>12, <1>15, <1>16, <1>17 DEF LaidOut, t
(* Memory holds values of its kind. *)
LEMMA MemoryValue == ASSUME NEW V, NEW f \in Memory(V), NEW x \in DOMAIN f PROVE f[x] \in V
  <1>1. PICK S \in SUBSET Nat : f \in [S -> V]
    BY DEF Memory
  <1> QED
    BY <1>1

(* The size of a header is a number. *)
LEMMA U16Type == \A x \in Int : U16(x) \in Nat
  BY DEF U16

(* finalize() fills in the header of the last action: the datagram is as built. *)
LEMMA FinalizeFacts ==
    ASSUME NEW s \in BufferSet, LaidOut(s, session.id), session \in [id : Nat, open : BOOLEAN],
           s.built # << >>
    PROVE  LET d == finalize(s) IN
           /\ d \in BufferSet /\ LaidOut(d, session.id) /\ Sent(d, session.id) /\ d.built # << >>
           /\ Holds(d) = Holds(s)
  <1> DEFINE d == finalize(s)
             g == IF s.start \in DOMAIN s.hdr THEN s.hdr[s.start] ELSE NoHeader
             h == [g EXCEPT !.size = U16(s.size - s.start)]
             m == Len(s.built)
  <1>1. /\ s.size \in Nat /\ s.start \in Nat /\ s.built \in Seq(EntrySet)
        /\ s.hdr \in Memory(HeaderSet) /\ s.pay \in Memory(ActionSet)
        /\ s = [size |-> s.size, start |-> s.start, hdr |-> s.hdr, pay |-> s.pay, built |-> s.built]
    BY DEF BufferSet
  <1>2. NoHeader \in HeaderSet
    <2>1. << >> \in Seq(Int)
      OBVIOUS
    <2> QED
      BY <2>1 DEF NoHeader, HeaderSet, ActionSet
  <1>3. g \in HeaderSet
    BY <1>1, <1>2, MemoryValue
  <1>4. U16(s.size - s.start) \in Nat
    BY <1>1, U16Type
  <1>5. d = [size |-> s.size, start |-> s.start, hdr |-> Store(s.hdr, s.start, h),
             pay |-> s.pay, built |-> s.built]
    <2> DEFINE st == Store(s.hdr, s.start, h)
    <2>1. d = [s EXCEPT !.hdr = st]
      BY DEF finalize
    <2> HIDE DEF st, d
    <2>2. d = [size |-> s.size, start |-> s.start, hdr |-> st, pay |-> s.pay, built |-> s.built]
      BY <1>1, <2>1
    <2> QED
      BY <2>2 DEF st
  <1> HIDE DEF d, g
  <1>6. h \in HeaderSet /\ h.action = g.action /\ h.controller = g.controller
        /\ h.size = U16(s.size - s.start)
    BY <1>3, <1>4 DEF HeaderSet
  <1> HIDE DEF h
  <1>7. /\ d.size = s.size /\ d.start = s.start /\ d.pay = s.pay /\ d.built = s.built
        /\ d.hdr = Store(s.hdr, s.start, h)
        /\ d = [size |-> d.size, start |-> d.start, hdr |-> d.hdr, pay |-> d.pay, built |-> d.built]
    BY <1>5
  <1>8. d.hdr \in Memory(HeaderSet)
    <2>1. Store(s.hdr, s.start, h) \in Memory(HeaderSet)
      BY <1>1, <1>6, StoreType
    <2> QED
      BY <1>7, <2>1
  <1>9. d \in BufferSet
    BY <1>1, <1>7, <1>8 DEF BufferSet
  <1>10. Holds(d) = Holds(s)
    BY <1>7 DEF Holds
  <1>11. /\ s.start \in DOMAIN d.hdr /\ d.hdr[s.start] = h
         /\ \A y \in DOMAIN s.hdr : y \in DOMAIN d.hdr /\ (y # s.start => d.hdr[y] = s.hdr[y])
    BY <1>7 DEF Store
  <1>12. ASSUME SideBySide(d), NEW i \in DOMAIN d.built
         PROVE  /\ Laid(d, i, session.id)
                /\ d.hdr[d.built[i].at].size = HeaderSize + d.built[i].len
    <2> DEFINE e == s.built[i]
    <2>1. i \in DOMAIN s.built /\ Laid(s, i, session.id) /\ (e.resized => i = m)
      BY <1>7, <1>12 DEF LaidOut, SideBySide
    <2>2. e.at \in Nat /\ e.len \in 0 .. MaxPayload /\ e.len \in Nat
      <3>1. e \in EntrySet
        BY <2>1, <1>1
      <3> QED
        BY <3>1, SizeFits DEF EntrySet
    <2>3. d.built[i] = e /\ e = s.built[i]
      BY <1>7
    <2> HIDE DEF e
    <2>4. /\ e.at \in DOMAIN s.hdr /\ e.at + HeaderSize \in DOMAIN s.pay
          /\ s.hdr[e.at].action = e.action /\ s.hdr[e.at].controller = session.id
          /\ ~e.resized => s.hdr[e.at].size = HeaderSize + e.len
          /\ s.pay[e.at + HeaderSize] = e.action
      BY <2>1, <2>3 DEF Laid
    <2>5. /\ d.hdr[e.at].action = e.action /\ d.hdr[e.at].controller = session.id
          /\ d.hdr[e.at].size = HeaderSize + e.len
      <3>1. CASE i = m
        <4>1. e.at = s.start /\ s.size = e.at + HeaderSize + e.len
          BY <3>1, <2>1, <2>3 DEF Laid
        <4>2. g = s.hdr[e.at]
          BY <4>1, <2>4 DEF g
        <4>3. s.size - s.start = HeaderSize + e.len
          BY <4>1, <2>2, <1>1, SizeFits
        <4>4. d.hdr[e.at] = h
          BY <4>1, <1>11
        <4>5. h.size = HeaderSize + e.len
          <5>1. U16(HeaderSize + e.len) = HeaderSize + e.len
            BY <2>2, SizeFits
          <5> QED
            BY <4>3, <5>1, <1>6
        <4> QED
          BY <4>2, <4>4, <4>5, <2>4, <1>6
      <3>2. CASE i # m
        <4>1. e.at + HeaderSize <= s.start
          BY <3>2, <2>1, <2>3 DEF Laid
        <4>2. e.at # s.start
          BY <4>1, <2>2, <1>1 DEF HeaderSize
        <4> QED
          BY <3>2, <4>2, <2>1, <2>4, <1>11, <2>3
      <3> QED
        BY <3>1, <3>2
    <2>6. e.at \in DOMAIN d.hdr
      BY <2>4, <1>11
    <2> QED
      BY <2>1, <2>3, <2>4, <2>5, <2>6, <1>7 DEF Laid
  <1>13. LaidOut(d, session.id)
    BY <1>7, <1>12 DEF LaidOut
  <1>14. Sent(d, session.id)
    <2> DEFINE next(i) == IF i = Len(d.built) THEN d.size ELSE d.built[i + 1].at
    <2> SUFFICES ASSUME SideBySide(d), NEW i \in DOMAIN d.built
                 PROVE  /\ i = 1 => d.built[i].at = 0
                        /\ next(i) = d.built[i].at + HeaderSize + d.built[i].len
                        /\ d.hdr[d.built[i].at] =
                              [action |-> d.built[i].action, controller |-> session.id,
                               size |-> next(i) - d.built[i].at]
                        /\ d.pay[d.built[i].at + HeaderSize] = d.built[i].action
      BY DEF Sent, AsBuilt
    <2>1. Laid(d, i, session.id) /\ d.hdr[d.built[i].at].size = HeaderSize + d.built[i].len
      BY <1>12
    <2>0. next(i) = d.built[i].at + HeaderSize + d.built[i].len
      BY <2>1 DEF Laid
    <2>6. next(i) - d.built[i].at = HeaderSize + d.built[i].len
      <3>1. d.built[i] \in EntrySet
        BY <1>1, <1>7
      <3>2. d.built[i].at \in Nat /\ d.built[i].len \in Nat
        BY <3>1, SizeFits DEF EntrySet
      <3> HIDE DEF next
      <3> QED
        BY <2>0, <3>2, SizeFits
    <2> HIDE DEF next
    <2>2. d.hdr[d.built[i].at] \in HeaderSet
      <3>1. d.built[i].at \in DOMAIN d.hdr
        BY <2>1 DEF Laid
      <3> QED
        BY <3>1, <1>8, MemoryValue
    <2>3. d.hdr[d.built[i].at].action = d.built[i].action
          /\ d.hdr[d.built[i].at].controller = session.id
      BY <2>1 DEF Laid
    <2>4. d.hdr[d.built[i].at] = [action |-> d.built[i].action, controller |-> session.id,
                                  size |-> next(i) - d.built[i].at]
      BY <2>1, <2>2, <2>3, <2>6 DEF HeaderSet
    <2> QED
      BY <2>0, <2>1, <2>4 DEF Laid
  <1> QED
    BY <1>7, <1>9, <1>10, <1>13, <1>14 DEF d

(* resizePayload() changes the end of the last action and nothing before it. *)
LEMMA ResizeFacts ==
    ASSUME NEW s \in BufferSet, LaidOut(s, session.id), s.built # << >>, NEW n \in 0 .. MaxPayload
    PROVE  LET r == resizePayload(s, n) IN
           r \in BufferSet /\ LaidOut(r, session.id) /\ Holds(r) = Holds(s)
  <1> DEFINE r == resizePayload(s, n)
             m == Len(s.built)
             l == [s.built[m] EXCEPT !.len = n, !.resized = TRUE]
             b == [s.built EXCEPT ![m] = l]
             z == s.start + HeaderSize + n
  <1>1. /\ s.size \in Nat /\ s.start \in Nat /\ s.built \in Seq(EntrySet)
        /\ s.hdr \in Memory(HeaderSet) /\ s.pay \in Memory(ActionSet)
        /\ s = [size |-> s.size, start |-> s.start, hdr |-> s.hdr, pay |-> s.pay, built |-> s.built]
    BY DEF BufferSet
  <1>2. r = [s EXCEPT !.size = z, !.built = b]
    BY DEF resizePayload
  <1>3. m \in DOMAIN s.built /\ s.built[m] \in EntrySet /\ DOMAIN s.built = 1 .. m /\ m \in Nat
    BY <1>1
  <1>4. /\ l \in EntrySet /\ l.len = n /\ l.resized = TRUE
        /\ l.at = s.built[m].at /\ l.action = s.built[m].action /\ l.how = s.built[m].how
    BY <1>3 DEF EntrySet
  <1> HIDE DEF l
  <1>5. /\ b \in Seq(EntrySet) /\ Len(b) = m /\ DOMAIN b = 1 .. m /\ b[m] = l
        /\ \A i \in DOMAIN s.built : i # m => b[i] = s.built[i]
    BY <1>1, <1>3, <1>4
  <1>6. z \in Nat
    BY <1>1, SizeFits
  <1> HIDE DEF b, z, m, r
  <1>7. r = [size |-> z, start |-> s.start, hdr |-> s.hdr, pay |-> s.pay, built |-> b]
    BY <1>1, <1>2
  <1>8. r.size = z /\ r.start = s.start /\ r.hdr = s.hdr /\ r.pay = s.pay /\ r.built = b
    BY <1>7
  <1>9. r \in BufferSet
    BY <1>1, <1>5, <1>6, <1>7 DEF BufferSet
  <1>10. \A i \in DOMAIN s.built : b[i].action = s.built[i].action /\ b[i].at = s.built[i].at
                                   /\ b[i].how = s.built[i].how
    BY <1>4, <1>5
  <1>11. Holds(r) = Holds(s)
    BY <1>3, <1>5, <1>8, <1>10 DEF Holds
  <1>12. ASSUME SideBySide(r), NEW i \in DOMAIN r.built
         PROVE  Laid(r, i, session.id)
    <2>1. i \in DOMAIN s.built
      BY <1>3, <1>5, <1>8
    <2>2. SideBySide(s)
      <3> SUFFICES ASSUME NEW j \in DOMAIN s.built
                   PROVE  /\ s.built[j].how = "start" => j = 1
                          /\ s.built[j].resized => j = m
        BY DEF SideBySide, m
      <3>1. j \in DOMAIN r.built /\ r.built[j].how = s.built[j].how
        BY <1>3, <1>5, <1>8, <1>10
      <3>2. j # m => ~s.built[j].resized
        BY <3>1, <1>5, <1>8, <1>12 DEF SideBySide
      <3> QED
        BY <3>1, <3>2, <1>12 DEF SideBySide
    <2>3. Laid(s, i, session.id)
      BY <2>1, <2>2 DEF LaidOut
    <2>4. CASE i = m
      <3>1. r.built[i] = l /\ i = Len(r.built) /\ s.built[i] = s.built[m]
        BY <2>4, <1>5, <1>8
      <3>2. l.at = s.start
        BY <2>3, <2>4, <1>4 DEF Laid, m
      <3>3. /\ i = 1 => l.at = 0
            /\ l.at \in DOMAIN r.hdr /\ l.at + HeaderSize \in DOMAIN r.pay
            /\ r.hdr[l.at].action = l.action /\ r.hdr[l.at].controller = session.id
            /\ r.pay[l.at + HeaderSize] = l.action
        BY <3>1, <2>3, <1>4, <1>8 DEF Laid
      <3>4. r.size = l.at + HeaderSize + l.len
        BY <3>2, <1>4, <1>8 DEF z
      <3> QED
        BY <3>1, <3>2, <3>3, <3>4, <1>4, <1>8 DEF Laid
    <2>5. CASE i # m
      <3>1. r.built[i] = s.built[i] /\ i # Len(r.built) /\ i # Len(s.built)
        BY <2>5, <2>1, <1>5, <1>8 DEF m
      <3>2. i + 1 \in DOMAIN s.built
        BY <2>1, <2>5, <1>3
      <3>3. r.built[i + 1].at = s.built[i + 1].at
        BY <3>2, <1>8, <1>10
      <3> QED
        BY <3>1, <3>3, <2>3, <1>8 DEF Laid
    <2> QED
      BY <2>4, <2>5
  <1>13. r.built # << >>
    BY <1>3, <1>5, <1>8
  <1>14. LaidOut(r, session.id)
    BY <1>12, <1>13 DEF LaidOut
  <1> QED
    BY <1>9, <1>11, <1>14 DEF r
(***************************************************************************)
(* The moves a step can make.  Derived(s, d, n): d is a buffer that holds  *)
(* actions of s and actions numbered above count, none above n.            *)
(***************************************************************************)
Derived(s, d, n) ==
    /\ d \in BufferSet /\ LaidOut(d, session.id) /\ Numbered(d, n)
    /\ \A a \in Holds(d) : a \in Holds(s) \/ a.no > count

Counted ==
    /\ count' \in Nat /\ count <= count' /\ (session.id = 0 => count' = 0)
    /\ session' = session

(* A builder's buffer becomes d. *)
Keep(w, d) ==
    /\ Counted /\ call[w] = "idle" /\ Derived(bld[w], d, count')
    /\ bld' = [bld EXCEPT ![w] = d]
    /\ UNCHANGED <<call, ops, wire>>

(* The datagram d goes out at once and the buffer is emptied. *)
Transmit(w, d) ==
    /\ Counted /\ call[w] = "idle" /\ Derived(bld[w], d, count') /\ Sent(d, session.id)
    /\ wire' = Append(wire, d) /\ bld' = [bld EXCEPT ![w] = Empty]
    /\ UNCHANGED <<call, ops>>

(* The datagram d becomes an asynchronous operation. *)
Post(w, sync, d) ==
    /\ Counted /\ call[w] = "idle" /\ Derived(bld[w], d, count') /\ Sent(d, session.id) /\ sync \in BOOLEAN
    /\ sync => w # Pipeline
    /\ ops' = Append(ops, [owner |-> w, sync |-> sync, data |-> d])
    /\ bld' = [bld EXCEPT ![w] = IF sync THEN d ELSE Empty]
    /\ call' = IF sync THEN [call EXCEPT ![w] = "waiting"] ELSE call
    /\ UNCHANGED wire

(* The caller of sendBlocking() returns. *)
Return(w) ==
    /\ Counted /\ count' = count /\ call[w] \in {"complete", "failed"}
    /\ bld' = [bld EXCEPT ![w] = Empty] /\ call' = [call EXCEPT ![w] = "idle"]
    /\ UNCHANGED <<ops, wire>>

(* The oldest operation completes. *)
Finish(o) ==
    /\ Counted /\ count' = count /\ ops # << >> /\ ops' = Tail(ops)
    /\ wire' = IF o = "ok" THEN Append(wire, Head(ops).data) ELSE wire
    /\ call' = IF Head(ops).sync
               THEN [call EXCEPT ![Head(ops).owner] = IF o = "ok" THEN "complete" ELSE "failed"]
               ELSE call
    /\ UNCHANGED bld

(* Registration, closing, and steps that leave the builders alone. *)
Aside ==
    /\ session' \in [id : Nat, open : BOOLEAN] /\ (session'.id # session.id => session.id = 0)
    /\ UNCHANGED <<bld, call, ops, wire, count>>

Move ==
    \/ \E w \in Builders, d \in BufferSet :
          Keep(w, d) \/ Transmit(w, d) \/ \E sync \in BOOLEAN : Post(w, sync, d)
    \/ \E w \in Builders : Return(w)
    \/ \E o \in {"ok", "error"} : Finish(o)
    \/ Aside

BuilderInv == BuilderType /\ AllNumbered /\ OwnersWait /\ HeldApart /\ LayoutInv
(* A fresh, emptied, finalized or resized buffer is derived from the one before it. *)
LEMMA EmptyDerived == \A s, n : Derived(s, Empty, n)
  BY EmptyFacts DEF Derived, Numbered

LEMMA SameDerived ==
    ASSUME NEW s, NEW d \in BufferSet, Numbered(s, count), LaidOut(d, session.id), Holds(d) = Holds(s)
    PROVE  Derived(s, d, count)
  BY DEF Derived, Numbered

LEMMA NewDerived ==
    ASSUME NEW s, NEW d \in BufferSet, Numbered(s, count), LaidOut(d, session.id), count \in Nat,
           NEW a, a.no = count + 1, Holds(d) = Holds(s) \cup {a}
    PROVE  Derived(s, d, count + 1)
  BY DEF Derived, Numbered

(* An action just built is numbered after all others. *)
LEMMA ActionFacts ==
    ASSUME count \in Nat, NEW k \in {"none", "raw", "effect", "clear"}, NEW x \in Seq(Int)
    PROVE  Action(k, x) \in ActionSet /\ Action(k, x).no = count + 1
  BY DEF Action, ActionSet

(* What the effect and clear actions need fits a header. *)
LEMMA EffectFits ==
    /\ ClearSize \in 0 .. MaxPayload
    /\ \A n \in Nat : n <= 256 => EffectSize(n) \in 0 .. MaxPayload
  <1>1. ClearSize \in 0 .. MaxPayload
    BY SizeFits DEF ClearSize
  <1>2. ASSUME NEW n \in Nat, n <= 256
        PROVE  EffectSize(n) \in 0 .. MaxPayload
    <2>1. 4 * n \in Nat /\ 4 * n + 15 \in Nat /\ 4 * n + 15 <= 1039
      BY <1>2
    <2>2. /\ (4 * n + 15) \div 16 \in Nat /\ ((4 * n + 15) \div 16) * 16 <= 4 * n + 15
          /\ ((4 * n + 15) \div 16) * 16 \in Nat
      BY <2>1
    <2>3. SamplesSize(n) \in Nat /\ SamplesSize(n) <= 1039
      BY <2>1, <2>2 DEF SamplesSize
    <2>4. EffectSize(n) \in Nat /\ EffectSize(n) <= 1099
      BY <2>3 DEF EffectSize, EffectHeader, Encryption
    <2> QED
      BY <2>4, SizeFits
  <1> QED
    BY <1>1, <1>2

(* sendNonBlocking() keeps, transmits or discards. *)
LEMMA SendMove ==
    ASSUME BuilderInv, NEW w \in Builders, call[w] = "idle", NEW o, sendNonBlocking(w, o),
           UNCHANGED <<call, ops, session, count>>
    PROVE  Move
  <1>1. /\ bld[w] \in BufferSet /\ LaidOut(bld[w], session.id) /\ Numbered(bld[w], count) /\ count \in Nat
        /\ session \in [id : Nat, open : BOOLEAN] /\ (session.id = 0 => count = 0)
    BY DEF BuilderInv, BuilderType, AllNumbered, LayoutInv
  <1>2. Counted
    BY <1>1 DEF Counted
  <1>3. ASSUME bld' = [bld EXCEPT ![w] = Empty], wire' = wire
        PROVE  Move
    BY <1>2, <1>3, EmptyDerived, EmptyFacts DEF Move, Keep
  <1>4. CASE bld[w].size = 0
    BY <1>3, <1>4 DEF sendNonBlocking, Put, reset
  <1>5. CASE bld[w].size # 0
    <2> DEFINE d == finalize(bld[w])
    <2>1. bld[w].built # << >>
      BY <1>1, <1>5 DEF LaidOut
    <2>2. d \in BufferSet /\ LaidOut(d, session.id) /\ Sent(d, session.id) /\ Holds(d) = Holds(bld[w])
      BY <1>1, <2>1, FinalizeFacts
    <2>3. /\ wire' = IF o = "ok" THEN Append(wire, d) ELSE wire
          /\ bld' = [bld EXCEPT ![w] = IF o = "would_block" THEN d ELSE Empty]
      BY <1>5 DEF sendNonBlocking, Put, reset
    <2> HIDE DEF d
    <2>4. Derived(bld[w], d, count')
      BY <1>1, <2>2, SameDerived
    <2>5. CASE o = "ok"
      BY <2>2, <2>3, <2>4, <2>5, <1>2 DEF Move, Transmit
    <2>6. CASE o = "would_block"
      BY <2>2, <2>3, <2>4, <2>6, <1>2 DEF Move, Keep
    <2>7. CASE o \notin {"ok", "would_block"}
      BY <2>3, <2>7, <1>3
    <2> QED
      BY <2>5, <2>6, <2>7
  <1> QED
    BY <1>4, <1>5

(* The backend's ids fit into int8_t. *)
LEMMA AsInt8Id == \A id \in BackendIds : AsInt8(id) = id /\ id \in 0 .. 127 /\ id # -1
  <1> SUFFICES ASSUME NEW id \in BackendIds
               PROVE  AsInt8(id) = id /\ id \in 0 .. 127 /\ id # -1
    OBVIOUS
  <1>1. id \in Nat /\ id < 128 /\ id \in 0 .. 127 /\ id # -1
    BY PipelineAssumption
  <1>2. id + 128 \in Nat /\ id + 128 < 256
    BY <1>1
  <1>3. (id + 128) % 256 = id + 128
    BY <1>2
  <1> QED
    BY <1>1, <1>3 DEF AsInt8

(* The initial value stays a vector of IvLen digits. *)
LEMMA IvType ==
    ASSUME iv \in Seq(Nat), iv # << >> => Len(iv) = IvLen, NEW v \in handleIV
    PROVE  v \in Seq(Nat) /\ Len(v) = IvLen
  <1>1. IvLen \in Nat /\ IvBase \in Nat
    BY PipelineAssumption
  <1>2. \A f \in [1 .. IvLen -> Nat] : f \in Seq(Nat) /\ Len(f) = IvLen
    BY <1>1
  <1>3. v \in [1 .. IvLen -> Nat]
    <2>1. CASE iv = << >>
      BY <2>1, <1>1 DEF handleIV
    <2>2. CASE iv # << >>
      <3> DEFINE carry == {i \in 1 .. IvLen : \A j \in 1 .. i : iv[j] = IvBase - 1}
      <3>1. v = [i \in 1 .. IvLen |-> IF i \in carry THEN 0
                                     ELSE IF i = Cardinality(carry) + 1 THEN iv[i] + 1 ELSE iv[i]]
        BY <2>2 DEF handleIV, NextIv
      <3> HIDE DEF carry
      <3>2. \A i \in 1 .. IvLen : iv[i] \in Nat
        BY <2>2
      <3> QED
        BY <3>1, <3>2
    <2> QED
      BY <2>1, <2>2
  <1> QED
    BY <1>2, <1>3

(* An effect or a clear action is built and sent in one step of the pipeline's owner. *)
LEMMA PipelineSendMove ==
    ASSUME BuilderInv, NEW k \in {"effect", "clear"}, NEW x \in Seq(Int),
           NEW n \in 0 .. MaxPayload, NEW o, CanBuild,
           BuildAndSend(Pipeline, bld[Pipeline], Action(k, x), n, o)
    PROVE  Move
  <1> DEFINE w == Pipeline
             a == Action(k, x)
             t == startBuilding(bld[w], a, n)
             d == finalize(t)
  <1>1. /\ w \in Builders /\ call[w] = "idle"
        /\ bld[w] \in BufferSet /\ LaidOut(bld[w], session.id) /\ Numbered(bld[w], count) /\ count \in Nat
        /\ session \in [id : Nat, open : BOOLEAN]
    BY PipelineAssumption DEF BuilderInv, BuilderType, AllNumbered, LayoutInv, OwnersWait
  <1>2. a \in ActionSet /\ a.no = count + 1
    BY <1>1, ActionFacts
  <1>3. t = Extend(bld[w], 0, "start", a, n)
    BY DEF startBuilding
  <1>4. /\ wire' = IF o = "ok" THEN Append(wire, d) ELSE wire
        /\ bld' = [bld EXCEPT ![w] = IF o = "would_block" THEN d ELSE Empty]
        /\ count' = count + 1 /\ UNCHANGED <<call, ops, session>>
    BY DEF BuildAndSend, Put, reset
  <1>5. Counted
    BY <1>1, <1>4 DEF Counted, CanBuild
  <1> HIDE DEF a, t, w
  <1>6. t \in BufferSet /\ LaidOut(t, session.id) /\ t.built # << >> /\ Holds(t) = Holds(bld[w]) \cup {a}
    BY <1>1, <1>2, <1>3, ExtendFacts
  <1>7. d \in BufferSet /\ LaidOut(d, session.id) /\ Sent(d, session.id) /\ Holds(d) = Holds(bld[w]) \cup {a}
    BY <1>1, <1>6, FinalizeFacts
  <1> HIDE DEF d
  <1>8. Derived(bld[w], d, count')
    BY <1>1, <1>2, <1>4, <1>7, NewDerived
  <1>9. CASE o = "ok"
    BY <1>1, <1>4, <1>5, <1>7, <1>8, <1>9 DEF Move, Transmit
  <1>10. CASE o = "would_block"
    BY <1>1, <1>4, <1>5, <1>7, <1>8, <1>10 DEF Move, Keep
  <1>11. CASE o \notin {"ok", "would_block"}
    <2>1. Keep(w, Empty)
      BY <1>1, <1>4, <1>5, <1>11, EmptyDerived DEF Keep
    <2> QED
      BY <2>1, <1>1, EmptyFacts DEF Move
  <1> QED
    BY <1>9, <1>10, <1>11
(* Every step of the owner of a builder is a move. *)
LEMMA OwnerMove ==
    ASSUME BuilderInv, NEW w \in Builders \ {Pipeline}, Owner(w)
    PROVE  Move
  <1>1. /\ bld[w] \in BufferSet /\ LaidOut(bld[w], session.id) /\ Numbered(bld[w], count) /\ count \in Nat
        /\ session \in [id : Nat, open : BOOLEAN] /\ (session.id = 0 => count = 0)
    BY DEF BuilderInv, BuilderType, AllNumbered, LayoutInv
  <1>2. count' = count /\ session' = session => Counted
    BY <1>1 DEF Counted
  <1>3. ASSUME NEW n \in Payloads, NEW h, NEW how \in {"build", "start"}, CanBuild, call[w] = "idle",
               h = IF how = "build" THEN bld[w].size ELSE 0,
               bld' = [bld EXCEPT ![w] = Extend(bld[w], h, how, Action("raw", << >>), n)],
               count' = count + 1, UNCHANGED <<call, ops, wire, session>>
        PROVE  Move
    <2> DEFINE a == Action("raw", << >>)
               t == Extend(bld[w], h, how, a, n)
    <2>1. << >> \in Seq(Int)
      OBVIOUS
    <2>2. a \in ActionSet /\ a.no = count + 1
      BY <2>1, <1>1, ActionFacts
    <2>3. n \in 0 .. MaxPayload
      BY PayloadsAssumption
    <2>4. bld' = [bld EXCEPT ![w] = t]
      BY <1>3
    <2> HIDE DEF a
    <2>5. t \in BufferSet /\ LaidOut(t, session.id) /\ Holds(t) = Holds(bld[w]) \cup {a}
      BY <1>1, <1>3, <2>2, <2>3, ExtendFacts
    <2> HIDE DEF t
    <2>6. Derived(bld[w], t, count')
      BY <1>1, <1>3, <2>2, <2>5, NewDerived
    <2>7. Counted
      BY <1>1, <1>3 DEF Counted, CanBuild
    <2> QED
      BY <1>3, <2>4, <2>5, <2>6, <2>7 DEF Move, Keep
  <1>4. ASSUME NEW n \in Payloads, Build(w, n)
        PROVE  Move
    BY <1>3, <1>4 DEF Build, build, Put, Idle
  <1>5. ASSUME NEW n \in Payloads, StartBuilding(w, n)
        PROVE  Move
    BY <1>3, <1>5 DEF StartBuilding, startBuilding, Put, Idle
  <1>6. ASSUME NEW n \in Resizes, ResizePayload(w, n)
        PROVE  Move
    <2> DEFINE r == resizePayload(bld[w], n)
    <2>1. n \in 0 .. MaxPayload /\ bld[w].built # << >> /\ call[w] = "idle"
          /\ bld' = [bld EXCEPT ![w] = r] /\ UNCHANGED <<call, ops, wire, session, count>>
      BY <1>6, PayloadsAssumption DEF ResizePayload, Put, Idle
    <2>2. r \in BufferSet /\ LaidOut(r, session.id) /\ Holds(r) = Holds(bld[w])
      BY <1>1, <2>1, ResizeFacts
    <2> HIDE DEF r
    <2>3. Derived(bld[w], r, count')
      BY <1>1, <2>1, <2>2, SameDerived
    <2> QED
      BY <1>2, <2>1, <2>2, <2>3 DEF Move, Keep
  <1>7. ASSUME NEW o \in Outcomes, SendNonBlocking(w, o)
        PROVE  Move
    BY <1>7, SendMove DEF SendNonBlocking, Idle
  <1>8. ASSUME NEW d \in BufferSet, NEW sync \in BOOLEAN, d = finalize(bld[w]), bld[w].built # << >>,
               call[w] = "idle", ops' = Append(ops, [owner |-> w, sync |-> sync, data |-> d]),
               bld' = [bld EXCEPT ![w] = IF sync THEN d ELSE Empty],
               call' = IF sync THEN [call EXCEPT ![w] = "waiting"] ELSE call,
               UNCHANGED <<wire, session, count>>
        PROVE  Move
    <2>1. LaidOut(d, session.id) /\ Sent(d, session.id) /\ Holds(d) = Holds(bld[w])
      BY <1>1, <1>8, FinalizeFacts
    <2>2. Derived(bld[w], d, count')
      BY <1>1, <1>8, <2>1, SameDerived
    <2>3. Post(w, sync, d)
      BY <1>2, <1>8, <2>1, <2>2 DEF Post
    <2> QED
      BY <2>3 DEF Move
  <1>9. ASSUME NEW o \in Outcomes, SendBlocking(w, o)
        PROVE  Move
    <2>1. CASE o = "would_block" /\ bld[w].size > 0
      <3>1. bld[w].built # << >>
        BY <1>1, <2>1 DEF LaidOut
      <3>2. finalize(bld[w]) \in BufferSet
        BY <1>1, <3>1, FinalizeFacts
      <3>3. /\ bld' = [bld EXCEPT ![w] = finalize(bld[w])]
            /\ ops' = Append(ops, [owner |-> w, sync |-> TRUE, data |-> finalize(bld[w])])
            /\ call' = [call EXCEPT ![w] = "waiting"] /\ call[w] = "idle"
            /\ UNCHANGED <<wire, session, count>>
        BY <1>9, <2>1 DEF SendBlocking, Put, Idle
      <3> QED
        BY <1>8, <3>1, <3>2, <3>3
    <2>2. CASE ~(o = "would_block" /\ bld[w].size > 0)
      BY <1>9, <2>2, SendMove DEF SendBlocking, Idle
    <2> QED
      BY <2>1, <2>2
  <1>10. ASSUME bld' = [bld EXCEPT ![w] = Empty], call[w] = "idle",
                UNCHANGED <<call, ops, wire, session, count>>
         PROVE  Move
    BY <1>2, <1>10, EmptyDerived, EmptyFacts DEF Move, Keep
  <1>11. CASE Reset(w)
    BY <1>10, <1>11 DEF Reset, Put, reset, Idle
  <1>12. CASE AsyncSend(w)
    <2>1. CASE bld[w].size = 0
      BY <1>10, <1>12, <2>1 DEF AsyncSend, Put, reset, Idle
    <2>2. CASE bld[w].size # 0
      <3>1. bld[w].built # << >>
        BY <1>1, <2>2 DEF LaidOut
      <3>2. finalize(bld[w]) \in BufferSet
        BY <1>1, <3>1, FinalizeFacts
      <3>3. /\ bld' = [bld EXCEPT ![w] = Empty] /\ call[w] = "idle"
            /\ ops' = Append(ops, [owner |-> w, sync |-> FALSE, data |-> finalize(bld[w])])
            /\ UNCHANGED <<call, wire, session, count>>
        BY <1>12, <2>2 DEF AsyncSend, Put, reset, Idle
      <3> QED
        BY <1>8, <3>1, <3>2, <3>3
    <2> QED
      BY <2>1, <2>2
  <1>13. CASE WakeUp(w)
    BY <1>2, <1>13 DEF WakeUp, Put, reset, Move, Return
  <1> QED
    BY <1>4, <1>5, <1>6, <1>7, <1>9, <1>11, <1>12, <1>13 DEF Owner

(* Every step of the system is a move. *)
LEMMA StepMove ==
    ASSUME BuilderInv, PipeType, [FfbNext]_ffbVars
    PROVE  Move
  <1>1. count \in Nat /\ session \in [id : Nat, open : BOOLEAN] /\ (session.id = 0 => count = 0)
    BY DEF BuilderInv, BuilderType, AllNumbered
  <1>2. UNCHANGED actionVars => Move
    BY <1>1 DEF actionVars, Move, Aside
  <1>3. << pipeline_id >> \in Seq(Int)
    BY DEF PipeType
  <1>4. ASSUME NEW id \in BackendIds, Configure(id)
        PROVE  Move
    BY <1>2, <1>4 DEF Configure
  <1>5. ASSUME NEW o \in Outcomes, Stop(o)
        PROVE  Move
    BY <1>3, <1>5, EffectFits, PipelineSendMove DEF Stop, CanEffect
  <1>6. ASSUME NEW n \in SampleCounts, NEW o \in Outcomes, GenerateEffect(n, o)
        PROVE  Move
    <2>1. n \in Nat /\ n <= 256
      BY <1>6, PipelineAssumption DEF GenerateEffect
    <2>2. EffectSize(n) \in 0 .. MaxPayload
      BY <2>1, EffectFits
    <2>3. iv' \in Seq(Nat)
      BY <1>6, IvType DEF GenerateEffect, PipeType
    <2>4. << pipeline_id >> \o iv' \in Seq(Int)
      <3>1. iv' \in Seq(Int)
        BY <2>3
      <3> QED
        BY <1>3, <3>1
    <2> QED
      BY <1>6, <2>2, <2>4, PipelineSendMove DEF GenerateEffect, CanEffect
  <1>7. CASE Remove
    BY <1>2, <1>7 DEF Remove
  <1>8. CASE Destroy
    BY <1>2, <1>8 DEF Destroy
  <1>9. CASE BackendFree
    BY <1>2, <1>9 DEF BackendFree
  <1>10. ASSUME NEW w \in Builders \ {Pipeline}, Owner(w)
         PROVE  Move
    BY <1>10, OwnerMove
  <1>11. ASSUME NEW o \in Outcomes, IoComplete(o)
         PROVE  Move
    <2>1. Finish(o) /\ o \in {"ok", "error"}
      BY <1>1, <1>11 DEF IoComplete, Settled, Finish, Counted
    <2> QED
      BY <2>1 DEF Move
  <1>12. CASE Register
    <2>1. session' \in [id : Nat, open : BOOLEAN] /\ session.id = 0
      BY <1>1, <1>12 DEF Register
    <2> QED
      BY <1>12, <2>1 DEF Register, Move, Aside
  <1>13. CASE CloseSession
    <2>1. session' \in [id : Nat, open : BOOLEAN] /\ session'.id = session.id
      BY <1>1, <1>13 DEF CloseSession
    <2> QED
      BY <1>13, <2>1 DEF CloseSession, Move, Aside
  <1>14. CASE UNCHANGED ffbVars
    BY <1>2, <1>14 DEF ffbVars
  <1> QED
    BY <1>4, <1>5, <1>6, <1>7, <1>8, <1>9, <1>10, <1>11, <1>12, <1>13, <1>14 DEF FfbNext, Shared
(* Removing the first element shifts the others by one. *)
LEMMA TailFacts ==
    ASSUME NEW S, NEW q \in Seq(S), q # << >>
    PROVE  /\ Tail(q) \in Seq(S) /\ 1 \in DOMAIN q /\ Head(q) = q[1] /\ q[1] \in S
           /\ \A i \in DOMAIN Tail(q) : i + 1 \in DOMAIN q /\ i + 1 # 1 /\ Tail(q)[i] = q[i + 1]
           /\ \A i, j \in DOMAIN Tail(q) : i # j => i + 1 # j + 1
  OBVIOUS

(* A buffer that an idle builder derives from its own shares no action with anyone. *)
LEMMA IdleApart ==
    ASSUME BuilderInv, NEW w \in Builders, call[w] = "idle", NEW d, NEW n, Derived(bld[w], d, n)
    PROVE  /\ \A v \in Builders : v # w => Apart(d, bld[v]) /\ Apart(bld[v], d)
           /\ \A k \in DOMAIN ops : Apart(ops[k].data, d) /\ Apart(d, ops[k].data)
           /\ \A i \in DOMAIN wire : Apart(wire[i], d) /\ Apart(d, wire[i])
  <1>1. ASSUME NEW x, Apart(x, bld[w]), Numbered(x, count)
        PROVE  Apart(x, d) /\ Apart(d, x)
    <2> SUFFICES ASSUME NEW a \in Holds(x), a \in Holds(d)
                 PROVE  FALSE
      BY DEF Apart
    <2>1. a \notin Holds(bld[w]) /\ a.no \in 1 .. count
      BY <1>1 DEF Apart, Numbered
    <2>2. a.no > count
      BY <2>1 DEF Derived
    <2> QED
      BY <2>1, <2>2 DEF BuilderInv, BuilderType
  <1>2. ASSUME NEW v \in Builders, v # w
        PROVE  Apart(d, bld[v]) /\ Apart(bld[v], d)
    BY <1>1, <1>2 DEF BuilderInv, AllNumbered, HeldApart
  <1>3. ASSUME NEW k \in DOMAIN ops
        PROVE  Apart(ops[k].data, d) /\ Apart(d, ops[k].data)
    <2>1. ~(ops[k].sync /\ ops[k].owner = w)
      BY DEF BuilderInv, OwnersWait, Waits
    <2> QED
      BY <1>1, <2>1 DEF BuilderInv, AllNumbered, HeldApart
  <1>4. ASSUME NEW i \in DOMAIN wire
        PROVE  Apart(wire[i], d) /\ Apart(d, wire[i])
    BY <1>1 DEF BuilderInv, AllNumbered, HeldApart
  <1> QED
    BY <1>2, <1>3, <1>4

(* Nothing is shared with the empty buffer; sharing is symmetric. *)
LEMMA ApartFacts ==
    /\ \A x : Apart(x, Empty) /\ Apart(Empty, x)
    /\ \A x, y : Apart(x, y) => Apart(y, x)
  BY EmptyFacts DEF Apart

(* A move keeps the types. *)
LEMMA TypeStep == BuilderInv /\ Move => BuilderType'
  <1> SUFFICES ASSUME BuilderInv, Move
               PROVE  BuilderType'
    OBVIOUS
  <1>1. BuilderType
    BY DEF BuilderInv
  <1>2. ASSUME NEW w \in Builders, NEW d \in BufferSet, Keep(w, d)
        PROVE  BuilderType'
    BY <1>1, <1>2 DEF Keep, Counted, BuilderType
  <1>3. ASSUME NEW w \in Builders, NEW d \in BufferSet, Transmit(w, d)
        PROVE  BuilderType'
    <2>1. Append(wire, d) \in Seq(BufferSet)
      BY <1>1, AppendFacts DEF BuilderType
    <2> QED
      BY <1>1, <1>3, <2>1, EmptyFacts DEF Transmit, Counted, BuilderType
  <1>4. ASSUME NEW w \in Builders, NEW d \in BufferSet, NEW sync \in BOOLEAN, Post(w, sync, d)
        PROVE  BuilderType'
    <2>1. [owner |-> w, sync |-> sync, data |-> d] \in OpSet
      BY DEF OpSet
    <2>2. ops' \in Seq(OpSet)
      BY <1>1, <1>4, <2>1, AppendFacts DEF Post, BuilderType
    <2>3. bld' \in [Builders -> BufferSet]
      BY <1>1, <1>4, EmptyFacts DEF Post, BuilderType
    <2> QED
      BY <1>1, <1>4, <2>2, <2>3 DEF Post, Counted, BuilderType
  <1>5. ASSUME NEW w \in Builders, Return(w)
        PROVE  BuilderType'
    BY <1>1, <1>5, EmptyFacts DEF Return, Counted, BuilderType
  <1>6. ASSUME NEW o \in {"ok", "error"}, Finish(o)
        PROVE  BuilderType'
    <2>1. Tail(ops) \in Seq(OpSet) /\ Head(ops) \in OpSet
      BY <1>1, <1>6, TailFacts DEF Finish, BuilderType
    <2>2. Head(ops).owner \in Builders /\ Head(ops).data \in BufferSet
      BY <2>1 DEF OpSet
    <2>3. Append(wire, Head(ops).data) \in Seq(BufferSet)
      BY <1>1, <2>2, AppendFacts DEF BuilderType
    <2>4. call' \in [Builders -> {"idle", "waiting", "complete", "failed"}]
      BY <1>1, <1>6, <2>2 DEF Finish, BuilderType
    <2> QED
      BY <1>1, <1>6, <2>1, <2>3, <2>4 DEF Finish, Counted, BuilderType
  <1>7. CASE Aside
    BY <1>1, <1>7 DEF Aside, BuilderType
  <1> QED
    BY <1>2, <1>3, <1>4, <1>5, <1>6, <1>7 DEF Move

(* What a move leaves in the builders, the operations and the datagrams: a buffer, an
   operation or a datagram that was there before, the empty buffer, or a derived one. *)
LEMMA MoveContents ==
    ASSUME BuilderInv, Move, session' = session
    PROVE  /\ \A v \in Builders : bld'[v] \in {bld[v], Empty} \/ Derived(bld[v], bld'[v], count')
           /\ \A k \in DOMAIN ops' :
                 \/ \E l \in DOMAIN ops : ops'[k] = ops[l]
                 \/ \E w \in Builders : Derived(bld[w], ops'[k].data, count')
                                        /\ Sent(ops'[k].data, session.id)
           /\ \A i \in DOMAIN wire' :
                 \/ i \in DOMAIN wire /\ wire'[i] = wire[i]
                 \/ \E l \in DOMAIN ops : wire'[i] = ops[l].data
                 \/ \E w \in Builders : Derived(bld[w], wire'[i], count')
                                        /\ Sent(wire'[i], session.id)
  <1> DEFINE B == \A v \in Builders : bld'[v] \in {bld[v], Empty} \/ Derived(bld[v], bld'[v], count')
             O == \A k \in DOMAIN ops' :
                    \/ \E l \in DOMAIN ops : ops'[k] = ops[l]
                    \/ \E w \in Builders : Derived(bld[w], ops'[k].data, count')
                                           /\ Sent(ops'[k].data, session.id)
             W == \A i \in DOMAIN wire' :
                    \/ i \in DOMAIN wire /\ wire'[i] = wire[i]
                    \/ \E l \in DOMAIN ops : wire'[i] = ops[l].data
                    \/ \E w \in Builders : Derived(bld[w], wire'[i], count')
                                           /\ Sent(wire'[i], session.id)
  <1>1. /\ bld \in [Builders -> BufferSet] /\ ops \in Seq(OpSet) /\ wire \in Seq(BufferSet)
    BY DEF BuilderInv, BuilderType
  <1>2. ASSUME NEW w \in Builders, NEW d \in BufferSet, Keep(w, d)
        PROVE  B /\ O /\ W
    BY <1>1, <1>2 DEF Keep
  <1>3. ASSUME NEW w \in Builders, NEW d \in BufferSet, Transmit(w, d)
        PROVE  B /\ O /\ W
    <2>1. B /\ O
      BY <1>1, <1>3 DEF Transmit
    <2>2. \A i \in DOMAIN wire' : (i \in DOMAIN wire /\ wire'[i] = wire[i]) \/ wire'[i] = d
      BY <1>1, <1>3, AppendFacts DEF Transmit
    <2>3. Derived(bld[w], d, count') /\ Sent(d, session.id)
      BY <1>3 DEF Transmit
    <2> QED
      BY <2>1, <2>2, <2>3
  <1>4. ASSUME NEW w \in Builders, NEW d \in BufferSet, NEW sync \in BOOLEAN, Post(w, sync, d)
        PROVE  B /\ O /\ W
    <2>1. Derived(bld[w], d, count') /\ Sent(d, session.id)
      BY <1>4 DEF Post
    <2>2. B /\ W
      BY <1>1, <1>4, <2>1 DEF Post
    <2>3. [owner |-> w, sync |-> sync, data |-> d] \in OpSet
      BY DEF OpSet
    <2>4. \A k \in DOMAIN ops' : (k \in DOMAIN ops /\ ops'[k] = ops[k]) \/ ops'[k].data = d
      BY <1>1, <1>4, <2>3, AppendFacts DEF Post
    <2> QED
      BY <2>1, <2>2, <2>4
  <1>5. ASSUME NEW w \in Builders, Return(w)
        PROVE  B /\ O /\ W
    BY <1>1, <1>5 DEF Return
  <1>6. ASSUME NEW o \in {"ok", "error"}, Finish(o)
        PROVE  B /\ O /\ W
    <2>1. B
      BY <1>6 DEF Finish
    <2>2. O
      BY <1>1, <1>6, TailFacts DEF Finish
    <2>3. 1 \in DOMAIN ops /\ Head(ops) = ops[1] /\ ops[1] \in OpSet
      BY <1>1, <1>6, TailFacts DEF Finish
    <2>4. ops[1].data \in BufferSet
      BY <2>3 DEF OpSet
    <2>5. \A i \in DOMAIN wire' : (i \in DOMAIN wire /\ wire'[i] = wire[i]) \/ wire'[i] = ops[1].data
      BY <1>1, <1>6, <2>3, <2>4, AppendFacts DEF Finish
    <2> QED
      BY <2>1, <2>2, <2>3, <2>5
  <1>7. CASE Aside
    BY <1>7 DEF Aside
  <1> QED
    BY <1>2, <1>3, <1>4, <1>5, <1>6, <1>7 DEF Move
(* A move that changes the session is Aside; the others count. *)
LEMMA MoveCounts ==
    ASSUME BuilderInv, Move
    PROVE  /\ count' \in Nat /\ count <= count' /\ (session'.id = 0 => count' = 0)
           /\ session' = session \/ Aside
  <1>1. count \in Nat /\ session.id \in Nat /\ (session.id = 0 => count = 0)
    BY DEF BuilderInv, BuilderType, AllNumbered
  <1>2. CASE Counted /\ session' = session
    BY <1>1, <1>2 DEF Counted
  <1>3. CASE Aside
    BY <1>1, <1>3 DEF Aside
  <1>4. (Counted /\ session' = session) \/ Aside
    BY DEF Move, Keep, Transmit, Post, Return, Finish, Counted
  <1> QED
    BY <1>2, <1>3, <1>4

(* Numbers stay below the count. *)
LEMMA NumberStep == BuilderInv /\ Move => AllNumbered'
  <1> SUFFICES ASSUME BuilderInv, Move
               PROVE  AllNumbered'
    OBVIOUS
  <1>1. count \in Nat /\ count' \in Nat /\ count <= count' /\ (session'.id = 0 => count' = 0)
    BY MoveCounts DEF BuilderInv, BuilderType
  <1>2. \A x : Numbered(x, count) => Numbered(x, count')
    BY <1>1 DEF Numbered
  <1>3. Numbered(Empty, count')
    BY EmptyFacts DEF Numbered
  <1>4. AllNumbered
    BY DEF BuilderInv
  <1>5. CASE session' = session
    <2>1. \A v \in Builders : Numbered(bld'[v], count')
      BY <1>2, <1>3, <1>4, <1>5, MoveContents DEF AllNumbered, Derived
    <2>2. \A k \in DOMAIN ops' : Numbered(ops'[k].data, count')
      BY <1>2, <1>4, <1>5, MoveContents DEF AllNumbered, Derived
    <2>3. \A i \in DOMAIN wire' : Numbered(wire'[i], count')
      BY <1>2, <1>4, <1>5, MoveContents DEF AllNumbered, Derived
    <2> QED
      BY <1>1, <2>1, <2>2, <2>3 DEF AllNumbered
  <1>6. CASE Aside
    BY <1>1, <1>4, <1>6 DEF Aside, AllNumbered
  <1> QED
    BY <1>5, <1>6, MoveCounts

(* Buffers stay laid out and datagrams as built. *)
LEMMA LayoutStep == BuilderInv /\ Move => LayoutInv'
  <1> SUFFICES ASSUME BuilderInv, Move
               PROVE  LayoutInv'
    OBVIOUS
  <1>1. LayoutInv
    BY DEF BuilderInv
  <1>2. CASE session' = session
    <2>1. \A v \in Builders : LaidOut(bld'[v], session'.id)
      BY <1>1, <1>2, MoveContents, EmptyFacts DEF LayoutInv, Derived
    <2>2. \A k \in DOMAIN ops' : Sent(ops'[k].data, session'.id)
      BY <1>1, <1>2, MoveContents DEF LayoutInv
    <2>3. \A i \in DOMAIN wire' : Sent(wire'[i], session'.id)
      BY <1>1, <1>2, MoveContents DEF LayoutInv
    <2> QED
      BY <2>1, <2>2, <2>3 DEF LayoutInv
  <1>3. CASE Aside /\ session'.id = session.id
    BY <1>1, <1>3 DEF Aside, LayoutInv
  <1>4. CASE Aside /\ session'.id # session.id
    <2>1. count = 0 /\ UNCHANGED <<bld, ops, wire>>
      BY <1>4 DEF Aside, BuilderInv, AllNumbered
    <2>2. ASSUME NEW s, Numbered(s, count)
          PROVE  DOMAIN s.built = {}
      <3> SUFFICES ASSUME NEW i \in DOMAIN s.built
                   PROVE  FALSE
        OBVIOUS
      <3>1. s.built[i].action \in Holds(s)
        BY DEF Holds
      <3>2. s.built[i].action.no \in 1 .. 0
        BY <2>1, <2>2, <3>1 DEF Numbered
      <3> QED
        BY <3>2
    <2>3. \A w \in Builders : LaidOut(bld[w], session'.id)
      <3> SUFFICES ASSUME NEW w \in Builders
                   PROVE  LaidOut(bld[w], session'.id)
        OBVIOUS
      <3>1. LaidOut(bld[w], session.id) /\ DOMAIN bld[w].built = {}
        BY <1>1, <2>2 DEF LayoutInv, BuilderInv, AllNumbered
      <3> QED
        BY <3>1 DEF LaidOut
    <2>4. \A k \in DOMAIN ops : Sent(ops[k].data, session'.id)
      <3> SUFFICES ASSUME NEW k \in DOMAIN ops
                   PROVE  Sent(ops[k].data, session'.id)
        OBVIOUS
      <3>1. DOMAIN ops[k].data.built = {}
        BY <2>2 DEF BuilderInv, AllNumbered
      <3> QED
        BY <3>1 DEF Sent, AsBuilt
    <2>5. \A i \in DOMAIN wire : Sent(wire[i], session'.id)
      <3> SUFFICES ASSUME NEW i \in DOMAIN wire
                   PROVE  Sent(wire[i], session'.id)
        OBVIOUS
      <3>1. DOMAIN wire[i].built = {}
        BY <2>2 DEF BuilderInv, AllNumbered
      <3> QED
        BY <3>1 DEF Sent, AsBuilt
    <2> QED
      BY <2>1, <2>3, <2>4, <2>5 DEF LayoutInv
  <1> QED
    BY <1>2, <1>3, <1>4, MoveCounts

(* The callers of sendBlocking() wait, each for its own operation. *)
LEMMA OwnersStep == BuilderInv /\ Move => OwnersWait'
  <1> SUFFICES ASSUME BuilderInv, Move
               PROVE  OwnersWait'
    OBVIOUS
  <1>1. /\ call \in [Builders -> {"idle", "waiting", "complete", "failed"}]
        /\ ops \in Seq(OpSet) /\ Pipeline \in Builders
    BY PipelineAssumption DEF BuilderInv, BuilderType
  <1>2. /\ call[Pipeline] = "idle"
        /\ \A k \in DOMAIN ops : ops[k].sync => call[ops[k].owner] = "waiting"
        /\ \A k, l \in DOMAIN ops :
              k # l /\ ops[k].sync /\ ops[l].sync => ops[k].owner # ops[l].owner
    BY DEF BuilderInv, OwnersWait, Waits
  <1>3. \A k \in DOMAIN ops : ops[k].owner \in Builders
    <2>1. \A k \in DOMAIN ops : ops[k] \in OpSet
      BY <1>1
    <2> QED
      BY <2>1 DEF OpSet
  <1>4. CASE UNCHANGED <<call, ops>>
    BY <1>2, <1>4 DEF OwnersWait, Waits
  <1>5. ASSUME NEW w \in Builders, NEW d \in BufferSet, NEW sync \in BOOLEAN, Post(w, sync, d)
        PROVE  OwnersWait'
    <2> DEFINE op == [owner |-> w, sync |-> sync, data |-> d]
    <2>1. /\ call[w] = "idle" /\ (sync => w # Pipeline) /\ ops' = Append(ops, op)
          /\ call' = IF sync THEN [call EXCEPT ![w] = "waiting"] ELSE call
      BY <1>5 DEF Post
    <2>2. op \in OpSet /\ op.owner = w /\ op.sync = sync
      BY DEF OpSet
    <2> HIDE DEF op
    <2>3. \A k \in DOMAIN ops' :
             (k \in DOMAIN ops /\ ops'[k] = ops[k]) \/ (k = Len(ops) + 1 /\ ops'[k] = op)
      BY <1>1, <2>1, <2>2, AppendFacts
    <2>4. \A k \in DOMAIN ops : ops[k].sync => ops[k].owner # w
      BY <1>2, <2>1
    <2>5. \A k \in DOMAIN ops' : ops'[k].sync => call'[ops'[k].owner] = "waiting"
      BY <1>1, <1>2, <1>3, <2>1, <2>2, <2>3, <2>4
    <2>6. call'[Pipeline] = "idle"
      BY <1>1, <1>2, <2>1
    <2>7. \A k, l \in DOMAIN ops' :
             k # l /\ ops'[k].sync /\ ops'[l].sync => ops'[k].owner # ops'[l].owner
      BY <1>2, <2>2, <2>3, <2>4
    <2> QED
      BY <2>5, <2>6, <2>7 DEF OwnersWait, Waits
  <1>6. ASSUME NEW w \in Builders, Return(w)
        PROVE  OwnersWait'
    BY <1>1, <1>2, <1>3, <1>6 DEF Return, OwnersWait, Waits
  <1>7. ASSUME NEW o \in {"ok", "error"}, Finish(o)
        PROVE  OwnersWait'
    <2>1. /\ 1 \in DOMAIN ops /\ Head(ops) = ops[1] /\ ops' = Tail(ops)
          /\ \A i \in DOMAIN ops' : i + 1 \in DOMAIN ops /\ i + 1 # 1 /\ ops'[i] = ops[i + 1]
          /\ \A i, j \in DOMAIN ops' : i # j => i + 1 # j + 1
      BY <1>1, <1>7, TailFacts DEF Finish
    <2>2. call' = IF ops[1].sync
                  THEN [call EXCEPT ![ops[1].owner] = IF o = "ok" THEN "complete" ELSE "failed"]
                  ELSE call
      BY <1>7, <2>1 DEF Finish
    <2>3. ops[1].sync => ops[1].owner # Pipeline
      BY <1>2, <2>1
    <2>4. call'[Pipeline] = "idle"
      BY <1>1, <1>2, <2>2, <2>3
    <2>5. ASSUME NEW k \in DOMAIN ops', ops'[k].sync
          PROVE  call'[ops'[k].owner] = "waiting"
      BY <1>1, <1>2, <1>3, <2>1, <2>2, <2>5
    <2>6. \A k, l \in DOMAIN ops' :
             k # l /\ ops'[k].sync /\ ops'[l].sync => ops'[k].owner # ops'[l].owner
      BY <1>2, <2>1
    <2> QED
      BY <2>4, <2>5, <2>6 DEF OwnersWait, Waits
  <1> QED
    BY <1>4, <1>5, <1>6, <1>7 DEF Move, Keep, Transmit, Aside
(* No two of the builders, operations and datagrams come to share an action. *)
LEMMA HeldStep == BuilderInv /\ Move => HeldApart'
  <1> SUFFICES ASSUME BuilderInv, Move
               PROVE  HeldApart'
    OBVIOUS
  <1>1. /\ bld \in [Builders -> BufferSet] /\ ops \in Seq(OpSet) /\ wire \in Seq(BufferSet)
        /\ call \in [Builders -> {"idle", "waiting", "complete", "failed"}]
    BY DEF BuilderInv, BuilderType
  <1>2. /\ \A v, w \in Builders : v # w => Apart(bld[v], bld[w])
        /\ \A k \in DOMAIN ops, w \in Builders :
              Apart(ops[k].data, bld[w]) \/ (ops[k].sync /\ ops[k].owner = w)
        /\ \A k, l \in DOMAIN ops : k # l => Apart(ops[k].data, ops[l].data)
        /\ \A k \in DOMAIN ops, i \in DOMAIN wire : Apart(ops[k].data, wire[i])
        /\ \A i, j \in DOMAIN wire : i # j => Apart(wire[i], wire[j])
        /\ \A i \in DOMAIN wire, w \in Builders :
              call[w] \in {"idle", "waiting"} => Apart(wire[i], bld[w])
    BY DEF BuilderInv, HeldApart
  <1>3. ASSUME NEW w \in Builders, NEW d \in BufferSet, Keep(w, d)
        PROVE  HeldApart'
    <2>1. /\ bld' = [bld EXCEPT ![w] = d] /\ call[w] = "idle" /\ Derived(bld[w], d, count')
          /\ UNCHANGED <<call, ops, wire>>
      BY <1>3 DEF Keep
    <2>2. /\ \A v \in Builders : v # w => Apart(d, bld[v]) /\ Apart(bld[v], d)
          /\ \A k \in DOMAIN ops : Apart(ops[k].data, d)
          /\ \A i \in DOMAIN wire : Apart(wire[i], d)
      BY <2>1, IdleApart
    <2>3. \A v \in Builders : bld'[v] = IF v = w THEN d ELSE bld[v]
      BY <1>1, <2>1
    <2> QED
      BY <1>2, <2>1, <2>2, <2>3 DEF HeldApart
  <1>4. ASSUME NEW w \in Builders, NEW d \in BufferSet, Transmit(w, d)
        PROVE  HeldApart'
    <2>1. /\ bld' = [bld EXCEPT ![w] = Empty] /\ call[w] = "idle" /\ Derived(bld[w], d, count')
          /\ wire' = Append(wire, d) /\ UNCHANGED <<call, ops>>
      BY <1>4 DEF Transmit
    <2>2. /\ \A v \in Builders : v # w => Apart(d, bld[v])
          /\ \A k \in DOMAIN ops : Apart(ops[k].data, d)
          /\ \A i \in DOMAIN wire : Apart(wire[i], d) /\ Apart(d, wire[i])
      BY <2>1, IdleApart
    <2>3. \A v \in Builders : bld'[v] = IF v = w THEN Empty ELSE bld[v]
      BY <1>1, <2>1
    <2>4. \A i \in DOMAIN wire' :
             (i \in DOMAIN wire /\ wire'[i] = wire[i]) \/ (i = Len(wire) + 1 /\ wire'[i] = d)
      BY <1>1, <2>1, AppendFacts
    <2>5. /\ \A v, u \in Builders : v # u => Apart(bld'[v], bld'[u])
          /\ \A k \in DOMAIN ops, v \in Builders :
                Apart(ops[k].data, bld'[v]) \/ (ops[k].sync /\ ops[k].owner = v)
      BY <1>2, <2>3, ApartFacts
    <2>6. \A k \in DOMAIN ops, i \in DOMAIN wire' : Apart(ops[k].data, wire'[i])
      BY <1>2, <2>2, <2>4
    <2>7. \A i, j \in DOMAIN wire' : i # j => Apart(wire'[i], wire'[j])
      BY <1>2, <2>2, <2>4
    <2>8. \A i \in DOMAIN wire', v \in Builders :
             call[v] \in {"idle", "waiting"} => Apart(wire'[i], bld'[v])
      BY <1>2, <2>2, <2>3, <2>4, ApartFacts
    <2> QED
      BY <1>2, <2>1, <2>5, <2>6, <2>7, <2>8 DEF HeldApart
  <1>5. ASSUME NEW w \in Builders, NEW d \in BufferSet, NEW sync \in BOOLEAN, Post(w, sync, d)
        PROVE  HeldApart'
    <2> DEFINE op == [owner |-> w, sync |-> sync, data |-> d]
    <2>1. /\ bld' = [bld EXCEPT ![w] = IF sync THEN d ELSE Empty]
          /\ call[w] = "idle" /\ Derived(bld[w], d, count')
          /\ call' = IF sync THEN [call EXCEPT ![w] = "waiting"] ELSE call
          /\ ops' = Append(ops, op) /\ UNCHANGED wire
      BY <1>5 DEF Post
    <2>2. op \in OpSet /\ op.owner = w /\ op.sync = sync /\ op.data = d
      BY DEF OpSet
    <2> HIDE DEF op
    <2>3. /\ \A v \in Builders : v # w => Apart(d, bld[v]) /\ Apart(bld[v], d)
          /\ \A k \in DOMAIN ops : Apart(ops[k].data, d) /\ Apart(d, ops[k].data)
          /\ \A i \in DOMAIN wire : Apart(wire[i], d) /\ Apart(d, wire[i])
      BY <2>1, IdleApart
    <2>4. \A v \in Builders : bld'[v] = IF v = w THEN IF sync THEN d ELSE Empty ELSE bld[v]
      BY <1>1, <2>1
    <2>5. \A k \in DOMAIN ops' :
             (k \in DOMAIN ops /\ ops'[k] = ops[k]) \/ (k = Len(ops) + 1 /\ ops'[k] = op)
      BY <1>1, <2>1, <2>2, AppendFacts
    <2>6. \A v \in Builders : v # w => call'[v] = call[v]
      BY <1>1, <2>1
    <2>7. \A v, u \in Builders : v # u => Apart(bld'[v], bld'[u])
      BY <1>2, <2>3, <2>4, ApartFacts
    <2>8. \A k \in DOMAIN ops', v \in Builders :
             Apart(ops'[k].data, bld'[v]) \/ (ops'[k].sync /\ ops'[k].owner = v)
      <3> SUFFICES ASSUME NEW k \in DOMAIN ops', NEW v \in Builders
                   PROVE  Apart(ops'[k].data, bld'[v]) \/ (ops'[k].sync /\ ops'[k].owner = v)
        OBVIOUS
      <3>1. CASE k \in DOMAIN ops /\ ops'[k] = ops[k]
        BY <1>2, <2>3, <2>4, <3>1, ApartFacts
      <3>2. CASE ops'[k] = op
        BY <2>2, <2>3, <2>4, <3>2, ApartFacts
      <3> QED
        BY <2>5, <3>1, <3>2
    <2>9. \A k, l \in DOMAIN ops' : k # l => Apart(ops'[k].data, ops'[l].data)
      BY <1>2, <2>2, <2>3, <2>5
    <2>10. \A k \in DOMAIN ops', i \in DOMAIN wire : Apart(ops'[k].data, wire[i])
      BY <1>2, <2>2, <2>3, <2>5
    <2>11. \A i \in DOMAIN wire, v \in Builders :
              call'[v] \in {"idle", "waiting"} => Apart(wire[i], bld'[v])
      BY <1>2, <2>3, <2>4, <2>6, ApartFacts
    <2> QED
      BY <1>2, <2>1, <2>7, <2>8, <2>9, <2>10, <2>11 DEF HeldApart
  <1>6. ASSUME NEW w \in Builders, Return(w)
        PROVE  HeldApart'
    <2>1. /\ bld' = [bld EXCEPT ![w] = Empty] /\ call' = [call EXCEPT ![w] = "idle"]
          /\ UNCHANGED <<ops, wire>>
      BY <1>6 DEF Return
    <2>2. \A v \in Builders : bld'[v] = (IF v = w THEN Empty ELSE bld[v])
                              /\ (v # w => call'[v] = call[v])
      BY <1>1, <2>1
    <2> QED
      BY <1>2, <2>1, <2>2, ApartFacts DEF HeldApart
  <1>7. ASSUME NEW o \in {"ok", "error"}, Finish(o)
        PROVE  HeldApart'
    <2>1. /\ 1 \in DOMAIN ops /\ Head(ops) = ops[1] /\ ops[1] \in OpSet /\ ops' = Tail(ops)
          /\ \A k \in DOMAIN ops' : k + 1 \in DOMAIN ops /\ k + 1 # 1 /\ ops'[k] = ops[k + 1]
          /\ \A k, l \in DOMAIN ops' : k # l => k + 1 # l + 1
      BY <1>1, <1>7, TailFacts DEF Finish
    <2>2. /\ wire' = IF o = "ok" THEN Append(wire, ops[1].data) ELSE wire
          /\ call' = IF ops[1].sync
                     THEN [call EXCEPT ![ops[1].owner] = IF o = "ok" THEN "complete" ELSE "failed"]
                     ELSE call
          /\ UNCHANGED bld
      BY <1>7, <2>1 DEF Finish
    <2>3. ops[1].data \in BufferSet /\ ops[1].owner \in Builders
      BY <2>1 DEF OpSet
    <2>4. \A i \in DOMAIN wire' : \/ i \in DOMAIN wire /\ wire'[i] = wire[i]
                                  \/ i = Len(wire) + 1 /\ wire'[i] = ops[1].data
      BY <1>1, <2>2, <2>3, AppendFacts
    <2>5. \A v \in Builders : call'[v] \in {"idle", "waiting"} =>
             call[v] \in {"idle", "waiting"} /\ ~(ops[1].sync /\ ops[1].owner = v)
      BY <1>1, <2>2, <2>3
    <2>6. \A k \in DOMAIN ops', v \in Builders :
             Apart(ops'[k].data, bld[v]) \/ (ops'[k].sync /\ ops'[k].owner = v)
      BY <1>2, <2>1
    <2>7. \A k, l \in DOMAIN ops' : k # l => Apart(ops'[k].data, ops'[l].data)
      BY <1>2, <2>1
    <2>8. \A k \in DOMAIN ops', i \in DOMAIN wire' : Apart(ops'[k].data, wire'[i])
      BY <1>2, <2>1, <2>4
    <2>9. \A i, j \in DOMAIN wire' : i # j => Apart(wire'[i], wire'[j])
      BY <1>2, <2>1, <2>4, ApartFacts
    <2>10. \A i \in DOMAIN wire', v \in Builders :
              call'[v] \in {"idle", "waiting"} => Apart(wire'[i], bld[v])
      BY <1>2, <2>1, <2>4, <2>5
    <2> QED
      BY <1>2, <2>2, <2>6, <2>7, <2>8, <2>9, <2>10 DEF HeldApart
  <1>8. CASE Aside
    BY <1>2, <1>8 DEF Aside, HeldApart
  <1> QED
    BY <1>3, <1>4, <1>5, <1>6, <1>7, <1>8 DEF Move

(* A step of the pipeline keeps its types. *)
LEMMA PipeTypeStep == PipeType /\ [FfbNext]_ffbVars => PipeType'
  <1> SUFFICES ASSUME PipeType, [FfbNext]_ffbVars
               PROVE  PipeType'
    OBVIOUS
  <1>1. UNCHANGED pipeVars => PipeType'
    BY DEF PipeType, pipeVars
  <1>2. ASSUME NEW id \in BackendIds, Configure(id)
        PROVE  PipeType'
    <2>1. pipeline_id' \in -1 .. 127
      BY <1>2, AsInt8Id DEF Configure
    <2>2. UNCHANGED <<alive, secure, iv>>
      BY <1>2 DEF Configure
    <2> QED
      BY <2>1, <2>2 DEF PipeType
  <1>3. ASSUME NEW o \in Outcomes, Stop(o)
        PROVE  PipeType'
    BY <1>1, <1>3 DEF Stop
  <1>4. ASSUME NEW n \in SampleCounts, NEW o \in Outcomes, GenerateEffect(n, o)
        PROVE  PipeType'
    <2>1. iv' \in handleIV \/ iv' = iv
      BY <1>4 DEF GenerateEffect
    <2>2. iv' \in Seq(Nat) /\ (iv' # << >> => Len(iv') = IvLen)
      BY <2>1, IvType DEF PipeType
    <2>3. UNCHANGED <<pipeline_id, alive, secure>>
      BY <1>4 DEF GenerateEffect
    <2> QED
      BY <2>2, <2>3 DEF PipeType
  <1>5. CASE Remove
    BY <1>5 DEF Remove, PipeType
  <1>6. CASE Destroy
    BY <1>6 DEF Destroy, PipeType
  <1>7. CASE BackendFree
    BY <1>7 DEF BackendFree, PipeType
  <1>8. CASE UNCHANGED ffbVars
    BY <1>1, <1>8 DEF ffbVars
  <1> QED
    BY <1>1, <1>2, <1>3, <1>4, <1>5, <1>6, <1>7, <1>8 DEF FfbNext

(* The session of a builder's or the io thread's step. *)
LEMMA SessionStep ==
    ASSUME BuilderInv, PipeType, [FfbNext]_ffbVars
    PROVE  /\ session.id # 0 => session'.id # 0
           /\ session'.open => session.open
  <1>1. session \in [id : Nat, open : BOOLEAN]
    BY DEF BuilderInv, BuilderType
  <1>2. ASSUME NEW w \in Builders, Owner(w)
        PROVE  session' = session
    BY <1>2 DEF Owner, Build, StartBuilding, ResizePayload, SendNonBlocking, SendBlocking, Reset,
                AsyncSend, WakeUp
  <1>3. ASSUME NEW o \in Outcomes, IoComplete(o)
        PROVE  session' = session
    BY <1>3 DEF IoComplete
  <1>4. CASE Register
    BY <1>1, <1>4 DEF Register
  <1>5. CASE CloseSession
    BY <1>1, <1>5 DEF CloseSession
  <1>6. CASE Shared
    BY <1>3, <1>4, <1>5, <1>6 DEF Shared
  <1>7. UNCHANGED actionVars => session' = session
    BY DEF actionVars
  <1>8. \A o : BuildAndSend(Pipeline, bld[Pipeline], Action("clear", <<pipeline_id>>), ClearSize, o)
               => session' = session
    BY DEF BuildAndSend
  <1>9. \A n, o, a : BuildAndSend(Pipeline, bld[Pipeline], a, EffectSize(n), o)
                     => session' = session
    BY DEF BuildAndSend
  <1> QED
    BY <1>2, <1>6, <1>7, <1>8, <1>9
    DEF FfbNext, Configure, Stop, GenerateEffect, Remove, Destroy, BackendFree, ffbVars

(* The accounting of the backend is kept. *)
LEMMA PipeStep == BuilderInv /\ PipeType /\ PipeInv /\ [FfbNext]_ffbVars => PipeInv'
  <1> SUFFICES ASSUME BuilderInv, PipeType, PipeInv, [FfbNext]_ffbVars
               PROVE  PipeInv'
    OBVIOUS
  <1>1. /\ session.id # 0 => session'.id # 0
        /\ session'.open => session.open
    BY SessionStep
  <1>2. /\ session.open => allocated = IF alive THEN {pipeline_id} \ {-1} ELSE freeing
        /\ alive => freeing = {}
        /\ session.id = 0 => pipeline_id = -1
    BY DEF PipeInv, PipelineAccounted
  <1>3. CASE UNCHANGED pipeVars
    BY <1>1, <1>2, <1>3 DEF pipeVars, PipeInv, PipelineAccounted
  <1>4. ASSUME NEW id \in BackendIds, Configure(id)
        PROVE  PipeInv'
    <2>1. AsInt8(id) = id /\ id # -1
      BY AsInt8Id
    <2> QED
      BY <1>1, <1>2, <1>4, <2>1 DEF Configure, Connected, Assign, actionVars, PipeInv, PipelineAccounted
  <1>5. ASSUME NEW o \in Outcomes, Stop(o)
        PROVE  PipeInv'
    BY <1>3, <1>5 DEF Stop
  <1>6. ASSUME NEW n \in SampleCounts, NEW o \in Outcomes, GenerateEffect(n, o)
        PROVE  PipeInv'
    BY <1>1, <1>2, <1>6 DEF GenerateEffect, PipeInv, PipelineAccounted
  <1>7. CASE Remove
    BY <1>1, <1>2, <1>7 DEF Remove, Connected, actionVars, PipeInv, PipelineAccounted
  <1>8. CASE Destroy
    BY <1>1, <1>2, <1>8 DEF Destroy, isActive, Connected, actionVars, PipeInv, PipelineAccounted
  <1>9. CASE BackendFree
    BY <1>1, <1>2, <1>9 DEF BackendFree, actionVars, PipeInv, PipelineAccounted
  <1>10. CASE UNCHANGED ffbVars
    BY <1>3, <1>10 DEF ffbVars
  <1> QED
    BY <1>3, <1>4, <1>5, <1>6, <1>7, <1>8, <1>9, <1>10 DEF FfbNext

(***************************************************************************)
(* The theorems.                                                           *)
(***************************************************************************)
FfbInv == BuilderInv /\ PipeType /\ PipeInv

(* Initially nothing is built and no pipeline is configured. *)
LEMMA FfbInvInit == FfbInit => FfbInv
  <1> SUFFICES ASSUME FfbInit
               PROVE  FfbInv
    OBVIOUS
  <1> USE DEF FfbInit, ActionInit
  <1>1. BuilderType
    BY EmptyFacts DEF BuilderType
  <1>2. AllNumbered
    BY EmptyFacts DEF AllNumbered, Numbered
  <1>3. OwnersWait
    BY PipelineAssumption DEF OwnersWait
  <1>4. HeldApart
    BY ApartFacts DEF HeldApart
  <1>5. LayoutInv
    BY EmptyFacts DEF LayoutInv
  <1>6. PipeType
    BY DEF PipeType
  <1>7. PipeInv
    BY DEF PipeInv, PipelineAccounted
  <1> QED
    BY <1>1, <1>2, <1>3, <1>4, <1>5, <1>6, <1>7 DEF FfbInv, BuilderInv

(* The inductive invariant of the builders and the pipeline: who holds which action, how
   the buffers are laid out, which operation a caller of sendBlocking() waits for and which
   pipeline the backend holds. *)
THEOREM FfbInvariant == FfbSpec => []FfbInv
  <1>1. FfbInit => FfbInv
    BY FfbInvInit
  <1>2. FfbInv /\ [FfbNext]_ffbVars => FfbInv'
    <2> SUFFICES ASSUME FfbInv, [FfbNext]_ffbVars
                 PROVE  FfbInv'
      OBVIOUS
    <2>1. BuilderInv /\ PipeType /\ PipeInv
      BY DEF FfbInv
    <2>2. Move
      BY <2>1, StepMove
    <2>3. BuilderInv'
      BY <2>1, <2>2, TypeStep, NumberStep, OwnersStep, HeldStep, LayoutStep DEF BuilderInv
    <2> QED
      BY <2>1, <2>3, PipeTypeStep, PipeStep DEF FfbInv
  <1> QED
    BY <1>1, <1>2, PTL DEF FfbSpec

(* PipelineAccounted: while the session is open the backend holds exactly the pipeline that
   the FfbPipeline object names, or those its destructor has asked to free. *)
THEOREM Accounted == FfbSpec => []PipelineAccounted
  <1>1. FfbInv => PipelineAccounted
    BY DEF FfbInv, PipeInv
  <1> QED
    BY <1>1, FfbInvariant, PTL

(* SentOnce: no action is in two datagrams, nor in a datagram and in the buffer of a builder
   that is not waiting, after any retries and completions. *)
THEOREM NoActionTwice == FfbSpec => []SentOnce
  <1>1. FfbInv => SentOnce
    BY DEF FfbInv, BuilderInv, HeldApart, Apart, SentOnce, Idle
  <1> QED
    BY <1>1, FfbInvariant, PTL

(* DatagramsAsBuilt: a datagram whose actions were begun side by side carries each of them
   whole under its own header, which states where the next one begins, whatever was resized,
   refused or sent before. *)
THEOREM CarriedWhole == FfbSpec => []DatagramsAsBuilt
  <1>1. FfbInv => DatagramsAsBuilt
    BY DEF FfbInv, BuilderInv, LayoutInv, Sent, DatagramsAsBuilt
  <1> QED
    BY <1>1, FfbInvariant, PTL


------------------------------------------------------------------------------

(* A set of numbers has a least one. *)
LEMMA LeastOf ==
    ASSUME NEW H \in SUBSET Nat, H # {}
    PROVE  \E j \in H : \A h \in H : j <= h
  <1> DEFINE R == OpToRel(<, Nat)
  <1>1. IsWellFoundedOn(R, Nat)
    BY NatLessThanWellFounded
  <1>2. \A x, y \in Nat : <<x, y>> \in R <=> x < y
    BY DEF OpToRel
  <1> HIDE DEF R
  <1>3. PICK x \in H : \A y \in H : ~(<<y, x>> \in R)
    BY <1>1, WFMin
  <1>4. \A h \in H : x <= h
    <2> TAKE h \in H
    <2>1. x \in Nat /\ h \in Nat /\ ~(h < x)
      BY <1>2, <1>3
    <2> QED
      BY <2>1
  <1> QED
    BY <1>4

(* How many of the places in K are not behind place i. *)
UpTo(K, i) == Cardinality({j \in K : j <= i})

(* The count goes up by one at each place of K. *)
LEMMA UpToFacts ==
    ASSUME NEW n \in Nat, NEW K \in SUBSET (1 .. n)
    PROVE  /\ IsFiniteSet(K) /\ Cardinality(K) \in Nat
           /\ \A i \in Int : UpTo(K, i) \in Nat
           /\ UpTo(K, 0) = 0 /\ UpTo(K, n) = Cardinality(K)
           /\ \A i, j \in Int : i <= j => UpTo(K, i) <= UpTo(K, j)
           /\ \A i \in 1 .. n : UpTo(K, i) = UpTo(K, i - 1) + (IF i \in K THEN 1 ELSE 0)
  <1>0. \A j \in K : j \in Int /\ 1 <= j /\ j <= n
    OBVIOUS
  <1>1. IsFiniteSet(1 .. n)
    BY FS_Interval
  <1>2. IsFiniteSet(K) /\ \A S \in SUBSET K : IsFiniteSet(S)
    BY <1>1, FS_Subset
  <1>3. \A S \in SUBSET K : Cardinality(S) \in Nat
    BY <1>2, FS_CardinalityType
  <1>4. \A i \in Int : UpTo(K, i) \in Nat
    BY <1>3 DEF UpTo
  <1>5. UpTo(K, 0) = 0
    <2>0. \A j \in K : ~(j <= 0)
      BY <1>0
    <2>1. {j \in K : j <= 0} = {}
      BY <2>0
    <2> QED
      BY <2>1, FS_EmptySet DEF UpTo
  <1>6. UpTo(K, n) = Cardinality(K)
    <2>1. {j \in K : j <= n} = K
      BY <1>0
    <2> QED
      BY <2>1 DEF UpTo
  <1>7. ASSUME NEW i \in Int, NEW j \in Int, i <= j PROVE UpTo(K, i) <= UpTo(K, j)
    <2>0. \A m \in K : m <= i => m <= j
      BY <1>0, <1>7
    <2>1. {m \in K : m <= i} \in SUBSET {m \in K : m <= j}
      BY <2>0, Zenon
    <2> QED
      BY <1>2, <2>1, FS_Subset DEF UpTo
  <1>8. ASSUME NEW i \in 1 .. n
        PROVE  UpTo(K, i) = UpTo(K, i - 1) + (IF i \in K THEN 1 ELSE 0)
    <2>1. CASE i \in K
      <3>0. \A j \in K : j <= i <=> (j <= i - 1 \/ j = i)
        BY <1>0
      <3>1. {j \in K : j <= i} = {j \in K : j <= i - 1} \cup {i}
        BY <2>1, <3>0, Zenon
      <3>2. i \notin {j \in K : j <= i - 1} /\ IsFiniteSet({j \in K : j <= i - 1})
        BY <1>2
      <3> QED
        BY <2>1, <3>1, <3>2, FS_AddElement DEF UpTo
    <2>2. CASE i \notin K
      <3>0. \A j \in K : j <= i <=> j <= i - 1
        BY <1>0, <2>2
      <3>1. {j \in K : j <= i} = {j \in K : j <= i - 1}
        BY <3>0, Zenon
      <3>2. UpTo(K, i - 1) \in Nat
        BY <1>4
      <3> QED
        BY <2>2, <3>1, <3>2 DEF UpTo
    <2> QED
      BY <2>1, <2>2
  <1> QED
    BY <1>2, <1>3, <1>4, <1>5, <1>6, <1>7, <1>8

(* The places that stay, in their order. *)
LEMMA SubsequenceFacts ==
    ASSUME NEW S, NEW q \in Seq(S), NEW K \in SUBSET DOMAIN q
    PROVE  /\ Cardinality(K) \in Nat
           /\ \E f \in [1 .. Cardinality(K) -> K] :
                 /\ \A a, b \in 1 .. Cardinality(K) : a < b => f[a] < f[b]
                 /\ Subsequence(q, K) = [k \in 1 .. Cardinality(K) |-> q[f[k]]]
  <1>1. PICK n \in Nat : n = Len(q) /\ DOMAIN q = 1 .. n
    BY LenProperties
  <1>2. K \in SUBSET (1 .. n)
    BY <1>1
  <1>3. PICK c \in Nat : c = Cardinality(K)
    BY <1>2, UpToFacts
  <1>u. \A i \in 1 .. n : UpTo(K, i) = UpTo(K, i - 1) + (IF i \in K THEN 1 ELSE 0)
    BY <1>2, UpToFacts
  <1>4. ASSUME NEW k \in 1 .. c PROVE \E i \in K : UpTo(K, i) = k
    <2> DEFINE H == {i \in 0 .. n : k <= UpTo(K, i)}
    <2>1. n \in H /\ H \in SUBSET Nat
      BY <1>2, <1>3, UpToFacts
    <2> HIDE DEF H
    <2>2. PICK i \in H : \A h \in H : i <= h
      BY <2>1, LeastOf
    <2>3. i \in 0 .. n /\ k <= UpTo(K, i)
      BY <2>2 DEF H
    <2>4. i # 0
      BY <1>2, <2>3, UpToFacts
    <2>5. i \in 1 .. n /\ i - 1 \in 0 .. n /\ ~(i <= i - 1)
      BY <2>3, <2>4
    <2>6. ~(k <= UpTo(K, i - 1))
      BY <2>2, <2>5 DEF H
    <2>a. i \in Int /\ i - 1 \in Int
      BY <2>5
    <2>7. UpTo(K, i - 1) \in Nat /\ UpTo(K, i) \in Nat
      BY <1>2, <2>a, UpToFacts, Zenon
    <2>8. UpTo(K, i) = UpTo(K, i - 1) + (IF i \in K THEN 1 ELSE 0)
      BY <1>u, <2>5
    <2>9. i \in K /\ UpTo(K, i) = k
      BY <2>3, <2>6, <2>7, <2>8
    <2> QED
      BY <2>9
  <1> DEFINE f == [k \in 1 .. c |-> CHOOSE i \in K : UpTo(K, i) = k]
  <1>5. \A k \in 1 .. c : f[k] \in K /\ UpTo(K, f[k]) = k
    BY <1>4
  <1>6. f \in [1 .. c -> K]
    BY <1>5
  <1>7. Subsequence(q, K) = [k \in 1 .. c |-> q[f[k]]]
    BY <1>3 DEF Subsequence, UpTo
  <1> HIDE DEF f
  <1>8. ASSUME NEW a \in 1 .. c, NEW b \in 1 .. c, a < b PROVE f[a] < f[b]
    <2>1. f[a] \in Int /\ f[b] \in Int
      BY <1>2, <1>5
    <2>2. f[b] <= f[a] => UpTo(K, f[b]) <= UpTo(K, f[a])
      BY <1>2, <2>1, UpToFacts
    <2> QED
      BY <1>5, <1>8, <2>1, <2>2
  <1> QED
    BY <1>3, <1>6, <1>7, <1>8

(***************************************************************************)
(* What configure() leaves in base_value_bufs_.                            *)
(***************************************************************************)
ClassOf(h) == Handle[h].class

(* Definition of handle h under id n. *)
DefinedAs(h, n) ==
    \E i \in DOMAIN Definition :
        Definition[i] = [id |-> n, name |-> Handle[h].name, class |-> Handle[h].class]

(* The handles to send: sorted by class, no two with one id, all of them defined. *)
Sendable(b, r) ==
    /\ \A i, j \in DOMAIN b : i < j => ClassOf(b[i]) <= ClassOf(b[j])
    /\ \A i, j \in DOMAIN b : r[b[i]] = r[b[j]] => i = j
    /\ \A i \in DOMAIN b : DefinedAs(b[i], r[b[i]])

(* The table and the handles. *)
LEMMA TableFacts ==
    /\ Len(Definition) \in Nat /\ DOMAIN Definition = 1 .. Len(Definition)
    /\ \A i \in DOMAIN Definition :
          /\ Definition[i].id \in Nat /\ Definition[i].id # 0 /\ Definition[i].class \in 0 .. 4
          /\ Definition[i] = [id |-> Definition[i].id, name |-> Definition[i].name,
                              class |-> Definition[i].class]
    /\ \A i, j \in DOMAIN Definition : Definition[i].id = Definition[j].id => i = j
    /\ \A h \in Handles : ClassOf(h) \in 0 .. 4
  <1>1. Len(Definition) \in Nat /\ DOMAIN Definition = 1 .. Len(Definition)
    BY TelemetryAssumption, LenProperties
  <1>2. \A i \in DOMAIN Definition : Definition[i] \in [id : Nat, name : STRING, class : Classes]
    BY TelemetryAssumption, ElementOfSeq, <1>1
  <1>3. \A i, j \in DOMAIN Definition : Definition[i].id # 0 /\ (Definition[i].id = Definition[j].id => i = j)
    BY TelemetryAssumption
  <1>4. \A h \in Handles : ClassOf(h) \in 0 .. 4
    BY TelemetryAssumption DEF ClassOf, Classes
  <1> QED
    BY <1>1, <1>2, <1>3, <1>4 DEF Classes

(* find() gives the id of a definition with the name and the type of the handle, or 0. *)
LEMMA FindFacts ==
    ASSUME NEW h \in Handles, user_defs \in -1 .. Len(Definition)
    PROVE  find(h) \in Nat /\ (find(h) # 0 => DefinedAs(h, find(h)))
  <1> DEFINE same == {i \in 1 .. user_defs : Definition[i].name = Handle[h].name
                                         /\ Definition[i].class = Handle[h].class}
  <1>1. CASE same = {}
    BY <1>1 DEF find
  <1>2. CASE same # {}
    <2>1. \A i \in same : i \in Nat /\ i \in DOMAIN Definition
      BY TableFacts
    <2>2. same \in SUBSET Nat
      BY <2>1
    <2>3. \E j \in same : \A i \in same : j <= i
      <3> HIDE DEF same
      <3> QED
        BY <1>2, <2>2, LeastOf
    <2>4. Min(same) \in same
      <3> HIDE DEF same
      <3> QED
        BY <2>3 DEF Min
    <2>5. find(h) = Definition[Min(same)].id
      BY <1>2 DEF find
    <2>6. PICK m \in same : m = Min(same)
      BY <2>4
    <2>7. /\ m \in DOMAIN Definition
          /\ Definition[m].name = Handle[h].name
          /\ Definition[m].class = Handle[h].class
      BY <2>1, <2>6
    <2>8. Definition[m] = [id |-> Definition[m].id, name |-> Handle[h].name, class |-> Handle[h].class]
      BY <2>7, TableFacts
    <2> QED
      BY <2>5, <2>6, <2>7, <2>8, TableFacts DEF DefinedAs
  <1> QED
    BY <1>1, <1>2

(* A sequence given by its places. *)
LEMMA PlacedSeq ==
    ASSUME NEW S, NEW n \in Nat, NEW s, s = [k \in 1 .. n |-> s[k]], \A k \in 1 .. n : s[k] \in S
    PROVE  s \in Seq(S) /\ Len(s) = n /\ DOMAIN s = 1 .. n
  <1>1. s \in [1 .. n -> S]
    OBVIOUS
  <1> QED
    BY <1>1, SeqDef, LenProperties

(* What a subsequence is made of. *)
LEMMA SubsequenceSeq ==
    ASSUME NEW S, NEW q \in Seq(S), NEW K \in SUBSET DOMAIN q
    PROVE  /\ Subsequence(q, K) \in Seq(S)
           /\ \E f \in [DOMAIN Subsequence(q, K) -> K] :
                 /\ \A a, b \in DOMAIN Subsequence(q, K) : a < b => f[a] < f[b]
                 /\ \A k \in DOMAIN Subsequence(q, K) : Subsequence(q, K)[k] = q[f[k]]
  <1>1. PICK c \in Nat : c = Cardinality(K)
    BY SubsequenceFacts
  <1>2. PICK f \in [1 .. c -> K] :
            /\ \A a, b \in 1 .. c : a < b => f[a] < f[b]
            /\ Subsequence(q, K) = [k \in 1 .. c |-> q[f[k]]]
    BY <1>1, SubsequenceFacts
  <1>3. \A i \in DOMAIN q : q[i] \in S
    BY ElementOfSeq, LenProperties
  <1>4. \A k \in 1 .. c : q[f[k]] \in S
    BY <1>2, <1>3
  <1>5. Subsequence(q, K) \in [1 .. c -> S]
    BY <1>2, <1>4
  <1>6. Subsequence(q, K) \in Seq(S) /\ DOMAIN Subsequence(q, K) = 1 .. c
    BY <1>5, SeqDef
  <1> QED
    BY <1>2, <1>6

(* Sorting, dropping duplicates and what is not defined leaves what can be sent. *)
LEMMA ConfigureFacts ==
    ASSUME NEW l \in Seq(Handles), NEW r \in [Handles -> Nat],
           \A h \in Members(l) : r[h] # 0 => DefinedAs(h, r[h]),
           NEW q \in Sorted(l, r)
    PROVE  /\ Unique(q, r) \in Seq(Handles)
           /\ Resolved(Unique(q, r), r) \in Seq(Handles)
           /\ Sendable(Resolved(Unique(q, r), r), r)
  <1>1. PICK n \in Nat : n = Len(l) /\ DOMAIN l = 1 .. n
    BY LenProperties
  <1>2. /\ \A i \in 1 .. n : \E j \in 1 .. n : q[i] = l[j]
        /\ q = [i \in 1 .. n |-> q[i]]
        /\ \A i, j \in 1 .. n : i < j => ~Less(q[j], q[i], r)
    <2>1. PICK p \in Bijection(1 .. n, 1 .. n) : q = [i \in 1 .. n |-> l[p[i]]]
      BY <1>1 DEF Sorted
    <2>2. p \in [1 .. n -> 1 .. n]
      BY <2>1 DEF Bijection, Injection, Surjection
    <2>3. \A i, j \in 1 .. n : i < j => ~Less(q[j], q[i], r)
      BY <1>1 DEF Sorted
    <2> QED
      BY <2>1, <2>2, <2>3
  <1>3. \A i \in 1 .. n : l[i] \in Handles
    BY <1>1, ElementOfSeq
  <1>4. \A i \in 1 .. n : q[i] \in Handles /\ q[i] \in Members(l)
    BY <1>1, <1>2, <1>3 DEF Members
  <1>5. q \in Seq(Handles) /\ DOMAIN q = 1 .. n
    BY <1>2, <1>4, PlacedSeq
  <1> DEFINE K == {i \in DOMAIN q : i = 1 \/ r[q[i - 1]] = 0 \/ r[q[i]] # r[q[i - 1]]}
             u == Unique(q, r)
             R == {i \in DOMAIN u : r[u[i]] # 0}
             b == Resolved(u, r)
  <1>6. u = Subsequence(q, K) /\ K \in SUBSET DOMAIN q
    BY DEF Unique
  <1>7. b = Subsequence(u, R) /\ R \in SUBSET DOMAIN u
    BY DEF Resolved
  <1>8. \A i \in K : i \in 1 .. n /\ (i = 1 \/ r[q[i - 1]] = 0 \/ r[q[i]] # r[q[i - 1]])
    BY <1>5
  <1>9. \A i \in R : r[u[i]] # 0
    OBVIOUS
  <1> HIDE DEF K, R, u, b
  <1>10. /\ u \in Seq(Handles)
         /\ \E f \in [DOMAIN u -> K] :
               /\ \A i, j \in DOMAIN u : i < j => f[i] < f[j]
               /\ \A k \in DOMAIN u : u[k] = q[f[k]]
    <2>1. K \in SUBSET DOMAIN q
      BY <1>6
    <2>2. /\ Subsequence(q, K) \in Seq(Handles)
          /\ \E f \in [DOMAIN Subsequence(q, K) -> K] :
                /\ \A i, j \in DOMAIN Subsequence(q, K) : i < j => f[i] < f[j]
                /\ \A k \in DOMAIN Subsequence(q, K) : Subsequence(q, K)[k] = q[f[k]]
      BY <1>5, <2>1, SubsequenceSeq, Zenon
    <2> QED
      BY <1>6, <2>2, Zenon
  <1>11. /\ b \in Seq(Handles)
         /\ \E f \in [DOMAIN b -> R] :
               /\ \A i, j \in DOMAIN b : i < j => f[i] < f[j]
               /\ \A k \in DOMAIN b : b[k] = u[f[k]]
    <2>1. u \in Seq(Handles) /\ R \in SUBSET DOMAIN u
      BY <1>7, <1>10
    <2>2. /\ Subsequence(u, R) \in Seq(Handles)
          /\ \E f \in [DOMAIN Subsequence(u, R) -> R] :
                /\ \A i, j \in DOMAIN Subsequence(u, R) : i < j => f[i] < f[j]
                /\ \A k \in DOMAIN Subsequence(u, R) : Subsequence(u, R)[k] = u[f[k]]
      BY <2>1, SubsequenceSeq, Zenon
    <2> QED
      BY <1>7, <2>2, Zenon
  <1>12. PICK f \in [DOMAIN u -> K] :
               /\ \A i, j \in DOMAIN u : i < j => f[i] < f[j]
               /\ \A k \in DOMAIN u : u[k] = q[f[k]]
    BY <1>10
  <1>13. PICK g \in [DOMAIN b -> R] :
               /\ \A i, j \in DOMAIN b : i < j => g[i] < g[j]
               /\ \A k \in DOMAIN b : b[k] = u[g[k]]
    BY <1>11
  <1>14. \A k \in DOMAIN b : g[k] \in R /\ g[k] \in DOMAIN u
    BY <1>7, <1>13
  <1> DEFINE at(k) == f[g[k]]
  <1>15. \A k \in DOMAIN b : at(k) \in K /\ b[k] = q[at(k)] /\ r[b[k]] # 0
    BY <1>9, <1>12, <1>13, <1>14
  <1>16. \A i, j \in DOMAIN b : i < j => at(i) < at(j)
    BY <1>12, <1>13, <1>14
  <1>17. \A k \in DOMAIN b : k \in Nat /\ at(k) \in 1 .. n
    <2>1. \A k \in DOMAIN b : k \in Nat
      BY <1>11, LenProperties
    <2> QED
      BY <1>8, <1>15, <2>1
  <1> HIDE DEF at
  <1>18. \A i \in 1 .. n : r[q[i]] \in Nat /\ ClassOf(q[i]) \in Nat
    <2>1. \A h \in Handles : ClassOf(h) \in Nat /\ r[h] \in Nat
      BY TableFacts
    <2> QED
      BY <1>4, <2>1
  <1>19. \A i, j \in 1 .. n : i < j =>
               \/ ClassOf(q[i]) < ClassOf(q[j])
               \/ ClassOf(q[i]) = ClassOf(q[j]) /\ r[q[i]] <= r[q[j]]
    <2> SUFFICES ASSUME NEW i \in 1 .. n, NEW j \in 1 .. n, i < j
                 PROVE  \/ ClassOf(q[i]) < ClassOf(q[j])
                        \/ ClassOf(q[i]) = ClassOf(q[j]) /\ r[q[i]] <= r[q[j]]
      OBVIOUS
    <2>1. ~Less(q[j], q[i], r)
      BY <1>2
    <2>2. /\ ~(ClassOf(q[j]) < ClassOf(q[i]))
          /\ ~(ClassOf(q[j]) = ClassOf(q[i]) /\ r[q[j]] < r[q[i]])
      BY <2>1 DEF Less, ClassOf
    <2>3. /\ r[q[i]] \in Nat /\ r[q[j]] \in Nat
          /\ ClassOf(q[i]) \in Nat /\ ClassOf(q[j]) \in Nat
      BY <1>18
    <2> QED
      BY <2>2, <2>3
  <1>20. \A k \in DOMAIN b : DefinedAs(b[k], r[b[k]])
    BY <1>4, <1>15, <1>17
  <1>21. ASSUME NEW i \in DOMAIN b, NEW j \in DOMAIN b, i < j
         PROVE  ClassOf(b[i]) <= ClassOf(b[j]) /\ r[b[i]] # r[b[j]]
    <2>1. at(i) \in 1 .. n /\ at(j) \in 1 .. n /\ at(i) < at(j)
      BY <1>16, <1>17, <1>21
    <2>2. b[i] = q[at(i)] /\ b[j] = q[at(j)] /\ r[b[i]] # 0
      BY <1>15
    <2>3. ClassOf(b[i]) <= ClassOf(b[j])
      BY <1>18, <1>19, <2>1, <2>2
    <2>4. r[b[i]] = r[b[j]] => ClassOf(b[i]) = ClassOf(b[j])
      <3>1. PICK x \in DOMAIN Definition : Definition[x].id = r[b[i]] /\ Definition[x].class = ClassOf(b[i])
        BY <1>20 DEF DefinedAs, ClassOf
      <3>2. PICK y \in DOMAIN Definition : Definition[y].id = r[b[j]] /\ Definition[y].class = ClassOf(b[j])
        BY <1>20 DEF DefinedAs, ClassOf
      <3> QED
        BY <3>1, <3>2, TableFacts
    <2>5. ASSUME r[b[i]] = r[b[j]] PROVE FALSE
      <3>1. PICK m \in 1 .. n : m = at(j) - 1
        BY <2>1
      <3>2. r[q[m]] = 0 \/ r[q[at(j)]] # r[q[m]]
        BY <1>8, <1>15, <2>1, <3>1
      <3>3. /\ r[q[at(i)]] \in Nat /\ r[q[at(j)]] \in Nat /\ r[q[m]] \in Nat
            /\ ClassOf(q[at(i)]) \in Nat /\ ClassOf(q[at(j)]) \in Nat /\ ClassOf(q[m]) \in Nat
        BY <1>18, <2>1
      <3>4. \/ ClassOf(q[m]) < ClassOf(q[at(j)])
            \/ ClassOf(q[m]) = ClassOf(q[at(j)]) /\ r[q[m]] <= r[q[at(j)]]
        BY <1>19, <2>1, <3>1
      <3>5. \/ ClassOf(q[at(i)]) < ClassOf(q[m])
            \/ ClassOf(q[at(i)]) = ClassOf(q[m]) /\ r[q[at(i)]] <= r[q[m]]
        <4>1. CASE at(i) = m
          BY <3>3, <4>1
        <4>2. CASE at(i) < m
          BY <1>19, <2>1, <4>2
        <4> QED
          BY <2>1, <3>1, <4>1, <4>2
      <3> QED
        BY <2>2, <2>4, <2>5, <3>2, <3>3, <3>4, <3>5
    <2> QED
      BY <2>3, <2>5
  <1>22. \A i, j \in DOMAIN b : r[b[i]] = r[b[j]] => i = j
    BY <1>17, <1>21
  <1>23. Sendable(b, r)
    BY <1>20, <1>21, <1>22 DEF Sendable
  <1> QED
    BY <1>10, <1>11, <1>23 DEF u, b

(***************************************************************************)
(* The layout of the values.                                               *)
(***************************************************************************)
(* What a quotient is between. *)
LEMMA DivFacts ==
    ASSUME NEW x \in Nat, NEW y \in Nat \ {0}
    PROVE  x \div y \in Nat /\ (x \div y) * y <= x /\ x < (x \div y) * y + y
  OBVIOUS

(* A product grows with its factor. *)
LEMMA TimesMonotone ==
    ASSUME NEW x \in Nat, NEW y \in Nat, NEW z \in Nat, x <= y
    PROVE  x * z <= y * z
  OBVIOUS

(* A common positive factor does not matter. *)
LEMMA TimesCancel ==
    ASSUME NEW x \in Int, NEW y \in Int, NEW z \in Nat \ {0}, x * z < y * z
    PROVE  x < y
  OBVIOUS

(* The remainder of a small number is the number. *)
LEMMA ModSmall == ASSUME NEW y \in Nat \ {0}, NEW x \in 0 .. y - 1 PROVE x % y = x
  OBVIOUS

(* n bools take w words; with the four bytes in front they end, aligned, in the space that
   configure() reserves for them. *)
LEMMA WordsFit ==
    ASSUME NEW n \in Nat, NEW b \in Nat \ {0}, NEW w, w = (n + b - 1) \div b,
           NEW e, e = (n + 3 * b - 1) \div (2 * b)
    PROVE  /\ w \in Nat /\ e \in Nat /\ (n > 0 => w >= 1)
           /\ \E x \in Nat : /\ AlignUp8(4 + 4 * w) = 8 * x
                            /\ 4 + 4 * w <= 8 * x /\ 8 * x <= 4 + 8 * e
  <1>1. n + b - 1 \in Nat /\ n + 3 * b - 1 \in Nat /\ 2 * b \in Nat \ {0}
    OBVIOUS
  <1>2. w \in Nat /\ w * b <= n + b - 1 /\ n + b - 1 < w * b + b
    BY <1>1, DivFacts
  <1>3. e \in Nat /\ n + 3 * b - 1 < e * (2 * b) + 2 * b
    BY <1>1, DivFacts
  <1>4. n > 0 => w >= 1
    <2> SUFFICES ASSUME n > 0, w = 0 PROVE FALSE
      BY <1>2
    <2>1. w * b = 0
      OBVIOUS
    <2> QED
      BY <1>2, <2>1
  <1>5. PICK h \in Nat : w = 2 * h \/ w = 2 * h + 1
    <2>1. w \div 2 \in Nat /\ (w = 2 * (w \div 2) \/ w = 2 * (w \div 2) + 1)
      BY <1>2
    <2> QED
      BY <2>1
  <1>6. (4 + 4 * w + 7) \div 8 = h + 1
    <2>1. CASE w = 2 * h
      BY <2>1
    <2>2. CASE w = 2 * h + 1
      BY <2>2
    <2> QED
      BY <1>5, <2>1, <2>2
  <1>7. AlignUp8(4 + 4 * w) = 8 * (h + 1)
    <2>1. AlignUp8(4 + 4 * w) = ((4 + 4 * w + 7) \div 8) * 8
      BY DEF AlignUp8
    <2> QED
      BY <1>6, <2>1
  <1>8. (2 * h) * b <= w * b
    <2>1. 2 * h \in Nat /\ 2 * h <= w
      BY <1>2, <1>5
    <2> QED
      BY <1>2, <2>1, TimesMonotone
  <1>9. (h + 1) * (2 * b) = (2 * h) * b + 2 * b
    OBVIOUS
  <1>10. (e + 1) * (2 * b) = e * (2 * b) + 2 * b
    BY <1>3
  <1>11. (h + 1) * (2 * b) < (e + 1) * (2 * b)
    <2> DEFINE p == (2 * h) * b
               q == w * b
               s == e * (2 * b)
    <2>1. p \in Int /\ q \in Int /\ s \in Int
      BY <1>2, <1>3
    <2>2. p <= q /\ q <= n + b - 1 /\ n + 3 * b - 1 < s + 2 * b
      BY <1>2, <1>3, <1>8
    <2>3. (h + 1) * (2 * b) = p + 2 * b /\ (e + 1) * (2 * b) = s + 2 * b
      BY <1>9, <1>10
    <2> HIDE DEF p, q, s
    <2>4. p + 2 * b < s + 2 * b
      BY <2>1, <2>2
    <2> QED
      BY <2>3, <2>4
  <1>12. h + 1 < e + 1
    <2>1. h + 1 \in Int /\ e + 1 \in Int
      BY <1>3
    <2> QED
      BY <1>1, <1>11, <2>1, TimesCancel, Zenon
  <1>13. 4 + 4 * w <= 8 * (h + 1) /\ 8 * (h + 1) <= 4 + 8 * e
    BY <1>2, <1>3, <1>5, <1>12
  <1> QED
    BY <1>2, <1>3, <1>4, <1>7, <1>13

(* A set of places without gaps is the places up to its size. *)
LEMMA NoGaps ==
    ASSUME NEW n \in Nat, NEW K \in SUBSET (1 .. n),
           \A i \in 1 .. n, j \in K : i <= j => i \in K
    PROVE  Cardinality(K) \in 0 .. n /\ \A i \in 1 .. n : i \in K <=> i <= Cardinality(K)
  <1> DEFINE H == {i \in 1 .. n + 1 : i \notin K}
  <1>1. n + 1 \in H /\ H \in SUBSET Nat
    OBVIOUS
  <1>2. \A i \in 1 .. n + 1 : i \in H <=> i \notin K
    OBVIOUS
  <1> HIDE DEF H
  <1>3. PICK m \in H : \A h \in H : m <= h
    BY <1>1, LeastOf
  <1>4. m \in 1 .. n + 1 /\ m \notin K
    BY <1>3 DEF H
  <1>5. ASSUME NEW i \in 1 .. n PROVE i \in K <=> i <= m - 1
    <2>1. CASE i <= m - 1
      <3>1. i \in 1 .. n + 1 /\ ~(m <= i)
        BY <1>4, <2>1
      <3> QED
        BY <1>2, <1>3, <2>1, <3>1
    <2>2. CASE ~(i <= m - 1)
      <3>1. m <= i /\ m \in 1 .. n
        BY <1>4, <2>2
      <3> QED
        BY <1>4, <2>2, <3>1
    <2> QED
      BY <2>1, <2>2
  <1>6. K = 1 .. m - 1
    <2>1. \A i \in 1 .. m - 1 : i \in 1 .. n /\ i <= m - 1
      BY <1>4
    <2>2. \A i \in K : i \in 1 .. n
      OBVIOUS
    <2>3. \A i \in 1 .. n : i <= m - 1 => i \in 1 .. m - 1
      BY <1>4
    <2> QED
      BY <1>5, <2>1, <2>2, <2>3, Zenon
  <1>7. Cardinality(K) = m - 1
    BY <1>4, <1>6, FS_Interval
  <1> QED
    BY <1>4, <1>5, <1>7

(* The classes of the values to send follow one another without gaps. *)
LEMMA Blocks ==
    ASSUME bufs \in Seq(Handles), Sendable(bufs, ref)
    PROVE  /\ \A c \in 0 .. 5 : Before(c) \in Nat
           /\ \A c \in 0 .. 4 : CountOf(bufs, c) \in Nat
           /\ Before(0) = 0 /\ Before(5) = Len(bufs)
           /\ \A c \in 0 .. 4 : Before(c + 1) = Before(c) + CountOf(bufs, c)
           /\ \A i \in DOMAIN bufs, c \in 0 .. 5 : ClassOf(bufs[i]) < c <=> i <= Before(c)
  <1>1. PICK n \in Nat : n = Len(bufs) /\ DOMAIN bufs = 1 .. n
    BY LenProperties
  <1>2. \A i \in 1 .. n : ClassOf(bufs[i]) \in 0 .. 4
    BY <1>1, ElementOfSeq, TableFacts
  <1> DEFINE Below(c) == {i \in 1 .. n : ClassOf(bufs[i]) < c}
             Of(c) == {i \in 1 .. n : ClassOf(bufs[i]) = c}
  <1>3. \A c : Before(c) = Cardinality(Below(c)) /\ CountOf(bufs, c) = Cardinality(Of(c))
    BY <1>1 DEF Before, CountOf, ClassOf
  <1>4. ASSUME NEW c \in 0 .. 5
        PROVE  /\ Before(c) \in Nat
               /\ \A i \in 1 .. n : ClassOf(bufs[i]) < c <=> i <= Before(c)
    <2>1. ASSUME NEW i \in 1 .. n, NEW j \in Below(c), i <= j PROVE i \in Below(c)
      <3>1. j \in 1 .. n /\ ClassOf(bufs[j]) < c
        OBVIOUS
      <3>2. ClassOf(bufs[i]) <= ClassOf(bufs[j])
        <4>1. CASE i = j
          BY <1>2, <4>1
        <4>2. CASE i < j
          BY <1>1, <3>1, <4>2 DEF Sendable
        <4> QED
          BY <2>1, <3>1, <4>1, <4>2
      <3>3. ClassOf(bufs[i]) < c
        BY <1>2, <3>1, <3>2
      <3> QED
        BY <3>3
    <2>2. Below(c) \in SUBSET (1 .. n)
      OBVIOUS
    <2>3. \A i \in 1 .. n : i \in Below(c) <=> ClassOf(bufs[i]) < c
      OBVIOUS
    <2> HIDE DEF Below
    <2>4. /\ Cardinality(Below(c)) \in 0 .. n
          /\ \A i \in 1 .. n : i \in Below(c) <=> i <= Cardinality(Below(c))
      BY <2>1, <2>2, NoGaps
    <2> QED
      BY <1>3, <2>3, <2>4
  <1>5. IsFiniteSet(1 .. n) /\ Cardinality(1 .. n) = n
    BY FS_Interval
  <1>6. \A c : IsFiniteSet(Below(c)) /\ IsFiniteSet(Of(c))
    BY <1>5, FS_Subset
  <1>7. \A c : Cardinality(Of(c)) \in Nat
    BY <1>6, FS_CardinalityType
  <1>8. Before(0) = 0
    <2>1. \A i \in 1 .. n : ~(ClassOf(bufs[i]) < 0)
      BY <1>2
    <2>2. Below(0) = {}
      BY <2>1
    <2> QED
      BY <1>3, <2>2, FS_EmptySet
  <1>9. Before(5) = n
    <2>1. \A i \in 1 .. n : ClassOf(bufs[i]) < 5
      BY <1>2
    <2>2. Below(5) = 1 .. n
      BY <2>1
    <2> QED
      BY <1>3, <1>5, <2>2
  <1>10. ASSUME NEW c \in 0 .. 4 PROVE Before(c + 1) = Before(c) + CountOf(bufs, c)
    <2>1. \A i \in 1 .. n : /\ ClassOf(bufs[i]) < c + 1 <=> (ClassOf(bufs[i]) < c \/ ClassOf(bufs[i]) = c)
                           /\ ~(ClassOf(bufs[i]) < c /\ ClassOf(bufs[i]) = c)
      BY <1>2
    <2>2. Below(c + 1) = Below(c) \cup Of(c)
      BY <2>1, Zenon
    <2>3. Below(c) \cap Of(c) = {}
      BY <2>1
    <2> HIDE DEF Below, Of
    <2>4. Cardinality(Below(c) \cup Of(c)) = Cardinality(Below(c)) + Cardinality(Of(c))
      <3>1. Cardinality(Below(c) \cup Of(c))
              = Cardinality(Below(c)) + Cardinality(Of(c)) - Cardinality(Below(c) \cap Of(c))
        BY <1>6, FS_Union
      <3>2. Cardinality(Below(c) \cap Of(c)) = 0
        BY <2>3, FS_EmptySet
      <3>3. Cardinality(Below(c)) \in Nat /\ Cardinality(Of(c)) \in Nat
        BY <1>6, FS_CardinalityType
      <3> QED
        BY <3>1, <3>2, <3>3
    <2> QED
      BY <1>3, <2>2, <2>4
  <1>11. \A c \in 0 .. 4 : CountOf(bufs, c) \in Nat
    BY <1>3, <1>7
  <1> QED
    BY <1>1, <1>4, <1>8, <1>9, <1>10, <1>11

(* Numbers of values by class, n0 to n4, and the offset of value k from the first one. *)
At(k, n0, n1, n2, n3, n4) ==
    8 * Copied(k - 1 - n0, n1) + 4 * Copied(k - 1 - (n0 + n1), n2)
    + 2 * Copied(k - 1 - (n0 + n1 + n2), n3) + Copied(k - 1 - (n0 + n1 + n2 + n3), n4)

(* The width of value k. *)
WidthAt(k, n0, n1, n2, n3) ==
    IF k <= n0 + n1 THEN 8 ELSE IF k <= n0 + n1 + n2 THEN 4
    ELSE IF k <= n0 + n1 + n2 + n3 THEN 2 ELSE 1

(* Value k, of width w, ends before the next one and before the end, and is aligned. *)
Spaced(k, n0, n1, n2, n3, n4, w) ==
    /\ At(k, n0, n1, n2, n3, n4) + w <= 8 * n1 + 4 * n2 + 2 * n3 + n4
    /\ k + 1 <= n0 + n1 + n2 + n3 + n4 =>
          At(k, n0, n1, n2, n3, n4) + w <= At(k + 1, n0, n1, n2, n3, n4)
    /\ \A x \in Nat : (8 * x + At(k, n0, n1, n2, n3, n4)) % w = 0

(* The values of each class follow each other, widest class first. *)
LEMMA AtNext ==
    ASSUME NEW n0 \in Nat, NEW n1 \in Nat, NEW n2 \in Nat, NEW n3 \in Nat, NEW n4 \in Nat,
           NEW k \in Nat, n0 < k, k <= n0 + n1 + n2 + n3 + n4, NEW w \in Nat,
           w = WidthAt(k, n0, n1, n2, n3)
    PROVE  Spaced(k, n0, n1, n2, n3, n4, w)
  <1> DEFINE a == At(k, n0, n1, n2, n3, n4)
             b == At(k + 1, n0, n1, n2, n3, n4)
  <1>1. k - 1 \in Nat /\ k + 1 \in Nat
    OBVIOUS
  <1>2. /\ a \in Nat /\ b \in Nat
        /\ k <= n0 + n1 /\ n0 < k => a = 8 * (k - 1 - n0)
        /\ k <= n0 + n1 + n2 /\ n0 + n1 < k => a = 8 * n1 + 4 * (k - 1 - (n0 + n1))
        /\ k <= n0 + n1 + n2 + n3 /\ n0 + n1 + n2 < k =>
              a = 8 * n1 + 4 * n2 + 2 * (k - 1 - (n0 + n1 + n2))
        /\ k <= n0 + n1 + n2 + n3 + n4 /\ n0 + n1 + n2 + n3 < k =>
              a = 8 * n1 + 4 * n2 + 2 * n3 + (k - 1 - (n0 + n1 + n2 + n3))
    BY <1>1 DEF At, Copied
  <1>3. /\ k + 1 <= n0 + n1 /\ n0 < k + 1 => b = 8 * (k - n0)
        /\ k + 1 <= n0 + n1 + n2 /\ n0 + n1 < k + 1 => b = 8 * n1 + 4 * (k - (n0 + n1))
        /\ k + 1 <= n0 + n1 + n2 + n3 /\ n0 + n1 + n2 < k + 1 =>
              b = 8 * n1 + 4 * n2 + 2 * (k - (n0 + n1 + n2))
        /\ k + 1 <= n0 + n1 + n2 + n3 + n4 /\ n0 + n1 + n2 + n3 < k + 1 =>
              b = 8 * n1 + 4 * n2 + 2 * n3 + (k - (n0 + n1 + n2 + n3))
    BY <1>1 DEF At, Copied
  <1>w. w = IF k <= n0 + n1 THEN 8 ELSE IF k <= n0 + n1 + n2 THEN 4
            ELSE IF k <= n0 + n1 + n2 + n3 THEN 2 ELSE 1
    BY DEF WidthAt
  <1> HIDE DEF a, b
  <1>4. a + w <= 8 * n1 + 4 * n2 + 2 * n3 + n4
    BY <1>2, <1>w
  <1>5. k + 1 <= n0 + n1 + n2 + n3 + n4 => a + w <= b
    BY <1>2, <1>3, <1>w
  <1>6. ASSUME NEW x \in Nat PROVE (8 * x + a) % w = 0
    <2>1. CASE k <= n0 + n1
      BY <1>2, <1>w, <2>1
    <2>2. CASE n0 + n1 < k /\ k <= n0 + n1 + n2
      BY <1>2, <1>w, <2>2
    <2>3. CASE n0 + n1 + n2 < k /\ k <= n0 + n1 + n2 + n3
      BY <1>2, <1>w, <2>3
    <2>4. CASE n0 + n1 + n2 + n3 < k
      BY <1>2, <1>w, <2>4
    <2> QED
      BY <2>1, <2>2, <2>3, <2>4
  <1> QED
    BY <1>4, <1>5, <1>6 DEF a, b, Spaced

(* The widths of the classes. *)
LEMMA WidthFacts == Width[1] = 8 /\ Width[2] = 4 /\ Width[3] = 2 /\ Width[4] = 1
  BY DEF Width

(* A set packet is laid out as configure() has announced it. *)
LEMMA PacketExact ==
    ASSUME bufs \in Seq(Handles), Sendable(bufs, ref), NEW v \in [Members(bufs) -> BOOLEAN]
    PROVE  Exact(SetValues(v).data)
  <1>1. PICK n \in Nat : n = Len(bufs) /\ DOMAIN bufs = 1 .. n
    BY LenProperties
  <1>2. \A c \in 0 .. 4 : CountOf(bufs, c) \in Nat
    BY Blocks
  <1>3. PICK n0 \in Nat, n1 \in Nat, n2 \in Nat, n3 \in Nat, n4 \in Nat :
            /\ n0 = CountOf(bufs, 0) /\ n1 = CountOf(bufs, 1) /\ n2 = CountOf(bufs, 2)
            /\ n3 = CountOf(bufs, 3) /\ n4 = CountOf(bufs, 4)
    BY <1>2
  <1>4. /\ Before(1) = n0 /\ Before(2) = n0 + n1 /\ Before(3) = n0 + n1 + n2
        /\ Before(4) = n0 + n1 + n2 + n3 /\ n = n0 + n1 + n2 + n3 + n4
    <2>1. Before(0) = 0 /\ Before(5) = n
      BY <1>1, Blocks
    <2>2. \A c \in 0 .. 4 : Before(c + 1) = Before(c) + CountOf(bufs, c)
      BY Blocks
    <2>3. /\ Before(0 + 1) = Before(0) + n0 /\ Before(1 + 1) = Before(1) + n1
          /\ Before(2 + 1) = Before(2) + n2 /\ Before(3 + 1) = Before(3) + n3
          /\ Before(4 + 1) = Before(4) + n4
      BY <1>3, <2>2
    <2> QED
      BY <2>1, <2>3
  <1>5. \A i \in 1 .. n, c \in 0 .. 5 : ClassOf(bufs[i]) < c <=> i <= Before(c)
    BY <1>1, Blocks
  <1>6. \A i \in 1 .. n : ClassOf(bufs[i]) \in 0 .. 4 /\ v[bufs[i]] \in BOOLEAN
    BY <1>1, ElementOfSeq, TableFacts DEF Members
  <1> DEFINE e == (n0 + 3 * WordBits - 1) \div (2 * WordBits)
             z == 8 * n1 + 4 * n2 + 2 * n3 + n4
  <1>7. Words = (n0 + WordBits - 1) \div WordBits
    BY <1>3 DEF Words
  <1>8. PICK w \in Nat : w = Words /\ (n0 > 0 => w >= 1)
    BY <1>7, TelemetryAssumption, WordsFit
  <1>9. e \in Nat
    BY <1>7, TelemetryAssumption, WordsFit
  <1>10. PICK x \in Nat : /\ AlignUp8(4 + 4 * w) = 8 * x
                         /\ 4 + 4 * w <= 8 * x /\ 8 * x <= 4 + 8 * e
    BY <1>7, <1>8, TelemetryAssumption, WordsFit
  <1>11. ExpectedSize(bufs) = 8 * e + z
    <2>1. ExpectedSize(bufs) = e * 8 + 8 * n1 + 4 * n2 + 2 * n3 + n4
      BY <1>3, Zenon DEF ExpectedSize
    <2> HIDE DEF e
    <2> QED
      BY <1>9, <2>1
  <1> HIDE DEF e
  <1>12. ASSUME NEW k \in 1 .. n PROVE Offset(k) = 8 * x + At(k, n0, n1, n2, n3, n4)
    <2>1. /\ Copied(k - 1 - n0, n1) \in Nat /\ Copied(k - 1 - (n0 + n1), n2) \in Nat
          /\ Copied(k - 1 - (n0 + n1 + n2), n3) \in Nat
          /\ Copied(k - 1 - (n0 + n1 + n2 + n3), n4) \in Nat
      BY DEF Copied
    <2>2. PICK c1 \in Nat, c2 \in Nat, c3 \in Nat, c4 \in Nat :
              /\ c1 = Copied(k - 1 - n0, n1) /\ c2 = Copied(k - 1 - (n0 + n1), n2)
              /\ c3 = Copied(k - 1 - (n0 + n1 + n2), n3)
              /\ c4 = Copied(k - 1 - (n0 + n1 + n2 + n3), n4)
      BY <2>1, Zenon
    <2>3. Offset(k) = 8 * x + 8 * c1 + 4 * c2 + 2 * c3 + c4
      BY <1>3, <1>4, <1>8, <1>10, <2>2, Zenon DEF Offset
    <2>4. At(k, n0, n1, n2, n3, n4) = 8 * c1 + 4 * c2 + 2 * c3 + c4
      BY <2>2, Zenon DEF At
    <2> QED
      BY <2>3, <2>4
  <1>13. \A k \in 1 .. n : At(k, n0, n1, n2, n3, n4) \in Nat
    BY DEF At, Copied
  <1> DEFINE d == SetValues(v).data
  <1>14. /\ d.words = [k \in 1 .. w |-> BoolWord(k - 1, v)]
         /\ d.values = [i \in n0 + 1 .. n |-> [at |-> Offset(i), val |-> v[bufs[i]]]]
         /\ d.of = [i \in 1 .. n |-> [h |-> bufs[i], val |-> v[bufs[i]]]]
         /\ d.size = ExpectedSize(bufs) + 4
    BY <1>1, <1>3, <1>8 DEF SetValues, Action
  <1> HIDE DEF d
  <1>15. Len(d.words) = w
    BY <1>14
  <1>16. 4 + 4 * w <= d.size
    BY <1>9, <1>10, <1>11, <1>14
  <1>17. ASSUME NEW k \in n0 + 1 .. n
         PROVE  /\ 4 + 4 * w <= d.values[k].at
                /\ d.values[k].at + Width[Handle[d.of[k].h].class] <= d.size
                /\ d.values[k].at % Width[Handle[d.of[k].h].class] = 0
                /\ d.values[k].val = d.of[k].val
                /\ k + 1 \in n0 + 1 .. n =>
                      d.values[k].at + Width[Handle[d.of[k].h].class] <= d.values[k + 1].at
    <2>1. k \in 1 .. n
      OBVIOUS
    <2>2. /\ d.values[k].at = 8 * x + At(k, n0, n1, n2, n3, n4)
          /\ d.values[k].val = d.of[k].val /\ d.of[k].h = bufs[k]
      BY <1>12, <1>14, <2>1
    <2>3. PICK c \in 0 .. 4 : c = ClassOf(bufs[k])
      BY <1>6, <2>1
    <2>4. /\ (c < 1 <=> k <= n0) /\ (c < 2 <=> k <= n0 + n1) /\ (c < 3 <=> k <= n0 + n1 + n2)
          /\ (c < 4 <=> k <= n0 + n1 + n2 + n3)
      BY <1>4, <1>5, <2>1, <2>3
    <2>5. Width[Handle[d.of[k].h].class] = Width[c]
      BY <2>2, <2>3 DEF ClassOf
    <2>6. PICK y \in Nat : /\ y = Width[Handle[d.of[k].h].class]
                           /\ y = WidthAt(k, n0, n1, n2, n3)
      <3>1. c \in {1, 2, 3, 4}
        BY <2>4
      <3>2. Width[c] = IF k <= n0 + n1 THEN 8 ELSE IF k <= n0 + n1 + n2 THEN 4
                       ELSE IF k <= n0 + n1 + n2 + n3 THEN 2 ELSE 1
        BY <2>4, <3>1, WidthFacts
      <3>3. Width[c] \in Nat
        BY <3>1, WidthFacts
      <3> QED
        BY <2>5, <3>2, <3>3 DEF WidthAt
    <2>7. PICK a \in Nat : a = At(k, n0, n1, n2, n3, n4)
      BY <1>13, <2>1
    <2>8. /\ a + y <= 8 * n1 + 4 * n2 + 2 * n3 + n4
          /\ k + 1 <= n0 + n1 + n2 + n3 + n4 => a + y <= At(k + 1, n0, n1, n2, n3, n4)
          /\ (8 * x + a) % y = 0
      <3>0. /\ n0 \in Nat /\ n1 \in Nat /\ n2 \in Nat /\ n3 \in Nat /\ n4 \in Nat /\ y \in Nat
        OBVIOUS
      <3>1. k \in Nat /\ n0 < k /\ k <= n0 + n1 + n2 + n3 + n4
        BY <1>4
      <3>2. Spaced(k, n0, n1, n2, n3, n4, y)
        BY <2>6, <3>0, <3>1, AtNext, Zenon
      <3> QED
        BY <2>7, <3>2, Zenon DEF Spaced
    <2>9. 4 + 4 * w <= d.values[k].at /\ d.values[k].at + y <= d.size
      <3>1. d.values[k].at = 8 * x + a /\ d.size = (8 * e + (8 * n1 + 4 * n2 + 2 * n3 + n4)) + 4
        BY <1>11, <1>14, <2>2, <2>7, Zenon
      <3>2. a + y <= 8 * n1 + 4 * n2 + 2 * n3 + n4
        BY <2>8
      <3> QED
        BY <1>9, <1>10, <3>1, <3>2
    <2>10. ASSUME k + 1 \in n0 + 1 .. n PROVE d.values[k].at + y <= d.values[k + 1].at
      <3>1. k + 1 \in 1 .. n /\ k + 1 <= n0 + n1 + n2 + n3 + n4
        BY <1>4, <2>10
      <3>2. d.values[k + 1].at = 8 * x + At(k + 1, n0, n1, n2, n3, n4)
        BY <1>12, <1>14, <2>10, <3>1
      <3>3. At(k + 1, n0, n1, n2, n3, n4) \in Nat
        BY <1>13, <3>1
      <3>4. d.values[k].at = 8 * x + a
        BY <2>2, <2>7, Zenon
      <3>5. PICK b \in Nat : b = At(k + 1, n0, n1, n2, n3, n4)
        BY <3>3
      <3>6. a + y <= b /\ d.values[k + 1].at = 8 * x + b
        BY <2>8, <3>1, <3>2, <3>5
      <3> QED
        BY <3>4, <3>6
    <2> QED
      BY <2>2, <2>6, <2>7, <2>8, <2>9, <2>10
  <1>18. ASSUME NEW k \in 1 .. n0, k <= WordBits
         PROVE  ((k - 1) \in d.words[1]) = d.of[k].val
    <2>1. k \in 1 .. n /\ 1 \in 1 .. w
      BY <1>4, <1>8
    <2>2. d.words[1] = BoolWord(0, v)
      BY <1>14, <2>1
    <2>3. d.of[k].val = v[bufs[k]] /\ v[bufs[k]] \in BOOLEAN
      BY <1>6, <1>14, <2>1
    <2>4. BoolWord(0, v) = {j % WordBits : j \in {i \in 0 .. n0 - 1 : i < WordBits /\ v[bufs[i + 1]]}}
      <3>1. (0 + 1) * WordBits = WordBits
        BY TelemetryAssumption
      <3> QED
        BY <1>3, <3>1 DEF BoolWord
    <2>5. \A j \in 0 .. n0 - 1 : j < WordBits => j % WordBits = j
      <3> TAKE j \in 0 .. n0 - 1
      <3> HAVE j < WordBits
      <3>1. WordBits \in Nat \ {0} /\ j \in 0 .. WordBits - 1
        BY TelemetryAssumption
      <3> QED
        BY <3>1, ModSmall
    <2>6. k - 1 \in BoolWord(0, v) <=> v[bufs[k]]
      <3>1. k - 1 \in 0 .. n0 - 1 /\ k - 1 < WordBits /\ (k - 1) + 1 = k
        BY <1>18, TelemetryAssumption
      <3>2. v[bufs[k]] => k - 1 \in BoolWord(0, v)
        BY <2>4, <2>5, <3>1
      <3>3. ASSUME k - 1 \in BoolWord(0, v) PROVE v[bufs[k]]
        <4>1. PICK j \in 0 .. n0 - 1 : j < WordBits /\ v[bufs[j + 1]] /\ k - 1 = j % WordBits
          BY <2>4, <3>3
        <4>2. j + 1 = k
          BY <2>5, <4>1
        <4> QED
          BY <4>1, <4>2
      <3> QED
        BY <3>2, <3>3
    <2> QED
      BY <2>2, <2>3, <2>6
  <1>19. /\ DOMAIN d.values = n0 + 1 .. n
         /\ \A k \in DOMAIN d.of \ DOMAIN d.values : k \in 1 .. n0
    BY <1>14
  <1>20. Exact(d)
    BY <1>15, <1>16, <1>17, <1>18, <1>19 DEF Exact
  <1> QED
    BY <1>20 DEF d

(***************************************************************************)
(* What the group has sent.                                                *)
(***************************************************************************)
Sequential(s) == s \in Seq(Members(s))
Payload(d)    == d.built[1].action.data
Carries(d, k) == SideBySide(d) /\ d.built[1].action.kind = k

(* Datagram j of w is the registration that the backend has when it receives datagram i. *)
Current(w, i, j) ==
    /\ j \in 1 .. i - 1 /\ Carries(w[j], "register")
    /\ \A k \in j + 1 .. i - 1 : ~Carries(w[k], "register")

Matches(w) ==
    \A i \in DOMAIN w : Carries(w[i], "set") =>
        \E j \in 1 .. i - 1 : Current(w, i, j) /\ Fits(Payload(w[i]), Payload(w[j]))

(* The group begins every action with startBuilding(), and lays out what it sets. *)
Begun(s) ==
    /\ Sequential(s.built)
    /\ \A i \in DOMAIN s.built :
          /\ s.built[i].how = "start" /\ ~s.built[i].resized
          /\ s.built[i].action.kind = "set" => Exact(s.built[i].action.data)

TelType ==
    /\ published \in 0 .. Len(Definition) /\ known \in 0 .. Len(Definition)
    /\ user_defs \in -1 .. Len(Definition)
    /\ list \in Seq(Handles) /\ bufs \in Seq(Handles) /\ ref \in [Handles -> Nat]
    /\ bld = [w \in Builders |-> bld[w]] /\ Sequential(wire)

AllBegun ==
    Begun(bld[Group]) /\ \A i \in DOMAIN wire : Begun(wire[i]) /\ wire[i].built # << >>

Registration(b, r) == [ids |-> [i \in DOMAIN b |-> r[b[i]]], size |-> ExpectedSize(b)]

(* A prepared group is registered with what it will send. *)
Announced ==
    prepared => \E j \in 1 .. Len(wire) :
        Current(wire, Len(wire) + 1, j) /\ Payload(wire[j]) = Registration(bufs, ref)

TelInv == TelType /\ Sendable(bufs, ref) /\ AllBegun /\ Announced /\ Matches(wire)

(* What Append does to any sequence. *)
LEMMA AppendAny ==
    ASSUME NEW s, Sequential(s), NEW x
    PROVE  /\ Sequential(Append(s, x)) /\ Append(s, x) # << >>
           /\ Len(s) \in Nat /\ Len(Append(s, x)) = Len(s) + 1
           /\ DOMAIN s = 1 .. Len(s) /\ DOMAIN Append(s, x) = 1 .. Len(s) + 1
           /\ Append(s, x)[Len(s) + 1] = x
           /\ \A i \in 1 .. Len(s) : Append(s, x)[i] = s[i]
  <1> DEFINE S == Members(s) \cup {x}
             t == Append(s, x)
  <1>1. s \in Seq(S)
    <2>1. s \in Seq(Members(s))
      BY DEF Sequential
    <2> HIDE DEF S
    <2>2. Members(s) \subseteq S
      BY DEF S
    <2> QED
      BY <2>1, <2>2, SeqDef
  <1>2. x \in S
    OBVIOUS
  <1> HIDE DEF S
  <1>3. /\ t \in Seq(S) /\ Len(s) \in Nat /\ Len(t) = Len(s) + 1 /\ t # << >>
        /\ DOMAIN s = 1 .. Len(s) /\ DOMAIN t = 1 .. Len(s) + 1
        /\ t[Len(s) + 1] = x /\ \A i \in 1 .. Len(s) : t[i] = s[i]
    BY <1>1, <1>2
  <1> HIDE DEF t
  <1>4. \A i \in 1 .. Len(s) + 1 : t[i] \in Members(t)
    BY <1>3 DEF Members
  <1>5. t \in [1 .. Len(s) + 1 -> Members(t)]
    <2>1. t = [i \in 1 .. Len(s) + 1 |-> t[i]]
      BY <1>3
    <2> QED
      BY <1>4, <2>1
  <1>6. t \in Seq(Members(t))
    <2>1. Len(s) + 1 \in Nat
      BY <1>3
    <2> QED
      BY <1>5, <2>1, SeqDef
  <1> QED
    BY <1>3, <1>6 DEF Sequential, t

(* startBuilding() and finalize() append one action; it is the first one when they leave a
   datagram whose actions are side by side. *)
LEMMA BegunStep ==
    ASSUME NEW s, Begun(s), NEW a, NEW n, a.kind = "set" => Exact(a.data)
    PROVE  LET d == finalize(startBuilding(s, a, n)) IN
           /\ Begun(d) /\ d.built # << >>
           /\ SideBySide(d) => d.built[1].action = a
           /\ s.built = << >> => SideBySide(d)
  <1> DEFINE d == finalize(startBuilding(s, a, n))
             e == Entry(s.size, "start", a, n)
             m == Len(s.built)
  <1>1. d.built = Append(s.built, e)
    BY DEF finalize, startBuilding, Extend
  <1>2. e.how = "start" /\ e.action = a /\ e.resized = FALSE
    BY DEF Entry
  <1> HIDE DEF d, e
  <1>3. /\ Sequential(d.built) /\ d.built # << >> /\ m \in Nat
        /\ DOMAIN s.built = 1 .. m /\ DOMAIN d.built = 1 .. m + 1 /\ Len(d.built) = m + 1
        /\ d.built[m + 1] = e /\ \A i \in 1 .. m : d.built[i] = s.built[i]
    BY <1>1, AppendAny DEF Begun
  <1>4. \A i \in DOMAIN d.built : i = m + 1 \/ (i \in DOMAIN s.built /\ d.built[i] = s.built[i])
    BY <1>3
  <1>5. Begun(d)
    BY <1>2, <1>3, <1>4 DEF Begun
  <1>6. SideBySide(d) => d.built[1].action = a
    <2>1. m + 1 \in DOMAIN d.built
      BY <1>3
    <2> QED
      BY <1>2, <1>3, <2>1 DEF SideBySide
  <1>7. s.built = << >> => SideBySide(d)
    <2>1. s.built = << >> => m = 0
      OBVIOUS
    <2>2. s.built = << >> => \A i \in DOMAIN d.built : i = 1 /\ i = Len(d.built)
      BY <1>3, <2>1
    <2> QED
      BY <2>2 DEF SideBySide
  <1> QED
    BY <1>3, <1>5, <1>6, <1>7 DEF d

(* One more datagram. *)
LEMMA MatchesAppend ==
    ASSUME NEW w, Sequential(w), NEW d
    PROVE  LET n == Len(w)
               t == Append(w, d)
           IN  /\ \A i \in 1 .. n + 1, j \in Int : Current(w, i, j) => Current(t, i, j) /\ t[j] = w[j]
               /\ ~Carries(d, "register") =>
                     \A j \in Int : Current(w, n + 1, j) => Current(t, n + 2, j)
               /\ Carries(d, "register") => Current(t, n + 2, n + 1)
               /\ (/\ Matches(w)
                   /\ Carries(d, "set") =>
                        \E j \in 1 .. n : Current(w, n + 1, j) /\ Fits(Payload(d), Payload(w[j])))
                  => Matches(t)
  <1> DEFINE n == Len(w)
             t == Append(w, d)
  <1>1. /\ n \in Nat /\ DOMAIN w = 1 .. n /\ DOMAIN t = 1 .. n + 1
        /\ t[n + 1] = d /\ \A i \in 1 .. n : t[i] = w[i]
    BY AppendAny
  <1> HIDE DEF n, t
  <1>2. ASSUME NEW i \in 1 .. n + 1, NEW j \in Int, Current(w, i, j)
        PROVE  Current(t, i, j) /\ t[j] = w[j]
    <2>1. \A k \in 1 .. i - 1 : k \in 1 .. n
      BY <1>1
    <2>2. j \in 1 .. i - 1 /\ \A k \in j + 1 .. i - 1 : k \in 1 .. i - 1
      BY <1>2 DEF Current
    <2>3. t[j] = w[j] /\ \A k \in j + 1 .. i - 1 : t[k] = w[k]
      BY <1>1, <2>1, <2>2
    <2> QED
      BY <1>2, <2>3 DEF Current
  <1>3. ASSUME ~Carries(d, "register"), NEW j \in Int, Current(w, n + 1, j)
        PROVE  Current(t, n + 2, j)
    <2>1. Current(t, n + 1, j)
      BY <1>1, <1>2, <1>3
    <2>2. j \in 1 .. (n + 2) - 1
      BY <1>1, <2>1 DEF Current
    <2>3. \A k \in j + 1 .. (n + 2) - 1 : k = n + 1 \/ k \in j + 1 .. (n + 1) - 1
      BY <1>1
    <2>4. \A k \in j + 1 .. (n + 2) - 1 : ~Carries(t[k], "register")
      BY <1>1, <1>3, <2>1, <2>3 DEF Current
    <2> QED
      BY <2>1, <2>2, <2>4 DEF Current
  <1>4. ASSUME Carries(d, "register") PROVE Current(t, n + 2, n + 1)
    <2>1. n + 1 \in 1 .. (n + 2) - 1 /\ \A k \in (n + 1) + 1 .. (n + 2) - 1 : FALSE
      BY <1>1
    <2> QED
      BY <1>1, <1>4, <2>1 DEF Current
  <1>5. ASSUME Matches(w),
               Carries(d, "set") =>
                   \E j \in 1 .. n : Current(w, n + 1, j) /\ Fits(Payload(d), Payload(w[j])),
               NEW i \in DOMAIN t, Carries(t[i], "set")
        PROVE  \E j \in 1 .. i - 1 : Current(t, i, j) /\ Fits(Payload(t[i]), Payload(t[j]))
    <2>1. CASE i \in 1 .. n
      <3>1. t[i] = w[i] /\ i \in DOMAIN w /\ i \in 1 .. n + 1
        BY <1>1, <2>1
      <3>2. PICK j \in 1 .. i - 1 : Current(w, i, j) /\ Fits(Payload(w[i]), Payload(w[j]))
        BY <1>5, <3>1 DEF Matches
      <3>3. Current(t, i, j) /\ t[j] = w[j]
        BY <1>2, <3>1, <3>2
      <3> QED
        BY <3>1, <3>2, <3>3
    <2>2. CASE i = n + 1
      <3>1. PICK j \in 1 .. n : Current(w, n + 1, j) /\ Fits(Payload(d), Payload(w[j]))
        BY <1>1, <1>5, <2>2
      <3>2. j \in Int /\ n + 1 \in 1 .. n + 1 /\ j \in 1 .. (n + 1) - 1
        BY <1>1
      <3>3. Current(t, n + 1, j) /\ t[j] = w[j]
        BY <1>2, <3>1, <3>2
      <3> QED
        BY <1>1, <2>2, <3>1, <3>2, <3>3
    <2> QED
      BY <1>1, <2>1, <2>2
  <1> QED
    BY <1>2, <1>3, <1>4, <1>5 DEF Matches, n, t

(* The empty buffer holds no action. *)
LEMMA EmptyBegun == Begun(Empty) /\ Empty.built = << >>
  <1>1. Empty.built = << >>
    BY DEF Empty
  <1>2. << >> \in Seq(Members(<< >>)) /\ DOMAIN << >> = {}
    OBVIOUS
  <1> QED
    BY <1>1, <1>2 DEF Begun, Sequential

(* One action built and sent in a call of the group. *)
LEMMA SendKeeps ==
    ASSUME TelInv, NEW s, Begun(s), NEW a, NEW n, NEW o, BuildAndSend(Group, s, a, n, o),
           a.kind = "set" => /\ Exact(a.data)
                             /\ \E j \in 1 .. Len(wire) : /\ Current(wire, Len(wire) + 1, j)
                                                          /\ Fits(a.data, Payload(wire[j]))
    PROVE  /\ AllBegun' /\ Matches(wire') /\ Sequential(wire') /\ bld' = [w \in Builders |-> bld'[w]]
           /\ a.kind # "register" =>
                 \A j \in 1 .. Len(wire) : Current(wire, Len(wire) + 1, j) =>
                    /\ j \in 1 .. Len(wire') /\ Current(wire', Len(wire') + 1, j)
                    /\ wire'[j] = wire[j]
           /\ o = "ok" /\ a.kind = "register" /\ s.built = << >> =>
                 \E j \in 1 .. Len(wire') :
                    Current(wire', Len(wire') + 1, j) /\ Payload(wire'[j]) = a.data
  <1> DEFINE d == finalize(startBuilding(s, a, n))
             m == Len(wire)
  <1>1. /\ Begun(d) /\ d.built # << >>
        /\ SideBySide(d) => d.built[1].action = a
        /\ s.built = << >> => SideBySide(d)
    BY BegunStep
  <1>2. /\ wire' = IF o = "ok" THEN Append(wire, d) ELSE wire
        /\ bld' = [bld EXCEPT ![Group] = IF o = "would_block" THEN d ELSE Empty]
    BY DEF BuildAndSend, Put, reset
  <1>3. /\ bld = [w \in Builders |-> bld[w]] /\ Sequential(wire) /\ Matches(wire)
        /\ \A i \in DOMAIN wire : Begun(wire[i]) /\ wire[i].built # << >>
    BY DEF TelInv, TelType, AllBegun
  <1> HIDE DEF d, m
  <1>4. Begun(bld'[Group]) /\ bld' = [w \in Builders |-> bld'[w]]
    <2>1. Begun(IF o = "would_block" THEN d ELSE Empty)
      BY <1>1, EmptyBegun
    <2>2. Group \in Builders
      BY TelemetryAssumption
    <2>3. PICK x : x = (IF o = "would_block" THEN d ELSE Empty)
      OBVIOUS
    <2>4. bld'[Group] = x /\ bld' = [w \in Builders |-> bld'[w]]
      BY <1>2, <1>3, <2>2, <2>3
    <2> QED
      BY <2>1, <2>3, <2>4
  <1>5. CASE o # "ok"
    <2>1. wire' = wire
      BY <1>2, <1>5
    <2> QED
      BY <1>3, <1>4, <1>5, <2>1 DEF AllBegun
  <1>6. CASE o = "ok"
    <2>1. wire' = Append(wire, d)
      BY <1>2, <1>6
    <2>2. /\ m \in Nat /\ Len(wire') = m + 1 /\ Sequential(wire') /\ wire'[m + 1] = d
          /\ DOMAIN wire = 1 .. m /\ DOMAIN wire' = 1 .. m + 1
          /\ \A i \in 1 .. m : wire'[i] = wire[i]
      BY <1>3, <2>1, AppendAny DEF m
    <2>3. Carries(d, "set") => a.kind = "set" /\ Payload(d) = a.data
      BY <1>1 DEF Carries, Payload
    <2>4. Carries(d, "register") => a.kind = "register"
      BY <1>1 DEF Carries
    <2>5. /\ ~Carries(d, "register") =>
                \A j \in Int : Current(wire, m + 1, j) => Current(wire', m + 2, j)
          /\ Carries(d, "register") => Current(wire', m + 2, m + 1)
      BY <1>3, <2>1, MatchesAppend DEF m
    <2>6. Matches(wire')
      <3>1. Carries(d, "set") =>
              \E j \in 1 .. m : Current(wire, m + 1, j) /\ Fits(Payload(d), Payload(wire[j]))
        BY <2>3 DEF m
      <3> QED
        BY <1>3, <2>1, <3>1, MatchesAppend DEF m
    <2>7. AllBegun'
      <3>1. \A i \in DOMAIN wire' : i = m + 1 \/ i \in DOMAIN wire
        BY <2>2
      <3>2. \A i \in DOMAIN wire' : Begun(wire'[i]) /\ wire'[i].built # << >>
        BY <1>1, <1>3, <2>2, <3>1
      <3> QED
        BY <1>4, <3>2 DEF AllBegun
    <2>8. Len(wire') + 1 = m + 2 /\ \A j \in 1 .. m : j \in 1 .. Len(wire') /\ j \in Int
      BY <2>2
    <2>9. ASSUME a.kind # "register", NEW j \in 1 .. m, Current(wire, m + 1, j)
          PROVE  /\ j \in 1 .. Len(wire') /\ Current(wire', Len(wire') + 1, j)
                 /\ wire'[j] = wire[j]
      <3>1. Current(wire', m + 2, j)
        BY <2>4, <2>5, <2>8, <2>9
      <3> QED
        BY <2>2, <2>8, <3>1
    <2>10. ASSUME a.kind = "register", s.built = << >>
           PROVE  \E j \in 1 .. Len(wire') :
                     Current(wire', Len(wire') + 1, j) /\ Payload(wire'[j]) = a.data
      <3>1. Carries(d, "register") /\ Payload(d) = a.data
        BY <1>1, <2>10 DEF Carries, Payload
      <3>2. m + 1 \in 1 .. Len(wire')
        BY <2>2
      <3> QED
        BY <2>2, <2>5, <2>8, <3>1, <3>2
    <2> QED
      BY <1>4, <2>2, <2>6, <2>7, <2>9, <2>10 DEF m
  <1> QED
    BY <1>5, <1>6

(* What a prepared group sends fits what it has registered. *)
LEMMA FitsNow ==
    ASSUME bufs \in Seq(Handles), Sendable(bufs, ref), NEW v
    PROVE  Fits(SetValues(v).data, Registration(bufs, ref))
  <1> DEFINE d == SetValues(v).data
             g == Registration(bufs, ref)
  <1>1. PICK n \in Nat : n = Len(bufs) /\ DOMAIN bufs = 1 .. n
    BY LenProperties
  <1>2. /\ d.of = [i \in 1 .. n |-> [h |-> bufs[i], val |-> v[bufs[i]]]]
        /\ d.size = ExpectedSize(bufs) + 4
    BY <1>1 DEF SetValues, Action
  <1>3. g.ids = [i \in 1 .. n |-> ref[bufs[i]]] /\ g.size = ExpectedSize(bufs)
    BY <1>1 DEF Registration
  <1> HIDE DEF d, g
  <1>4. Len(d.of) = n /\ Len(g.ids) = n /\ DOMAIN g.ids = 1 .. n
    BY <1>2, <1>3
  <1>5. \A k, m \in DOMAIN g.ids : g.ids[k] = g.ids[m] => k = m
    BY <1>1, <1>3, <1>4 DEF Sendable
  <1>6. ASSUME NEW k \in DOMAIN g.ids
        PROVE  \E i \in DOMAIN Definition :
                  Definition[i] = [id |-> g.ids[k], name |-> Handle[d.of[k].h].name,
                              class |-> Handle[d.of[k].h].class]
    <2>1. k \in 1 .. n /\ g.ids[k] = ref[bufs[k]] /\ d.of[k].h = bufs[k]
      BY <1>2, <1>3, <1>4
    <2> QED
      BY <1>1, <2>1 DEF Sendable, DefinedAs
  <1> QED
    BY <1>2, <1>3, <1>4, <1>5, <1>6 DEF Fits, d, g

(* configure(): what it resolves, sorts and registers can be sent. *)
LEMMA ConfigureStep ==
    ASSUME TelInv, NEW o, configure(o)
    PROVE  TelInv'
  <1>1. /\ user_defs \in -1 .. Len(Definition) /\ list \in Seq(Handles) /\ ref \in [Handles -> Nat]
        /\ published \in 0 .. Len(Definition) /\ known \in 0 .. Len(Definition)
        /\ bld = [w \in Builders |-> bld[w]] /\ Sequential(wire) /\ AllBegun /\ Matches(wire)
    BY DEF TelInv, TelType
  <1>2. ref' = [h \in Handles |-> IF h \in Members(list) THEN find(h) ELSE ref[h]]
    BY DEF configure
  <1>3. PICK q \in Sorted(list, ref') : list' = Unique(q, ref')
    BY DEF configure
  <1>4. bufs' = Resolved(list', ref')
    BY DEF configure
  <1>5. \A h \in Handles : find(h) \in Nat /\ (find(h) # 0 => DefinedAs(h, find(h)))
    BY <1>1, FindFacts
  <1>6. ref' \in [Handles -> Nat]
    BY <1>1, <1>2, <1>5
  <1>7. \A h \in Members(list) : h \in Handles
    BY <1>1, ElementOfSeq, LenProperties DEF Members
  <1>8. \A h \in Members(list) : ref'[h] # 0 => DefinedAs(h, ref'[h])
    BY <1>2, <1>5, <1>7
  <1>9. PICK r : r = ref'
    OBVIOUS
  <1>10. list' \in Seq(Handles) /\ bufs' \in Seq(Handles) /\ Sendable(bufs', ref')
    <2>1. r \in [Handles -> Nat] /\ q \in Sorted(list, r)
          /\ \A h \in Members(list) : r[h] # 0 => DefinedAs(h, r[h])
      BY <1>3, <1>6, <1>8, <1>9
    <2>2. /\ Unique(q, r) \in Seq(Handles)
          /\ Resolved(Unique(q, r), r) \in Seq(Handles)
          /\ Sendable(Resolved(Unique(q, r), r), r)
      BY <1>1, <2>1, ConfigureFacts
    <2> QED
      BY <1>3, <1>4, <1>9, <2>2
  <1>11. published' = published /\ known' = known /\ user_defs' = user_defs
    BY DEF configure
  <1>12. /\ AllBegun' /\ Matches(wire') /\ Sequential(wire') /\ bld' = [w \in Builders |-> bld'[w]]
         /\ Announced'
    <2>1. CASE session.id = 0
      <3>1. prepared' = FALSE /\ wire' = wire /\ bld' = [bld EXCEPT ![Group] = Empty]
        BY <2>1 DEF configure, Put
      <3>2. bld'[Group] = Empty /\ bld' = [w \in Builders |-> bld'[w]]
        BY <1>1, <3>1, TelemetryAssumption
      <3> QED
        BY <1>1, <3>1, <3>2, EmptyBegun DEF AllBegun, Announced
    <2>2. CASE session.id # 0
      <3> DEFINE a == RegisterAction(bufs', ref')
      <3>1. /\ BuildAndSend(Group, Empty, a, 6 + 2 * Len(bufs'), o)
            /\ prepared' = (o = "ok")
        BY <2>2 DEF configure
      <3>2. a.kind = "register" /\ a.data = Registration(bufs', ref')
        BY DEF RegisterAction, Action, Registration
      <3> HIDE DEF a
      <3>3. PICK x : x = 6 + 2 * Len(bufs')
        OBVIOUS
      <3>4. PICK b : b = a
        OBVIOUS
      <3>5. BuildAndSend(Group, Empty, b, x, o) /\ b.kind = "register"
        BY <3>1, <3>2, <3>3, <3>4
      <3>6. /\ AllBegun' /\ Matches(wire') /\ Sequential(wire') /\ bld' = [w \in Builders |-> bld'[w]]
            /\ o = "ok" => \E j \in 1 .. Len(wire') :
                              Current(wire', Len(wire') + 1, j) /\ Payload(wire'[j]) = b.data
        BY <3>5, SendKeeps, EmptyBegun
      <3> QED
        BY <3>1, <3>2, <3>4, <3>6 DEF Announced, Registration
    <2> QED
      BY <2>1, <2>2
  <1> QED
    BY <1>1, <1>6, <1>10, <1>11, <1>12 DEF TelInv, TelType

(* send(): a value for every telemetry that the last registration names. *)
LEMMA SendStep ==
    ASSUME TelInv, NEW v \in [Members(bufs) -> BOOLEAN], NEW o, send(v, o)
    PROVE  TelInv'
  <1>1. /\ UNCHANGED <<published, known, user_defs, list, ref, bufs, prepared>> /\ prepared
        /\ BuildAndSend(Group, bld[Group], SetValues(v), ExpectedSize(bufs) + 4, o)
    BY DEF send, groupVars
  <1>2. bufs \in Seq(Handles) /\ Sendable(bufs, ref) /\ Begun(bld[Group])
    BY DEF TelInv, TelType, AllBegun
  <1>3. PICK j \in 1 .. Len(wire) :
            Current(wire, Len(wire) + 1, j) /\ Payload(wire[j]) = Registration(bufs, ref)
    BY <1>1 DEF TelInv, Announced
  <1>4. PICK a, s, n : a = SetValues(v) /\ s = bld[Group] /\ n = ExpectedSize(bufs) + 4
    OBVIOUS
  <1>5. a.kind = "set"
    BY <1>4 DEF SetValues, Action
  <1>6. Exact(a.data) /\ Fits(a.data, Payload(wire[j]))
    BY <1>2, <1>3, <1>4, PacketExact, FitsNow
  <1>7. BuildAndSend(Group, s, a, n, o) /\ Begun(s)
    BY <1>1, <1>2, <1>4
  <1>8. /\ AllBegun' /\ Matches(wire') /\ Sequential(wire') /\ bld' = [w \in Builders |-> bld'[w]]
        /\ \A i \in 1 .. Len(wire) : Current(wire, Len(wire) + 1, i) =>
              /\ i \in 1 .. Len(wire') /\ Current(wire', Len(wire') + 1, i)
              /\ wire'[i] = wire[i]
    BY <1>3, <1>5, <1>6, <1>7, SendKeeps
  <1>9. Announced'
    <2>1. Registration(bufs, ref)' = Registration(bufs, ref)
      BY <1>1 DEF Registration, ExpectedSize, CountOf
    <2> QED
      BY <1>3, <1>8, <2>1 DEF Announced
  <1>10. Sendable(bufs', ref')
    BY <1>1, <1>2
  <1> QED
    BY <1>1, <1>8, <1>9, <1>10 DEF TelInv, TelType

(* disable(): the group is not prepared any more, whatever becomes of the datagram. *)
LEMMA DisableStep ==
    ASSUME TelInv, NEW o, disable(o)
    PROVE  TelInv'
  <1>1. /\ UNCHANGED <<published, known, user_defs, list, ref, bufs>> /\ prepared' = FALSE
        /\ BuildAndSend(Group, bld[Group], Action("register", [ids |-> << >>, size |-> 0]), 6, o)
    BY DEF disable
  <1>2. Begun(bld[Group]) /\ Sendable(bufs, ref)
    BY DEF TelInv, AllBegun
  <1>3. PICK a, s : a = Action("register", [ids |-> << >>, size |-> 0]) /\ s = bld[Group]
    OBVIOUS
  <1>4. a.kind = "register"
    BY <1>3 DEF Action
  <1>5. BuildAndSend(Group, s, a, 6, o) /\ Begun(s)
    BY <1>1, <1>2, <1>3
  <1>6. /\ AllBegun' /\ Matches(wire') /\ Sequential(wire') /\ bld' = [w \in Builders |-> bld'[w]]
    BY <1>4, <1>5, SendKeeps
  <1>7. Sendable(bufs', ref') /\ Announced'
    BY <1>1, <1>2 DEF Announced
  <1> QED
    BY <1>1, <1>6, <1>7 DEF TelInv, TelType

(* Steps that send nothing, and leave the group as prepared as it was or less. *)
LEMMA QuietStep ==
    ASSUME TelInv, UNCHANGED <<bld, wire, ref, bufs>>, prepared' => prepared, TelType'
    PROVE  TelInv'
  <1>1. Sendable(bufs', ref') /\ AllBegun' /\ Matches(wire')
    BY DEF TelInv, AllBegun
  <1>2. Registration(bufs, ref)' = Registration(bufs, ref)
    BY DEF Registration, ExpectedSize, CountOf
  <1>3. Announced'
    BY <1>2 DEF TelInv, Announced
  <1> QED
    BY <1>1, <1>3 DEF TelInv

(* The inductive invariant: what the group holds can be sent, a prepared group is the one
   that the backend knows, and every set datagram fits the registration before it. *)
LEMMA TelStep == TelInv /\ [TelNext]_telVars => TelInv'
  <1> SUFFICES ASSUME TelInv, [TelNext]_telVars PROVE TelInv'
    OBVIOUS
  <1>0. TelType
    BY DEF TelInv
  <1>1. ASSUME Publish PROVE TelInv'
    <2>1. /\ published' = published + 1 /\ published < Len(Definition)
          /\ UNCHANGED <<bld, wire, known, user_defs, list, ref, bufs, prepared>>
      BY <1>1 DEF Publish, actionVars, groupVars
    <2>2. published' \in 0 .. Len(Definition)
      BY <1>0, <2>1, TableFacts DEF TelType
    <2> QED
      BY <1>0, <2>1, <2>2, QuietStep DEF TelType
  <1>2. ASSUME updateDefinitions PROVE TelInv'
    <2>1. /\ known' = Min({published, MaxDefs})
          /\ UNCHANGED <<bld, wire, published, user_defs, list, ref, bufs, prepared>>
      BY <1>2 DEF updateDefinitions, actionVars, groupVars
    <2>2. published \in Nat /\ MaxDefs \in Nat /\ published <= Len(Definition) /\ Len(Definition) \in Nat
      BY <1>0, TelemetryAssumption, TableFacts DEF TelType
    <2>3. \E x \in {published, MaxDefs} : \A y \in {published, MaxDefs} : x <= y
      BY <2>2
    <2>4. Min({published, MaxDefs}) \in {published, MaxDefs} /\ Min({published, MaxDefs}) <= published
      BY <2>3 DEF Min
    <2>5. known' \in 0 .. Len(Definition)
      BY <2>1, <2>2, <2>4
    <2> QED
      BY <1>0, <2>1, <2>5, QuietStep DEF TelType
  <1>3. ASSUME getDefinitions PROVE TelInv'
    <2>1. /\ user_defs' = known /\ UNCHANGED <<bld, wire, published, known, list, ref, bufs, prepared>>
      BY <1>3 DEF getDefinitions, actionVars, groupVars
    <2>2. user_defs' \in -1 .. Len(Definition)
      BY <1>0, <2>1, TableFacts DEF TelType
    <2> QED
      BY <1>0, <2>1, <2>2, QuietStep DEF TelType
  <1>4. ASSUME DestroyGroup PROVE TelInv'
    <2>1. UNCHANGED <<bld, wire, published, known, user_defs, list, ref, bufs, prepared>>
      BY <1>4 DEF DestroyGroup, actionVars
    <2> QED
      BY <1>0, <2>1, QuietStep DEF TelType
  <1>5. ASSUME NEW l \in Lists, set(l) PROVE TelInv'
    <2>1. /\ list' = l /\ prepared' = FALSE
          /\ UNCHANGED <<bld, wire, published, known, user_defs, ref, bufs>>
      BY <1>5 DEF set, actionVars
    <2>2. list' \in Seq(Handles)
      BY <2>1, TelemetryAssumption
    <2> QED
      BY <1>0, <2>1, <2>2, QuietStep DEF TelType
  <1>6. ASSUME NEW h \in Addable, add(h) PROVE TelInv'
    <2>1. /\ list' = Append(list, h) /\ prepared' = FALSE
          /\ UNCHANGED <<bld, wire, published, known, user_defs, ref, bufs>>
      BY <1>6 DEF add, actionVars
    <2>2. list' \in Seq(Handles)
      BY <1>0, <2>1, TelemetryAssumption, AppendProperties DEF TelType
    <2> QED
      BY <1>0, <2>1, <2>2, QuietStep DEF TelType
  <1>7. ASSUME (Register \/ CloseSession) /\ UNCHANGED <<published, known, user_defs, groupVars>>
        PROVE  TelInv'
    <2>1. UNCHANGED <<bld, wire, published, known, user_defs, list, ref, bufs, prepared>>
      BY <1>7 DEF Register, CloseSession, groupVars
    <2> QED
      BY <1>0, <2>1, QuietStep DEF TelType
  <1>8. ASSUME UNCHANGED telVars PROVE TelInv'
    <2>1. UNCHANGED <<bld, wire, published, known, user_defs, list, ref, bufs, prepared>>
      BY <1>8 DEF telVars, actionVars, groupVars
    <2> QED
      BY <1>0, <2>1, QuietStep DEF TelType
  <1>9. ASSUME NEW o \in {"ok", "error"}, configure(o) \/ disable(o) PROVE TelInv'
    BY <1>9, ConfigureStep, DisableStep
  <1>10. ASSUME NEW v \in [Members(bufs) -> BOOLEAN], NEW o \in Outcomes, send(v, o) PROVE TelInv'
    BY <1>10, SendStep
  <1> QED
    BY <1>1, <1>2, <1>3, <1>4, <1>5, <1>6, <1>7, <1>8, <1>9, <1>10 DEF TelNext

(* The group starts with nothing registered. *)
LEMMA TelInvInit == TelInit => TelInv
  <1> SUFFICES ASSUME TelInit PROVE TelInv
    OBVIOUS
  <1>1. /\ bld = [w \in Builders |-> Empty] /\ wire = << >>
        /\ published = Initial /\ known = 0 /\ user_defs = -1 /\ prepared = FALSE
        /\ list = << >> /\ bufs = << >> /\ ref = [h \in Handles |-> 0]
    BY DEF TelInit, ActionInit
  <1>2. << >> \in Seq(Members(<< >>)) /\ << >> \in Seq(Handles) /\ DOMAIN << >> = {}
    OBVIOUS
  <1>3. TelType
    <2>1. Initial \in 0 .. Len(Definition) /\ Len(Definition) \in Nat
      BY TelemetryAssumption, TableFacts
    <2>2. known \in 0 .. Len(Definition) /\ user_defs \in -1 .. Len(Definition) /\ ref \in [Handles -> Nat]
      BY <1>1, <2>1
    <2>3. bld = [w \in Builders |-> bld[w]]
      BY <1>1
    <2> QED
      BY <1>1, <1>2, <2>1, <2>2, <2>3 DEF TelType, Sequential
  <1>4. Sendable(bufs, ref) /\ Announced /\ Matches(wire)
    BY <1>1, <1>2 DEF Sendable, Announced, Matches
  <1>5. AllBegun
    BY <1>1, <1>2, EmptyBegun, TelemetryAssumption DEF AllBegun
  <1> QED
    BY <1>3, <1>4, <1>5 DEF TelInv

(* The invariant holds in every reachable state of the group, its definitions and its
   builder: telemetry.cpp. *)
THEOREM TelInvariant == TelSpec => []TelInv
  BY TelInvInit, TelStep, PTL DEF TelSpec

(* There is one registration that is current. *)
LEMMA LastOne ==
    ASSUME NEW i \in Int, NEW j \in Int, Current(wire, i, j)
    PROVE  Registered(i) = Payload(wire[j])
  <1> DEFINE before == {k \in 1 .. i - 1 : Clean(k) /\ FirstAction(k).kind = "register"}
  <1>1. \A k \in 1 .. i - 1 : k \in before <=> Carries(wire[k], "register")
    BY DEF Carries, Clean, FirstAction
  <1>2. j \in before /\ \A k \in before : k \in Int /\ k <= j
    <2>1. j \in 1 .. i - 1 /\ j \in before
      BY <1>1 DEF Current
    <2>2. \A k \in before : k \in 1 .. i - 1 /\ k \notin j + 1 .. i - 1
      BY <1>1 DEF Current
    <2>3. \A k \in before : k \in Int /\ k <= j
      BY <2>1, <2>2
    <2> QED
      BY <2>1, <2>3
  <1>3. Registered(i) = FirstAction(Max(before)).data
    BY DEF Registered
  <1> HIDE DEF before
  <1>4. Max(before) = j
    <2>1. \A x \in before : (\A y \in before : x >= y) <=> x = j
      BY <1>2
    <2> QED
      BY <1>2, <2>1 DEF Max
  <1> QED
    BY <1>3, <1>4 DEF FirstAction, Payload

(* A set datagram of TelemetryUpdateGroup::send() has the values of the telemetries that
   the backend has registered last, in their order and of their types, whatever was added,
   configured again, disabled or not sent in between. *)
THEOREM SetFitsRegistration == TelSpec => []SetMatchesRegistration
  <1>1. TelInv => SetMatchesRegistration
    <2> SUFFICES ASSUME TelInv, NEW i \in DOMAIN wire, Clean(i), FirstAction(i).kind = "set"
                 PROVE  Fits(FirstAction(i).data, Registered(i))
      BY DEF SetMatchesRegistration
    <2>1. i \in Int
      BY LenProperties DEF TelInv, TelType, Sequential
    <2>2. Carries(wire[i], "set")
      BY DEF Carries, Clean, FirstAction
    <2>3. PICK j \in 1 .. i - 1 : Current(wire, i, j) /\ Fits(Payload(wire[i]), Payload(wire[j]))
      BY <2>2 DEF TelInv, Matches
    <2>4. Registered(i) = Payload(wire[j])
      BY <2>1, <2>3, LastOne
    <2> QED
      BY <2>3, <2>4 DEF FirstAction, Payload
  <1> QED
    BY <1>1, TelInvariant, PTL

(* Every value that send() copies has a place of its own in the payload, aligned, behind
   the words of the bools and within the size that configure() has announced. *)
THEOREM SetLaidOut == TelSpec => []SetPayloadExact
  <1>1. TelInv => SetPayloadExact
    <2> SUFFICES ASSUME TelInv, NEW i \in DOMAIN wire, FirstAction(i).kind = "set"
                 PROVE  Exact(FirstAction(i).data)
      BY DEF SetPayloadExact
    <2>1. Begun(wire[i]) /\ wire[i].built # << >>
      BY DEF TelInv, AllBegun
    <2>2. 1 \in DOMAIN wire[i].built
      BY <2>1, EmptySeq, LenProperties DEF Begun, Sequential
    <2> QED
      BY <2>1, <2>2 DEF Begun, FirstAction
  <1> QED
    BY <1>1, TelInvariant, PTL
==============================================================================
