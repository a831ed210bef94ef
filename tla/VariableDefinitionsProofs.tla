--------------------- MODULE VariableDefinitionsProofs ---------------------
(***************************************************************************)
(* The copies of the variable definitions, find() on them without a lock    *)
(* and atomicCopy(), for any table, any number of users, words and writes.  *)
(***************************************************************************)
EXTENDS VariableDefinitions, SequenceTheorems, WellFoundedInduction, TLAPS

N == Len(Table)

----------------------------------------------------------------------------
(* def_chunk_ *)

\* Definitions that have been copied or skipped.
Done == IF pc \in {"fill", "overrun"} THEN processed_def_count - 1 ELSE processed_def_count

ChunkType ==
  /\ var_definition_count \in 0 .. N /\ written \in 0 .. N
  /\ pc \in {"start", "loop", "fill", "insert", "notify", "idle", "unset", "fault", "overrun"}
  /\ limit \in 0 .. N
  /\ processed_def_count \in 0 .. N /\ def_count \in 0 .. N
  /\ defs \in [Slot -> Int]

\* The copies below def_count are complete, in order, and those of the
\* definitions that have been dealt with; the one at def_count is being written.
ChunkInv ==
  /\ ChunkType
  /\ pc \in {"fill", "overrun"} => processed_def_count > 0
  /\ def_count <= Done
  /\ \A j \in 0 .. def_count - 1 : defs[j] \in 1 .. Done /\ InBounds(defs[j])
  /\ \A i \in 1 .. Done : InBounds(i) => \E j \in 0 .. def_count - 1 : defs[j] = i
  /\ \A j, k \in 0 .. def_count - 1 : j < k => defs[j] < defs[k]

\* A VariableDefinitions never shows more than has been copied, and find()
\* looks at no less than it shows.
HandleInv ==
  /\ at \in [Users -> {"idle", "scan", "spin", "copy", "check"}]
  /\ count_ \in [Users -> -1 .. N] /\ seen \in [Users -> 0 .. N]
  /\ \A u \in Users :
       /\ count_[u] <= def_count
       /\ at[u] = "scan" => /\ 0 <= count_[u] /\ count_[u] <= seen[u]
                            /\ seen[u] <= def_count

----------------------------------------------------------------------------
(* atomicCopy() *)

IsWriting(n) == (n \div 2) % 2 = 1

ArrayType ==
  /\ rev_counter \in Nat /\ value_array \in [Word -> Int]
  /\ start_rev_count \in [Users -> Nat]
  /\ buf \in [Users -> [Word -> Int]]
  /\ todo \in [Users -> SUBSET Word]
  /\ copied \in [Users -> BOOLEAN]

\* The value is whole unless the backend is writing it; a copy began when it
\* was not, and until the counter moves holds what is there.
ArrayInv ==
  /\ ArrayType
  /\ ~IsWriting(rev_counter) => \A w, x \in Word : value_array[w] = value_array[x]
  /\ \A u \in Users :
       /\ start_rev_count[u] <= rev_counter
       /\ at[u] \in {"spin", "copy", "check"} => ~copied[u]
       /\ at[u] = "check" => todo[u] = {}
       /\ at[u] \in {"copy", "check"} =>
            /\ ~IsWriting(start_rev_count[u])
            /\ rev_counter = start_rev_count[u] =>
                 \A w \in Word \ todo[u] : buf[u][w] = value_array[w]
  /\ ArrayCopyWhole

VariableInv == ChunkInv /\ HandleInv /\ ArrayInv

----------------------------------------------------------------------------

USE DEF tableVars, chunkVars, findVars, arrayVars, copyVars, vars

LEMMA TableLength == N \in Nat /\ Slot = 0 .. N
BY TableAssumption, LenProperties DEF N, Slot

LEMMA InitVariableInv == Init => VariableInv
<1> SUFFICES ASSUME Init PROVE VariableInv
  OBVIOUS
<1>1. ChunkInv
  <2>1. ChunkType /\ Done = 0 /\ pc \in {"start", "unset"} /\ def_count = 0
    BY TableLength DEF Init, ChunkType, Done, N
  <2> QED BY <2>1 DEF ChunkInv
<1>2. HandleInv
  BY TableLength DEF Init, HandleInv
<1>3. ArrayInv
  BY DEF Init, ArrayInv, ArrayType, ArrayCopyWhole, Blank
<1> QED BY <1>1, <1>2, <1>3 DEF VariableInv

(* The copies. *)

LEMMA ChunkFrame ==
  ASSUME ChunkInv, UNCHANGED <<defs, def_count, limit>>, Done' = Done,
         processed_def_count' = processed_def_count,
         pc' \in {"start", "loop", "insert", "notify", "idle", "fault"},
         UNCHANGED tableVars
  PROVE  ChunkInv'
BY DEF ChunkInv, ChunkType

LEMMA ChunkUnchanged ==
  ASSUME ChunkInv, UNCHANGED chunkVars, UNCHANGED tableVars
  PROVE  ChunkInv'
BY DEF ChunkInv, ChunkType, Done

LEMMA CopyKeepsChunk ==
  ASSUME ChunkInv, CopyDefinition
  PROVE  ChunkInv' /\ def_count' = def_count
<1>1. /\ pc = "loop" /\ processed_def_count < limit
      /\ processed_def_count' = processed_def_count + 1
      /\ defs' = [defs EXCEPT ![def_count] = -(processed_def_count + 1)]
      /\ pc' = "fill"
      /\ UNCHANGED <<tableVars, limit, def_count>>
  BY DEF CopyDefinition
<1>2. /\ def_count \in Nat /\ processed_def_count \in Nat /\ limit \in Nat /\ limit <= N
      /\ def_count <= processed_def_count /\ Done = processed_def_count
  BY <1>1, TableLength DEF ChunkInv, ChunkType, Done
<1>3. Done' = Done
  BY <1>1, <1>2 DEF Done
<1>4. /\ \A j \in 0 .. def_count - 1 : defs'[j] = defs[j]
      /\ defs' \in [Slot -> Int]
  BY <1>1, <1>2, TableLength DEF ChunkInv, ChunkType
<1>5. ChunkType' /\ processed_def_count' > 0 /\ def_count' <= Done'
  BY <1>1, <1>2, <1>3, <1>4, TableLength DEF ChunkInv, ChunkType
<1>6. /\ (\A j \in 0 .. def_count - 1 : defs[j] \in 1 .. Done /\ InBounds(defs[j]))'
      /\ (\A i \in 1 .. Done : InBounds(i) => \E j \in 0 .. def_count - 1 : defs[j] = i)'
      /\ (\A j, k \in 0 .. def_count - 1 : j < k => defs[j] < defs[k])'
  BY <1>1, <1>3, <1>4 DEF ChunkInv, InBounds
<1> QED BY <1>1, <1>5, <1>6 DEF ChunkInv

LEMMA FillKeepsChunk ==
  ASSUME ChunkInv, FillDefinition
  PROVE  ChunkInv' /\ def_count <= def_count'
<1> DEFINE i == processed_def_count
<1>1. /\ pc = "fill"
      /\ defs' = [defs EXCEPT ![def_count] = i]
      /\ InBounds(i) => def_count' = def_count + 1 /\ pc' = "insert"
      /\ ~InBounds(i) => def_count' = def_count /\ pc' = "loop"
      /\ UNCHANGED <<tableVars, limit, processed_def_count>>
  BY DEF FillDefinition, Counted
<1>2. /\ def_count \in Nat /\ i \in Nat /\ i > 0 /\ i <= N
      /\ Done = i - 1 /\ def_count <= Done
  BY <1>1, TableLength DEF ChunkInv, ChunkType, Done
<1>3. Done' = i
  BY <1>1 DEF Done
<1>4. /\ \A j \in 0 .. def_count - 1 : defs'[j] = defs[j]
      /\ defs' \in [Slot -> Int] /\ defs'[def_count] = i
  BY <1>1, <1>2, TableLength DEF ChunkInv, ChunkType
<1>5. /\ \A j \in 0 .. def_count - 1 : defs[j] \in 1 .. i - 1 /\ InBounds(defs[j])
      /\ \A k \in 1 .. i - 1 : InBounds(k) => \E j \in 0 .. def_count - 1 : defs[j] = k
      /\ \A j, k \in 0 .. def_count - 1 : j < k => defs[j] < defs[k]
  BY <1>2 DEF ChunkInv
<1>6. ChunkType' /\ def_count' <= Done' /\ pc' \in {"insert", "loop"} /\ def_count <= def_count'
  BY <1>1, <1>2, <1>3, <1>4, TableLength DEF ChunkInv, ChunkType
<1> HIDE DEF i
<1>7. CASE InBounds(i)
  <2>1. def_count' = def_count + 1
    BY <1>1, <1>7 DEF i
  <2>2. \A j \in 0 .. def_count' - 1 : j \in 0 .. def_count - 1 \/ j = def_count
    BY <1>2, <2>1
  <2>3. \A j \in 0 .. def_count' - 1 : defs'[j] \in 1 .. i /\ InBounds(defs'[j])
    <3> TAKE j \in 0 .. def_count' - 1
    <3>1. CASE j \in 0 .. def_count - 1
      BY <1>2, <1>4, <1>5, <3>1
    <3>2. CASE j = def_count
      BY <1>2, <1>4, <1>7, <3>2
    <3> QED BY <2>2, <3>1, <3>2
  <2>4. \A k \in 1 .. i : InBounds(k) => \E j \in 0 .. def_count' - 1 : defs'[j] = k
    <3> SUFFICES ASSUME NEW k \in 1 .. i, InBounds(k)
                 PROVE  \E j \in 0 .. def_count' - 1 : defs'[j] = k
      OBVIOUS
    <3>1. CASE k = i
      <4>1. def_count \in 0 .. def_count' - 1
        BY <1>2, <2>1
      <4> QED BY <1>4, <3>1, <4>1
    <3>2. CASE k # i
      <4>1. k \in 1 .. i - 1
        BY <1>2, <3>2
      <4>2. PICK j \in 0 .. def_count - 1 : defs[j] = k
        BY <1>5, <4>1
      <4>3. j \in 0 .. def_count' - 1
        BY <1>2, <2>1
      <4> QED BY <1>4, <4>2, <4>3
    <3> QED BY <3>1, <3>2
  <2>5. \A j, k \in 0 .. def_count' - 1 : j < k => defs'[j] < defs'[k]
    <3> SUFFICES ASSUME NEW j \in 0 .. def_count' - 1, NEW k \in 0 .. def_count' - 1, j < k
                 PROVE  defs'[j] < defs'[k]
      OBVIOUS
    <3>1. j \in 0 .. def_count - 1
      BY <1>2, <2>1
    <3>2. CASE k \in 0 .. def_count - 1
      BY <1>4, <1>5, <3>1, <3>2
    <3>3. CASE k = def_count
      BY <1>2, <1>4, <1>5, <3>1, <3>3
    <3> QED BY <2>2, <3>2, <3>3
  <2> QED BY <1>3, <1>6, <2>3, <2>4, <2>5 DEF ChunkInv
<1>8. CASE ~InBounds(i)
  <2>1. def_count' = def_count
    BY <1>1, <1>8 DEF i
  <2>2. \A j \in 0 .. def_count' - 1 : defs'[j] \in 1 .. i /\ InBounds(defs'[j])
    BY <1>2, <1>4, <1>5, <2>1
  <2>3. \A k \in 1 .. i : InBounds(k) => \E j \in 0 .. def_count' - 1 : defs'[j] = k
    <3> SUFFICES ASSUME NEW k \in 1 .. i, InBounds(k)
                 PROVE  \E j \in 0 .. def_count' - 1 : defs'[j] = k
      OBVIOUS
    <3>1. k \in 1 .. i - 1
      BY <1>2, <1>8
    <3>2. PICK j \in 0 .. def_count - 1 : defs[j] = k
      BY <1>5, <3>1
    <3> QED BY <1>4, <2>1, <3>2
  <2>4. \A j, k \in 0 .. def_count' - 1 : j < k => defs'[j] < defs'[k]
    BY <1>4, <1>5, <2>1
  <2> QED BY <1>3, <1>6, <2>2, <2>3, <2>4 DEF ChunkInv
<1> QED BY <1>6, <1>7, <1>8

LEMMA ChunkStep ==
  ASSUME ChunkInv, [Next]_vars
  PROVE  ChunkInv' /\ def_count <= def_count'
<1>0. def_count \in Int
  BY TableLength DEF ChunkInv, ChunkType
<1>1. CASE WriteDefinition \/ CountDefinition
  <2>1. /\ UNCHANGED chunkVars
        /\ var_definition_count' \in 0 .. N /\ written' \in 0 .. N
    BY <1>1, TableLength DEF WriteDefinition, CountDefinition, ChunkInv, ChunkType, N
  <2> QED BY <1>0, <2>1 DEF ChunkInv, ChunkType, Done
<1>2. CASE WriteArray
  BY <1>0, <1>2, ChunkUnchanged DEF WriteArray
<1>3. CASE UpdateDefinitions \/ InsertSearchMap \/ Refreshed \/ Notify
  <2>1. Done' = Done
    BY <1>3 DEF UpdateDefinitions, InsertSearchMap, Refreshed, Notify, Done
  <2> QED BY <1>0, <1>3, <2>1, ChunkFrame DEF UpdateDefinitions, InsertSearchMap, Refreshed, Notify
<1>4. CASE RefreshDefinitions
  <2>1. /\ UNCHANGED <<tableVars, defs, def_count, processed_def_count>>
        /\ pc = "start" /\ pc' \in {"loop", "idle"}
        /\ limit' \in {var_definition_count, MaxCount} /\ limit' <= var_definition_count
    BY <1>4, BoundsAssumption, TableLength DEF RefreshDefinitions, ChunkInv, ChunkType
  <2>2. limit' \in 0 .. N /\ Done' = Done
    BY <2>1, BoundsAssumption, TableLength DEF ChunkInv, ChunkType, Done
  <2> QED BY <1>0, <2>1, <2>2 DEF ChunkInv, ChunkType
<1>5. CASE CopyDefinition
  BY <1>0, <1>5, CopyKeepsChunk
<1>6. CASE FillDefinition
  BY <1>6, FillKeepsChunk
<1>7. ASSUME NEW u \in Users, UserNext(u) PROVE ChunkInv' /\ def_count <= def_count'
  <2>1. CASE DefinitionsUnset(u)
    <3>1. Done' = Done
      BY <2>1 DEF DefinitionsUnset, Done
    <3> QED BY <1>0, <2>1, <3>1, ChunkFrame DEF DefinitionsUnset
  <2>2. CASE ~DefinitionsUnset(u)
    <3>1. UNCHANGED chunkVars /\ UNCHANGED tableVars
      BY <1>7, <2>2 DEF UserNext, Definitions, Find, Scan, AtomicCopy, CopyStep, ReadCounter,
                        CheckCounter, CopyWord
    <3> QED BY <1>0, <3>1, ChunkUnchanged
  <2> QED BY <2>1, <2>2
<1>8. CASE UNCHANGED vars
  BY <1>0, <1>8, ChunkUnchanged
<1>9. CASE Overrun
  <2>1. /\ UNCHANGED <<tableVars, defs, def_count, limit>> /\ pc' = "overrun"
        /\ Done' = Done /\ processed_def_count' \in 1 .. N
    BY <1>9, TableLength DEF Overrun, ChunkInv, ChunkType, Done
  <2> QED BY <1>0, <2>1 DEF ChunkInv, ChunkType
<1> QED
  BY <1>1, <1>2, <1>3, <1>4, <1>5, <1>6, <1>7, <1>8, <1>9 DEF Next, BackendNext, Refresh

----------------------------------------------------------------------------
(* The handles, and find(). *)

LEMMA HandleStep ==
  ASSUME ChunkInv, HandleInv, [Next]_vars
  PROVE  HandleInv'
<1>0. /\ def_count \in 0 .. N /\ def_count' \in 0 .. N /\ def_count <= def_count'
      /\ N \in Nat
  BY ChunkStep, TableLength DEF ChunkInv, ChunkType
<1>1. ASSUME UNCHANGED <<at, count_, seen>> PROVE HandleInv'
  BY <1>0, <1>1 DEF HandleInv
<1>2. CASE BackendNext \/ UpdateDefinitions \/ Refresh \/ UNCHANGED vars
  BY <1>1, <1>2 DEF BackendNext, WriteDefinition, CountDefinition, WriteArray,
       UpdateDefinitions, Refresh, RefreshDefinitions, CopyDefinition, Overrun, FillDefinition,
       InsertSearchMap, Refreshed, Notify
<1>3. ASSUME NEW u \in Users, Definitions(u) \/ DefinitionsUnset(u) PROVE HandleInv'
  BY <1>0, <1>1, <1>3 DEF Definitions, DefinitionsUnset, HandleInv
<1>4. ASSUME NEW u \in Users, NEW k \in Key, Find(u, k) PROVE HandleInv'
  BY <1>0, <1>4 DEF Find, Goto, HandleInv
<1>5. ASSUME NEW u \in Users, Scan(u) PROVE HandleInv'
  BY <1>0, <1>5 DEF Scan, Goto, HandleInv
<1>6. ASSUME NEW u \in Users, AtomicCopy(u) \/ CopyStep(u) PROVE HandleInv'
  <2>1. /\ UNCHANGED <<count_, seen>>
        /\ \E p \in {"idle", "spin", "copy", "check"} : at' = [at EXCEPT ![u] = p]
    BY <1>6 DEF AtomicCopy, CopyStep, ReadCounter, CheckCounter, CopyWord, Goto, Again
  <2> QED BY <1>0, <2>1 DEF HandleInv
<1> QED BY <1>2, <1>3, <1>4, <1>5, <1>6 DEF Next, UserNext

LEMMA LeastOf ==
  ASSUME NEW H \in SUBSET Nat, H # {}
  PROVE  \E j \in H : \A h \in H : j <= h
<1> DEFINE R == OpToRel(<, Nat)
<1>1. IsWellFoundedOn(R, Nat)
  BY NatLessThanWellFounded
<1>2. \A x, y \in Nat : <<x, y>> \in R <=> x < y
  BY DEF OpToRel
<1> HIDE DEF R
<1>3. PICK x \in H : \A y \in H : ~(<<y, x>> \in R)
  BY <1>1, WFMin
<1>4. \A h \in H : x <= h
  <2> TAKE h \in H
  <2>1. x \in Nat /\ h \in Nat /\ ~(h < x)
    BY <1>2, <1>3
  <2> QED BY <2>1
<1> QED BY <1>4

\* The first match among fewer copies is the first match among more of them.
LEMMA FirstMatchGrows ==
  ASSUME NEW m \in Nat, NEW n \in Nat, m <= n, NEW k,
         \A j \in 0 .. n - 1 : defs[j] \in Int /\ defs[j] > 0,
         FirstMatch(m, k) # 0
  PROVE  FirstMatch(m, k) > 0 /\ FirstMatch(n, k) = FirstMatch(m, k)
<1> DEFINE H(x) == {j \in 0 .. x - 1 : defs[j] <= 0 \/ Matches(defs[j], k)}
           L(x) == CHOOSE j \in H(x) : \A h \in H(x) : j <= h
<1>1. \A x \in Nat : FirstMatch(x, k) = IF H(x) = {} THEN 0 ELSE defs[L(x)]
  BY DEF FirstMatch
<1>2. H(m) # {}
  BY <1>1
<1>3. \A x \in Nat : H(x) \in SUBSET Nat
  OBVIOUS
<1>4. H(m) \subseteq H(n)
  OBVIOUS
<1>5. \A h \in H(n) : h \in H(m) \/ h >= m
  OBVIOUS
<1>6. \A h \in H(m) : h < m /\ h \in 0 .. n - 1
  OBVIOUS
<1> HIDE DEF H
<1>7. L(m) \in H(m) /\ \A h \in H(m) : L(m) <= h
  <2>1. \E j \in H(m) : \A h \in H(m) : j <= h
    BY <1>2, <1>3, LeastOf
  <2> QED BY <2>1
<1>8. L(n) \in H(n) /\ \A h \in H(n) : L(n) <= h
  <2>1. \E j \in H(n) : \A h \in H(n) : j <= h
    BY <1>2, <1>3, <1>4, LeastOf
  <2> QED BY <2>1
<1> HIDE DEF L
<1>9. L(m) = L(n)
  <2>1. L(m) \in Nat /\ L(n) \in Nat
    BY <1>3, <1>7, <1>8
  <2>2. L(n) <= L(m) /\ L(m) < m
    BY <1>4, <1>6, <1>7, <1>8
  <2>3. L(n) \in H(m)
    BY <1>5, <1>8, <2>1, <2>2
  <2>4. L(m) <= L(n)
    BY <1>7, <2>3
  <2> QED BY <2>1, <2>2, <2>4
<1>10. H(n) # {}
  BY <1>2, <1>4
<1>11. defs[L(m)] > 0
  BY <1>6, <1>7
<1> QED BY <1>1, <1>2, <1>9, <1>10, <1>11

LEMMA HandlesAgree == ChunkInv /\ HandleInv => FindAgrees
<1> SUFFICES ASSUME ChunkInv, HandleInv, NEW u \in Users, at[u] = "scan",
                    FirstMatch(count_[u], key[u]) # 0
             PROVE  /\ FirstMatch(count_[u], key[u]) > 0
                    /\ FirstMatch(seen[u], key[u]) = FirstMatch(count_[u], key[u])
  BY DEF FindAgrees
<1>1. /\ count_[u] \in Nat /\ seen[u] \in Nat /\ count_[u] <= seen[u]
      /\ seen[u] <= def_count /\ def_count \in Nat
  BY TableLength DEF HandleInv, ChunkInv, ChunkType
<1>2. \A j \in 0 .. seen[u] - 1 : defs[j] \in Int /\ defs[j] > 0
  BY <1>1 DEF ChunkInv
<1> QED BY <1>1, <1>2, FirstMatchGrows

----------------------------------------------------------------------------
(* The copy of an array value. *)

LEMMA WritingTurns ==
  ASSUME NEW n \in Nat
  PROVE  ~IsWriting(n) => IsWriting(n + 2)
BY DEF IsWriting

LEMMA ArrayUnchanged ==
  ASSUME ArrayInv, UNCHANGED <<arrayVars, copyVars>>,
         \A u \in Users : at'[u] \in {"spin", "copy", "check"} => at'[u] = at[u]
  PROVE  ArrayInv'
<1>1. ArrayType' /\ ArrayCopyWhole'
  BY DEF ArrayInv, ArrayType, ArrayCopyWhole
<1>2. UNCHANGED <<rev_counter, value_array, start_rev_count, buf, todo, copied>>
  OBVIOUS
<1> QED BY <1>1, <1>2 DEF ArrayInv

\* The backend: whatever it changes, the counter is no longer what a copy in
\* progress began with.
LEMMA WriteKeepsArray ==
  ASSUME ArrayInv, WriteArray
  PROVE  ArrayInv'
<1>0. UNCHANGED <<at, copyVars>> /\ rev_counter \in Nat /\ value_array \in [Word -> Int]
  BY DEF WriteArray, ArrayInv, ArrayType
<1>1. ArrayCopyWhole'
  BY <1>0 DEF ArrayInv, ArrayCopyWhole
<1>2. CASE rev_counter' = rev_counter + 2 /\ value_array' = value_array
  <2>1. /\ ArrayType'
        /\ \A u \in Users : /\ start_rev_count[u] <= rev_counter'
                            /\ rev_counter' # start_rev_count[u]
    BY <1>0, <1>2 DEF ArrayInv, ArrayType
  <2>2. ~IsWriting(rev_counter') => \A w, x \in Word : value_array[w] = value_array[x]
    <3>1. CASE IsWriting(rev_counter)
      BY <3>1 DEF WriteArray, Writing, IsWriting
    <3>2. CASE ~IsWriting(rev_counter)
      BY <1>0, <1>2, <3>2, WritingTurns
    <3> QED BY <3>1, <3>2
  <2> QED BY <1>0, <1>1, <1>2, <2>1, <2>2 DEF ArrayInv
<1>3. CASE ~(rev_counter' = rev_counter + 2 /\ value_array' = value_array)
  <2>1. IsWriting(rev_counter) /\ rev_counter' = rev_counter
    BY <1>3 DEF WriteArray, Writing, IsWriting
  <2>2. value_array' \in [Word -> Int]
    <3>1. rev_counter \div 4 + 1 \in Int
      BY <1>0
    <3>2. \E w \in Word : value_array' = [value_array EXCEPT ![w] = rev_counter \div 4 + 1]
      BY <1>3, <2>1 DEF WriteArray, Writing, IsWriting
    <3> QED BY <1>0, <3>1, <3>2
  <2> QED BY <1>0, <1>1, <2>1, <2>2 DEF ArrayInv, ArrayType
<1> QED BY <1>2, <1>3

\* The reader.
LEMMA CopyKeepsArray ==
  ASSUME ArrayInv, HandleInv, NEW u \in Users, AtomicCopy(u) \/ CopyStep(u)
  PROVE  ArrayInv'
<1>0. /\ UNCHANGED arrayVars
      /\ \E p \in {"idle", "spin", "copy", "check"} : at' = [at EXCEPT ![u] = p]
  BY DEF AtomicCopy, CopyStep, ReadCounter, CheckCounter, CopyWord, Goto, Again
<1>a. \A v \in Users \ {u} : at'[v] = at[v]
  BY <1>0 DEF HandleInv
<1>1. CASE AtomicCopy(u)
  <2>1. /\ UNCHANGED <<start_rev_count, buf, todo>> /\ at'[u] = "spin"
        /\ copied' = [copied EXCEPT ![u] = FALSE]
    BY <1>1 DEF AtomicCopy, Goto, HandleInv
  <2>2. copied' \in [Users -> BOOLEAN]
    BY <2>1, Zenon DEF ArrayInv, ArrayType
  <2>3. ~copied'[u] /\ \A v \in Users \ {u} : copied'[v] = copied[v]
    BY <2>1 DEF ArrayInv, ArrayType
  <2> QED BY <1>0, <1>a, <2>1, <2>2, <2>3 DEF ArrayInv, ArrayType, ArrayCopyWhole
<1>2. CASE ReadCounter(u)
  <2>1. /\ UNCHANGED <<buf, copied>> /\ at[u] = "spin"
        /\ start_rev_count' = [start_rev_count EXCEPT ![u] = rev_counter]
        /\ \/ at'[u] \in {"idle", "spin"} /\ todo' = todo
           \/ /\ ~IsWriting(rev_counter) /\ at'[u] = "copy"
              /\ todo' = [todo EXCEPT ![u] = Word]
    BY <1>2 DEF ReadCounter, Goto, Again, Writing, IsWriting, HandleInv
  <2>2. /\ start_rev_count' \in [Users -> Nat] /\ todo' \in [Users -> SUBSET Word]
        /\ start_rev_count'[u] = rev_counter
        /\ at'[u] = "copy" => todo'[u] = Word /\ ~IsWriting(rev_counter)
        /\ \A v \in Users \ {u} : /\ start_rev_count'[v] = start_rev_count[v]
                                  /\ todo'[v] = todo[v]
    BY <2>1 DEF ArrayInv, ArrayType
  <2>3. rev_counter \in Nat /\ at'[u] \in {"idle", "spin", "copy"} /\ ~copied[u]
    BY <2>1 DEF ArrayInv, ArrayType
  <2> QED BY <1>0, <1>a, <2>1, <2>2, <2>3 DEF ArrayInv, ArrayType, ArrayCopyWhole
<1>3. ASSUME NEW w \in Word, CopyWord(u, w) PROVE ArrayInv'
  <2>1. /\ UNCHANGED <<start_rev_count, copied>> /\ at[u] = "copy" /\ w \in todo[u]
        /\ buf' = [buf EXCEPT ![u][w] = value_array[w]]
        /\ todo' = [todo EXCEPT ![u] = @ \ {w}]
        /\ at'[u] = IF todo[u] = {w} THEN "check" ELSE "copy"
    BY <1>3 DEF CopyWord, HandleInv
  <2>2. buf' = [buf EXCEPT ![u] = [buf[u] EXCEPT ![w] = value_array[w]]]
    BY <2>1
  <2>3. /\ value_array[w] \in Int /\ buf[u] \in [Word -> Int]
    BY DEF ArrayInv, ArrayType
  <2>4. /\ [buf[u] EXCEPT ![w] = value_array[w]] \in [Word -> Int]
        /\ [buf[u] EXCEPT ![w] = value_array[w]][w] = value_array[w]
        /\ \A x \in Word \ {w} : [buf[u] EXCEPT ![w] = value_array[w]][x] = buf[u][x]
    BY <2>3
  <2>5. /\ buf' \in [Users -> [Word -> Int]] /\ todo' \in [Users -> SUBSET Word]
        /\ buf'[u][w] = value_array[w] /\ \A x \in Word \ {w} : buf'[u][x] = buf[u][x]
        /\ todo'[u] = todo[u] \ {w}
        /\ \A v \in Users \ {u} : buf'[v] = buf[v] /\ todo'[v] = todo[v]
    BY <2>1, <2>2, <2>4 DEF ArrayInv, ArrayType
  <2>6. at'[u] = "check" => todo'[u] = {}
    BY <2>1, <2>5
  <2>7. ~copied[u] /\ at'[u] \in {"copy", "check"}
    BY <2>1 DEF ArrayInv
  <2>8. ASSUME NEW v \in Users, at'[v] \in {"copy", "check"},
               rev_counter = start_rev_count[v], NEW x \in Word \ todo'[v]
        PROVE  buf'[v][x] = value_array[x]
    BY <1>a, <2>1, <2>5, <2>8 DEF ArrayInv
  <2>9. ArrayType'
    BY <1>0, <2>1, <2>5 DEF ArrayInv, ArrayType
  <2>10. ArrayCopyWhole'
    BY <2>1, <2>5, <2>7 DEF ArrayInv, ArrayCopyWhole
  <2>11. ASSUME NEW v \in Users
         PROVE  /\ start_rev_count'[v] <= rev_counter'
                /\ at'[v] \in {"spin", "copy", "check"} => ~copied'[v]
                /\ at'[v] = "check" => todo'[v] = {}
                /\ at'[v] \in {"copy", "check"} => ~IsWriting(start_rev_count'[v])
    BY <1>0, <1>a, <2>1, <2>5, <2>6, <2>7 DEF ArrayInv
  <2> QED BY <1>0, <2>1, <2>8, <2>9, <2>10, <2>11 DEF ArrayInv
<1>4. CASE CheckCounter(u)
  <2>1. /\ UNCHANGED <<start_rev_count, buf, todo>> /\ at[u] = "check"
        /\ \/ /\ rev_counter = start_rev_count[u] /\ at'[u] = "idle"
              /\ copied' = [copied EXCEPT ![u] = TRUE]
           \/ at'[u] \in {"idle", "spin"} /\ copied' = copied
    BY <1>4 DEF CheckCounter, SameRevision, Goto, Again, HandleInv
  <2>2. CASE copied' = copied
    BY <1>0, <1>a, <2>1, <2>2 DEF ArrayInv, ArrayType, ArrayCopyWhole
  <2>3. CASE /\ rev_counter = start_rev_count[u] /\ at'[u] = "idle"
             /\ copied' = [copied EXCEPT ![u] = TRUE]
    <3>1. copied' \in [Users -> BOOLEAN]
      BY <2>3, Zenon DEF ArrayInv, ArrayType
    <3>2. \A v \in Users \ {u} : copied'[v] = copied[v]
      BY <2>3 DEF ArrayInv, ArrayType
    <3>3. \A w, x \in Word : buf[u][w] = buf[u][x]
      <4>1. /\ \A w \in Word : buf[u][w] = value_array[w]
            /\ ~IsWriting(rev_counter)
        BY <2>1, <2>3 DEF ArrayInv
      <4>2. \A w, x \in Word : value_array[w] = value_array[x]
        BY <4>1 DEF ArrayInv
      <4> QED BY <4>1, <4>2
    <3>4. ArrayCopyWhole'
      BY <2>1, <3>2, <3>3 DEF ArrayInv, ArrayCopyWhole
    <3> QED BY <1>0, <1>a, <2>1, <2>3, <3>1, <3>2, <3>4 DEF ArrayInv, ArrayType
  <2> QED BY <2>1, <2>2, <2>3
<1> QED BY <1>1, <1>2, <1>3, <1>4 DEF CopyStep

LEMMA ArrayStep ==
  ASSUME ArrayInv, HandleInv, [Next]_vars
  PROVE  ArrayInv'
<1>1. CASE \/ WriteDefinition \/ CountDefinition \/ UpdateDefinitions \/ Refresh
           \/ UNCHANGED vars
  BY <1>1, ArrayUnchanged DEF WriteDefinition, CountDefinition, UpdateDefinitions,
       Refresh, RefreshDefinitions, CopyDefinition, Overrun, FillDefinition, InsertSearchMap,
       Refreshed, Notify
<1>2. CASE WriteArray
  BY <1>2, WriteKeepsArray
<1>3. ASSUME NEW u \in Users,
             Definitions(u) \/ DefinitionsUnset(u) \/ Scan(u) \/ \E k \in Key : Find(u, k)
      PROVE  ArrayInv'
  <2>1. /\ UNCHANGED <<arrayVars, copyVars>>
        /\ at' = at \/ \E p \in {"idle", "scan"} : at' = [at EXCEPT ![u] = p]
    BY <1>3 DEF Definitions, DefinitionsUnset, Scan, Find, Goto
  <2> QED BY <2>1, ArrayUnchanged DEF HandleInv
<1>4. ASSUME NEW u \in Users, AtomicCopy(u) \/ CopyStep(u) PROVE ArrayInv'
  BY <1>4, CopyKeepsArray
<1> QED BY <1>1, <1>2, <1>3, <1>4 DEF Next, BackendNext, UserNext

----------------------------------------------------------------------------

LEMMA VariableAlways == Spec => []VariableInv
<1>1. VariableInv /\ [Next]_vars => VariableInv'
  BY ChunkStep, HandleStep, ArrayStep DEF VariableInv
<1> QED BY <1>1, InitVariableInv, PTL DEF Spec

\* The check of the code (variables.cpp:43, 95) decides for every definition on
\* which the two blocks agree.
LEMMA BoundsDecide ==
  ASSUME NEW i \in Def
  PROVE  /\ EndsIn(i, DefBytes) => InBounds(i)
         /\ InBounds(i) /\ DataOffset <= DefBytes => EndsIn(i, DefBytes)
<1>1. Table[i].at \in Nat /\ Table[i].bytes \in Nat
  <2> DEFINE R == [device : Nat, name : Nat, type : Nat, bytes : Nat, at : Nat]
  <2>1. Table \in Seq(R) /\ i \in 1 .. Len(Table)
    BY TableAssumption DEF Def
  <2> HIDE DEF R
  <2>2. Table[i] \in R
    BY <2>1, ElementOfSeq
  <2> QED BY <2>2 DEF R
<1>2. DefBytes \in Nat /\ DataOffset \in Nat
  BY BlocksAssumption
<1> QED BY <1>1, <1>2 DEF EndsIn, InBounds, variable_values_max_data_size

\* The copies are, of the definitions dealt with, those whose values end inside
\* the shared memory and none whose value ends outside, as far as the blocks of
\* the definitions and of the values agree about it, in the table's order, none
\* twice, for every table, every size of the blocks and every split of the table
\* into refreshes.
THEOREM CopiesComplete == Spec => []CopiesAreTable
<1>1. VariableInv => CopiesAreTable
  <2> DEFINE shown == {defs[j] : j \in 0 .. def_count - 1}
  <2> SUFFICES ASSUME ChunkInv, pc \in {"loop", "notify", "idle"}
               PROVE  /\ shown \subseteq 1 .. processed_def_count
                      /\ \A i \in 1 .. processed_def_count :
                           /\ EndsIn(i, ValueBytes) /\ EndsIn(i, DefBytes) => i \in shown
                           /\ i \in shown /\ DataOffset <= DefBytes
                                => EndsIn(i, ValueBytes) \/ EndsIn(i, DefBytes)
                      /\ \A j, k \in 0 .. def_count - 1 : j < k => defs[j] < defs[k]
    BY DEF VariableInv, CopiesAreTable
  <2>1. Done = processed_def_count
    BY DEF Done
  <2>2. shown = {i \in 1 .. processed_def_count : InBounds(i)}
    BY <2>1 DEF ChunkInv
  <2> HIDE DEF shown
  <2>3. \A i \in 1 .. processed_def_count : i \in Def
    BY TableLength DEF ChunkInv, ChunkType, Def, N
  <2>4. \A j, k \in 0 .. def_count - 1 : j < k => defs[j] < defs[k]
    BY DEF ChunkInv
  <2> QED BY <2>2, <2>3, <2>4, BoundsDecide
<1> QED BY <1>1, VariableAlways, PTL

\* find() finds what the user's VariableDefinitions shows, the first match
\* first, although it reads def_count and the copies without the lock.
THEOREM FindConsistent == Spec => []FindAgrees
<1>1. VariableInv => FindAgrees
  BY HandlesAgree DEF VariableInv
<1> QED BY <1>1, VariableAlways, PTL

\* atomicCopy() reports no mixed value, for any number of words, writes and
\* readers (variables.h:71-95).
THEOREM ArrayCopiedWhole == Spec => []ArrayCopyWhole
<1>1. VariableInv => ArrayCopyWhole
  BY DEF VariableInv, ArrayInv
<1> QED BY <1>1, VariableAlways, PTL
=============================================================================
