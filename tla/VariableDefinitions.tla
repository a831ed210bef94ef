------------------------ MODULE VariableDefinitions ------------------------
(***************************************************************************)
(* The definitions of the variables in shared memory and the values of array*)
(* variables (core/src/variables.cpp, variables_internal.h, variables.h).   *)
(*                                                                         *)
(* The backend appends definitions to a table and counts them.  The io      *)
(* thread copies new ones into def_chunk_ under m_; a VariableDefinitions is*)
(* a handle on def_chunk_ with the number of copies at the time it was made,*)
(* and reads def_chunk_ without m_.  An array value carries a revision      *)
(* counter that atomicCopy() uses to copy it in one piece.                  *)
(*                                                                         *)
(* The i-th definition of the table is the number i, its fields are given by*)
(* Table; a copy is i, or -i while it is being written.  The chunks of      *)
(* def_chunk_ are one array of Capacity elements.  A name or a device is a   *)
(* number, ordered as the code orders it.                                   *)
(***************************************************************************)
EXTENDS Integers, Sequences, SequencesExt, FiniteSets

CONSTANTS Table,        \* definitions, in the order the backend appends them
          UInt32,       \* 2^32
          DefBytes,     \* def_shm_buffer_size
          ValueBytes,   \* value_shm_buffer_size
          DataOffset,   \* var_data_offset
          MaxCount,     \* max_variable_def_count
          Capacity,     \* k_chunk_count * k_definitions_in_chunk
          Users,        \* threads that use VariableDefinitions
          Word,         \* the elements of an array value
          MaxWrites,    \* bound: rewrites of the array value
          MaxSpins,     \* bound: timeout_counter
          MaxFinds      \* bound: lookups

Def == 1 .. Len(Table)

ASSUME TableAssumption ==
  Table \in Seq([device : Nat, name : Nat, type : Nat, bytes : Nat, at : Nat])
ASSUME BoundsAssumption ==
  {MaxCount, Capacity, MaxWrites, MaxFinds} \subseteq Nat /\ MaxSpins \in Nat \ {0}
ASSUME BlocksAssumption ==
  UInt32 \in Nat /\ {DefBytes, ValueBytes, DataOffset} \subseteq 0 .. UInt32 - 1

VARIABLES
  written,              \* definitions in the shared table
  var_definition_count, \* ... and the number of them that the backend counts
  pc, limit,            \* refreshDefinitions(): where it is, its var_def_count
  defs, def_count, processed_def_count, search_map,    \* def_chunk_
  at,                   \* per user: where it is
  count_,               \* ... count_ of its VariableDefinitions, -1: none
  key, seen,            \* ... find(): what it looks for, the def_count it read
  found,                \* ... and what it found, 0 is nothing
  finds,                \* number of lookups
  rev_counter, value_array,     \* an array value in shared memory
  start_rev_count, buf, todo, timeout_counter, copied  \* atomicCopy()

tableVars == <<written, var_definition_count>>
chunkVars == <<pc, limit, defs, def_count, processed_def_count, search_map>>
findVars == <<count_, key, seen, found, finds>>
arrayVars == <<rev_counter, value_array>>
copyVars == <<start_rev_count, buf, todo, timeout_counter, copied>>
vars == <<tableVars, chunkVars, at, findVars, arrayVars, copyVars>>

Slot == 0 .. Len(Table)
Key == [device : {Table[i].device : i \in Def}, name : {Table[i].name : i \in Def},
        type : {Table[i].type : i \in Def} \cup {-1}]
NoKey == [device |-> -1, name |-> -1, type |-> -1]
Blank == [w \in Word |-> 0]

TypeOK ==
  /\ written \in 0 .. Len(Table) /\ var_definition_count \in 0 .. Len(Table)
  /\ pc \in {"start", "loop", "fill", "insert", "notify", "idle", "unset", "fault", "overrun"}
  /\ limit \in 0 .. Len(Table)
  /\ defs \in [Slot -> -Len(Table) .. Len(Table)]
  /\ def_count \in 0 .. Len(Table) /\ processed_def_count \in 0 .. Len(Table)
  /\ search_map \in Seq(Def)
  /\ at \in [Users -> {"idle", "scan", "spin", "copy", "check"}]
  /\ count_ \in [Users -> -1 .. Len(Table)]
  /\ key \in [Users -> Key \cup {NoKey}]
  /\ seen \in [Users -> 0 .. Len(Table)] /\ found \in [Users -> 0 .. Len(Table)]
  /\ finds \in 0 .. MaxFinds
  /\ rev_counter \in 0 .. 4 * MaxWrites
  /\ value_array \in [Word -> 0 .. MaxWrites]
  /\ start_rev_count \in [Users -> 0 .. 4 * MaxWrites]
  /\ buf \in [Users -> [Word -> 0 .. MaxWrites]]
  /\ todo \in [Users -> SUBSET Word]
  /\ timeout_counter \in [Users -> 0 .. MaxSpins]
  /\ copied \in [Users -> BOOLEAN]

\* initialize() runs refreshDefinitions() before anybody else sees the
\* provider; there may be definitions already.  An offset outside its block,
\* that of the values or that of the definitions, leaves def_chunk_ null.
Init ==
  /\ written \in 0 .. Len(Table) /\ var_definition_count = written
  /\ \/ pc = "start" /\ DataOffset < ValueBytes
     \/ pc = "unset"
  /\ limit = 0
  /\ defs = [i \in Slot |-> 0]
  /\ def_count = 0 /\ processed_def_count = 0 /\ search_map = <<>>
  /\ at = [u \in Users |-> "idle"] /\ count_ = [u \in Users |-> -1]
  /\ key = [u \in Users |-> NoKey] /\ seen = [u \in Users |-> 0]
  /\ found = [u \in Users |-> 0] /\ finds = 0
  /\ rev_counter = 0 /\ value_array = Blank
  /\ start_rev_count = [u \in Users |-> 0]
  /\ buf = [u \in Users |-> Blank] /\ todo = [u \in Users |-> {}]
  /\ timeout_counter = [u \in Users |-> 0] /\ copied = [u \in Users |-> FALSE]

----------------------------------------------------------------------------
(* The backend (external): it writes a definition before it counts it, and  *)
(* has bit 1 of an array's counter set while it writes the array.           *)

WriteDefinition ==
  /\ written < Len(Table) /\ written = var_definition_count
  /\ written' = written + 1
  /\ UNCHANGED <<var_definition_count, chunkVars, at, findVars, arrayVars,
                 copyVars>>

CountDefinition ==
  /\ var_definition_count < written
  /\ var_definition_count' = written
  /\ UNCHANGED <<written, chunkVars, at, findVars, arrayVars, copyVars>>

Writing == (rev_counter \div 2) % 2 = 1

WriteArray ==
  /\ IF Writing
     THEN LET n == rev_counter \div 4 + 1
          IN IF \A w \in Word : value_array[w] = n
             THEN rev_counter' = rev_counter + 2 /\ UNCHANGED value_array
             ELSE /\ \E w \in Word :
                       /\ value_array[w] # n
                       /\ value_array' = [value_array EXCEPT ![w] = n]
                  /\ UNCHANGED rev_counter
     ELSE /\ rev_counter < 4 * MaxWrites
          /\ rev_counter' = rev_counter + 2 /\ UNCHANGED value_array
  /\ UNCHANGED <<tableVars, chunkVars, at, findVars, copyVars>>

----------------------------------------------------------------------------
(* VariableProvider, on the io thread: m_ is held unless pc is "idle" or    *)
(* "notify".  In "unset" def_chunk_ is null; in "fault" it has been followed *)
(* and in "overrun" a pointer that is none, and the program goes no further.*)

UpdateDefinitions ==
  /\ \/ pc = "idle" /\ pc' = "start"
     \/ pc = "unset" /\ pc' = "fault"
  /\ UNCHANGED <<tableVars, limit, defs, def_count, processed_def_count,
                 search_map, at, findVars, arrayVars, copyVars>>

\* refreshDefinitions() reads the count; new_defs decides on the event that
\* checkDefinitions() sends.
RefreshDefinitions ==
  /\ pc = "start"
  /\ limit' = IF var_definition_count <= MaxCount THEN var_definition_count
              ELSE MaxCount
  /\ pc' = IF processed_def_count < limit' THEN "loop" ELSE "idle"
  /\ UNCHANGED <<tableVars, defs, def_count, processed_def_count, search_map,
                 at, findVars, arrayVars, copyVars>>

\* The copy that copy_definition() writes ...
CopyDefinition ==
  /\ pc = "loop" /\ processed_def_count < limit /\ def_count < Capacity
  /\ processed_def_count' = processed_def_count + 1
  /\ defs' = [defs EXCEPT ![def_count] = -processed_def_count']
  /\ pc' = "fill"
  /\ UNCHANGED <<tableVars, limit, def_count, search_map, at,
                 findVars, arrayVars, copyVars>>

\* ... for which there may be no element left: past its end, def_chunk_->defs
\* takes the counters that follow it for a pointer.
Overrun ==
  /\ pc = "loop" /\ processed_def_count < limit /\ def_count >= Capacity
  /\ processed_def_count' = processed_def_count + 1
  /\ pc' = "overrun"
  /\ UNCHANGED <<tableVars, limit, defs, def_count, search_map, at, findVars,
                 arrayVars, copyVars>>

\* def_shm_buffer_size - var_data_offset, as a uint32_t: the offset of the
\* values, taken from the size of the definitions.
variable_values_max_data_size ==
  IF DataOffset <= DefBytes THEN DefBytes - DataOffset
                            ELSE UInt32 + DefBytes - DataOffset

InBounds(i) == Table[i].at + Table[i].bytes <= variable_values_max_data_size

\* Mutant: a definition whose value is out of bounds is counted.
Counted_Always(i) == def_count + 1

Counted(i) == IF InBounds(i) THEN def_count + 1 ELSE def_count

\* ... is complete, and counted unless its value is out of bounds.
FillDefinition ==
  LET i == processed_def_count
  IN /\ pc = "fill"
     /\ defs' = [defs EXCEPT ![def_count] = i]
     /\ def_count' = Counted(i)
     /\ pc' = IF InBounds(i) THEN "insert" ELSE "loop"
     /\ UNCHANGED <<tableVars, limit, processed_def_count, search_map,
                    at, findVars, arrayVars, copyVars>>

SearchMapSortCmp(i, j) ==
  \/ Table[i].device < Table[j].device
  \/ Table[i].device = Table[j].device /\ Table[i].name < Table[j].name

\* std::lower_bound(): the first element that is not before i.
LowerBound(i) ==
  CHOOSE n \in 1 .. Len(search_map) + 1 :
    /\ \A k \in 1 .. n - 1 : SearchMapSortCmp(search_map[k], i)
    /\ n <= Len(search_map) => ~SearchMapSortCmp(search_map[n], i)

InsertSearchMap ==
  LET i == processed_def_count
  IN /\ pc = "insert"
     /\ search_map' = InsertAt(search_map, LowerBound(i), i)
     /\ pc' = "loop"
     /\ UNCHANGED <<tableVars, limit, defs, def_count, processed_def_count,
                    at, findVars, arrayVars, copyVars>>

\* It returns, and m_ is given back ...
Refreshed ==
  /\ pc = "loop" /\ processed_def_count = limit
  /\ pc' = "notify"
  /\ UNCHANGED <<tableVars, limit, defs, def_count, processed_def_count,
                 search_map, at, findVars, arrayVars, copyVars>>

\* ... for checkDefinitions() to send VariableDefinitionsChanged.
Notify ==
  /\ pc = "notify"
  /\ pc' = "idle"
  /\ UNCHANGED <<tableVars, limit, defs, def_count, processed_def_count,
                 search_map, at, findVars, arrayVars, copyVars>>

----------------------------------------------------------------------------
(* VariableDefinitions, in the users' threads. *)

Goto(u, from, to) == at[u] = from /\ at' = [at EXCEPT ![u] = to]

\* definitions(), under the shared side of m_.
Definitions(u) ==
  /\ at[u] = "idle" /\ pc \in {"idle", "notify"} /\ count_[u] # def_count
  /\ count_' = [count_ EXCEPT ![u] = def_count]
  /\ found' = [found EXCEPT ![u] = 0]
  /\ UNCHANGED <<tableVars, chunkVars, at, key, seen, finds, arrayVars,
                 copyVars>>

\* ... which asks a null def_chunk_ for its def_count.
DefinitionsUnset(u) ==
  /\ at[u] = "idle" /\ pc = "unset" /\ pc' = "fault"
  /\ UNCHANGED <<tableVars, limit, defs, def_count, processed_def_count,
                 search_map, at, findVars, arrayVars, copyVars>>

\* find() and findValuePointer(), with a type or without (-1), read def_count
\* as it is now ...
Find(u, k) ==
  /\ Goto(u, "idle", "scan") /\ count_[u] # -1 /\ finds < MaxFinds
  /\ key' = [key EXCEPT ![u] = k]
  /\ seen' = [seen EXCEPT ![u] = def_count]
  /\ found' = [found EXCEPT ![u] = 0]
  /\ finds' = finds + 1
  /\ UNCHANGED <<tableVars, chunkVars, count_, arrayVars, copyVars>>

Matches(i, k) ==
  /\ Table[i].device = k.device /\ Table[i].name = k.name
  /\ k.type \in {-1, Table[i].type}

\* A mutant: the last one that matches.
FirstMatch_Last(n, k) ==
  LET hits == {j \in 0 .. n - 1 : defs[j] <= 0 \/ Matches(defs[j], k)}
  IN IF hits = {} THEN 0
     ELSE defs[CHOOSE j \in hits : \A h \in hits : h <= j]

\* The first of the copies n that match; the fields of one that is being
\* written match anything.
FirstMatch(n, k) ==
  LET hits == {j \in 0 .. n - 1 : defs[j] <= 0 \/ Matches(defs[j], k)}
  IN IF hits = {} THEN 0
     ELSE defs[CHOOSE j \in hits : \A h \in hits : j <= h]

\* ... and look at that many copies.
Scan(u) ==
  /\ Goto(u, "scan", "idle")
  /\ found' = [found EXCEPT ![u] = FirstMatch(seen[u], key[u])]
  /\ key' = [key EXCEPT ![u] = NoKey] /\ seen' = [seen EXCEPT ![u] = 0]
  /\ UNCHANGED <<tableVars, chunkVars, count_, finds, arrayVars, copyVars>>

----------------------------------------------------------------------------
(* RevisionCountedArrayRef::atomicCopy() of a value that has been found. *)

AtomicCopy(u) ==
  /\ Goto(u, "idle", "spin") /\ found[u] > 0
  /\ found' = [found EXCEPT ![u] = 0]
  /\ timeout_counter' = [timeout_counter EXCEPT ![u] = MaxSpins]
  /\ copied' = [copied EXCEPT ![u] = FALSE]
  /\ UNCHANGED <<tableVars, chunkVars, count_, key, seen, finds, arrayVars,
                 start_rev_count, buf, todo>>

\* An attempt fails: --timeout_counter > 0, or false is returned.
Again(u) ==
  /\ timeout_counter' = [timeout_counter EXCEPT ![u] = @ - 1]
  /\ at' = [at EXCEPT ![u] = IF timeout_counter[u] = 1 THEN "idle" ELSE "spin"]

ReadCounter(u) ==
  /\ at[u] = "spin"
  /\ start_rev_count' = [start_rev_count EXCEPT ![u] = rev_counter]
  /\ IF Writing
     THEN Again(u) /\ UNCHANGED todo
     ELSE /\ Goto(u, "spin", "copy")
          /\ todo' = [todo EXCEPT ![u] = Word]
          /\ UNCHANGED timeout_counter
  /\ UNCHANGED <<tableVars, chunkVars, findVars, arrayVars, buf, copied>>

CopyWord(u, w) ==
  /\ at[u] = "copy" /\ w \in todo[u]
  /\ buf' = [buf EXCEPT ![u][w] = value_array[w]]
  /\ todo' = [todo EXCEPT ![u] = @ \ {w}]
  /\ at' = [at EXCEPT ![u] = IF todo[u] = {w} THEN "check" ELSE "copy"]
  /\ UNCHANGED <<tableVars, chunkVars, findVars, arrayVars, start_rev_count,
                 timeout_counter, copied>>

\* Mutant: a copy during which the backend is not writing at the end passes.
SameRevision_NotWriting(u) == ~Writing

SameRevision(u) == rev_counter = start_rev_count[u]

CheckCounter(u) ==
  /\ at[u] = "check"
  /\ IF SameRevision(u)
     THEN /\ Goto(u, "check", "idle")
          /\ copied' = [copied EXCEPT ![u] = TRUE]
          /\ UNCHANGED timeout_counter
     ELSE Again(u) /\ UNCHANGED copied
  /\ UNCHANGED <<tableVars, chunkVars, findVars, arrayVars, start_rev_count,
                 buf, todo>>

----------------------------------------------------------------------------

BackendNext == WriteDefinition \/ CountDefinition \/ WriteArray

Refresh ==
  \/ RefreshDefinitions \/ CopyDefinition \/ Overrun \/ FillDefinition
  \/ InsertSearchMap \/ Refreshed \/ Notify

CopyStep(u) ==
  ReadCounter(u) \/ CheckCounter(u) \/ \E w \in Word : CopyWord(u, w)

UserNext(u) ==
  \/ Definitions(u) \/ DefinitionsUnset(u) \/ \E k \in Key : Find(u, k)
  \/ Scan(u) \/ AtomicCopy(u) \/ CopyStep(u)

Next ==
  /\ pc \notin {"fault", "overrun"}
  /\ BackendNext \/ UpdateDefinitions \/ Refresh \/ \E u \in Users : UserNext(u)

Spec == Init /\ [][Next]_vars

----------------------------------------------------------------------------
(* Properties *)

\* The value of a definition ends within a block of that many bytes in which
\* the values begin at var_data_offset.
EndsIn(i, bytes) == DataOffset + Table[i].at + Table[i].bytes <= bytes

\* Of the definitions dealt with, the copies show those whose values end inside
\* the shared memory and none whose value ends outside (variables.cpp:41), in
\* the table's order, none twice, also after definitions have been skipped
\* (variables.cpp:81-115).  The code measures the block of the definitions for
\* it and not that of the values (variables.cpp:43): nothing is said of a value
\* that ends inside one and outside the other, nor, since the difference wraps
\* around, of one to be left out when the values begin beyond DefBytes.
CopiesAreTable ==
  pc \in {"loop", "notify", "idle"} =>
    LET shown == {defs[j] : j \in 0 .. def_count - 1}
    IN /\ shown \subseteq 1 .. processed_def_count
       /\ \A i \in 1 .. processed_def_count :
            /\ EndsIn(i, ValueBytes) /\ EndsIn(i, DefBytes) => i \in shown
            /\ i \in shown /\ DataOffset <= DefBytes
                 => EndsIn(i, ValueBytes) \/ EndsIn(i, DefBytes)
       /\ \A j, k \in 0 .. def_count - 1 : j < k => defs[j] < defs[k]

\* find() agrees with the user's own VariableDefinitions: what operator[] shows
\* below count_ is found, the first match first, although find() goes by the
\* def_count of the moment.
FindAgrees ==
  \A u \in Users : at[u] = "scan" =>
    LET own == FirstMatch(count_[u], key[u])
    IN own # 0 => own > 0 /\ FirstMatch(seen[u], key[u]) = own

\* atomicCopy() never reports a copy as good that mixes two values of the
\* array, however the backend's writes fall between its reads.
ArrayCopyWhole ==
  \A u \in Users : copied[u] => \A w, x \in Word : buf[u][w] = buf[u][x]
=============================================================================
