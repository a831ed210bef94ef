----------------------- MODULE ShmBsonProviderProofs -----------------------
(***************************************************************************)
(* What holds of a document read from shared memory for any number of       *)
(* threads, words, rewrites and retries.                                    *)
(***************************************************************************)
EXTENDS ShmBsonProvider, TLAPS

USE DEF shmVars, activeVars, attemptVars, localVars, vars

\* The revisions are natural numbers, and a document never written is one.
LEMMA RevisionNat ==
  /\ Revision \subseteq Nat
  /\ 0 \in Revision
  /\ Blank \in [Word -> Revision]
BY MaxWritesAssumption DEF Revision, Blank

\* A rewrite that has begun can be brought to its end.
LEMMA OddRevision ==
  ASSUME NEW n \in Revision, n % 2 = 1
  PROVE  n + 1 \in Revision
<1>1. MaxWrites \in Nat /\ n \in Nat /\ n <= 2 * MaxWrites
  BY MaxWritesAssumption DEF Revision
<1>2. (2 * MaxWrites) % 2 = 0
  BY <1>1
<1>3. n # 2 * MaxWrites
  BY <1>2
<1>4. n + 1 <= 2 * MaxWrites
  BY <1>1, <1>3
<1> QED BY <1>1, <1>4 DEF Revision

\* Odd and even revisions alternate.
LEMMA Parity ==
  ASSUME NEW n \in Nat
  PROVE  /\ n % 2 = 0 => (n + 1) % 2 = 1
         /\ n % 2 = 1 => (n + 1) % 2 = 0
OBVIOUS

\* The locals that an attempt leaves behind have their types.
LEMMA EndAttemptType ==
  ASSUME TypeOK, NEW t \in Thread, EndAttempt(t)
  PROVE  /\ start_rev' \in [Thread -> Revision]
         /\ new_buffer' \in [Thread -> [Word -> Revision]]
         /\ todo' \in [Thread -> SUBSET Word]
         /\ valid_data' \in [Thread -> BOOLEAN]
BY RevisionNat DEF TypeOK, EndAttempt

\* So have those that update() leaves behind when it returns.
LEMMA ReturnType ==
  ASSUME TypeOK, NEW t \in Thread, NEW result, Return(t, result)
  PROVE  /\ pc' \in [Thread -> SharedSection \cup
                       {"idle", "commit", "notify", "parse", "store"}]
         /\ retries' \in [Thread -> 0 .. MaxRetries - 1]
         /\ new_revision' \in [Thread -> Revision]
         /\ start_rev' \in [Thread -> Revision]
         /\ new_buffer' \in [Thread -> [Word -> Revision]]
         /\ todo' \in [Thread -> SUBSET Word]
         /\ valid_data' \in [Thread -> BOOLEAN]
<1>1. EndAttempt(t)
  BY DEF Return
<1>2. retries' \in [Thread -> 0 .. MaxRetries - 1]
  BY MaxRetriesAssumption DEF TypeOK, Return
<1>3. new_revision' \in [Thread -> Revision]
  BY RevisionNat DEF TypeOK, Return
<1>4. pc' \in [Thread -> SharedSection \cup
                 {"idle", "commit", "notify", "parse", "store"}]
  BY DEF TypeOK, Return, Goto
<1> QED BY <1>1, <1>2, <1>3, <1>4, EndAttemptType

\* And those of an attempt that is given up.
LEMMA NextAttemptType ==
  ASSUME TypeOK, NEW t \in Thread, NextAttempt(t)
  PROVE  /\ pc' \in [Thread -> SharedSection \cup
                       {"idle", "commit", "notify", "parse", "store"}]
         /\ retries' \in [Thread -> 0 .. MaxRetries - 1]
         /\ new_revision' \in [Thread -> Revision]
         /\ start_rev' \in [Thread -> Revision]
         /\ new_buffer' \in [Thread -> [Word -> Revision]]
         /\ todo' \in [Thread -> SUBSET Word]
         /\ valid_data' \in [Thread -> BOOLEAN]
<1>1. CASE retries[t] + 1 < MaxRetries
  <2>1. EndAttempt(t)
    BY <1>1 DEF NextAttempt
  <2>2. retries[t] + 1 \in 0 .. MaxRetries - 1
    BY <1>1, MaxRetriesAssumption DEF TypeOK
  <2>3. retries' \in [Thread -> 0 .. MaxRetries - 1]
    BY <1>1, <2>2 DEF NextAttempt, TypeOK
  <2>4. pc' \in [Thread -> SharedSection \cup
                   {"idle", "commit", "notify", "parse", "store"}]
    BY <1>1 DEF NextAttempt, TypeOK, Goto, SharedSection
  <2>5. new_revision' \in [Thread -> Revision]
    BY <1>1 DEF NextAttempt, TypeOK
  <2> QED BY <2>1, <2>3, <2>4, <2>5, EndAttemptType
<1>2. CASE ~(retries[t] + 1 < MaxRetries)
  <2>1. Return(t, "failed")
    BY <1>2 DEF NextAttempt
  <2> QED BY <2>1, ReturnType
<1> QED BY <1>1, <1>2

\* Every step keeps the type of every variable.
LEMMA TypeStep ==
  ASSUME TypeOK, [Next]_vars
  PROVE  TypeOK'
<1> USE RevisionNat DEF TypeOK, Goto, SharedSection
<1>1. CASE WriteBegin
  <2>1. data_revision_counter' \in Revision
    BY <1>1, MaxWritesAssumption DEF WriteBegin, Revision
  <2> QED BY <1>1, <2>1 DEF WriteBegin
<1>2. ASSUME NEW w \in Word, WriteWord(w) PROVE TypeOK'
  <2>1. data_revision_counter + 1 \in Revision
    BY <1>2, OddRevision DEF WriteWord
  <2> QED BY <1>2, <2>1 DEF WriteWord
<1>3. CASE WriteEnd
  <2>1. data_revision_counter' \in Revision
    BY <1>3, OddRevision DEF WriteEnd
  <2> QED BY <1>3, <2>1 DEF WriteEnd
<1>4. ASSUME NEW t \in Thread, UpdateBegin(t) PROVE TypeOK'
  BY <1>4 DEF UpdateBegin
<1>5. ASSUME NEW t \in Thread, TryAccess(t) PROVE TypeOK'
  BY <1>5 DEF TryAccess
<1>6. ASSUME NEW t \in Thread, TryBusy(t) PROVE TypeOK'
  BY <1>6, NextAttemptType DEF TryBusy
<1>7. ASSUME NEW t \in Thread, SameRevision(t) PROVE TypeOK'
  BY <1>7 DEF SameRevision
<1>8. ASSUME NEW t \in Thread, NewRevision(t) PROVE TypeOK'
  BY <1>8 DEF NewRevision
<1>9. ASSUME NEW t \in Thread, SizesOutOfRange(t) PROVE TypeOK'
  BY <1>9, NextAttemptType DEF SizesOutOfRange
<1>10. ASSUME NEW t \in Thread, NEW w \in Word, CopyWord(t, w) PROVE TypeOK'
  <2>1. new_buffer' \in [Thread -> [Word -> Revision]]
    BY <1>10 DEF CopyWord
  <2>2. todo' \in [Thread -> SUBSET Word]
    BY <1>10 DEF CopyWord
  <2> QED BY <1>10, <2>1, <2>2 DEF CopyWord
<1>11. ASSUME NEW t \in Thread, AccessAtomic(t) PROVE TypeOK'
  <2>1. CASE Return(t, "no_new_data")
    BY <1>11, <2>1, ReturnType DEF AccessAtomic
  <2>2. CASE ~Return(t, "no_new_data")
    BY <1>11, <2>2 DEF AccessAtomic
  <2> QED BY <2>1, <2>2
<1>12. ASSUME NEW t \in Thread, AccessDisturbed(t) PROVE TypeOK'
  BY <1>12, NextAttemptType DEF AccessDisturbed
<1>13. ASSUME NEW t \in Thread, CommitInvalid(t) PROVE TypeOK'
  BY <1>13, ReturnType DEF CommitInvalid
<1>14. ASSUME NEW t \in Thread, CommitOvertaken(t) PROVE TypeOK'
  BY <1>14, ReturnType DEF CommitOvertaken
<1>15. ASSUME NEW t \in Thread, Commit(t) PROVE TypeOK'
  BY <1>15, ReturnType DEF Commit
<1>16. CASE NotifyDeviceInfoChanged
  BY <1>16 DEF NotifyDeviceInfoChanged, Thread
<1>17. ASSUME NEW t \in Thread, ParseCached(t) PROVE TypeOK'
  BY <1>17 DEF ParseCached
<1>18. ASSUME NEW t \in Thread, ParseBegin(t) PROVE TypeOK'
  BY <1>18 DEF ParseBegin
<1>19. ASSUME NEW t \in Thread, ParseStore(t) PROVE TypeOK'
  BY <1>19 DEF ParseStore
<1>20. CASE UNCHANGED vars
  BY <1>20
<1> QED
  BY <1>1, <1>2, <1>3, <1>4, <1>5, <1>6, <1>7, <1>8, <1>9, <1>10, <1>11,
     <1>12, <1>13, <1>14, <1>15, <1>16, <1>17, <1>18, <1>19, <1>20
     DEF Next, Backend, Step, Thread

\* Type correctness: no step takes a variable out of its range; in particular
\* update() makes no more than k_max_retries attempts.
THEOREM TypeCorrect == Spec => []TypeOK
<1>1. Init => TypeOK
  BY RevisionNat, MaxRetriesAssumption DEF Init, TypeOK
<1>2. TypeOK /\ [Next]_vars => TypeOK'
  BY TypeStep
<1> QED BY <1>1, <1>2, PTL DEF Spec

----------------------------------------------------------------------------

\* A step of the thread t leaves the locals of the others alone.
OthersKeep(t) ==
  \A s \in Thread \ {t} :
    /\ pc'[s] = pc[s]
    /\ old_revision'[s] = old_revision[s]
    /\ new_revision'[s] = new_revision[s]
    /\ start_rev'[s] = start_rev[s]
    /\ new_buffer'[s] = new_buffer[s]
    /\ todo'[s] = todo[s]
    /\ valid_data'[s] = valid_data[s]
    /\ parsed'[s] = parsed[s]
    /\ returned'[s] = returned[s]

\* A step of one thread that leaves the document and what is installed alone
\* has to keep the invariant for that thread only.
LEMMA OwnStep ==
  ASSUME TypeOK, ProviderInv, NEW t \in Thread,
         UNCHANGED shmVars, UNCHANGED activeVars, OthersKeep(t),
         ReaderInv(t)', InstalledInv(t)'
  PROVE  ProviderInv'
<1>1. ASSUME NEW s \in Thread PROVE ReaderInv(s)' /\ InstalledInv(s)'
  <2>1. CASE s = t
    BY <2>1
  <2>2. CASE s # t
    <3>1. ReaderInv(s) /\ InstalledInv(s)
      BY DEF ProviderInv
    <3>2. ReaderInv(s)'
      BY <2>2, <3>1 DEF OthersKeep, ReaderInv
    <3>3. InstalledInv(s)'
      BY <2>2, <3>1 DEF OthersKeep, InstalledInv
    <3> QED BY <3>2, <3>3
  <2> QED BY <2>1, <2>2
<1>2. WriterInv' /\ NoTornBuffer'
  BY DEF ProviderInv, WriterInv, NoTornBuffer
<1> QED BY <1>1, <1>2 DEF ProviderInv

\* The state in which update() leaves the thread that called it.
LEMMA ReturnKeeps ==
  ASSUME TypeOK, NEW t \in Thread, NEW result, Return(t, result),
         UNCHANGED <<old_revision, parsed, returned>>
  PROVE  /\ OthersKeep(t)
         /\ pc'[t] \in {"parse", "notify", "idle"}
         /\ pc'[t] = "notify" => result = "new_data"
         /\ pc'[t] = "idle" => t \notin User
         /\ ~valid_data'[t] /\ todo'[t] = {}
BY DEF TypeOK, Return, EndAttempt, Goto, OthersKeep

\* The same for an attempt that is given up.
LEMMA NextAttemptKeeps ==
  ASSUME TypeOK, NEW t \in Thread, NextAttempt(t),
         UNCHANGED <<old_revision, parsed, returned>>
  PROVE  /\ OthersKeep(t)
         /\ pc'[t] \in {"try", "parse", "idle"}
         /\ pc'[t] = "idle" => t \notin User
         /\ ~valid_data'[t] /\ todo'[t] = {}
<1>1. CASE retries[t] + 1 < MaxRetries
  BY <1>1 DEF NextAttempt, TypeOK, EndAttempt, Goto, OthersKeep
<1>2. CASE ~(retries[t] + 1 < MaxRetries)
  BY <1>2, ReturnKeeps DEF NextAttempt
<1> QED BY <1>1, <1>2

\* An attempt without a usable copy keeps the invariant.
LEMMA NextAttemptInv ==
  ASSUME TypeOK, ProviderInv, NEW t \in Thread, NextAttempt(t),
         UNCHANGED <<shmVars, activeVars, old_revision, parsed, returned>>
  PROVE  ProviderInv'
<1>1. /\ OthersKeep(t)
      /\ pc'[t] \in {"try", "parse", "idle"}
      /\ pc'[t] = "idle" => t \notin User
      /\ ~valid_data'[t] /\ todo'[t] = {}
  BY NextAttemptKeeps
<1>2. ReaderInv(t)'
  BY <1>1 DEF ReaderInv
<1>3. InstalledInv(t)'
  BY <1>1 DEF InstalledInv, ProviderInv
<1> QED BY <1>1, <1>2, <1>3, OwnStep

\* A return without an installation keeps it, if new_data is only reported
\* when something newer than old_revision is installed.
LEMMA ReturnInv ==
  ASSUME TypeOK, ProviderInv, NEW t \in Thread, NEW result, Return(t, result),
         result = "new_data" => old_revision[t] < active_buffer_revision,
         UNCHANGED <<shmVars, activeVars, old_revision, parsed, returned>>
  PROVE  ProviderInv'
<1>1. /\ OthersKeep(t)
      /\ pc'[t] \in {"parse", "notify", "idle"}
      /\ pc'[t] = "notify" => result = "new_data"
      /\ pc'[t] = "idle" => t \notin User
      /\ ~valid_data'[t] /\ todo'[t] = {}
  BY ReturnKeeps
<1>2. ReaderInv(t)'
  BY <1>1 DEF ReaderInv
<1>3. InstalledInv(t)'
  BY <1>1 DEF InstalledInv, ProviderInv
<1> QED BY <1>1, <1>2, <1>3, OwnStep

\* A rewrite by the backend disturbs no copy the invariant vouches for: it
\* moves the counter, or changes a word while the counter is odd.
LEMMA BackendInv ==
  ASSUME TypeOK, ProviderInv, Backend
  PROVE  ProviderInv'
<1> USE DEF TypeOK
<1>1. data_revision_counter \in Nat /\ active_buffer_revision \in Nat
  BY RevisionNat
<1>2. \A t \in Thread : /\ start_rev[t] \in Nat /\ new_revision[t] \in Nat
                       /\ old_revision[t] \in Nat
  BY RevisionNat
<1>3. ASSUME data_revision_counter' = data_revision_counter + 1,
             UNCHANGED <<shm, activeVars, pc, localVars, returned>>,
             WriterInv'
      PROVE  ProviderInv'
  <2>1. ASSUME NEW t \in Thread PROVE ReaderInv(t)' /\ InstalledInv(t)'
    <3>1. ReaderInv(t) /\ InstalledInv(t)
      BY DEF ProviderInv
    <3>2. ReaderInv(t)'
      BY <1>1, <1>2, <1>3, <3>1 DEF ReaderInv
    <3>3. InstalledInv(t)'
      BY <1>3, <3>1 DEF InstalledInv
    <3> QED BY <3>2, <3>3
  <2>2. NoTornBuffer'
    BY <1>3 DEF ProviderInv, NoTornBuffer
  <2>3. active_buffer_revision' <= data_revision_counter'
    BY <1>1, <1>3 DEF ProviderInv
  <2> QED BY <1>3, <2>1, <2>2, <2>3 DEF ProviderInv
<1>4. CASE WriteBegin
  <2>1. data_revision_counter' % 2 = 1
    BY <1>1, <1>4, Parity DEF WriteBegin
  <2>2. \A w \in Word : shm'[w] = data_revision_counter' - 1
    BY <1>1, <1>4 DEF WriteBegin, ProviderInv, WriterInv
  <2>3. WriterInv'
    BY <2>1, <2>2 DEF WriterInv
  <2> QED BY <1>3, <1>4, <2>3 DEF WriteBegin
<1>5. CASE WriteEnd
  <2>1. data_revision_counter' % 2 = 0
    BY <1>1, <1>5, Parity DEF WriteEnd
  <2>2. WriterInv'
    BY <1>5, <2>1 DEF WriteEnd, WriterInv
  <2> QED BY <1>3, <1>5, <2>2 DEF WriteEnd
<1>6. ASSUME NEW w \in Word, WriteWord(w) PROVE ProviderInv'
  <2>1. WriterInv'
    BY <1>6 DEF WriteWord, ProviderInv, WriterInv
  <2>2. ASSUME NEW t \in Thread PROVE ReaderInv(t)' /\ InstalledInv(t)'
    BY <1>6 DEF WriteWord, ProviderInv, ReaderInv, InstalledInv
  <2>3. NoTornBuffer'
    BY <1>6 DEF WriteWord, ProviderInv, NoTornBuffer
  <2> QED BY <1>6, <2>1, <2>2, <2>3 DEF WriteWord, ProviderInv
<1> QED BY <1>4, <1>5, <1>6 DEF Backend

\* Copying: from the shared lock of update() to the second read of the
\* counter.
LEMMA CopyInv ==
  ASSUME TypeOK, ProviderInv, NEW t \in Thread,
         \/ UpdateBegin(t) \/ TryAccess(t) \/ SameRevision(t)
         \/ NewRevision(t) \/ \E w \in Word : CopyWord(t, w)
         \/ AccessAtomic(t)
  PROVE  ProviderInv'
<1> USE DEF TypeOK
<1>1. data_revision_counter \in Nat /\ active_buffer_revision \in Nat
  BY RevisionNat
<1>2. /\ start_rev[t] \in Nat /\ new_revision[t] \in Nat
      /\ old_revision[t] \in Nat
  BY RevisionNat
<1>3. ReaderInv(t) /\ InstalledInv(t)
  BY DEF ProviderInv
<1>4. CASE UpdateBegin(t)
  <2>1. OthersKeep(t)
    BY <1>4 DEF UpdateBegin, Goto, OthersKeep
  <2>2. ReaderInv(t)'
    BY <1>3, <1>4 DEF UpdateBegin, Goto, ReaderInv
  <2>3. InstalledInv(t)'
    BY <1>1, <1>4 DEF UpdateBegin, Goto, InstalledInv
  <2> QED BY <1>4, <2>1, <2>2, <2>3, OwnStep DEF UpdateBegin
<1>5. CASE TryAccess(t)
  <2>1. OthersKeep(t)
    BY <1>5 DEF TryAccess, Goto, OthersKeep
  <2>2. ReaderInv(t)'
    BY <1>1, <1>3, <1>5 DEF TryAccess, Goto, ReaderInv
  <2>3. InstalledInv(t)'
    BY <1>3, <1>5 DEF TryAccess, Goto, InstalledInv
  <2> QED BY <1>5, <2>1, <2>2, <2>3, OwnStep DEF TryAccess
<1>6. CASE SameRevision(t)
  <2>1. OthersKeep(t)
    BY <1>6 DEF SameRevision, Goto, OthersKeep
  <2>2. ReaderInv(t)'
    BY <1>3, <1>6 DEF SameRevision, Goto, ReaderInv
  <2>3. InstalledInv(t)'
    BY <1>3, <1>6 DEF SameRevision, Goto, InstalledInv
  <2> QED BY <1>6, <2>1, <2>2, <2>3, OwnStep DEF SameRevision
<1>7. CASE NewRevision(t)
  <2>1. OthersKeep(t)
    BY <1>7 DEF NewRevision, Goto, OthersKeep
  <2>2. data_revision_counter > old_revision[t]
    <3>1. old_revision[t] <= active_buffer_revision
      BY <1>3 DEF InstalledInv
    <3>2. active_buffer_revision <= data_revision_counter
      BY DEF ProviderInv
    <3>3. data_revision_counter >= 2
      BY <1>1, <1>2, <1>3, <1>7 DEF NewRevision, ReaderInv
    <3>4. \/ data_revision_counter # old_revision[t]
          \/ active_buffer_revision = 0
      BY <1>7 DEF NewRevision, NothingNew, ProviderInv
    <3> HIDE DEF TypeOK
    <3>5. CASE data_revision_counter # old_revision[t]
      BY <1>1, <1>2, <3>1, <3>2, <3>5
    <3>6. CASE active_buffer_revision = 0
      BY <1>1, <1>2, <3>1, <3>3, <3>6
    <3> QED BY <3>4, <3>5, <3>6
  <2>3. ReaderInv(t)'
    BY <1>3, <1>7, <2>2 DEF NewRevision, Goto, ReaderInv
  <2>4. InstalledInv(t)'
    BY <1>3, <1>7 DEF NewRevision, Goto, InstalledInv
  <2> QED BY <1>7, <2>1, <2>3, <2>4, OwnStep DEF NewRevision
<1>8. ASSUME NEW w \in Word, CopyWord(t, w) PROVE ProviderInv'
  <2>1. OthersKeep(t)
    BY <1>8 DEF CopyWord, Goto, OthersKeep
  <2>2. /\ pc'[t] \in {"copy", "check"}
        /\ pc'[t] # "copy" => todo'[t] = {}
        /\ todo'[t] = todo[t] \ {w}
        /\ new_buffer'[t] = [new_buffer[t] EXCEPT ![w] = shm[w]]
    BY <1>8 DEF CopyWord, Goto
  <2>3. start_rev[t] = data_revision_counter => shm[w] = start_rev[t]
    BY <1>3, <1>8 DEF CopyWord, ReaderInv, ProviderInv, WriterInv
  <2>4. ReaderInv(t)'
    BY <1>3, <1>8, <2>2, <2>3 DEF CopyWord, ReaderInv
  <2>5. InstalledInv(t)'
    BY <1>3, <1>8, <2>2 DEF CopyWord, InstalledInv
  <2> QED BY <1>8, <2>1, <2>4, <2>5, OwnStep DEF CopyWord
<1>9. CASE AccessAtomic(t)
  <2>1. CASE Return(t, "no_new_data")
    BY <1>9, <2>1, ReturnInv DEF AccessAtomic
  <2>2. CASE ~Return(t, "no_new_data")
    <3>1. OthersKeep(t)
      BY <1>9, <2>2 DEF AccessAtomic, Goto, OthersKeep
    <3>2. ReaderInv(t)'
      BY <1>1, <1>2, <1>3, <1>9, <2>2 DEF AccessAtomic, Goto, ReaderInv
    <3>3. InstalledInv(t)'
      BY <1>3, <1>9, <2>2 DEF AccessAtomic, Goto, InstalledInv
    <3> QED BY <1>9, <2>2, <3>1, <3>2, <3>3, OwnStep DEF AccessAtomic
  <2> QED BY <2>1, <2>2
<1> QED BY <1>4, <1>5, <1>6, <1>7, <1>8, <1>9

\* Installing a copy: it is whole and newer than what was installed, and so
\* ahead of what any thread remembers.
LEMMA CommitInv ==
  ASSUME TypeOK, ProviderInv, NEW t \in Thread, Commit(t)
  PROVE  ProviderInv' /\ active_buffer_revision' > active_buffer_revision
<1>1. /\ data_revision_counter \in Nat /\ active_buffer_revision \in Nat
      /\ new_revision[t] \in Nat
      /\ \A s \in Thread : old_revision[s] \in Nat
  BY RevisionNat DEF TypeOK
<1>2. ReaderInv(t) /\ pc[t] = "commit"
  BY DEF ProviderInv, Commit
<1>3. /\ active_buffer_revision' = new_revision[t]
      /\ active_buffer' = new_buffer[t]
      /\ buffer_changed' = FALSE
      /\ old_revision[t] = active_buffer_revision
      /\ UNCHANGED <<shmVars, old_revision, parsed, returned>>
  BY DEF Commit
<1>4. active_buffer_revision' > active_buffer_revision
  BY <1>2, <1>3 DEF ReaderInv
<1>5. /\ OthersKeep(t)
      /\ pc'[t] \in {"parse", "notify", "idle"}
      /\ pc'[t] = "idle" => t \notin User
      /\ ~valid_data'[t] /\ todo'[t] = {}
  BY ReturnKeeps DEF Commit
<1>6. NoTornBuffer'
  <2>1. \A w \in Word : /\ new_buffer[t][w] = new_revision[t]
                       /\ new_buffer[t][w] \notin BadRevision
    BY <1>2 DEF ReaderInv, Commit, Validates
  <2>2. new_revision[t] \notin BadRevision
    BY <2>1, WordAssumption
  <2> QED BY <1>2, <1>3, <2>1, <2>2 DEF NoTornBuffer, ReaderInv
<1>7. WriterInv'
  BY <1>3 DEF ProviderInv, WriterInv
<1>8. active_buffer_revision' <= data_revision_counter'
  BY <1>2, <1>3 DEF ReaderInv
<1>9. ReaderInv(t)' /\ InstalledInv(t)'
  <2>1. ReaderInv(t)'
    BY <1>5 DEF ReaderInv
  <2>2. InstalledInv(t)'
    BY <1>1, <1>3, <1>4, <1>5 DEF InstalledInv
  <2> QED BY <2>1, <2>2
<1>10. ASSUME NEW s \in Thread \ {t} PROVE ReaderInv(s)' /\ InstalledInv(s)'
  <2>1. ReaderInv(s) /\ InstalledInv(s)
    BY DEF ProviderInv
  <2>2. ReaderInv(s)'
    BY <1>3, <1>5, <2>1 DEF ReaderInv, OthersKeep
  <2>3. InstalledInv(s)'
    BY <1>1, <1>3, <1>4, <1>5, <2>1 DEF InstalledInv, OthersKeep
  <2> QED BY <2>2, <2>3
<1> QED BY <1>3, <1>4, <1>6, <1>7, <1>8, <1>9, <1>10 DEF ProviderInv

\* The rest of a call: the event of the io thread, the parse of a user.
LEMMA AfterUpdateInv ==
  ASSUME TypeOK, ProviderInv, NEW t \in Thread,
         \/ t = Io /\ NotifyDeviceInfoChanged
         \/ t \in User /\ (ParseCached(t) \/ ParseBegin(t) \/ ParseStore(t))
  PROVE  ProviderInv'
<1> USE DEF TypeOK
<1>1. ReaderInv(t) /\ InstalledInv(t)
  BY DEF ProviderInv
<1>2. CASE t = Io /\ NotifyDeviceInfoChanged
  <2>1. OthersKeep(t)
    BY <1>2 DEF NotifyDeviceInfoChanged, Goto, OthersKeep
  <2>2. ReaderInv(t)'
    BY <1>1, <1>2 DEF NotifyDeviceInfoChanged, Goto, ReaderInv
  <2>3. InstalledInv(t)'
    BY <1>1, <1>2, IoAssumption
       DEF NotifyDeviceInfoChanged, Goto, InstalledInv
  <2> QED BY <1>2, <2>1, <2>2, <2>3, OwnStep DEF NotifyDeviceInfoChanged
<1>3. CASE ParseCached(t)
  <2>1. OthersKeep(t)
    BY <1>3 DEF ParseCached, Goto, OthersKeep
  <2>2. ReaderInv(t)'
    BY <1>1, <1>3 DEF ParseCached, Goto, ReaderInv
  <2>3. InstalledInv(t)'
    BY <1>1, <1>3 DEF ParseCached, Goto, InstalledInv
  <2> QED BY <1>3, <2>1, <2>2, <2>3, OwnStep DEF ParseCached
<1>4. CASE ParseBegin(t)
  <2>1. OthersKeep(t)
    BY <1>4 DEF ParseBegin, Goto, OthersKeep
  <2>2. ReaderInv(t)'
    BY <1>1, <1>4 DEF ParseBegin, Goto, ReaderInv
  <2>3. InstalledInv(t)'
    BY <1>1, <1>4 DEF ParseBegin, Goto, InstalledInv
  <2> QED BY <1>4, <2>1, <2>2, <2>3, OwnStep DEF ParseBegin
<1>5. CASE ParseStore(t)
  <2>1. OthersKeep(t)
    BY <1>5 DEF ParseStore, Goto, OthersKeep
  <2>2. ReaderInv(t)'
    BY <1>1, <1>5 DEF ParseStore, Goto, ReaderInv
  <2>3. InstalledInv(t)'
    BY <1>1, <1>5 DEF ParseStore, Goto, InstalledInv
  <2> QED BY <1>5, <2>1, <2>2, <2>3, OwnStep DEF ParseStore
<1> QED BY <1>2, <1>3, <1>4, <1>5

\* Every step keeps the invariant, and none takes the installed revision back.
LEMMA InvStep ==
  ASSUME TypeOK, ProviderInv, [Next]_vars
  PROVE  ProviderInv' /\ active_buffer_revision' >= active_buffer_revision
<1> DEFINE Goal == /\ ProviderInv'
                   /\ active_buffer_revision' >= active_buffer_revision
<1>0. active_buffer_revision \in Nat /\ active_buffer_revision' \in Nat
  BY TypeStep, RevisionNat DEF TypeOK
<1>a. ASSUME ProviderInv', UNCHANGED active_buffer_revision PROVE Goal
  BY <1>0, <1>a
<1>1. CASE Backend
  BY <1>1, <1>a, BackendInv DEF Backend, WriteBegin, WriteEnd, WriteWord
<1>2. ASSUME NEW t \in Thread,
             \/ UpdateBegin(t) \/ TryAccess(t) \/ SameRevision(t)
             \/ NewRevision(t) \/ \E w \in Word : CopyWord(t, w)
             \/ AccessAtomic(t)
      PROVE  Goal
  BY <1>2, <1>a, CopyInv
     DEF UpdateBegin, TryAccess, SameRevision, NewRevision, CopyWord,
         AccessAtomic
<1>3. ASSUME NEW t \in Thread,
             TryBusy(t) \/ SizesOutOfRange(t) \/ AccessDisturbed(t)
      PROVE  Goal
  BY <1>3, <1>a, NextAttemptInv DEF TryBusy, SizesOutOfRange, AccessDisturbed
<1>4. ASSUME NEW t \in Thread, CommitInvalid(t) PROVE Goal
  BY <1>4, <1>a, ReturnInv DEF CommitInvalid
<1>5. ASSUME NEW t \in Thread, CommitOvertaken(t) PROVE Goal
  <2>1. old_revision[t] < active_buffer_revision
    <3>1. old_revision[t] \in Nat
      BY RevisionNat DEF TypeOK
    <3>2. /\ old_revision[t] <= active_buffer_revision
          /\ old_revision[t] # active_buffer_revision
      BY <1>5 DEF CommitOvertaken, ProviderInv, InstalledInv
    <3> QED BY <1>0, <3>1, <3>2
  <2> QED BY <1>5, <1>a, <2>1, ReturnInv DEF CommitOvertaken
<1>6. ASSUME NEW t \in Thread, Commit(t) PROVE Goal
  BY <1>0, <1>6, CommitInv
<1>7. ASSUME NEW t \in Thread,
             \/ t = Io /\ NotifyDeviceInfoChanged
             \/ t \in User /\ (ParseCached(t) \/ ParseBegin(t)
                               \/ ParseStore(t))
      PROVE  Goal
  BY <1>7, <1>a, AfterUpdateInv
     DEF NotifyDeviceInfoChanged, ParseCached, ParseBegin, ParseStore
<1>8. CASE UNCHANGED vars
  BY <1>8, <1>a
     DEF ProviderInv, WriterInv, ReaderInv, InstalledInv, NoTornBuffer
<1> QED BY <1>1, <1>2, <1>3, <1>4, <1>5, <1>6, <1>7, <1>8 DEF Next, Step

\* The invariant holds when the buffer has just been set.
LEMMA InvInit == Init => ProviderInv
BY RevisionNat
   DEF Init, ProviderInv, WriterInv, ReaderInv, InstalledInv, NoTornBuffer

\* The two invariants hold throughout.
LEMMA InvAlways == Spec => []ProviderInv
<1>1. TypeOK /\ ProviderInv /\ [Next]_vars => ProviderInv'
  BY InvStep
<1> QED BY <1>1, InvInit, TypeCorrect, PTL DEF Spec

\* No torn, mislabelled or malformed document is ever installed, however the
\* backend's rewrites fall into the copies of however many threads.
THEOREM NeverTorn == Spec => []NoTornBuffer
<1>1. ProviderInv => NoTornBuffer
  BY DEF ProviderInv
<1> QED BY <1>1, InvAlways, PTL

\* The installed revision never goes back, although copies of several
\* revisions may be waiting for mutex_ at once.
THEOREM NeverBack == Spec => RevisionMonotonic
<1>1. TypeOK /\ ProviderInv /\ [Next]_vars =>
        [active_buffer_revision' >= active_buffer_revision]_vars
  BY InvStep
<1> QED BY <1>1, InvAlways, TypeCorrect, PTL DEF Spec, RevisionMonotonic

\* update() reports new_data to checkDefinitions() only for a document newer
\* than the one installed when it was called.
THEOREM NewIsNew == Spec => []NewDataIsNew
<1>1. TypeOK /\ ProviderInv => NewDataIsNew
  <2> SUFFICES ASSUME TypeOK, ProviderInv, pc[Io] = "notify"
               PROVE  active_buffer_revision > old_revision[Io]
    BY DEF NewDataIsNew
  <2>1. InstalledInv(Io) /\ Io \in Thread
    BY DEF ProviderInv, Thread
  <2>2. old_revision[Io] \in Nat /\ active_buffer_revision \in Nat
    BY <2>1, RevisionNat DEF TypeOK
  <2> QED BY <2>1, <2>2 DEF InstalledInv
<1> QED BY <1>1, InvAlways, TypeCorrect, PTL

\* getDeviceInfo() returns nothing older than what was installed when it was
\* called, even though an older parse may overwrite a newer one in the cache.
THEOREM FreshInfo == Spec => []FreshDeviceInfo
<1>1. TypeOK /\ ProviderInv => FreshDeviceInfo
  <2> SUFFICES ASSUME TypeOK, ProviderInv, NEW t \in User, pc[t] = "idle"
               PROVE  returned[t] >= old_revision[t]
    BY DEF FreshDeviceInfo
  <2>1. InstalledInv(t) /\ t \in Thread
    BY DEF ProviderInv, Thread
  <2>2. old_revision[t] \in Nat /\ returned[t] \in Nat
    BY <2>1, RevisionNat DEF TypeOK
  <2> QED BY <2>1, <2>2 DEF InstalledInv
<1> QED BY <1>1, InvAlways, TypeCorrect, PTL

----------------------------------------------------------------------------
(* The register. *)

\* The variables of the register that no step of a thread but Commit touches.
RegisterKept == UNCHANGED <<shmVars, activeVars>>

\* A move of pc is a move of the phase.
LEMMA PhaseMoves ==
  ASSUME TypeOK, NEW t \in Thread, NEW place, Goto(t, place)
  PROVE  [s \in Thread |-> Phase(pc[s])]'
           = [[s \in Thread |-> Phase(pc[s])] EXCEPT ![t] = Phase(place)]
BY DEF TypeOK, Goto

\* The phases of the places.
LEMMA Phases ==
  /\ \A p : Phase(p) = "idle" <=> p = "idle"
  /\ \A p \in SharedSection \cup {"commit", "parse"} : Phase(p) = "called"
  /\ Phase("idle") = "idle" /\ Phase("notify") = "announce"
  /\ Phase("store") = "read"
BY DEF Phase, SharedSection

\* Inside an attempt nothing of the register moves.
LEMMA InsideCall ==
  ASSUME TypeOK, NEW t \in Thread, NEW place, Goto(t, place),
         Phase(place) = Phase(pc[t]), RegisterKept,
         UNCHANGED <<old_revision, parsed, returned>>
  PROVE  UNCHANGED Register!registerVars
<1>1. [s \in Thread |-> Phase(pc[s])]' = [s \in Thread |-> Phase(pc[s])]
  BY DEF TypeOK, Goto
<1> QED BY <1>1 DEF Register!registerVars, RegisterKept

\* The io thread's call ends without or after its event.
LEMMA IoFinishes ==
  ASSUME TypeOK, pc[Io] # "idle", Goto(Io, "idle"), RegisterKept,
         UNCHANGED <<old_revision, parsed, returned>>
  PROVE  Register!Finish
<1>1. Io \in Thread
  BY DEF Thread
<1>2. [s \in Thread |-> Phase(pc[s])]'
        = [[s \in Thread |-> Phase(pc[s])] EXCEPT ![Io] = "idle"]
  BY <1>1, PhaseMoves, Phases
<1>3. [s \in Thread |-> Phase(pc[s])][Io] # "idle"
  BY <1>1, Phases
<1> QED BY <1>2, <1>3 DEF Register!Finish, RegisterKept

\* The places of a call in which it has neither read nor announced.
Calling(t) == pc[t] \in SharedSection \cup {"commit", "parse"}

\* update() returns without installing anything: a user's call goes on, and
\* the io thread announces what somebody else has installed.
LEMMA ReturnMaps ==
  ASSUME TypeOK, NEW t \in Thread, Calling(t), NEW result, Return(t, result),
         result = "new_data" => old_revision[t] < active_buffer_revision,
         RegisterKept, UNCHANGED <<old_revision, parsed, returned>>
  PROVE  [Register!RegisterNext]_(Register!registerVars)
<1>1. CASE t \in User
  <2>1. Goto(t, "parse")
    BY <1>1 DEF Return
  <2>2. Phase("parse") = Phase(pc[t])
    BY Phases DEF Calling
  <2> QED BY <2>1, <2>2, InsideCall
<1>2. CASE t \notin User /\ result # "new_data"
  <2>1. t = Io /\ Goto(Io, "idle") /\ pc[Io] # "idle"
    BY <1>2 DEF Return, Thread, Calling, SharedSection
  <2> QED BY <2>1, IoFinishes DEF Register!RegisterNext
<1>3. CASE t \notin User /\ result = "new_data"
  <2>1. t = Io /\ Goto(t, "notify")
    BY <1>3 DEF Return, Thread
  <2>2. [s \in Thread |-> Phase(pc[s])]'
          = [[s \in Thread |-> Phase(pc[s])] EXCEPT ![t] = "announce"]
    BY <2>1, PhaseMoves, Phases
  <2>3. [s \in Thread |-> Phase(pc[s])][t] = "called"
    BY Phases DEF Calling
  <2>4. Register!Announce
    BY <1>3, <2>1, <2>2, <2>3
       DEF Register!Announce, Register!Move, RegisterKept
  <2> QED BY <2>4 DEF Register!RegisterNext
<1> QED BY <1>1, <1>2, <1>3

\* An attempt is given up.
LEMMA NextAttemptMaps ==
  ASSUME TypeOK, NEW t \in Thread, Calling(t), NextAttempt(t),
         RegisterKept, UNCHANGED <<old_revision, parsed, returned>>
  PROVE  [Register!RegisterNext]_(Register!registerVars)
<1>1. CASE retries[t] + 1 < MaxRetries
  <2>1. Goto(t, "try")
    BY <1>1 DEF NextAttempt
  <2>2. Phase("try") = Phase(pc[t])
    BY Phases DEF Calling, SharedSection
  <2> QED BY <2>1, <2>2, InsideCall
<1>2. CASE ~(retries[t] + 1 < MaxRetries)
  <2>1. Return(t, "failed")
    BY <1>2 DEF NextAttempt
  <2> QED BY <2>1, ReturnMaps
<1> QED BY <1>1, <1>2

\* The beginning of a call.
LEMMA BeginMaps ==
  ASSUME TypeOK, NEW t \in Thread, UpdateBegin(t)
  PROVE  Register!Begin(t)
<1>1. [s \in Thread |-> Phase(pc[s])]'
        = [[s \in Thread |-> Phase(pc[s])] EXCEPT ![t] = "called"]
  BY PhaseMoves, Phases DEF UpdateBegin, SharedSection
<1>2. [s \in Thread |-> Phase(pc[s])][t] = "idle"
  BY Phases DEF UpdateBegin
<1> QED BY <1>1, <1>2 DEF Register!Begin, Register!Move, UpdateBegin

\* An installation: the copy is whole, of a finished revision, newer than the
\* installed one and well-formed.
LEMMA CommitMaps ==
  ASSUME TypeOK, ProviderInv, NEW t \in Thread, Commit(t)
  PROVE  Register!Install(t)
<1>1. /\ pc[t] = "commit" /\ ReaderInv(t)
      /\ active_buffer_revision' = new_revision[t]
      /\ active_buffer' = new_buffer[t]
      /\ old_revision[t] = active_buffer_revision
  BY DEF ProviderInv, Commit
<1>2. /\ new_revision[t] % 2 = 0 /\ new_revision[t] > active_buffer_revision
      /\ new_revision[t] <= data_revision_counter
      /\ \A w \in Word : new_buffer[t][w] = new_revision[t]
  BY <1>1 DEF ReaderInv
<1>3. new_revision[t] \in Nat /\ active_buffer_revision \in Nat
      /\ data_revision_counter \in Nat
  BY RevisionNat DEF TypeOK
<1>4. new_revision[t] <= data_revision_counter - (data_revision_counter % 2)
  BY <1>2, <1>3
<1>5. new_revision[t] \in active_buffer_revision + 1 ..
                            data_revision_counter - (data_revision_counter % 2)
  BY <1>2, <1>3, <1>4
<1>6. active_buffer' = [w \in Word |-> new_revision[t]]
  BY <1>1, <1>2 DEF TypeOK
<1>7. new_revision[t] \notin BadRevision
  BY <1>2, WordAssumption DEF Commit, Validates
<1>8. Goto(t, IF t \in User THEN "parse" ELSE "notify")
  BY DEF Commit, Return
<1>9. Phase(IF t \in User THEN "parse" ELSE "notify")
        = IF t = Io THEN "announce" ELSE "called"
  BY Phases, IoAssumption DEF Thread
<1>10. [s \in Thread |-> Phase(pc[s])]'
         = [[s \in Thread |-> Phase(pc[s])] EXCEPT ![t] =
              IF t = Io THEN "announce" ELSE "called"]
  BY <1>8, <1>9, PhaseMoves
<1>11. [s \in Thread |-> Phase(pc[s])][t] = "called"
  BY <1>1, Phases
<1> QED
  BY <1>1, <1>2, <1>5, <1>6, <1>7, <1>10, <1>11
     DEF Register!Install, Register!Move, Commit

\* The end of a rewrite publishes a revision, the rest of it does nothing.
LEMMA BackendMaps ==
  ASSUME TypeOK, Backend
  PROVE  [Register!RegisterNext]_(Register!registerVars)
<1>1. data_revision_counter \in Nat
  BY RevisionNat DEF TypeOK
<1>2. CASE WriteBegin
  <2>1. (data_revision_counter - (data_revision_counter % 2))'
          = data_revision_counter - (data_revision_counter % 2)
    BY <1>1, <1>2 DEF WriteBegin
  <2> QED BY <1>2, <2>1 DEF WriteBegin, Register!registerVars
<1>3. CASE WriteEnd
  <2>1. (data_revision_counter - (data_revision_counter % 2))'
          = (data_revision_counter - (data_revision_counter % 2)) + 2
    BY <1>1, <1>3 DEF WriteEnd
  <2>2. Register!Publish
    BY <1>3, <2>1 DEF WriteEnd, Register!Publish
  <2> QED BY <2>2 DEF Register!RegisterNext
<1>4. ASSUME NEW w \in Word, WriteWord(w)
      PROVE  UNCHANGED Register!registerVars
  BY <1>4 DEF WriteWord, Register!registerVars
<1> QED BY <1>2, <1>3, <1>4 DEF Backend

\* A user's call reads when it finds the cache up to date, or begins to parse.
LEMMA ParseMaps ==
  ASSUME TypeOK, NEW t \in User,
         ParseCached(t) \/ ParseBegin(t) \/ ParseStore(t)
  PROVE  Register!Read(t) \/ Register!Answer(t) \/ Register!ReadAnswer(t)
<1>0. t \in Thread
  BY DEF Thread
<1>1. CASE ParseCached(t)
  <2>1. [s \in Thread |-> Phase(pc[s])]'
          = [[s \in Thread |-> Phase(pc[s])] EXCEPT ![t] = "idle"]
    BY <1>0, <1>1, PhaseMoves, Phases DEF ParseCached
  <2>2. [s \in Thread |-> Phase(pc[s])][t] = "called"
    BY <1>0, <1>1, Phases DEF ParseCached
  <2> QED BY <1>1, <2>1, <2>2
          DEF ParseCached, Register!ReadAnswer, Register!Move
<1>2. CASE ParseBegin(t)
  <2>1. [s \in Thread |-> Phase(pc[s])]'
          = [[s \in Thread |-> Phase(pc[s])] EXCEPT ![t] = "read"]
    BY <1>0, <1>2, PhaseMoves, Phases DEF ParseBegin
  <2>2. [s \in Thread |-> Phase(pc[s])][t] = "called"
    BY <1>0, <1>2, Phases DEF ParseBegin
  <2> QED BY <1>2, <2>1, <2>2 DEF ParseBegin, Register!Read, Register!Move
<1>3. CASE ParseStore(t)
  <2>1. [s \in Thread |-> Phase(pc[s])]'
          = [[s \in Thread |-> Phase(pc[s])] EXCEPT ![t] = "idle"]
    BY <1>0, <1>3, PhaseMoves, Phases DEF ParseStore
  <2>2. [s \in Thread |-> Phase(pc[s])][t] = "read"
    BY <1>0, <1>3, Phases DEF ParseStore
  <2> QED BY <1>3, <2>1, <2>2 DEF ParseStore, Register!Answer, Register!Move
<1> QED BY <1>1, <1>2, <1>3

\* Every step of the provider is one of the register or leaves it alone.
LEMMA StepMaps ==
  ASSUME TypeOK, ProviderInv, [Next]_vars
  PROVE  [Register!RegisterNext]_(Register!registerVars)
<1> DEFINE Maps == [Register!RegisterNext]_(Register!registerVars)
<1>1. CASE Backend
  BY <1>1, BackendMaps
<1>2. ASSUME NEW t \in Thread, UpdateBegin(t) PROVE Maps
  BY <1>2, BeginMaps DEF Register!RegisterNext, Register!Thread, Thread
<1>3. ASSUME NEW t \in Thread, NEW place, NEW from,
             from \in SharedSection, pc[t] = from,
             place \in SharedSection \cup {"commit"}, Goto(t, place),
             RegisterKept, UNCHANGED <<old_revision, parsed, returned>>
      PROVE  Maps
  BY <1>3, InsideCall, Phases
<1>4. ASSUME NEW t \in Thread, TryAccess(t) PROVE Maps
  BY <1>3, <1>4 DEF TryAccess, RegisterKept, SharedSection
<1>5. ASSUME NEW t \in Thread, SameRevision(t) PROVE Maps
  BY <1>3, <1>5 DEF SameRevision, RegisterKept, SharedSection
<1>6. ASSUME NEW t \in Thread, NewRevision(t) PROVE Maps
  BY <1>3, <1>6 DEF NewRevision, RegisterKept, SharedSection
<1>7. ASSUME NEW t \in Thread, NEW w \in Word, CopyWord(t, w) PROVE Maps
  BY <1>3, <1>7 DEF CopyWord, RegisterKept, SharedSection
<1>8. ASSUME NEW t \in Thread,
             TryBusy(t) \/ SizesOutOfRange(t) \/ AccessDisturbed(t)
      PROVE  Maps
  <2>1. Calling(t)
    BY <1>8 DEF TryBusy, SizesOutOfRange, AccessDisturbed, Calling,
                SharedSection
  <2> QED BY <1>8, <2>1, NextAttemptMaps
          DEF TryBusy, SizesOutOfRange, AccessDisturbed, RegisterKept
<1>9. ASSUME NEW t \in Thread, AccessAtomic(t) PROVE Maps
  <2>1. CASE Return(t, "no_new_data")
    <3>1. Calling(t)
      BY <1>9 DEF AccessAtomic, Calling, SharedSection
    <3> QED BY <1>9, <2>1, <3>1, ReturnMaps DEF AccessAtomic, RegisterKept
  <2>2. CASE Goto(t, "commit")
    BY <1>3, <1>9, <2>2 DEF AccessAtomic, RegisterKept, SharedSection
  <2> QED BY <1>9, <2>1, <2>2 DEF AccessAtomic
<1>10. ASSUME NEW t \in Thread, CommitInvalid(t) PROVE Maps
  <2>1. Calling(t)
    BY <1>10 DEF CommitInvalid, Calling
  <2> QED BY <1>10, <2>1, ReturnMaps DEF CommitInvalid, RegisterKept
<1>11. ASSUME NEW t \in Thread, CommitOvertaken(t) PROVE Maps
  <2>1. Calling(t)
    BY <1>11 DEF CommitOvertaken, Calling
  <2>2. old_revision[t] < active_buffer_revision
    <3>1. old_revision[t] \in Nat /\ active_buffer_revision \in Nat
      BY RevisionNat DEF TypeOK
    <3>2. /\ old_revision[t] <= active_buffer_revision
          /\ old_revision[t] # active_buffer_revision
      BY <1>11 DEF CommitOvertaken, ProviderInv, InstalledInv
    <3> QED BY <3>1, <3>2
  <2> QED BY <1>11, <2>1, <2>2, ReturnMaps DEF CommitOvertaken, RegisterKept
<1>12. ASSUME NEW t \in Thread, Commit(t) PROVE Maps
  BY <1>12, CommitMaps DEF Register!RegisterNext, Register!Thread, Thread
<1>13. CASE NotifyDeviceInfoChanged
  BY <1>13, IoFinishes
     DEF NotifyDeviceInfoChanged, RegisterKept, Register!RegisterNext
<1>14. ASSUME NEW t \in User,
              ParseCached(t) \/ ParseBegin(t) \/ ParseStore(t)
       PROVE  Maps
  BY <1>14, ParseMaps DEF Register!RegisterNext
<1>15. CASE UNCHANGED vars
  BY <1>15 DEF Register!registerVars
<1> QED
  BY <1>1, <1>2, <1>4, <1>5, <1>6, <1>7, <1>8, <1>9, <1>10, <1>11, <1>12,
     <1>13, <1>14, <1>15 DEF Next, Step

\* The provider implements the register: what its clients observe is what an
\* atomic register would show them, for any number of threads, words and
\* rewrites, however their steps are interleaved.
THEOREM AtomicRegister == Spec => ProviderIsRegister
<1>1. Init => Register!RegisterInit
  BY Phases DEF Init, Register!RegisterInit, Register!Thread, Thread
<1>2. TypeOK /\ ProviderInv /\ [Next]_vars =>
        [Register!RegisterNext]_(Register!registerVars)
  BY StepMaps
<1> QED
  BY <1>1, <1>2, TypeCorrect, InvAlways, PTL
     DEF Spec, ProviderIsRegister, Register!RegisterSpec

=============================================================================
