-------------------------- MODULE ShmBsonProvider --------------------------
(***************************************************************************)
(* A BSON document in shared memory and the clients that read it            *)
(* (core/src/shm_bson_data_provider.cpp, device_info.cpp, compatibility.h). *)
(*                                                                         *)
(* The backend, another process, rewrites the document in place and marks   *)
(* the rewrite by making data_revision_counter odd.  In the client          *)
(* BsonShmDataProvider::update() copies the document optimistically, under  *)
(* the shared side of mutex_, and installs a copy that no rewrite disturbed *)
(* under its exclusive side.  The io thread calls it from checkDefinitions()*)
(* and announces new data with an event; user threads call it from          *)
(* Session::getDeviceInfo(), which then parses the installed document into  *)
(* a cache.                                                                 *)
(*                                                                         *)
(* A document is Word many words; a word is the revision that wrote it, so  *)
(* a copy is torn when its words differ.  The exclusive sections of mutex_  *)
(* are single actions, enabled when no thread is in the shared section.     *)
(***************************************************************************)
EXTENDS Integers, FiniteSets

CONSTANTS Io,           \* the thread that runs the io_context
          User,         \* threads calling getDeviceInfo()
          Word,         \* the words of a document
          MaxWrites,    \* bound: rewrites by the backend (< 2^31: no wrap)
          BadRevision,  \* revisions whose document BsonReader rejects
          MaxRetries    \* k_max_retries

ASSUME MaxWritesAssumption == MaxWrites \in Nat
ASSUME MaxRetriesAssumption == MaxRetries \in Nat \ {0}
ASSUME WordAssumption == Word # {}
ASSUME IoAssumption == Io \notin User

Thread == User \cup {Io}
Revision == 0 .. 2 * MaxWrites
NoInfo == -1
Blank == [w \in Word |-> 0]

VARIABLES
  data_revision_counter,    \* in the shared header
  shm,                      \* the words of the document in shared memory
  active_buffer, active_buffer_revision, buffer_changed,
  cached_device_info,       \* its revision, or NoInfo
  pc,                       \* per thread: where it is in update() or parse
  old_revision, new_revision, start_rev, retries,    \* locals of update()
  new_buffer, todo,         \* the copy being made, and the words to go
  valid_data,
  parsed,                   \* parseDeviceInfo(): the revision being parsed
  returned                  \* history, per thread: revision of the last FullInfo

shmVars == <<data_revision_counter, shm>>
activeVars == <<active_buffer, active_buffer_revision, buffer_changed>>
attemptVars == <<start_rev, new_buffer, todo, valid_data>>
localVars == <<old_revision, new_revision, retries, attemptVars, parsed>>
vars == <<shmVars, activeVars, cached_device_info, pc, localVars, returned>>

\* A thread in one of these places holds mutex_ shared.
SharedSection == {"try", "inside", "copy", "check"}
MutexFree == \A t \in Thread : pc[t] \notin SharedSection

TypeOK ==
  /\ data_revision_counter \in Revision
  /\ shm \in [Word -> Revision]
  /\ active_buffer \in [Word -> Revision]
  /\ active_buffer_revision \in Revision
  /\ buffer_changed \in BOOLEAN
  /\ cached_device_info \in Revision \cup {NoInfo}
  /\ pc \in [Thread -> SharedSection \cup
                       {"idle", "commit", "notify", "parse", "store"}]
  /\ old_revision \in [Thread -> Revision]
  /\ new_revision \in [Thread -> Revision]
  /\ start_rev \in [Thread -> Revision]
  /\ retries \in [Thread -> 0 .. MaxRetries - 1]
  /\ new_buffer \in [Thread -> [Word -> Revision]]
  /\ todo \in [Thread -> SUBSET Word]
  /\ valid_data \in [Thread -> BOOLEAN]
  /\ parsed \in [Thread -> Revision]
  /\ returned \in [Thread -> Revision]

\* setShmBuffer() has been called; the backend has not written yet.
Init ==
  /\ data_revision_counter = 0 /\ shm = [w \in Word |-> 0]
  /\ active_buffer = [w \in Word |-> 0]
  /\ active_buffer_revision = 0 /\ buffer_changed = TRUE
  /\ cached_device_info = NoInfo
  /\ pc = [t \in Thread |-> "idle"]
  /\ old_revision = [t \in Thread |-> 0]
  /\ new_revision = [t \in Thread |-> 0]
  /\ start_rev = [t \in Thread |-> 0]
  /\ retries = [t \in Thread |-> 0]
  /\ new_buffer = [t \in Thread |-> Blank]
  /\ todo = [t \in Thread |-> {}]
  /\ valid_data = [t \in Thread |-> FALSE]
  /\ parsed = [t \in Thread |-> 0]
  /\ returned = [t \in Thread |-> 0]

----------------------------------------------------------------------------
(* The backend (external): one rewrite of the document. *)

WriteBegin ==
  /\ data_revision_counter % 2 = 0
  /\ data_revision_counter < 2 * MaxWrites
  /\ data_revision_counter' = data_revision_counter + 1
  /\ UNCHANGED <<shm, activeVars, cached_device_info, pc, localVars,
                 returned>>

WriteWord(w) ==
  /\ data_revision_counter % 2 = 1
  /\ shm[w] # data_revision_counter + 1
  /\ shm' = [shm EXCEPT ![w] = data_revision_counter + 1]
  /\ UNCHANGED <<data_revision_counter, activeVars, cached_device_info, pc,
                 localVars, returned>>

WriteEnd ==
  /\ data_revision_counter % 2 = 1
  /\ \A w \in Word : shm[w] = data_revision_counter + 1
  /\ data_revision_counter' = data_revision_counter + 1
  /\ UNCHANGED <<shm, activeVars, cached_device_info, pc, localVars,
                 returned>>

----------------------------------------------------------------------------
(* BsonShmDataProvider::update() *)

Goto(t, place) == pc' = [pc EXCEPT ![t] = place]

\* The locals of an attempt are dead when it is over.
EndAttempt(t) ==
  /\ start_rev' = [start_rev EXCEPT ![t] = 0]
  /\ new_buffer' = [new_buffer EXCEPT ![t] = Blank]
  /\ todo' = [todo EXCEPT ![t] = {}]
  /\ valid_data' = [valid_data EXCEPT ![t] = FALSE]

\* update() returns: checkDefinitions() looks at the result, getDeviceInfo()
\* goes on to parse whatever is installed.
Return(t, result) ==
  /\ Goto(t, IF t \in User THEN "parse"
             ELSE IF result = "new_data" THEN "notify" ELSE "idle")
  /\ retries' = [retries EXCEPT ![t] = 0]
  /\ new_revision' = [new_revision EXCEPT ![t] = 0]
  /\ EndAttempt(t)

\* The lock is taken shared, and what is installed is remembered.
UpdateBegin(t) ==
  /\ pc[t] = "idle"
  /\ old_revision' = [old_revision EXCEPT ![t] = active_buffer_revision]
  /\ Goto(t, "try")
  /\ UNCHANGED <<shmVars, activeVars, cached_device_info, new_revision,
                 retries, attemptVars, parsed, returned>>

\* An attempt is over without a usable copy: go round again, or give up.
NextAttempt(t) ==
  IF retries[t] + 1 < MaxRetries
    THEN /\ retries' = [retries EXCEPT ![t] = retries[t] + 1]
         /\ Goto(t, "try")
         /\ EndAttempt(t)
         /\ UNCHANGED new_revision
    ELSE Return(t, "failed")

\* shmTryAtomicDataAccess(): read the counter; odd, or less than 2, means the
\* document is being written or was never written.
TryAccess(t) ==
  /\ pc[t] = "try"
  /\ data_revision_counter % 2 = 0 /\ data_revision_counter >= 2
  /\ start_rev' = [start_rev EXCEPT ![t] = data_revision_counter]
  /\ Goto(t, "inside")
  /\ UNCHANGED <<shmVars, activeVars, cached_device_info, old_revision,
                 new_revision, retries, new_buffer, todo, valid_data, parsed,
                 returned>>

TryBusy(t) ==
  /\ pc[t] = "try"
  /\ data_revision_counter % 2 = 1 \/ data_revision_counter < 2
  /\ NextAttempt(t)
  /\ UNCHANGED <<shmVars, activeVars, cached_device_info, old_revision,
                 parsed, returned>>

\* Mutant: a document is installed, so there is nothing to do.
NothingNew_FirstOnly(t) == ~buffer_changed

NothingNew(t) == data_revision_counter = old_revision[t] /\ ~buffer_changed

\* The functor reads the counter again: nothing new ...
SameRevision(t) ==
  /\ pc[t] = "inside" /\ NothingNew(t)
  /\ Goto(t, "check")
  /\ UNCHANGED <<shmVars, activeVars, cached_device_info, localVars,
                 returned>>

\* ... or a revision to copy, if data_offset and data_size are in range ...
NewRevision(t) ==
  /\ pc[t] = "inside" /\ ~NothingNew(t)
  /\ new_revision' = [new_revision EXCEPT ![t] = data_revision_counter]
  /\ valid_data' = [valid_data EXCEPT ![t] = TRUE]
  /\ todo' = [todo EXCEPT ![t] = Word]
  /\ Goto(t, "copy")
  /\ UNCHANGED <<shmVars, activeVars, cached_device_info, old_revision,
                 retries, start_rev, new_buffer, parsed, returned>>

\* ... which they may not be once they are being rewritten.
SizesOutOfRange(t) ==
  /\ pc[t] = "copy" /\ todo[t] = Word
  /\ data_revision_counter # start_rev[t]
  /\ NextAttempt(t)
  /\ UNCHANGED <<shmVars, activeVars, cached_device_info, old_revision,
                 parsed, returned>>

\* One word of the memcpy.
CopyWord(t, w) ==
  /\ pc[t] = "copy" /\ w \in todo[t]
  /\ new_buffer' = [new_buffer EXCEPT ![t][w] = shm[w]]
  /\ todo' = [todo EXCEPT ![t] = todo[t] \ {w}]
  /\ Goto(t, IF todo[t] = {w} THEN "check" ELSE "copy")
  /\ UNCHANGED <<shmVars, activeVars, cached_device_info, old_revision,
                 new_revision, retries, start_rev, valid_data, parsed,
                 returned>>

\* Mutant: the counter is not read a second time.
AccessAtomic_ReadOnce(t) ==
  /\ pc[t] = "check"
  /\ \/ /\ new_revision[t] = 0
        /\ Return(t, "no_new_data")
     \/ /\ new_revision[t] # 0 /\ valid_data[t]
        /\ Goto(t, "commit")
        /\ UNCHANGED <<new_revision, retries, attemptVars>>
  /\ UNCHANGED <<shmVars, activeVars, cached_device_info, old_revision,
                 parsed, returned>>

\* The counter is what it was: the access was atomic.  Either the functor saw
\* no new revision, or there is a copy.  (new_revision set and valid_data not
\* would need the counter to have gone back to old_revision.)
AccessAtomic(t) ==
  /\ pc[t] = "check" /\ data_revision_counter = start_rev[t]
  /\ \/ /\ new_revision[t] = 0
        /\ Return(t, "no_new_data")
     \/ /\ new_revision[t] # 0 /\ valid_data[t]
        /\ Goto(t, "commit")
        /\ UNCHANGED <<new_revision, retries, attemptVars>>
  /\ UNCHANGED <<shmVars, activeVars, cached_device_info, old_revision,
                 parsed, returned>>

AccessDisturbed(t) ==
  /\ pc[t] = "check" /\ data_revision_counter # start_rev[t]
  /\ NextAttempt(t)
  /\ UNCHANGED <<shmVars, activeVars, cached_device_info, old_revision,
                 parsed, returned>>

\* BsonReader::validate(new_buffer).
Validates(buffer) == \A w \in Word : buffer[w] \notin BadRevision

CommitInvalid(t) ==
  /\ pc[t] = "commit" /\ ~Validates(new_buffer[t])
  /\ Return(t, "failed")
  /\ UNCHANGED <<shmVars, activeVars, cached_device_info, old_revision,
                 parsed, returned>>

\* Another thread has installed a document meanwhile.
CommitOvertaken(t) ==
  /\ pc[t] = "commit" /\ Validates(new_buffer[t]) /\ MutexFree
  /\ old_revision[t] # active_buffer_revision
  /\ Return(t, "new_data")
  /\ UNCHANGED <<shmVars, activeVars, cached_device_info, old_revision,
                 parsed, returned>>

\* Mutant: a copy is installed whatever happened since the thread began.
Commit_Overtakes(t) ==
  /\ pc[t] = "commit" /\ Validates(new_buffer[t]) /\ MutexFree
  /\ active_buffer' = new_buffer[t]
  /\ active_buffer_revision' = new_revision[t]
  /\ buffer_changed' = FALSE
  /\ Return(t, "new_data")
  /\ UNCHANGED <<shmVars, cached_device_info, old_revision, parsed,
                 returned>>

\* Nobody has: install the copy.
Commit(t) ==
  /\ pc[t] = "commit" /\ Validates(new_buffer[t]) /\ MutexFree
  /\ old_revision[t] = active_buffer_revision
  /\ active_buffer' = new_buffer[t]
  /\ active_buffer_revision' = new_revision[t]
  /\ buffer_changed' = FALSE
  /\ Return(t, "new_data")
  /\ UNCHANGED <<shmVars, cached_device_info, old_revision, parsed,
                 returned>>

----------------------------------------------------------------------------

\* checkDefinitions(): notifyEvent(DeviceInfoChanged).
NotifyDeviceInfoChanged ==
  /\ pc[Io] = "notify"
  /\ Goto(Io, "idle")
  /\ UNCHANGED <<shmVars, activeVars, cached_device_info, localVars, returned>>

\* Mutant: any cached information will do.
ParseCached_Any(t) ==
  /\ pc[t] = "parse"
  /\ cached_device_info # NoInfo
  /\ returned' = [returned EXCEPT ![t] = cached_device_info]
  /\ Goto(t, "idle")
  /\ UNCHANGED <<shmVars, activeVars, cached_device_info, localVars>>

\* parseDeviceInfo(): the cache is up to date ...
ParseCached(t) ==
  /\ pc[t] = "parse"
  /\ cached_device_info = active_buffer_revision
  /\ returned' = [returned EXCEPT ![t] = cached_device_info]
  /\ Goto(t, "idle")
  /\ UNCHANGED <<shmVars, activeVars, cached_device_info, localVars>>

\* ... or the installed document is parsed outside the lock ...
ParseBegin(t) ==
  /\ pc[t] = "parse"
  /\ cached_device_info # active_buffer_revision
  /\ parsed' = [parsed EXCEPT ![t] = active_buffer_revision]
  /\ Goto(t, "store")
  /\ UNCHANGED <<shmVars, activeVars, cached_device_info, old_revision,
                 new_revision, retries, attemptVars, returned>>

\* ... and replaces the cache.
ParseStore(t) ==
  /\ pc[t] = "store" /\ MutexFree
  /\ cached_device_info' = parsed[t]
  /\ returned' = [returned EXCEPT ![t] = parsed[t]]
  /\ parsed' = [parsed EXCEPT ![t] = 0]
  /\ Goto(t, "idle")
  /\ UNCHANGED <<shmVars, activeVars, old_revision, new_revision, retries,
                 attemptVars>>

Step(t) ==
  \/ TryAccess(t) \/ TryBusy(t) \/ SameRevision(t) \/ NewRevision(t)
  \/ SizesOutOfRange(t) \/ \E w \in Word : CopyWord(t, w)
  \/ AccessAtomic(t) \/ AccessDisturbed(t)
  \/ CommitInvalid(t) \/ CommitOvertaken(t) \/ Commit(t)
  \/ t = Io /\ NotifyDeviceInfoChanged
  \/ t \in User /\ (ParseCached(t) \/ ParseBegin(t) \/ ParseStore(t))

Backend == WriteBegin \/ WriteEnd \/ \E w \in Word : WriteWord(w)

Next == Backend \/ \E t \in Thread : UpdateBegin(t) \/ Step(t)

Spec == Init /\ [][Next]_vars

\* The periodic timer calls checkDefinitions() again and again; a call that
\* has begun goes on.  The backend may stop for good in the middle of a
\* rewrite, and no user has to call.
Fairness == WF_vars(UpdateBegin(Io)) /\ \A t \in Thread : WF_vars(Step(t))

FairSpec == Spec /\ Fairness
----------------------------------------------------------------------------
(* Properties. *)

\* The installed document is one the backend wrote, whole, under the revision
\* it is installed with, and a well-formed one: whatever rewrites and other
\* readers do during the copy, no torn copy passes the two reads of
\* data_revision_counter.
NoTornBuffer ==
  active_buffer_revision # 0 =>
    /\ active_buffer_revision % 2 = 0
    /\ \A w \in Word : active_buffer[w] = active_buffer_revision
    /\ active_buffer_revision \notin BadRevision

\* Several threads may have copies of different revisions ready at once; the
\* installed revision still never goes back.
RevisionMonotonic ==
  [][active_buffer_revision' >= active_buffer_revision]_vars

\* update() reports new_data only when the document differs from the one that
\* was installed when it was called, also when another thread installed it.
NewDataIsNew ==
  pc[Io] = "notify" => active_buffer_revision > old_revision[Io]

\* getDeviceInfo() returns information at least as recent as what was
\* installed when it was called, although a slow parse may have put an older
\* FullInfo back into the cache.
FreshDeviceInfo ==
  \A t \in User : pc[t] = "idle" => returned[t] >= old_revision[t]

\* The inductive invariant behind these.  What the backend leaves in the
\* document while it is not, and while it is, rewriting it:
WriterInv ==
  IF data_revision_counter % 2 = 0
    THEN \A w \in Word : shm[w] = data_revision_counter
    ELSE \A w \in Word : shm[w] \in {data_revision_counter - 1,
                                    data_revision_counter + 1}

\* A copy is whole up to the words to go as long as the counter still is what
\* it was at the start, and it is of a newer revision than the one installed
\* when update() began.
ReaderInv(t) ==
  /\ pc[t] \notin {"copy", "check", "commit"} => ~valid_data[t]
  /\ pc[t] \in {"inside", "copy", "check"} =>
       /\ start_rev[t] % 2 = 0 /\ start_rev[t] >= 2
       /\ start_rev[t] <= data_revision_counter
  /\ pc[t] \in {"copy", "check"} /\ valid_data[t] =>
       /\ new_revision[t] > old_revision[t]
       /\ start_rev[t] = data_revision_counter =>
            /\ new_revision[t] = start_rev[t]
            /\ \A w \in Word \ todo[t] : new_buffer[t][w] = start_rev[t]
  /\ pc[t] # "copy" => todo[t] = {}
  /\ pc[t] = "commit" =>
       /\ new_revision[t] % 2 = 0
       /\ new_revision[t] > old_revision[t]
       /\ new_revision[t] <= data_revision_counter
       /\ \A w \in Word : new_buffer[t][w] = new_revision[t]

\* What a thread has read of the installed revision is not ahead of it.
InstalledInv(t) ==
  /\ old_revision[t] <= active_buffer_revision
  /\ pc[t] = "notify" => old_revision[t] < active_buffer_revision
  /\ pc[t] = "store" => old_revision[t] <= parsed[t]
  /\ t \in User /\ pc[t] = "idle" => old_revision[t] <= returned[t]

ProviderInv ==
  /\ WriterInv
  /\ \A t \in Thread : ReaderInv(t) /\ InstalledInv(t)
  /\ active_buffer_revision <= data_revision_counter
  /\ buffer_changed => active_buffer_revision = 0
  /\ NoTornBuffer

\* Once the backend stays at a well-formed revision, that one gets installed
\* and stays installed.
Settled == /\ data_revision_counter % 2 = 0 /\ data_revision_counter >= 2
           /\ data_revision_counter \notin BadRevision
EventuallyCurrent ==
  <>[]Settled => <>[](active_buffer_revision = data_revision_counter)

\* By its documentation DeviceInfoChanged says that the device information has
\* changed: as long as the io thread's checks end, every document that gets
\* installed is followed by the event, at the latest with a newer one.
ChangesAnnounced ==
  \A r \in Revision \ {0} :
    []<>(pc[Io] = "idle") /\ <>(active_buffer_revision = r) =>
      <>(pc[Io] = "notify" /\ active_buffer_revision >= r)

\* The register that its clients see: where a thread is in its call, ...
Phase(place) == IF place = "idle" THEN "idle"
                ELSE IF place = "notify" THEN "announce"
                ELSE IF place = "store" THEN "read" ELSE "called"

\* ... and what is in the register and in the thread's hands.
Register == INSTANCE DocumentRegister WITH
  written  <- data_revision_counter - (data_revision_counter % 2),
  document <- active_buffer,
  revision <- active_buffer_revision,
  phase    <- [t \in Thread |-> Phase(pc[t])],
  since    <- old_revision,
  value    <- parsed,
  answer   <- returned

\* The provider with its cache is a register: every document is installed
\* whole and in one step, and getDeviceInfo() returns the document that was
\* installed at some moment of the call, although copies and parses of several
\* threads overlap and a slow one may put an older FullInfo into the cache.
ProviderIsRegister == Register!RegisterSpec
=============================================================================
