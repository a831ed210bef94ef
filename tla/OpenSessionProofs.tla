------------------------- MODULE OpenSessionProofs -------------------------
(***************************************************************************)
(* The reference that openSession() goes on with comes from one publication *)
(* of the backend; threads wait for each other's locks in two cases only;   *)
(* and the active session is kept, for any number of threads, updates,      *)
(* sessions and calls.                                                      *)
(***************************************************************************)
EXTENDS OpenSession, FiniteSetTheorems, TLAPS

Place == Opening \cup {"idle", "queue", "close", "closed", "registering"}

Record == [active : BOOLEAN, id : Nat, path : Nat]

\* Types of what the optimistic copy reads and writes.
CopyType ==
  /\ revision_counter \in Nat /\ core \in Record /\ target \in Record
  /\ pc \in [Thread -> Place]
  /\ session_ref \in [Thread -> [id : Nat, path : Nat]]
  /\ start_revision \in [Thread -> Nat]
  /\ copied \in [Thread -> BOOLEAN]

\* The backend writes one session at a time, and has done so when the counter
\* is even.
Whole ==
  /\ target.id = target.path
  /\ revision_counter % 2 = 0 => core = target

Reading == {"state", "id", "path", "check"}

\* A copy in progress began at an even revision, not later than the present
\* one; while that is the revision, what has been read is what is there.
CopyInProgress(t) ==
  /\ start_revision[t] <= revision_counter
  /\ pc[t] \in Reading => start_revision[t] % 2 = 0 /\ ~copied[t]
  /\ revision_counter = start_revision[t] =>
       /\ pc[t] \in {"path", "check"} => session_ref[t].id = core.id
       /\ pc[t] = "check" => session_ref[t].path = core.path

CopyInv ==
  /\ CopyType /\ Whole
  /\ \A t \in Thread : CopyInProgress(t)
  /\ RefFromOnePublication

----------------------------------------------------------------------------

LEMMA Parity ==
  ASSUME NEW n \in Nat
  PROVE  /\ n % 2 # 1 => n % 2 = 0
         /\ n % 2 = 0 => (n + 1) % 2 # 0
OBVIOUS

LEMMA InitCopyInv == Init => CopyInv
<1> SUFFICES ASSUME Init PROVE CopyInv
  OBVIOUS
<1>1. CopyType
  BY DEF Init, CopyType, Record, Place, Opening
<1>2. Whole
  BY DEF Init, Whole
<1>3. ASSUME NEW t \in Thread PROVE CopyInProgress(t)
  BY DEF Init, CopyInProgress, Reading
<1>4. RefFromOnePublication
  BY DEF Init, RefFromOnePublication
<1> QED
  BY <1>1, <1>2, <1>3, <1>4 DEF CopyInv

(* The backend: a rewrite moves the counter away from every copy in progress. *)
LEMMA BackendKeepsCopyInv == CopyInv /\ BackendNext => CopyInv'
<1> SUFFICES ASSUME CopyInv, BackendNext PROVE CopyInv'
  OBVIOUS
<1>0. UNCHANGED <<pc, copyVars>>
  BY DEF BackendNext, Publish, Published, WriteField, SessionEnds
<1>1. RefFromOnePublication'
  BY <1>0 DEF CopyInv, RefFromOnePublication, copyVars
<1>2. CASE Publish
  <2>1. revision_counter % 2 = 0 /\ revision_counter' = revision_counter + 1 /\ core' = core
    BY <1>2 DEF Publish
  <2>2. target' \in Record /\ target'.id = target'.path
    <3>1. core \in Record /\ core.id = core.path
      BY <2>1 DEF CopyInv, CopyType, Whole
    <3>2. CASE target' = [core EXCEPT !.active = FALSE]
      BY <3>1, <3>2 DEF Record
    <3>3. ASSUME NEW k, k = revision_counter \div 2 + 1,
                 target' = [active |-> TRUE, id |-> k, path |-> k]
          PROVE  target' \in Record /\ target'.id = target'.path
      <4>1. k \in Nat
        BY <3>3 DEF CopyInv, CopyType
      <4> QED
        BY <4>1, <3>3 DEF Record
    <3> QED
      BY <1>2, <3>2, <3>3 DEF Publish
  <2>3. CopyType'
    BY <1>0, <2>1, <2>2 DEF CopyInv, CopyType, copyVars
  <2>4. Whole'
    <3>1. (revision_counter + 1) % 2 # 0
      BY <2>1, Parity DEF CopyInv, CopyType
    <3> QED
      BY <2>1, <2>2, <3>1 DEF Whole
  <2>5. ASSUME NEW t \in Thread PROVE CopyInProgress(t)'
    <3>1. start_revision[t] \in Nat /\ revision_counter \in Nat /\ start_revision[t] <= revision_counter
      BY DEF CopyInv, CopyType, CopyInProgress
    <3>2. revision_counter' # start_revision[t] /\ start_revision[t] <= revision_counter'
      BY <2>1, <3>1
    <3> QED
      BY <1>0, <3>2 DEF CopyInv, CopyInProgress, copyVars
  <2> QED
    BY <1>1, <2>3, <2>4, <2>5 DEF CopyInv
<1>3. CASE Published
  <2>1. revision_counter' = revision_counter + 1 /\ core' = core /\ target' = target /\ core = target
    BY <1>3 DEF Published
  <2>2. CopyType' /\ Whole'
    BY <1>0, <2>1 DEF CopyInv, CopyType, Whole, copyVars
  <2>3. ASSUME NEW t \in Thread PROVE CopyInProgress(t)'
    <3>1. start_revision[t] \in Nat /\ revision_counter \in Nat /\ start_revision[t] <= revision_counter
      BY DEF CopyInv, CopyType, CopyInProgress
    <3>2. revision_counter' # start_revision[t] /\ start_revision[t] <= revision_counter'
      BY <2>1, <3>1
    <3> QED
      BY <1>0, <3>2 DEF CopyInv, CopyInProgress, copyVars
  <2> QED
    BY <1>1, <2>2, <2>3 DEF CopyInv
<1>4. ASSUME NEW f \in {"active", "id", "path"}, WriteField(f) PROVE CopyInv'
  <2>1. /\ revision_counter' = revision_counter /\ target' = target
        /\ revision_counter % 2 = 1 /\ core' = [core EXCEPT ![f] = target[f]]
    BY <1>4 DEF WriteField
  <2>2. core' \in Record
    <3>1. core \in Record /\ target \in Record
      BY DEF CopyInv, CopyType
    <3> QED
      BY <2>1, <3>1 DEF Record
  <2>3. CopyType'
    BY <1>0, <2>1, <2>2 DEF CopyInv, CopyType, copyVars
  <2>4. Whole'
    BY <2>1 DEF CopyInv, Whole
  <2>5. ASSUME NEW t \in Thread PROVE CopyInProgress(t)'
    BY <1>0, <2>1 DEF CopyInv, CopyInProgress, Reading, copyVars
  <2> QED
    BY <1>1, <2>3, <2>4, <2>5 DEF CopyInv
<1>5. ASSUME NEW k \in Backend, SessionEnds(k) PROVE CopyInv'
  BY <1>5 DEF SessionEnds, CopyInv, CopyType, Whole, CopyInProgress, RefFromOnePublication, copyVars
<1> QED
  BY <1>2, <1>3, <1>4, <1>5 DEF BackendNext

(* A step of a thread that neither begins nor continues a copy. *)
LEMMA ElsewhereKeepsCopyInv ==
  ASSUME CopyInv, NEW t \in Thread, NEW p \in Place \ Reading,
         pc' = pc \/ pc' = [pc EXCEPT ![t] = p],
         UNCHANGED <<revision_counter, core, target, session_ref>>,
         \/ UNCHANGED <<start_revision, copied>>
         \/ /\ start_revision' = [start_revision EXCEPT ![t] = 0]
            /\ copied' = [copied EXCEPT ![t] = FALSE]
  PROVE  CopyInv'
<1>1. CopyType' /\ Whole'
  <2>1. pc' \in [Thread -> Place]
    BY DEF CopyInv, CopyType
  <2>2. start_revision' \in [Thread -> Nat] /\ copied' \in [Thread -> BOOLEAN]
    <3>1. start_revision \in [Thread -> Nat] /\ copied \in [Thread -> BOOLEAN]
      BY DEF CopyInv, CopyType
    <3>2. CASE UNCHANGED <<start_revision, copied>>
      BY <3>1, <3>2
    <3>3. CASE /\ start_revision' = [start_revision EXCEPT ![t] = 0]
               /\ copied' = [copied EXCEPT ![t] = FALSE]
      <4>1. start_revision' \in [Thread -> Nat]
        BY <3>1, <3>3
      <4>2. copied' \in [Thread -> BOOLEAN]
        BY <3>1, <3>3, Zenon
      <4> QED
        BY <4>1, <4>2
    <3> QED
      BY <3>2, <3>3
  <2> QED
    BY <2>1, <2>2 DEF CopyInv, CopyType, Whole
<1>2. RefFromOnePublication'
  BY DEF CopyInv, CopyType, RefFromOnePublication
<1>3. ASSUME NEW u \in Thread PROVE CopyInProgress(u)'
  BY DEF CopyInv, CopyType, CopyInProgress, Reading
<1> QED
  BY <1>1, <1>2, <1>3 DEF CopyInv

(* The steps of the copy itself. *)
LEMMA ReadingKeepsCopyInv ==
  ASSUME CopyInv, NEW t \in Thread,
         \/ ReadRevision(t) \/ ReadState(t) \/ ReadId(t) \/ ReadPath(t) \/ CheckRevision(t)
  PROVE  CopyInv'
<1>0. UNCHANGED <<revision_counter, core, target>>
  BY DEF ReadRevision, ReadState, ReadId, ReadPath, CheckRevision, backendVars
<1>1. Whole'
  BY <1>0 DEF CopyInv, Whole
<1>2. CASE ReadRevision(t)
  <2>1. revision_counter % 2 # 1 => revision_counter % 2 = 0
    BY Parity DEF CopyInv, CopyType
  <2>2. /\ UNCHANGED session_ref /\ copied' = [copied EXCEPT ![t] = FALSE]
        /\ start_revision' = [start_revision EXCEPT ![t] = revision_counter]
        /\ \/ pc' = [pc EXCEPT ![t] = "loop"]
           \/ pc' = [pc EXCEPT ![t] = "state"] /\ revision_counter % 2 = 0
    BY <1>2, <2>1 DEF ReadRevision, Busy, Go
  <2>3. CopyType'
    BY <1>0, <2>2 DEF CopyInv, CopyType, Place, Opening
  <2>4. ASSUME NEW u \in Thread PROVE CopyInProgress(u)'
    BY <1>0, <2>2 DEF CopyInv, CopyType, CopyInProgress, Reading
  <2>5. RefFromOnePublication'
    BY <2>2 DEF CopyInv, CopyType, RefFromOnePublication
  <2> QED
    BY <1>1, <2>3, <2>4, <2>5 DEF CopyInv
<1>3. CASE ReadState(t)
  <2>1. /\ UNCHANGED copyVars /\ pc[t] = "state"
        /\ pc' = [pc EXCEPT ![t] = "id"] \/ pc' = [pc EXCEPT ![t] = "block"]
    BY <1>3 DEF ReadState, Go
  <2>2. CopyType'
    BY <1>0, <2>1 DEF CopyInv, CopyType, Place, Opening, copyVars
  <2>3. ASSUME NEW u \in Thread PROVE CopyInProgress(u)'
    BY <1>0, <2>1 DEF CopyInv, CopyType, CopyInProgress, Reading, copyVars
  <2>4. RefFromOnePublication'
    BY <2>1 DEF CopyInv, RefFromOnePublication, copyVars
  <2> QED
    BY <1>1, <2>2, <2>3, <2>4 DEF CopyInv
<1>4. CASE ReadId(t)
  <2>1. /\ UNCHANGED <<start_revision, copied>> /\ pc[t] = "id"
        /\ pc' = [pc EXCEPT ![t] = "path"]
        /\ session_ref' = [session_ref EXCEPT ![t].id = core.id]
    BY <1>4 DEF ReadId, Go
  <2>2. core.id \in Nat
    BY DEF CopyInv, CopyType, Record
  <2>3. CopyType'
    BY <1>0, <2>1, <2>2 DEF CopyInv, CopyType, Place, Opening
  <2>4. ASSUME NEW u \in Thread PROVE CopyInProgress(u)'
    BY <1>0, <2>1 DEF CopyInv, CopyType, CopyInProgress, Reading
  <2>5. RefFromOnePublication'
    BY <2>1 DEF CopyInv, CopyType, CopyInProgress, Reading, RefFromOnePublication
  <2> QED
    BY <1>1, <2>3, <2>4, <2>5 DEF CopyInv
<1>5. CASE ReadPath(t)
  <2>1. /\ UNCHANGED <<start_revision, copied>> /\ pc[t] = "path"
        /\ pc' = [pc EXCEPT ![t] = "check"]
        /\ session_ref' = [session_ref EXCEPT ![t].path = core.path]
    BY <1>5 DEF ReadPath, Go
  <2>2. core.path \in Nat
    BY DEF CopyInv, CopyType, Record
  <2>3. CopyType'
    BY <1>0, <2>1, <2>2 DEF CopyInv, CopyType, Place, Opening
  <2>4. ASSUME NEW u \in Thread PROVE CopyInProgress(u)'
    BY <1>0, <2>1 DEF CopyInv, CopyType, CopyInProgress, Reading
  <2>5. RefFromOnePublication'
    BY <2>1 DEF CopyInv, CopyType, CopyInProgress, Reading, RefFromOnePublication
  <2> QED
    BY <1>1, <2>3, <2>4, <2>5 DEF CopyInv
<1>6. CASE CheckRevision(t)
  <2>1. /\ UNCHANGED <<session_ref, start_revision>> /\ pc[t] = "check"
        /\ \/ /\ revision_counter = start_revision[t] /\ pc' = [pc EXCEPT ![t] = "block"]
              /\ copied' = [copied EXCEPT ![t] = TRUE]
           \/ pc' = [pc EXCEPT ![t] = "loop"] /\ UNCHANGED copied
    BY <1>6 DEF CheckRevision, Undisturbed, Busy, Go
  <2>2. CopyType'
    BY <1>0, <2>1 DEF CopyInv, CopyType, Place, Opening
  <2>3. ASSUME NEW u \in Thread PROVE CopyInProgress(u)'
    BY <1>0, <2>1 DEF CopyInv, CopyType, CopyInProgress, Reading
  <2>4. revision_counter = start_revision[t] => session_ref[t].id = session_ref[t].path
    <3>1. revision_counter = start_revision[t] =>
            /\ core = target /\ target.id = target.path
            /\ session_ref[t].id = core.id /\ session_ref[t].path = core.path
      BY <2>1 DEF CopyInv, Whole, CopyInProgress, Reading
    <3> QED
      BY <3>1
  <2>5. RefFromOnePublication'
    BY <2>1, <2>4 DEF CopyInv, CopyType, RefFromOnePublication
  <2> QED
    BY <1>1, <2>2, <2>3, <2>5 DEF CopyInv
<1> QED
  BY <1>2, <1>3, <1>4, <1>5, <1>6

(* Every other step of a thread is one elsewhere. *)
LEMMA OtherKeepsCopyInv ==
  ASSUME CopyInv, NEW t \in Thread,
         \/ OpenCoreShmHandle(t) \/ TimeOut(t) \/ OpenBlock(t) \/ CheckSession(t)
         \/ OpenBlocksFailed(t) \/ Construct(t) \/ GetSession(t)
         \/ Call(t) \/ LockStep(t) \/ Registered(t)
  PROVE  CopyInv'
<1> DEFINE Away == {"idle", "core", "loop", "block", "refs", "construct", "get",
                    "queue", "close", "closed", "registering"}
           Reset == \/ UNCHANGED <<start_revision, copied>>
                    \/ /\ start_revision' = [start_revision EXCEPT ![t] = 0]
                       /\ copied' = [copied EXCEPT ![t] = FALSE]
           Moved == pc' = pc \/ \E p \in Away : pc' = [pc EXCEPT ![t] = p]
<1>1. UNCHANGED <<revision_counter, core, target, session_ref>> /\ Reset /\ Moved
  <2>1. CASE OpenCoreShmHandle(t) \/ TimeOut(t) \/ OpenBlock(t) \/ CheckSession(t)
             \/ OpenBlocksFailed(t)
    BY <2>1 DEF OpenCoreShmHandle, TimeOut, OpenBlock, CheckSession, OpenBlocksFailed, Fail, Go, backendVars
  <2>2. CASE Construct(t)
    BY <2>2 DEF Construct, Go, backendVars
  <2>3. CASE GetSession(t)
    BY <2>3 DEF GetSession, Return, backendVars, copyVars
  <2>4. CASE Call(t)
    BY <2>4 DEF Call, OpenSession, GetOpenSession, CreateEventQueue, Close, DropHandle,
                RegisterToControl, Begin, Go, backendVars, copyVars
  <2>5. CASE LockStep(t)
    BY <2>5 DEF LockStep, CloseLock, SessionClosed, AddEventQueue, Begin, Return, backendVars, copyVars
  <2>6. CASE Registered(t)
    BY <2>6 DEF Registered, Return, backendVars, copyVars
  <2> QED
    BY <2>1, <2>2, <2>3, <2>4, <2>5, <2>6
<1>2. Away \subseteq Place \ Reading
  BY DEF Place, Opening, Reading
<1>3. \E p \in Place \ Reading : pc' = pc \/ pc' = [pc EXCEPT ![t] = p]
  BY <1>1, <1>2
<1> HIDE DEF Moved, Away
<1> QED
  BY <1>1, <1>3, ElsewhereKeepsCopyInv

----------------------------------------------------------------------------

\* The copy stays consistent, for any number of threads, updates and calls.
THEOREM CopyInvariant == Spec => []CopyInv
<1>1. Init => CopyInv
  BY InitCopyInv
<1>2. CopyInv /\ [Next]_vars => CopyInv'
  <2> SUFFICES ASSUME CopyInv, [Next]_vars PROVE CopyInv'
    OBVIOUS
  <2>1. CASE BackendNext
    BY <2>1, BackendKeepsCopyInv
  <2>2. CASE DestroyApi
    BY <2>2 DEF DestroyApi, CopyInv, CopyType, Whole, CopyInProgress,
                RefFromOnePublication, backendVars, copyVars
  <2>3. ASSUME NEW t \in Thread, Call(t) \/ OpenStep(t) \/ LockStep(t) \/ Registered(t)
        PROVE  CopyInv'
    BY <2>3, ReadingKeepsCopyInv, OtherKeepsCopyInv DEF OpenStep
  <2>4. CASE UNCHANGED vars
    BY <2>4 DEF vars, CopyInv, CopyType, Whole, CopyInProgress, RefFromOnePublication,
                backendVars, copyVars
  <2> QED
    BY <2>1, <2>2, <2>3, <2>4 DEF Next
<1> QED
  BY <1>1, <1>2, PTL DEF Spec

\* A reference that tryCopySessionRef() reports as copied is that of one
\* publication, whatever the backend does meanwhile (api_core.cpp:133-170).
THEOREM OneReference == Spec => []RefFromOnePublication
<1>1. CopyInv => RefFromOnePublication
  BY DEF CopyInv
<1> QED
  BY <1>1, CopyInvariant, PTL

----------------------------------------------------------------------------
(* The locks. *)

Opens == {"core", "loop", "state", "id", "path", "check", "block", "refs",
          "construct"}
Closing == {"close", "closed"}
HoldsSm == {"closed", "registering"}

LockType ==
  /\ m_ \in Thread \cup {"none"}
  /\ sm_ \in [Object -> Thread \cup {"none"}]
  /\ active_session_ \in 0 .. MaxObjects
  /\ objects \in [Object -> [state : {"unused", "open", "invalid", "dead"},
                             api : BOOLEAN, of : Nat]]
  /\ handles \in [Thread -> SUBSET Object]
  /\ arg \in [Thread -> 0 .. MaxObjects]

\* Session objects are used in order, and one that is referred to has been.
ObjectsInOrder ==
  /\ \E n \in 0 .. MaxObjects :
       \A o \in Object : objects[o].state = "unused" <=> o > n
  /\ \A s \in Object : Held(s) => objects[s].state # "unused"

\* The active session is open, unless a thread that has a handle closes it.
ActiveOpen ==
  active_session_ # 0 =>
    \/ objects[active_session_].state = "open" /\ objects[active_session_].api
    \/ \E t \in Thread : /\ pc[t] = "closed" /\ arg[t] = active_session_
                         /\ active_session_ \in handles[t]

\* Who holds Impl::m_.  A thread that has it and closes a session is in
\* openSession(), destroys the session that it replaced, and finds it open.
HoldsM(t) ==
  /\ pc[t] \in Opens \cup {"queue"} => m_ = t
  /\ m_ = t =>
       /\ pc[t] \in Opens \cup Closing \cup {"queue"}
       /\ pc[t] \in Closing => arg[t] \notin handles[t]
       /\ pc[t] = "close" => objects[arg[t]].state = "open" /\ objects[arg[t]].api
  /\ pc[t] \in Opens => \E s \in Object : objects[s].state = "unused"
  /\ pc[t] = "queue" => arg[t] = active_session_ /\ active_session_ # 0

\* Nobody else is in a call on s.
Alone(t, s) ==
  /\ ~Held(s)
  /\ \A u \in Thread \ {t} : pc[u] \in Closing \cup HoldsSm => arg[u] # s

\* A thread in a call on a session has a handle to it, or destroys it alone.
OnSession(t) ==
  /\ pc[t] \in Closing =>
       /\ arg[t] # 0 /\ objects[arg[t]].state # "unused"
       /\ arg[t] \in handles[t] \/ Alone(t, arg[t])
  /\ pc[t] = "registering" => arg[t] \in handles[t]
  /\ pc[t] \in HoldsSm => arg[t] # 0 /\ sm_[arg[t]] = t
  /\ pc[t] = "closed" => objects[arg[t]].state = "invalid"

\* Who holds a Session::m_.
Locked(s) == sm_[s] # "none" => pc[sm_[s]] \in HoldsSm /\ arg[sm_[s]] = s

LockInv ==
  /\ LockType /\ ObjectsInOrder /\ ActiveOpen
  /\ \A t \in Thread : HoldsM(t) /\ OnSession(t)
  /\ \A s \in Object : Locked(s)

LEMMA InitLockInv == Init => LockInv
<1> SUFFICES ASSUME Init PROVE LockInv
  OBVIOUS
<1> USE DEF Opens, Closing, HoldsSm
<1>1. LockType
  BY BoundsAssumption DEF Init, LockType
<1>2. ObjectsInOrder
  <2>1. 0 \in 0 .. MaxObjects /\ \A o \in Object : objects[o].state = "unused" /\ o > 0
    BY BoundsAssumption DEF Init, Object
  <2>2. \A s \in Object : ~Held(s)
    BY DEF Init, Held, Object
  <2> QED BY <2>1, <2>2 DEF ObjectsInOrder
<1>3. ActiveOpen
  BY DEF Init, ActiveOpen
<1>4. ASSUME NEW t \in Thread PROVE HoldsM(t) /\ OnSession(t)
  BY NoThreadAssumption DEF Init, HoldsM, OnSession
<1>5. ASSUME NEW s \in Object PROVE Locked(s)
  BY DEF Init, Locked
<1> QED BY <1>1, <1>2, <1>3, <1>4, <1>5 DEF LockInv

\* Steps that touch no lock and no session.
LEMMA LockFrame ==
  ASSUME LockInv, UNCHANGED <<lockVars, active_session_, objects, handles, pc, arg>>
  PROVE  LockInv'
BY DEF LockInv, LockType, ObjectsInOrder, ActiveOpen, HoldsM, OnSession, Alone,
       Held, Locked, lockVars

\* Steps of openSession() under Impl::m_, up to the session it constructs.
LEMMA OpenKeepsLockInv ==
  ASSUME LockInv, CopyType, NEW t \in Thread, pc[t] \in Opens, NEW p \in Place,
         pc' = [pc EXCEPT ![t] = p],
         \/ p \in Opens /\ m_' = m_
         \/ p = "idle" /\ m_' = "none",
         UNCHANGED <<sm_, active_session_, objects, handles, arg>>
  PROVE  LockInv'
<1> USE DEF Opens, Closing, HoldsSm
<1>0. /\ m_ = t /\ pc'[t] = p /\ \A u \in Thread \ {t} : pc'[u] = pc[u] /\ m_' # u
      /\ \A s \in Object : Held(s)' = Held(s)
  BY NoThreadAssumption DEF LockInv, HoldsM, CopyType, Held
<1>1. LockType' /\ ObjectsInOrder'
  BY <1>0 DEF LockInv, LockType, ObjectsInOrder
<1>2. ActiveOpen'
  BY <1>0 DEF LockInv, ActiveOpen
<1>3. ASSUME NEW u \in Thread PROVE HoldsM(u)'
  BY <1>0, NoThreadAssumption DEF LockInv, HoldsM
<1>4. ASSUME NEW u \in Thread PROVE OnSession(u)'
  BY <1>0 DEF LockInv, LockType, OnSession, Alone, Held
<1>5. ASSUME NEW s \in Object PROVE Locked(s)'
  BY <1>0 DEF LockInv, LockType, Locked
<1> QED BY <1>1, <1>2, <1>3, <1>4, <1>5 DEF LockInv

LEMMA OpenSessionLocks ==
  ASSUME LockInv, CopyType, NEW t \in Thread, OpenSession(t)
  PROVE  LockInv'
<1> USE DEF Opens, Closing, HoldsSm
<1>0. /\ m_ = "none" /\ m_' = t /\ pc[t] = "idle" /\ pc'[t] = "core"
      /\ \A u \in Thread \ {t} : pc'[u] = pc[u]
      /\ UNCHANGED <<sm_, active_session_, objects, handles, arg>>
      /\ pc' \in [Thread -> Place]
      /\ \A s \in Object : Held(s)' = Held(s)
  BY DEF OpenSession, Idle, TakeM, Go, CopyType, Held, Place, Opening
<1>u. \E s \in Object : objects[s].state = "unused"
  <2> DEFINE U == {s \in Object : objects[s].state = "unused"}
  <2>1. Cardinality(U) > 0
    BY DEF OpenSession
  <2>2. Cardinality({}) = 0
    BY FS_EmptySet
  <2>3. U # {}
    <3> HIDE DEF U
    <3> QED BY <2>1, <2>2
  <2> QED BY <2>3
<1>1. LockType' /\ ObjectsInOrder'
  BY <1>0 DEF LockInv, LockType, ObjectsInOrder
<1>2. ActiveOpen'
  BY <1>0 DEF LockInv, ActiveOpen
<1>3. ASSUME NEW u \in Thread PROVE HoldsM(u)'
  BY <1>0, <1>u, NoThreadAssumption DEF LockInv, HoldsM
<1>4. ASSUME NEW u \in Thread PROVE OnSession(u)'
  BY <1>0 DEF LockInv, LockType, OnSession, Alone, Held
<1>5. ASSUME NEW s \in Object PROVE Locked(s)'
  <2>1. sm_[s] # "none" => sm_[s] \in Thread /\ sm_[s] # t
    BY <1>0 DEF LockInv, LockType, Locked
  <2> QED BY <1>0, <2>1 DEF LockInv, Locked
<1> QED BY <1>1, <1>2, <1>3, <1>4, <1>5 DEF LockInv

\* The Session object that openSession() constructs is the next one.
LEMMA NextObject ==
  ASSUME LockInv, CopyType, NEW t \in Thread, Construct(t)
  PROVE  \E n \in Object :
           /\ objects[n].state = "unused"
           /\ \A o \in Object : objects[o].state = "unused" <=> o > n - 1
           /\ active_session_ < n
           /\ objects' = [objects EXCEPT ![n] =
                [state |-> "open", api |-> TRUE, of |-> session_ref[t].id]]
           /\ active_session_' = n
           /\ \/ /\ active_session_ # 0 /\ ~HandleHeld(active_session_)
                 /\ pc' = [pc EXCEPT ![t] = "close"]
                 /\ arg' = [arg EXCEPT ![t] = active_session_]
                 /\ UNCHANGED m_
              \/ /\ pc' = [pc EXCEPT ![t] = "get"]
                 /\ arg' = [arg EXCEPT ![t] = n]
                 /\ m_' = "none"
<1> USE DEF Opens
<1> DEFINE Least(o) == /\ objects[o].state = "unused"
                       /\ \A q \in Object : objects[q].state = "unused" => o <= q
           n == CHOOSE o \in Object : Least(o)
<1>1. PICK k \in 0 .. MaxObjects : \A o \in Object : objects[o].state = "unused" <=> o > k
  BY DEF LockInv, ObjectsInOrder
<1>2. PICK s \in Object : objects[s].state = "unused"
  BY DEF LockInv, HoldsM, Construct
<1>3. k + 1 \in Object /\ \A o \in Object : o > k <=> o >= k + 1
  BY <1>1, <1>2, BoundsAssumption DEF Object
<1>4. Least(k + 1)
  BY <1>1, <1>3 DEF Object
<1>5. n \in Object /\ Least(n)
  BY <1>3, <1>4
<1>6. n = k + 1
  BY <1>1, <1>3, <1>4, <1>5 DEF Object
<1>7. /\ objects' = [objects EXCEPT ![n] =
           [state |-> "open", api |-> TRUE, of |-> session_ref[t].id]]
      /\ active_session_' = n
      /\ \/ /\ active_session_ # 0 /\ ~HandleHeld(active_session_)
            /\ pc' = [pc EXCEPT ![t] = "close"]
            /\ arg' = [arg EXCEPT ![t] = active_session_]
            /\ UNCHANGED m_
         \/ /\ pc' = [pc EXCEPT ![t] = "get"]
            /\ arg' = [arg EXCEPT ![t] = n]
            /\ m_' = "none"
  BY DEF Construct, Go, Unlock
<1> HIDE DEF n
<1>8. active_session_ < n
  <2>1. CASE active_session_ = 0
    BY <1>6, <2>1
  <2>2. CASE active_session_ # 0
    <3>1. active_session_ \in Object /\ Held(active_session_)
      BY <2>2, BoundsAssumption DEF LockInv, LockType, Object, Held
    <3>2. ~(active_session_ > k)
      BY <1>1, <3>1 DEF LockInv, ObjectsInOrder
    <3> QED BY <1>6, <3>1, <3>2 DEF Object
  <2> QED BY <2>1, <2>2
<1>9. \A o \in Object : objects[o].state = "unused" <=> o > n - 1
  BY <1>1, <1>6
<1> QED BY <1>5, <1>7, <1>8, <1>9

LEMMA ConstructLocks ==
  ASSUME LockInv, CopyType, NEW t \in Thread, Construct(t)
  PROVE  LockInv'
<1> USE DEF Opens, Closing, HoldsSm
<1>o. PICK old \in 0 .. MaxObjects : old = active_session_
  BY DEF LockInv, LockType
<1>1. PICK n \in Object :
           /\ objects[n].state = "unused"
           /\ \A o \in Object : objects[o].state = "unused" <=> o > n - 1
           /\ old < n
           /\ objects' = [objects EXCEPT ![n] =
                [state |-> "open", api |-> TRUE, of |-> session_ref[t].id]]
           /\ active_session_' = n
           /\ \/ /\ old # 0 /\ ~HandleHeld(old)
                 /\ pc' = [pc EXCEPT ![t] = "close"]
                 /\ arg' = [arg EXCEPT ![t] = old]
                 /\ UNCHANGED m_
              \/ /\ pc' = [pc EXCEPT ![t] = "get"]
                 /\ arg' = [arg EXCEPT ![t] = n]
                 /\ m_' = "none"
  BY <1>o, NextObject
<1>2. /\ UNCHANGED <<sm_, handles>> /\ pc[t] = "construct" /\ m_ = t
      /\ objects'[n].state = "open" /\ objects'[n].api
      /\ \A s \in Object \ {n} : objects'[s] = objects[s]
      /\ \A u \in Thread \ {t} : pc'[u] = pc[u] /\ arg'[u] = arg[u] /\ m_' # u
      /\ \/ /\ old # 0 /\ ~HandleHeld(old) /\ pc'[t] = "close" /\ arg'[t] = old
            /\ m_' = t
         \/ pc'[t] = "get" /\ m_' = "none"
  <2>1. UNCHANGED <<sm_, handles>> /\ pc[t] = "construct"
    BY DEF Construct
  <2>2. m_ = t
    BY <2>1 DEF LockInv, HoldsM
  <2>3. /\ objects'[n] = [state |-> "open", api |-> TRUE, of |-> session_ref[t].id]
        /\ \A s \in Object \ {n} : objects'[s] = objects[s]
    BY <1>1 DEF LockInv, LockType
  <2>4. /\ \A u \in Thread \ {t} : pc'[u] = pc[u] /\ arg'[u] = arg[u] /\ m_' # u
        /\ \/ /\ old # 0 /\ ~HandleHeld(old) /\ pc'[t] = "close" /\ arg'[t] = old
              /\ m_' = t
           \/ pc'[t] = "get" /\ m_' = "none"
    BY <1>1, <2>2, NoThreadAssumption DEF LockInv, LockType, CopyType
  <2> QED BY <2>1, <2>2, <2>3, <2>4
<1>3. old # 0 => old \in Object /\ Held(old) /\ old # n
  BY <1>o, <1>1, BoundsAssumption DEF Object, Held
<1>4. /\ \A s \in Object : Held(s)' => s = n \/ Held(s)
      /\ \A s \in Object : Held(s)' => objects'[s].state # "unused"
      /\ ~Held(n)
  <2>1. ~Held(n) /\ \A s \in Object : Held(s) => objects[s].state # "unused"
    BY <1>1 DEF LockInv, ObjectsInOrder
  <2>2. \A s \in Object : Held(s)' => s = n \/ Held(s)
    BY <1>1, <1>2 DEF Held
  <2>3. objects'[n].state # "unused"
    BY <1>2
  <2> QED BY <1>2, <2>1, <2>2, <2>3
<1>5. \A u \in Thread : arg[u] \in 0 .. MaxObjects
  BY DEF LockInv, LockType
<1>6. \A u \in Thread : pc[u] \in Closing \cup HoldsSm =>
        arg[u] \in Object /\ arg[u] # n /\ objects[arg[u]].state # "unused"
  <2> SUFFICES ASSUME NEW u \in Thread, pc[u] \in Closing \cup HoldsSm
               PROVE  arg[u] \in Object /\ arg[u] # n /\ objects[arg[u]].state # "unused"
    OBVIOUS
  <2>1. OnSession(u) /\ ObjectsInOrder
    BY DEF LockInv
  <2>2. arg[u] \in Object
    BY <1>5, <2>1, BoundsAssumption DEF OnSession, Object
  <2>3. objects[arg[u]].state # "unused"
    BY <2>1, <2>2 DEF OnSession, ObjectsInOrder, Held
  <2> QED BY <1>1, <2>2, <2>3
<1>7. LockType'
  <2>1. session_ref[t].id \in Nat
    BY DEF CopyType
  <2>2. objects' \in [Object -> [state : {"unused", "open", "invalid", "dead"},
                                 api : BOOLEAN, of : Nat]]
    BY <1>1, <2>1 DEF LockInv, LockType
  <2>3. n \in 0 .. MaxObjects
    BY BoundsAssumption DEF Object
  <2>4. arg' \in [Thread -> 0 .. MaxObjects]
    BY <1>1, <2>3 DEF LockInv, LockType
  <2>5. m_' \in Thread \cup {"none"}
    BY <1>2
  <2> QED BY <1>1, <1>2, <2>2, <2>3, <2>4, <2>5 DEF LockInv, LockType
<1>8. ObjectsInOrder'
  <2>1. \A o \in Object : objects'[o].state = "unused" <=> o > n
    BY <1>1, <1>2 DEF Object
  <2>2. n \in 0 .. MaxObjects
    BY BoundsAssumption DEF Object
  <2> QED BY <1>4, <2>1, <2>2 DEF ObjectsInOrder
<1>9. ActiveOpen'
  BY <1>1, <1>2 DEF ActiveOpen
<1>10. ASSUME old # 0, ~HandleHeld(old)
       PROVE  /\ objects[old].state = "open" /\ objects[old].api
              /\ \A u \in Thread : pc[u] \in Closing \cup HoldsSm => arg[u] # old
  BY <1>o, <1>3, <1>10 DEF LockInv, ActiveOpen, HandleHeld, OnSession, Alone
<1>11. ASSUME NEW u \in Thread PROVE HoldsM(u)'
  <2>1. CASE u = t
    BY <1>2, <1>3, <1>10, <2>1, NoThreadAssumption DEF HoldsM, HandleHeld
  <2>2. CASE u # t
    BY <1>2, <2>2 DEF LockInv, HoldsM
  <2> QED BY <2>1, <2>2
<1>12. ASSUME NEW u \in Thread PROVE OnSession(u)'
  <2>1. CASE u = t
    <3>1. CASE pc'[t] = "close"
      <4>1. ~Held(old)'
        BY <1>1, <1>2, <1>3, <3>1 DEF Held, HandleHeld
      <4>2. Alone(t, old)'
        BY <1>2, <1>10, <3>1, <4>1 DEF Alone
      <4>3. objects'[old].state # "unused"
        BY <1>2, <1>3, <1>10, <3>1
      <4>4. arg'[t] = old /\ old # 0
        BY <1>2, <3>1
      <4>5. Alone(t, arg[t])'
        BY <4>2, <4>4 DEF Alone, Held
      <4> QED BY <2>1, <3>1, <4>3, <4>4, <4>5 DEF OnSession
    <3>2. CASE pc'[t] = "get"
      BY <2>1, <3>2 DEF OnSession
    <3> QED BY <1>2, <3>1, <3>2
  <2>2. CASE u # t
    <3>1. pc'[u] = pc[u] /\ arg'[u] = arg[u]
      BY <1>2, <2>2
    <3>2. pc[u] \in Closing \cup HoldsSm => objects'[arg[u]] = objects[arg[u]]
      BY <1>2, <1>6
    <3>3. ASSUME pc[u] \in Closing, Alone(u, arg[u]) PROVE Alone(u, arg[u])'
      <4>1. ~Held(arg[u])' /\ arg[u] # old
        BY <1>o, <1>4, <1>6, <3>1, <3>3 DEF Alone, Held
      <4> QED BY <1>2, <3>1, <3>3, <4>1 DEF Alone
    <3> QED BY <1>2, <3>1, <3>2, <3>3 DEF LockInv, OnSession
  <2> QED BY <2>1, <2>2
<1>13. ASSUME NEW s \in Object PROVE Locked(s)'
  <2>1. sm_[s] # "none" => sm_[s] \in Thread /\ sm_[s] # t
    BY <1>2 DEF LockInv, LockType, Locked
  <2> QED BY <1>2, <2>1 DEF LockInv, Locked
<1> QED BY <1>7, <1>8, <1>9, <1>11, <1>12, <1>13 DEF LockInv

\* getSession() and getOpenSession(): a handle to a session that is held.
LEMMA KeepLocks ==
  ASSUME LockInv, CopyType, NEW t \in Thread, GetSession(t) \/ GetOpenSession(t)
  PROVE  LockInv'
<1> USE DEF Opens, Closing, HoldsSm
<1>1. /\ m_ = "none" /\ UNCHANGED <<lockVars, active_session_, objects>>
      /\ handles' = [handles EXCEPT ![t] = @ \cup ({active_session_} \ {0})]
      /\ pc[t] \in {"get", "idle"} /\ pc'[t] \in {"get", "idle"}
      /\ arg' \in [Thread -> 0 .. MaxObjects]
      /\ \A u \in Thread \ {t} : pc'[u] = pc[u] /\ arg'[u] = arg[u]
  BY BoundsAssumption
  DEF GetSession, GetOpenSession, Keep, Return, Idle, CopyType, LockInv, LockType
<1>2. /\ handles' \in [Thread -> SUBSET Object]
      /\ \A u \in Thread : handles[u] \subseteq handles'[u]
      /\ \A u \in Thread : handles'[u] \subseteq handles[u] \cup {active_session_}
  BY <1>1, BoundsAssumption DEF LockInv, LockType, Object
<1>3. \A s : Held(s)' <=> Held(s)
  BY <1>1, <1>2 DEF Held
<1>4. LockType' /\ ObjectsInOrder'
  BY <1>1, <1>2, <1>3 DEF LockInv, LockType, ObjectsInOrder, lockVars
<1>5. ActiveOpen'
  BY <1>1, <1>2 DEF LockInv, ActiveOpen
<1>6. ASSUME NEW u \in Thread PROVE HoldsM(u)'
  BY <1>1, NoThreadAssumption DEF LockInv, HoldsM, lockVars
<1>7. ASSUME NEW u \in Thread PROVE OnSession(u)'
  <2>1. CASE u = t
    BY <1>1, <2>1 DEF OnSession
  <2>2. CASE u # t
    <3>1. pc'[u] = pc[u] /\ arg'[u] = arg[u] /\ sm_' = sm_
      BY <1>1, <2>2 DEF lockVars
    <3>2. Alone(u, arg[u]) => Alone(u, arg[u])'
      BY <1>1, <1>3, <3>1 DEF Alone
    <3> QED BY <1>1, <1>2, <3>1, <3>2 DEF LockInv, OnSession
  <2> QED BY <2>1, <2>2
<1>8. ASSUME NEW s \in Object PROVE Locked(s)'
  <2>1. sm_[s] # "none" => sm_[s] \in Thread /\ sm_[s] # t
    BY <1>1 DEF LockInv, LockType, Locked
  <2> QED BY <1>1, <2>1 DEF LockInv, Locked, lockVars
<1> QED BY <1>4, <1>5, <1>6, <1>7, <1>8 DEF LockInv

\* What every thread in a call on a session knows.
LEMMA InCall ==
  ASSUME LockInv, NEW u \in Thread, pc[u] \in Closing \cup HoldsSm
  PROVE  arg[u] \in Object /\ objects[arg[u]].state # "unused"
<1> USE DEF Closing, HoldsSm
<1>1. OnSession(u) /\ ObjectsInOrder /\ arg[u] \in 0 .. MaxObjects
  BY DEF LockInv, LockType
<1>2. arg[u] \in Object
  BY <1>1, BoundsAssumption DEF OnSession, Object
<1> QED BY <1>1, <1>2 DEF OnSession, ObjectsInOrder, Held

\* A call on a session that the thread has a handle to.
LEMMA CallLocks ==
  ASSUME LockInv, CopyType, NEW t \in Thread, NEW s \in Object,
         Close(t, s) \/ RegisterToControl(t, s)
  PROVE  LockInv'
<1> USE DEF Opens, Closing, HoldsSm
<1>1. /\ UNCHANGED <<m_, active_session_, objects, handles>>
      /\ pc[t] = "idle" /\ s \in handles[t]
      /\ \/ pc' = [pc EXCEPT ![t] = "close"] /\ sm_' = sm_
         \/ /\ pc' = [pc EXCEPT ![t] = "registering"]
            /\ sm_[s] = "none" /\ sm_' = [sm_ EXCEPT ![s] = t]
      /\ arg' = [arg EXCEPT ![t] = s]
  BY DEF Close, RegisterToControl, Begin, lockVars
<1>2. /\ \/ pc'[t] = "close" /\ sm_' = sm_
         \/ /\ pc'[t] = "registering" /\ sm_[s] = "none" /\ sm_'[s] = t
            /\ \A x \in Object \ {s} : sm_'[x] = sm_[x]
      /\ arg'[t] = s
      /\ \A u \in Thread \ {t} : pc'[u] = pc[u] /\ arg'[u] = arg[u]
  BY <1>1 DEF LockInv, LockType, CopyType
<1>3. Held(s) /\ \A x : Held(x)' <=> Held(x)
  BY <1>1 DEF Held
<1>4. LockType' /\ ObjectsInOrder'
  <2>1. s \in 0 .. MaxObjects
    BY BoundsAssumption DEF Object
  <2>2. arg' \in [Thread -> 0 .. MaxObjects] /\ sm_' \in [Object -> Thread \cup {"none"}]
    BY <1>1, <2>1 DEF LockInv, LockType
  <2> QED BY <1>1, <1>3, <2>2 DEF LockInv, LockType, ObjectsInOrder
<1>5. ActiveOpen'
  BY <1>1, <1>2 DEF LockInv, ActiveOpen
<1>6. ASSUME NEW u \in Thread PROVE HoldsM(u)'
  BY <1>1, <1>2 DEF LockInv, HoldsM
<1>7. ASSUME NEW u \in Thread PROVE OnSession(u)'
  <2>1. CASE u = t
    <3>1. s # 0 /\ objects[s].state # "unused"
      BY <1>3, BoundsAssumption DEF LockInv, ObjectsInOrder, Object
    <3> QED BY <1>1, <1>2, <2>1, <3>1 DEF OnSession
  <2>2. CASE u # t
    <3>1. pc'[u] = pc[u] /\ arg'[u] = arg[u]
      BY <1>2, <2>2
    <3>2. Alone(u, arg[u]) => Alone(u, arg[u])'
      BY <1>2, <1>3, <3>1 DEF Alone
    <3>3. pc[u] \in HoldsSm => sm_'[arg[u]] = sm_[arg[u]]
      <4>1. pc[u] \in HoldsSm => arg[u] \in Object /\ sm_[arg[u]] # "none"
        BY InCall, NoThreadAssumption DEF LockInv, OnSession
      <4> QED BY <1>2, <4>1
    <3> QED BY <1>1, <3>1, <3>2, <3>3 DEF LockInv, OnSession
  <2> QED BY <2>1, <2>2
<1>8. ASSUME NEW x \in Object PROVE Locked(x)'
  <2>1. sm_[x] # "none" => sm_[x] \in Thread /\ sm_[x] # t
    BY <1>1 DEF LockInv, LockType, Locked
  <2> QED BY <1>2, <2>1 DEF LockInv, Locked
<1> QED BY <1>4, <1>5, <1>6, <1>7, <1>8 DEF LockInv

LEMMA DropLocks ==
  ASSUME LockInv, CopyType, NEW t \in Thread, NEW s \in Object, DropHandle(t, s)
  PROVE  LockInv'
<1> USE DEF Opens, Closing, HoldsSm
<1>1. /\ UNCHANGED <<m_, sm_, active_session_, objects>>
      /\ pc[t] = "idle" /\ s \in handles[t]
      /\ handles' = [handles EXCEPT ![t] = @ \ {s}]
      /\ \/ UNCHANGED <<pc, arg>>
         \/ /\ pc' = [pc EXCEPT ![t] = "close"] /\ arg' = [arg EXCEPT ![t] = s]
            /\ active_session_ # s /\ \A u \in Thread \ {t} : s \notin handles[u]
  BY DEF DropHandle, Begin, lockVars
<1>2. /\ handles' \in [Thread -> SUBSET Object]
      /\ handles'[t] = handles[t] \ {s}
      /\ \A u \in Thread \ {t} : /\ handles'[u] = handles[u] /\ pc'[u] = pc[u]
                                 /\ arg'[u] = arg[u]
      /\ \/ pc'[t] = "idle"
         \/ /\ pc'[t] = "close" /\ arg'[t] = s
            /\ active_session_ # s /\ \A u \in Thread \ {t} : s \notin handles[u]
  BY <1>1 DEF LockInv, LockType, CopyType
<1>3. Held(s) /\ \A x : Held(x)' => Held(x)
  BY <1>1, <1>2 DEF Held
<1>4. LockType' /\ ObjectsInOrder'
  <2>1. s \in 0 .. MaxObjects
    BY BoundsAssumption DEF Object
  <2>2. arg' \in [Thread -> 0 .. MaxObjects]
    BY <1>1, <2>1 DEF LockInv, LockType
  <2> QED BY <1>1, <1>2, <1>3, <2>2 DEF LockInv, LockType, ObjectsInOrder
<1>5. ActiveOpen'
  BY <1>1, <1>2 DEF LockInv, ActiveOpen
<1>6. ASSUME NEW u \in Thread PROVE HoldsM(u)'
  BY <1>1, <1>2 DEF LockInv, HoldsM
<1>7. ASSUME NEW u \in Thread PROVE OnSession(u)'
  <2>1. CASE u = t
    <3>1. CASE pc'[t] = "idle"
      BY <2>1, <3>1 DEF OnSession
    <3>2. CASE pc'[t] # "idle"
      <4>1. s # 0 /\ objects[s].state # "unused"
        BY <1>3, BoundsAssumption DEF LockInv, ObjectsInOrder, Object
      <4>2. ~Held(s)'
        BY <1>1, <1>2, <3>2 DEF Held
      <4>3. \A w \in Thread \ {t} : pc[w] \in Closing \cup HoldsSm => arg[w] # s
        BY <1>2, <1>3, <3>2 DEF LockInv, OnSession, Alone
      <4>4. Alone(t, arg[t])'
        BY <1>2, <3>2, <4>2, <4>3 DEF Alone, Held
      <4> QED BY <1>1, <1>2, <2>1, <3>2, <4>1, <4>4 DEF OnSession
    <3> QED BY <3>1, <3>2
  <2>2. CASE u # t
    <3>1. pc'[u] = pc[u] /\ arg'[u] = arg[u] /\ handles'[u] = handles[u]
      BY <1>2, <2>2
    <3>2. Alone(u, arg[u]) => Alone(u, arg[u])'
      BY <1>2, <1>3, <3>1 DEF Alone
    <3> QED BY <1>1, <3>1, <3>2 DEF LockInv, OnSession
  <2> QED BY <2>1, <2>2
<1>8. ASSUME NEW x \in Object PROVE Locked(x)'
  <2>1. sm_[x] # "none" => sm_[x] \in Thread /\ sm_[x] # t
    BY <1>1 DEF LockInv, LockType, Locked
  <2> QED BY <1>1, <1>2, <2>1 DEF LockInv, Locked
<1> QED BY <1>4, <1>5, <1>6, <1>7, <1>8 DEF LockInv

LEMMA CloseLockLocks ==
  ASSUME LockInv, CopyType, NEW t \in Thread, CloseLock(t)
  PROVE  LockInv'
<1> USE DEF Opens, Closing, HoldsSm
<1>0. PICK s \in Object : s = arg[t] /\ objects[s].state # "unused"
  BY InCall DEF CloseLock
<1> DEFINE attached == objects[s].state = "open" /\ objects[s].api
<1>1. /\ UNCHANGED <<m_, active_session_, handles>>
      /\ pc[t] = "close" /\ sm_[s] = "none"
      /\ \E st \in {"invalid", "dead"} :
           /\ attached => st = "invalid"
           /\ objects' = [objects EXCEPT ![s].state = st]
      /\ \/ /\ attached
            /\ pc' = [pc EXCEPT ![t] = "closed"] /\ arg' = [arg EXCEPT ![t] = s]
            /\ sm_' = [sm_ EXCEPT ![s] = t]
         \/ /\ ~attached
            /\ pc' = [pc EXCEPT ![t] = "idle"] /\ arg' = [arg EXCEPT ![t] = 0]
            /\ UNCHANGED sm_
  BY <1>0 DEF CloseLock, Begin, Return, Closed
<1>2. PICK st \in {"invalid", "dead"} :
        (attached => st = "invalid") /\ objects' = [objects EXCEPT ![s].state = st]
  BY <1>1
<1>3. /\ objects' \in [Object -> [state : {"unused", "open", "invalid", "dead"},
                                  api : BOOLEAN, of : Nat]]
      /\ objects'[s].state = st
      /\ \A x \in Object \ {s} : objects'[x] = objects[x]
  BY <1>2 DEF LockInv, LockType
<1>4. /\ \A u \in Thread \ {t} : pc'[u] = pc[u] /\ arg'[u] = arg[u]
      /\ \/ /\ attached /\ pc'[t] = "closed" /\ arg'[t] = s /\ sm_'[s] = t
            /\ \A x \in Object \ {s} : sm_'[x] = sm_[x]
         \/ ~attached /\ pc'[t] = "idle" /\ sm_' = sm_
  BY <1>1 DEF LockInv, LockType, CopyType
<1>5. \A x : Held(x)' <=> Held(x)
  BY <1>1 DEF Held
<1>6. LockType'
  <2>1. s \in 0 .. MaxObjects /\ 0 \in 0 .. MaxObjects
    BY BoundsAssumption DEF Object
  <2>2. arg' \in [Thread -> 0 .. MaxObjects] /\ sm_' \in [Object -> Thread \cup {"none"}]
    BY <1>1, <2>1 DEF LockInv, LockType
  <2> QED BY <1>1, <1>3, <2>2 DEF LockInv, LockType
<1>7. \A x \in Object : objects'[x].state = "unused" <=> objects[x].state = "unused"
  BY <1>0, <1>3
<1>8. ObjectsInOrder'
  BY <1>5, <1>7 DEF LockInv, ObjectsInOrder
<1>9. ASSUME NEW u \in Thread \ {t}, pc[u] \in HoldsSm PROVE arg[u] # s
  BY <1>1, <1>9, NoThreadAssumption DEF LockInv, OnSession
<1> HIDE DEF attached
<1>10. ActiveOpen'
  <2>1. SUFFICES ASSUME active_session_ # 0
                 PROVE  ActiveOpen'
    BY <1>1 DEF ActiveOpen
  <2>2. active_session_ \in Object
    BY <2>1, BoundsAssumption DEF LockInv, LockType, Object
  <2>3. CASE active_session_ = s
    <3>1. Held(s) /\ arg[t] \in handles[t]
      BY <1>0, <1>1, <2>3 DEF Held, LockInv, OnSession, Alone
    <3>2. attached
      BY <1>1, <1>9, <2>1, <2>3 DEF LockInv, ActiveOpen, attached
    <3> QED BY <1>0, <1>1, <1>4, <2>3, <3>1, <3>2 DEF ActiveOpen
  <2>4. CASE active_session_ # s
    BY <1>1, <1>3, <1>4, <2>1, <2>2, <2>4 DEF LockInv, ActiveOpen
  <2> QED BY <2>3, <2>4
<1>11. ASSUME NEW u \in Thread PROVE HoldsM(u)'
  <2>1. CASE u = t
    <3>1. m_ = t => attached /\ s \notin handles[t]
      BY <1>0, <1>1 DEF LockInv, HoldsM, attached
    <3> QED BY <1>1, <1>4, <2>1, <3>1 DEF HoldsM
  <2>2. CASE u # t
    <3>1. pc'[u] = pc[u] /\ arg'[u] = arg[u]
      BY <1>4, <2>2
    <3>2. m_ = u /\ pc[u] = "close" => arg[u] \in Object /\ arg[u] # s
      BY <1>0, <1>1, <2>2, InCall DEF LockInv, HoldsM, OnSession, Alone
    <3> QED BY <1>1, <1>3, <1>7, <3>1, <3>2 DEF LockInv, HoldsM
  <2> QED BY <2>1, <2>2
<1>12. ASSUME NEW u \in Thread PROVE OnSession(u)'
  <2>1. CASE u = t
    <3>1. CASE pc'[t] = "idle"
      BY <2>1, <3>1 DEF OnSession
    <3>2. CASE pc'[t] # "idle"
      <4>1. /\ attached /\ pc'[t] = "closed" /\ arg'[t] = s /\ sm_'[s] = t
            /\ objects'[s].state = "invalid" /\ s # 0
        BY <1>2, <1>3, <1>4, <3>2, BoundsAssumption DEF Object
      <4>2. s \in handles[t] \/ Alone(t, s)
        BY <1>0, <1>1 DEF LockInv, OnSession
      <4>3. Alone(t, s) => Alone(t, arg[t])'
        BY <1>4, <1>5, <4>1 DEF Alone, Held
      <4>4. arg'[t] \in handles'[t] \/ Alone(t, arg[t])'
        BY <1>1, <4>1, <4>2, <4>3
      <4>5. /\ pc'[t] = "closed" /\ arg'[t] # 0 /\ objects'[arg'[t]].state = "invalid"
            /\ sm_'[arg'[t]] = t
        BY <4>1
      <4>6. CASE Alone(t, arg[t])'
        <5>1. Alone(u, arg[u])' /\ u = t
          BY <2>1, <4>6 DEF Alone, Held
        <5> QED BY <4>5, <5>1 DEF OnSession
      <4>7. CASE arg'[t] \in handles'[t]
        BY <2>1, <4>5, <4>7 DEF OnSession
      <4> QED BY <4>4, <4>6, <4>7
    <3> QED BY <3>1, <3>2
  <2>2. CASE u # t
    <3>1. pc'[u] = pc[u] /\ arg'[u] = arg[u]
      BY <1>4, <2>2
    <3>2. Alone(u, arg[u]) => Alone(u, arg[u])'
      BY <1>0, <1>1, <1>4, <1>5, <3>1 DEF Alone
    <3>3. pc[u] \in HoldsSm => sm_'[arg[u]] = sm_[arg[u]] /\ objects'[arg[u]] = objects[arg[u]]
      BY <1>3, <1>4, <1>9, <2>2, InCall
    <3>4. pc[u] \in Closing => objects'[arg[u]].state # "unused"
      BY <1>7, InCall
    <3>5. OnSession(u) /\ handles' = handles
      BY <1>1 DEF LockInv
    <3>6. pc[u] = "closed" => objects'[arg[u]].state = "invalid"
      BY <3>3, <3>5 DEF OnSession
    <3> HIDE DEF Closing, HoldsSm
    <3> QED BY <3>1, <3>2, <3>3, <3>4, <3>5, <3>6 DEF OnSession
  <2> QED BY <2>1, <2>2
<1>13. ASSUME NEW x \in Object PROVE Locked(x)'
  <2>1. sm_[x] # "none" => sm_[x] \in Thread /\ sm_[x] # t
    BY <1>1 DEF LockInv, LockType, Locked
  <2> QED BY <1>4, <2>1 DEF LockInv, Locked
<1> QED BY <1>6, <1>8, <1>10, <1>11, <1>12, <1>13 DEF LockInv

LEMMA SessionClosedLocks ==
  ASSUME LockInv, CopyType, NEW t \in Thread, SessionClosed(t)
  PROVE  LockInv'
<1> USE DEF Opens, Closing, HoldsSm
<1>0. PICK s \in Object : s = arg[t] /\ objects[s].state # "unused"
  BY InCall DEF SessionClosed
<1>1. /\ m_ = "none" /\ UNCHANGED <<m_, handles>> /\ pc[t] = "closed" /\ sm_[s] = t
      /\ active_session_' = IF active_session_ = s THEN 0 ELSE active_session_
      /\ sm_' = [sm_ EXCEPT ![s] = "none"]
      /\ pc' = [pc EXCEPT ![t] = "idle"] /\ arg' = [arg EXCEPT ![t] = 0]
  BY <1>0 DEF SessionClosed, Forget, Return, LockInv, OnSession
<1>2. PICK st \in {"invalid", "dead"} :
        objects' = [objects EXCEPT ![s].api = FALSE, ![s].state = st]
  BY <1>0 DEF SessionClosed
<1>3. /\ objects' \in [Object -> [state : {"unused", "open", "invalid", "dead"},
                                  api : BOOLEAN, of : Nat]]
      /\ objects'[s].state = st
      /\ \A x \in Object \ {s} : objects'[x] = objects[x]
  BY <1>2 DEF LockInv, LockType
<1>4. /\ \A u \in Thread \ {t} : pc'[u] = pc[u] /\ arg'[u] = arg[u]
      /\ pc'[t] = "idle" /\ sm_'[s] = "none"
      /\ \A x \in Object \ {s} : sm_'[x] = sm_[x]
  BY <1>1 DEF LockInv, LockType, CopyType
<1>5. \A x \in Object : Held(x)' => Held(x)
  <2>1. 0 \notin Object
    BY BoundsAssumption DEF Object
  <2> QED BY <1>1, <2>1 DEF Held
<1>6. LockType'
  <2>1. 0 \in 0 .. MaxObjects
    BY BoundsAssumption
  <2>2. /\ arg' \in [Thread -> 0 .. MaxObjects] /\ sm_' \in [Object -> Thread \cup {"none"}]
        /\ active_session_' \in 0 .. MaxObjects
    BY <1>1, <2>1 DEF LockInv, LockType
  <2> QED BY <1>1, <1>3, <2>2 DEF LockInv, LockType
<1>7. \A x \in Object : objects'[x].state = "unused" <=> objects[x].state = "unused"
  BY <1>0, <1>3
<1>8. ObjectsInOrder'
  BY <1>5, <1>7 DEF LockInv, ObjectsInOrder
<1>9. ASSUME NEW u \in Thread \ {t}, pc[u] \in HoldsSm PROVE arg[u] # s
  BY <1>1, <1>9 DEF LockInv, OnSession
<1>10. ActiveOpen'
  <2>1. SUFFICES ASSUME active_session_ # 0, active_session_ # s
                 PROVE  ActiveOpen'
    BY <1>1 DEF ActiveOpen
  <2>2. active_session_ \in Object /\ active_session_' = active_session_
    BY <1>1, <2>1, BoundsAssumption DEF LockInv, LockType, Object
  <2> QED BY <1>0, <1>1, <1>3, <1>4, <2>1, <2>2 DEF LockInv, ActiveOpen
<1>11. ASSUME NEW u \in Thread PROVE HoldsM(u)'
  BY <1>1, <1>4, NoThreadAssumption DEF LockInv, HoldsM
<1>12. ASSUME NEW u \in Thread PROVE OnSession(u)'
  <2>1. CASE u = t
    BY <1>4, <2>1 DEF OnSession
  <2>2. CASE u # t
    <3>1. pc'[u] = pc[u] /\ arg'[u] = arg[u]
      BY <1>4, <2>2
    <3>2. pc[u] \in Closing /\ Alone(u, arg[u]) => Alone(u, arg[u])'
      BY <1>4, <1>5, <3>1, InCall DEF Alone
    <3>3. pc[u] \in HoldsSm => sm_'[arg[u]] = sm_[arg[u]] /\ objects'[arg[u]] = objects[arg[u]]
      BY <1>3, <1>4, <1>9, <2>2, InCall
    <3>4. pc[u] \in Closing => objects'[arg[u]].state # "unused"
      BY <1>7, InCall
    <3> QED BY <1>1, <3>1, <3>2, <3>3, <3>4 DEF LockInv, OnSession
  <2> QED BY <2>1, <2>2
<1>13. ASSUME NEW x \in Object PROVE Locked(x)'
  <2>1. sm_[x] # "none" => sm_[x] \in Thread /\ (x # s => sm_[x] # t)
    BY <1>0, <1>1 DEF LockInv, LockType, Locked
  <2> QED BY <1>4, <2>1 DEF LockInv, Locked
<1> QED BY <1>6, <1>8, <1>10, <1>11, <1>12, <1>13 DEF LockInv

\* The ends of registerToControl() and createEventQueue(), and its beginning.
LEMMA RegisteredLocks ==
  ASSUME LockInv, CopyType, NEW t \in Thread, Registered(t)
  PROVE  LockInv'
<1> USE DEF Opens, Closing, HoldsSm
<1>0. PICK s \in Object : s = arg[t]
  BY InCall DEF Registered
<1>1. /\ UNCHANGED <<m_, active_session_, objects, handles>>
      /\ pc[t] = "registering" /\ sm_[s] = t
      /\ sm_' = [sm_ EXCEPT ![s] = "none"]
      /\ pc' = [pc EXCEPT ![t] = "idle"] /\ arg' = [arg EXCEPT ![t] = 0]
  BY <1>0 DEF Registered, Return, LockInv, OnSession
<1>2. /\ \A u \in Thread \ {t} : pc'[u] = pc[u] /\ arg'[u] = arg[u]
      /\ pc'[t] = "idle" /\ sm_'[s] = "none"
      /\ \A x \in Object \ {s} : sm_'[x] = sm_[x]
  BY <1>1 DEF LockInv, LockType, CopyType
<1>3. \A x : Held(x)' <=> Held(x)
  BY <1>1 DEF Held
<1>4. LockType' /\ ObjectsInOrder'
  <2>1. arg' \in [Thread -> 0 .. MaxObjects] /\ sm_' \in [Object -> Thread \cup {"none"}]
    BY <1>1, BoundsAssumption DEF LockInv, LockType
  <2> QED BY <1>1, <1>3, <2>1 DEF LockInv, LockType, ObjectsInOrder
<1>5. ActiveOpen'
  BY <1>1, <1>2 DEF LockInv, ActiveOpen
<1>6. ASSUME NEW u \in Thread PROVE HoldsM(u)'
  BY <1>1, <1>2 DEF LockInv, HoldsM
<1>7. ASSUME NEW u \in Thread PROVE OnSession(u)'
  <2>1. CASE u = t
    BY <1>2, <2>1 DEF OnSession
  <2>2. CASE u # t
    <3>1. pc'[u] = pc[u] /\ arg'[u] = arg[u]
      BY <1>2, <2>2
    <3>2. Alone(u, arg[u]) => Alone(u, arg[u])'
      BY <1>2, <1>3, <3>1 DEF Alone
    <3>3. pc[u] \in HoldsSm => arg[u] \in Object /\ arg[u] # s
      BY <1>1, <2>2, InCall DEF LockInv, OnSession
    <3> QED BY <1>1, <1>2, <3>1, <3>2, <3>3 DEF LockInv, OnSession
  <2> QED BY <2>1, <2>2
<1>8. ASSUME NEW x \in Object PROVE Locked(x)'
  <2>1. sm_[x] # "none" => sm_[x] \in Thread /\ (x # s => sm_[x] # t)
    BY <1>0, <1>1 DEF LockInv, LockType, Locked
  <2> QED BY <1>2, <2>1 DEF LockInv, Locked
<1> QED BY <1>4, <1>5, <1>6, <1>7, <1>8 DEF LockInv

LEMMA QueueLocks ==
  ASSUME LockInv, CopyType, NEW t \in Thread, CreateEventQueue(t) \/ AddEventQueue(t)
  PROVE  LockInv'
<1> USE DEF Opens, Closing, HoldsSm
<1>1. /\ UNCHANGED <<sm_, active_session_, objects, handles>>
      /\ \/ /\ pc[t] = "idle" /\ m_ = "none" /\ m_' = t /\ active_session_ # 0
            /\ pc' = [pc EXCEPT ![t] = "queue"]
            /\ arg' = [arg EXCEPT ![t] = active_session_]
         \/ /\ pc[t] = "queue" /\ m_ = t /\ m_' = "none"
            /\ pc' = [pc EXCEPT ![t] = "idle"] /\ arg' = [arg EXCEPT ![t] = 0]
  BY DEF CreateEventQueue, AddEventQueue, Idle, TakeM, Begin, Return, LockInv, HoldsM
<1>2. /\ \A u \in Thread \ {t} : pc'[u] = pc[u] /\ arg'[u] = arg[u] /\ m_' # u /\ m_ # u
      /\ pc[t] \in {"idle", "queue"}
      /\ \/ pc'[t] = "queue" /\ arg'[t] = active_session_ /\ m_' = t /\ active_session_ # 0
         \/ pc'[t] = "idle" /\ m_' # t
  BY <1>1, NoThreadAssumption DEF LockInv, LockType, CopyType
<1>3. \A x : Held(x)' <=> Held(x)
  BY <1>1 DEF Held
<1>4. LockType' /\ ObjectsInOrder'
  <2>1. arg' \in [Thread -> 0 .. MaxObjects] /\ m_' \in Thread \cup {"none"}
    BY <1>1, BoundsAssumption DEF LockInv, LockType
  <2> QED BY <1>1, <1>3, <2>1 DEF LockInv, LockType, ObjectsInOrder
<1>5. ActiveOpen'
  BY <1>1, <1>2 DEF LockInv, ActiveOpen
<1>6. ASSUME NEW u \in Thread PROVE HoldsM(u)'
  BY <1>1, <1>2 DEF LockInv, HoldsM
<1>7. ASSUME NEW u \in Thread PROVE OnSession(u)'
  <2>1. CASE u = t
    BY <1>2, <2>1 DEF OnSession
  <2>2. CASE u # t
    <3>1. pc'[u] = pc[u] /\ arg'[u] = arg[u]
      BY <1>2, <2>2
    <3>2. Alone(u, arg[u]) => Alone(u, arg[u])'
      BY <1>2, <1>3, <3>1 DEF Alone
    <3> QED BY <1>1, <3>1, <3>2 DEF LockInv, OnSession
  <2> QED BY <2>1, <2>2
<1>8. ASSUME NEW x \in Object PROVE Locked(x)'
  <2>1. sm_[x] # "none" => sm_[x] \in Thread /\ sm_[x] # t
    BY <1>2 DEF LockInv, LockType, Locked
  <2> QED BY <1>1, <1>2, <2>1 DEF LockInv, Locked
<1> QED BY <1>4, <1>5, <1>6, <1>7, <1>8 DEF LockInv

LEMMA DestroyLocks ==
  ASSUME LockInv, DestroyApi
  PROVE  LockInv'
<1> USE DEF Opens, Closing, HoldsSm
<1>1. /\ UNCHANGED <<m_, sm_, handles, pc, arg>> /\ active_session_' = 0
      /\ \A t \in Thread : pc[t] = "idle"
      /\ active_session_ = 0 => objects' = objects
      /\ active_session_ # 0 =>
           \E st \in {objects[active_session_].state, "dead"} :
             objects' = [objects EXCEPT ![active_session_].api = FALSE,
                                        ![active_session_].state = st]
  BY DEF DestroyApi, Detach, lockVars
<1>2. active_session_ # 0 => active_session_ \in Object /\ Held(active_session_)
  BY BoundsAssumption DEF LockInv, LockType, Object, Held
<1>3. /\ objects' \in [Object -> [state : {"unused", "open", "invalid", "dead"},
                                  api : BOOLEAN, of : Nat]]
      /\ \A x \in Object : objects'[x].state = "unused" <=> objects[x].state = "unused"
  <2>1. CASE active_session_ = 0
    BY <1>1, <2>1 DEF LockInv, LockType
  <2>2. CASE active_session_ # 0
    <3>1. PICK st \in {objects[active_session_].state, "dead"} :
             objects' = [objects EXCEPT ![active_session_].api = FALSE,
                                        ![active_session_].state = st]
      BY <1>1, <2>2
    <3>2. /\ objects[active_session_].state # "unused"
          /\ st \in {"open", "invalid", "dead"}
      BY <1>2, <2>2 DEF LockInv, LockType, ObjectsInOrder
    <3> QED BY <1>2, <2>2, <3>1, <3>2 DEF LockInv, LockType
  <2> QED BY <2>1, <2>2
<1>4. \A x \in Object : Held(x)' => Held(x)
  <2>1. 0 \notin Object
    BY BoundsAssumption DEF Object
  <2> QED BY <1>1, <2>1 DEF Held
<1>5. LockType' /\ ObjectsInOrder'
  <2>1. 0 \in 0 .. MaxObjects
    BY BoundsAssumption
  <2> QED BY <1>1, <1>3, <1>4, <2>1 DEF LockInv, LockType, ObjectsInOrder
<1>6. ActiveOpen'
  BY <1>1 DEF ActiveOpen
<1>7. ASSUME NEW u \in Thread PROVE HoldsM(u)' /\ OnSession(u)'
  BY <1>1 DEF LockInv, HoldsM, OnSession
<1>8. ASSUME NEW x \in Object PROVE Locked(x)'
  BY <1>1 DEF LockInv, Locked
<1> QED BY <1>5, <1>6, <1>7, <1>8 DEF LockInv

----------------------------------------------------------------------------

LEMMA LockStepInv ==
  ASSUME LockInv, CopyType, [Next]_vars
  PROVE  LockInv'
<1> USE DEF Opens
<1>1. CASE BackendNext
  BY <1>1, LockFrame DEF BackendNext, Publish, Published, WriteField, SessionEnds
<1>2. CASE DestroyApi
  BY <1>2, DestroyLocks
<1>3. ASSUME NEW t \in Thread, Call(t) PROVE LockInv'
  BY <1>3, OpenSessionLocks, KeepLocks, QueueLocks, CallLocks, DropLocks DEF Call
<1>4. ASSUME NEW t \in Thread,
             \/ OpenCoreShmHandle(t) \/ TimeOut(t) \/ ReadRevision(t) \/ ReadState(t)
             \/ ReadId(t) \/ ReadPath(t) \/ CheckRevision(t) \/ OpenBlock(t)
             \/ CheckSession(t) \/ OpenBlocksFailed(t)
      PROVE  LockInv'
  <2>1. /\ pc[t] \in Opens
        /\ UNCHANGED <<sm_, active_session_, objects, handles, arg>>
        /\ \E p \in Place : /\ pc' = [pc EXCEPT ![t] = p]
                            /\ \/ p \in Opens /\ m_' = m_
                               \/ p = "idle" /\ m_' = "none"
    <3> USE DEF Go, lockVars, Place, Opening
    <3>1. CASE OpenCoreShmHandle(t) \/ TimeOut(t) \/ OpenBlocksFailed(t)
      BY <3>1 DEF OpenCoreShmHandle, TimeOut, OpenBlocksFailed, Fail
    <3>2. CASE OpenBlock(t)
      BY <3>2 DEF OpenBlock, Fail
    <3>3. CASE CheckSession(t)
      BY <3>3 DEF CheckSession, Fail
    <3>4. CASE ReadRevision(t) \/ CheckRevision(t)
      BY <3>4 DEF ReadRevision, CheckRevision, Busy
    <3>5. CASE ReadState(t) \/ ReadId(t) \/ ReadPath(t)
      BY <3>5 DEF ReadState, ReadId, ReadPath
    <3> QED BY <1>4, <3>1, <3>2, <3>3, <3>4, <3>5
  <2> QED BY <2>1, OpenKeepsLockInv
<1>5. ASSUME NEW t \in Thread, OpenStep(t) PROVE LockInv'
  BY <1>4, <1>5, ConstructLocks, KeepLocks DEF OpenStep
<1>6. ASSUME NEW t \in Thread, LockStep(t) \/ Registered(t) PROVE LockInv'
  BY <1>6, CloseLockLocks, SessionClosedLocks, QueueLocks, RegisteredLocks DEF LockStep
<1>7. CASE UNCHANGED vars
  BY <1>7, LockFrame DEF vars
<1> QED BY <1>1, <1>2, <1>3, <1>5, <1>6, <1>7 DEF Next

LEMMA LockAlways == Spec => []LockInv
<1>1. CopyInv => CopyType
  BY DEF CopyInv
<1>2. LockInv /\ CopyType /\ [Next]_vars => LockInv'
  BY LockStepInv
<1> QED BY <1>1, <1>2, InitLockInv, CopyInvariant, PTL DEF Spec

\* Threads that use the ApiCore can wait for each other in two cases only,
\* however many there are and however many of them form the cycle:
\* createEventQueue() against close() of the active session, and openSession()
\* that destroys the session it has replaced (api_core.cpp:285, 334).
THEOREM OnlyTwoCycles == Spec => []WaitCycles
<1>1. ASSUME LockInv PROVE WaitCycles
  <2> USE DEF Opens, Closing, HoldsSm
  <2> SUFFICES ASSUME NEW S \in SUBSET Thread, Stuck(S)
               PROVE  \E t \in S : QueueWhileClosing(t) \/ DestroysReplaced(t)
    BY DEF WaitCycles
  <2>1. \A t \in S : t \in Thread /\ WaitsFor(t) \in S /\ WaitsFor(t) # "none"
    BY NoThreadAssumption DEF Stuck
  <2>2. ASSUME NEW t \in S
        PROVE  \/ pc[t] \in {"closed", "get"} /\ m_ \in S
               \/ pc[t] \in {"close", "queue"} /\ sm_[arg[t]] \in S
    BY <2>1 DEF WaitsFor
  <2>3. ASSUME NEW t \in S, pc[t] \in {"close", "queue"}
        PROVE  /\ pc[sm_[arg[t]]] = "closed" /\ arg[sm_[arg[t]]] = arg[t]
               /\ sm_[arg[t]] \in S
    <3>1. t \in Thread /\ sm_[arg[t]] \in S /\ sm_[arg[t]] # "none"
      BY <2>1, <2>2, <2>3, NoThreadAssumption
    <3>2. arg[t] \in Object
      <4>1. CASE pc[t] = "close"
        BY <1>1, <3>1, <4>1, InCall
      <4>2. CASE pc[t] = "queue"
        BY <1>1, <3>1, <4>2, BoundsAssumption DEF LockInv, LockType, HoldsM, Object
      <4> QED BY <2>3, <4>1, <4>2
    <3>3. pc[sm_[arg[t]]] \in HoldsSm /\ arg[sm_[arg[t]]] = arg[t]
      BY <1>1, <3>1, <3>2 DEF LockInv, Locked
    <3> QED BY <2>2, <3>1, <3>3
  <2>4. m_ \in S
    <3>1. PICK t \in S : TRUE
      BY DEF Stuck
    <3>2. CASE pc[t] \in {"closed", "get"}
      BY <2>2, <3>2
    <3>3. CASE pc[t] \in {"close", "queue"}
      BY <2>2, <2>3, <3>3
    <3> QED BY <2>2, <3>2, <3>3
  <2>5. PICK h \in S : h = m_ /\ h \in Thread
    BY <2>1, <2>4
  <2>6. HoldsM(h) /\ OnSession(h)
    BY <1>1, <2>5 DEF LockInv
  <2>7. CASE pc[h] = "queue"
    <3>1. WaitsFor(h) = sm_[arg[h]]
      BY <2>7 DEF WaitsFor
    <3>2. QueueWhileClosing(h)
      BY <2>3, <2>7, <3>1 DEF QueueWhileClosing
    <3> QED BY <3>2
  <2>8. CASE pc[h] = "closed"
    <3>1. arg[h] \notin handles[h] /\ active_session_ # arg[h]
      BY <2>5, <2>6, <2>8 DEF HoldsM, OnSession, Alone, Held
    <3> QED BY <2>5, <2>8, <3>1 DEF DestroysReplaced
  <2>9. CASE pc[h] = "close"
    <3>1. Alone(h, arg[h])
      BY <2>5, <2>6, <2>9 DEF HoldsM, OnSession
    <3>2. PICK v \in Thread : pc[v] = "closed" /\ arg[v] = arg[h]
      BY <2>1, <2>3, <2>9
    <3> QED BY <2>9, <3>1, <3>2 DEF Alone
  <2> QED BY <2>2, <2>5, <2>6, <2>7, <2>8, <2>9 DEF HoldsM
<1> QED BY <1>1, LockAlways, PTL

\* The active session gives way only to a newer one, to its own close() and to
\* ~ApiCore(): close() of a session that was replaced leaves the newer one alone.
THEOREM ActiveStays == Spec => ActiveKept
<1> DEFINE A == active_session_' # active_session_ =>
                  \/ active_session_' > active_session_
                  \/ objects[active_session_].state = "invalid"
                  \/ api' = "destroyed"
<1>1. ASSUME LockInv, CopyType, [Next]_vars PROVE A
  <2>1. CASE DestroyApi
    BY <2>1 DEF DestroyApi
  <2>2. ASSUME NEW t \in Thread, Construct(t) PROVE A
    <3>1. PICK n \in Object : active_session_ < n /\ active_session_' = n
      BY <1>1, <2>2, NextObject
    <3>2. active_session_ \in Nat /\ n \in Nat
      BY <1>1, BoundsAssumption DEF LockInv, LockType, Object
    <3> QED BY <3>1, <3>2
  <2>3. ASSUME NEW t \in Thread, SessionClosed(t) PROVE A
    BY <1>1, <2>3 DEF SessionClosed, Forget, LockInv, OnSession
  <2>4. CASE BackendNext \/ UNCHANGED vars
    BY <2>4 DEF BackendNext, Publish, Published, WriteField, SessionEnds, vars
  <2>5. ASSUME NEW t \in Thread, Call(t) \/ Registered(t) PROVE A
    BY <2>5 DEF Call, OpenSession, GetOpenSession, CreateEventQueue, Close, DropHandle,
                RegisterToControl, Registered
  <2>6. ASSUME NEW t \in Thread, OpenStep(t), ~Construct(t) PROVE A
    BY <2>6 DEF OpenStep, OpenCoreShmHandle, TimeOut, ReadRevision, ReadState, ReadId,
                ReadPath, CheckRevision, OpenBlock, CheckSession, OpenBlocksFailed,
                GetSession
  <2>7. ASSUME NEW t \in Thread, CloseLock(t) \/ AddEventQueue(t) PROVE A
    BY <2>7 DEF CloseLock, AddEventQueue
  <2> QED
    BY <1>1, <2>1, <2>2, <2>3, <2>4, <2>5, <2>6, <2>7 DEF Next, LockStep
<1>2. CopyInv => CopyType
  BY DEF CopyInv
<1>3. LockInv /\ CopyType /\ [Next]_vars => [A]_vars
  BY <1>1
<1> QED BY <1>2, <1>3, LockAlways, CopyInvariant, PTL DEF Spec, ActiveKept
=============================================================================
