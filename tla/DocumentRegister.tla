-------------------------- MODULE DocumentRegister --------------------------
(***************************************************************************)
(* What the clients of a document in shared memory are promised: a register *)
(* that holds one document the backend has finished, whole, and that moves  *)
(* to newer well-formed ones only.  A call of getDeviceInfo() reads it at   *)
(* one moment between its beginning and its end; the io thread announces a  *)
(* change only when the register has moved since it began to look.          *)
(***************************************************************************)
EXTENDS Integers

CONSTANTS Io, User, Word, BadRevision

VARIABLES
  written,             \* the last revision the backend has finished
  document, revision,  \* the register: words, and the revision they are of
  phase,               \* per thread: "idle", "called", "announce" or "read"
  since,               \* per thread: the revision when its call began
  value,               \* per thread: what a call has read and not returned
  answer               \* per thread: what its last call returned

registerVars == <<written, document, revision, phase, since, value, answer>>

Thread == User \cup {Io}
Move(t, from, to) == phase[t] = from /\ phase' = [phase EXCEPT ![t] = to]

RegisterInit ==
  /\ written = 0 /\ revision = 0 /\ document = [w \in Word |-> 0]
  /\ phase = [t \in Thread |-> "idle"]
  /\ since = [t \in Thread |-> 0]
  /\ value = [t \in Thread |-> 0] /\ answer = [t \in Thread |-> 0]

Publish ==
  /\ written' = written + 2
  /\ UNCHANGED <<document, revision, phase, since, value, answer>>

Begin(t) ==
  /\ Move(t, "idle", "called")
  /\ since' = [since EXCEPT ![t] = revision]
  /\ UNCHANGED <<written, document, revision, value, answer>>

\* The register moves in a call of some thread; the io thread announces it.
Install(t) ==
  /\ \E r \in revision + 1 .. written :
       /\ r % 2 = 0 /\ r \notin BadRevision
       /\ revision' = r /\ document' = [w \in Word |-> r]
  /\ Move(t, "called", IF t = Io THEN "announce" ELSE "called")
  /\ UNCHANGED <<written, since, value, answer>>

\* The io thread finds that another thread has moved it ...
Announce ==
  /\ Move(Io, "called", "announce") /\ since[Io] < revision
  /\ UNCHANGED <<written, document, revision, since, value, answer>>

\* ... or that there is nothing to announce, or has announced it.
Finish ==
  /\ phase[Io] # "idle" /\ phase' = [phase EXCEPT ![Io] = "idle"]
  /\ UNCHANGED <<written, document, revision, since, value, answer>>

Read(t) ==
  /\ Move(t, "called", "read")
  /\ value' = [value EXCEPT ![t] = revision]
  /\ UNCHANGED <<written, document, revision, since, answer>>

Answer(t) ==
  /\ Move(t, "read", "idle")
  /\ answer' = [answer EXCEPT ![t] = value[t]]
  /\ value' = [value EXCEPT ![t] = 0]
  /\ UNCHANGED <<written, document, revision, since>>

\* Reading and returning at once.
ReadAnswer(t) ==
  /\ Move(t, "called", "idle")
  /\ answer' = [answer EXCEPT ![t] = revision]
  /\ UNCHANGED <<written, document, revision, since, value>>

RegisterNext ==
  \/ Publish \/ Announce \/ Finish
  \/ \E t \in Thread : Begin(t) \/ Install(t)
  \/ \E t \in User : Read(t) \/ Answer(t) \/ ReadAnswer(t)

RegisterSpec == RegisterInit /\ [][RegisterNext]_registerVars
=============================================================================
