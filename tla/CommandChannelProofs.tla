------------------------ MODULE CommandChannelProofs ------------------------
(***************************************************************************)
(* What holds of the command channel for any number of threads and of      *)
(* commands: type correctness, one asynchronous write at a time, the life  *)
(* of a callback, and that requests reach the backend in order with none   *)
(* left behind.                                                            *)
(***************************************************************************)
EXTENDS CommandChannel, SequenceTheorems, TLAPS

USE DEF socketVars, sendVars, userVars, backendVars, vars

\* Taking off a prefix of k elements, as async_read_some does, leaves two
\* sequences over the same set.
LEMMA SplitType ==
  ASSUME NEW S, NEW s \in Seq(S), NEW k \in 1 .. Len(s)
  PROVE  SubSeq(s, 1, k) \in Seq(S) /\ SubSeq(s, k + 1, Len(s)) \in Seq(S)
<1>1. \A i \in 1 .. Len(s) : s[i] \in S
  BY ElementOfSeq
<1>2. Len(s) \in Nat
  BY LenProperties
<1>3. SubSeq(s, 1, k) \in Seq(S)
  BY <1>1, <1>2, SubSeqProperties
<1>4. SubSeq(s, k + 1, Len(s)) \in Seq(S)
  BY <1>1, <1>2, SubSeqProperties
<1> QED BY <1>3, <1>4

----------------------------------------------------------------------------

\* startNextSendNoLock keeps the type of the three variables it may change.
LEMMA StartNextSendType ==
  ASSUME TypeOK, NEW q \in Seq(CmdId), StartNextSendNoLock(q)
  PROVE  /\ tx_queue' \in Seq(CmdId)
         /\ writes' \in SUBSET CmdId
         /\ send_in_progress' \in BOOLEAN
<1>1. CASE send_in_progress \/ q = <<>>
  BY <1>1 DEF TypeOK, StartNextSendNoLock
<1>2. CASE ~(send_in_progress \/ q = <<>>)
  <2>1. Head(q) \in CmdId /\ Tail(q) \in Seq(CmdId)
    BY <1>2, HeadTailProperties
  <2> QED BY <1>2, <2>1 DEF TypeOK, StartNextSendNoLock
<1> QED BY <1>1, <1>2

\* Every step keeps the type of every variable.
LEMMA TypeStep ==
  ASSUME TypeOK, IdsOfUsers, IdOfIo, [Next]_vars
  PROVE  TypeOK'
<1> USE DEF TypeOK, Idle, IoAt
<1>0. <<>> \in Seq(CmdId)
  BY EmptySeq
<1>1. CASE Connect \/ ConnectFailed \/ Register \/ RegisterFailed
  BY <1>1 DEF Connect, ConnectFailed, NewConnection, Register, RegisterFailed
<1>2. CASE LinkDown
  BY <1>2 DEF LinkDown
<1>3. CASE Close
  BY <1>0, <1>3 DEF Close
<1>4. ASSUME NEW u \in User, TakeId(u) PROVE TypeOK'
  <2>1. command_id_counter \in CmdId /\ command_id_counter' \in 0 .. MaxCommands
    BY <1>4, MaxCommandsAssumption DEF TakeId, CmdId
  <2>2. PICK cb \in {"async", u} :
          /\ user' = [user EXCEPT ![u] = [pc |-> "has_id", cb |-> cb,
                                          cmd |-> command_id_counter]]
          /\ result_set' = [result_set EXCEPT ![u] = @ /\ cb = "async"]
    BY <1>4 DEF TakeId
  <2>3. (result_set[u] /\ cb = "async") \in BOOLEAN
    OBVIOUS
  <2> QED BY <1>4, <2>1, <2>2, <2>3 DEF TakeId, Callback
<1>5. ASSUME NEW u \in User, StartSendRefused(u) PROVE TypeOK'
  BY <1>5 DEF StartSendRefused
<1>6. ASSUME NEW u \in User, StartSend(u) PROVE TypeOK'
  <2>0. user[u].cmd \in CmdId
    BY <1>6 DEF StartSend, IdsOfUsers
  <2>1. Append(tx_queue, user[u].cmd) \in Seq(CmdId)
    BY <2>0, AppendProperties
  <2>2. Append(accepted, user[u].cmd) \in Seq(CmdId)
    BY <2>0, AppendProperties
  <2>3. StartNextSendNoLock(Append(tx_queue, user[u].cmd))
    BY <1>6 DEF StartSend
  <2>4. /\ tx_queue' \in Seq(CmdId)
        /\ writes' \in SUBSET CmdId
        /\ send_in_progress' \in BOOLEAN
    BY <2>1, <2>3, StartNextSendType
  <2>5. handlers' \in [CmdId -> Callback \cup {"none"}]
    BY <1>6 DEF StartSend
  <2>6. user' \in [User -> [pc : {"idle", "has_id", "sync_locked", "waiting"},
                            cmd : CmdId \cup {NoCmd},
                            cb : Callback \cup {"none"}]]
    BY <1>6 DEF StartSend
  <2> QED BY <1>6, <2>2, <2>4, <2>5, <2>6 DEF StartSend
<1>7. ASSUME NEW u \in User, BeginWait(u) PROVE TypeOK'
  BY <1>7 DEF BeginWait
<1>8. ASSUME NEW u \in User, EndWait(u) PROVE TypeOK'
  BY <1>8 DEF EndWait
<1>9. ASSUME NEW c \in CmdId, WriteDone(c) PROVE TypeOK'
  BY <1>9 DEF WriteDone
<1>10. ASSUME NEW c \in CmdId, WriteFailed(c) PROVE TypeOK'
  BY <1>10 DEF WriteFailed
<1>11. CASE NextSend
  <2>1. /\ tx_queue' \in Seq(CmdId)
        /\ writes' \in SUBSET CmdId
        /\ send_in_progress' \in BOOLEAN
    BY <1>11, StartNextSendType DEF NextSend
  <2> QED BY <1>11, <2>1 DEF NextSend
<1>12. ASSUME NEW k \in 1 .. Len(rx), ReadDocuments(k) PROVE TypeOK'
  <2>1. SubSeq(rx, 1, k) \in Seq(CmdId) /\ SubSeq(rx, k + 1, Len(rx)) \in Seq(CmdId)
    BY <1>12, SplitType
  <2> QED BY <1>12, <2>1 DEF ReadDocuments
<1>13. CASE ParsePacket
  <2>1. Head(receive_buffer) \in CmdId /\ Tail(receive_buffer) \in Seq(CmdId)
    BY <1>13, HeadTailProperties DEF ParsePacket
  <2> QED BY <1>13, <2>1 DEF ParsePacket
<1>14. CASE CallAsync
  BY <1>14 DEF CallAsync, IdOfIo
<1>15. CASE CallBlocking
  BY <1>15 DEF CallBlocking, IdOfIo
<1>16. CASE ResumeReceive
  BY <1>16 DEF ResumeReceive
<1>17. CASE ReadEof
  <2>1. rx' = <<>> /\ <<>> \in Seq(CmdId)
    BY <1>17, EmptySeq DEF ReadEof
  <2> QED BY <1>17, <2>1 DEF ReadEof
<1>18. CASE ReadFailed
  BY <1>18 DEF ReadFailed
<1>23. CASE Disconnected
  BY <1>23 DEF Disconnected
<1>19. ASSUME NEW c \in CmdId, Transfer(c) PROVE TypeOK'
  BY <1>19, AppendProperties DEF Transfer
<1>20. ASSUME NEW c \in CmdId, Respond(c) PROVE TypeOK'
  BY <1>20, AppendProperties DEF Respond
<1>21. ASSUME NEW c \in CmdId, RespondTwice(c) PROVE TypeOK'
  <2>1. <<c, c>> \in Seq(CmdId)
    BY <1>21
  <2>2. rx \o <<c, c>> \in Seq(CmdId)
    BY <2>1, ConcatProperties
  <2> QED BY <1>21, <2>2 DEF RespondTwice
<1>22. CASE UNCHANGED vars
  BY <1>22
<1> QED
  BY <1>1, <1>2, <1>3, <1>4, <1>5, <1>6, <1>7, <1>8, <1>9, <1>10, <1>11,
     <1>12, <1>13, <1>14, <1>15, <1>16, <1>17, <1>18, <1>19, <1>20, <1>21,
     <1>22, <1>23 DEF Next, UserStep, IoStep, Read

----------------------------------------------------------------------------

\* The steps that touch neither the callbacks nor the threads nor the io
\* thread's place keep IdInv.
LEMMA IdUnchanged ==
  ASSUME IdInv,
         UNCHANGED <<command_id_counter, handlers, userVars, io, called>>
  PROVE  IdInv'
BY DEF IdInv, IdsOfUsers, IdsUnsent, IdsInMap, IdsUsed, IdOfIo, Waits

\* Every step moves a command id from holder to holder as IdInv says.
LEMMA IdStep ==
  ASSUME TypeOK, IdInv, [Next]_vars
  PROVE  IdInv'
<1> USE DEF IdInv, Idle, IoAt
<1>a. NoCmd \notin CmdId /\ CmdId \subseteq Nat /\ command_id_counter \in Nat
  BY MaxCommandsAssumption DEF TypeOK, NoCmd, CmdId
<1>b. "async" \notin User /\ "none" \notin User
  BY UserAssumption
<1>4. ASSUME NEW u \in User, TakeId(u) PROVE IdInv'
  <2>1. PICK cb \in {"async", u} :
          /\ user' = [user EXCEPT ![u] = [pc |-> "has_id", cb |-> cb,
                                          cmd |-> command_id_counter]]
          /\ result_set' = [result_set EXCEPT ![u] = @ /\ cb = "async"]
    BY <1>4 DEF TakeId
  <2>2. /\ user[u].pc = "idle" /\ command_id_counter \in CmdId
        /\ command_id_counter' = command_id_counter + 1
        /\ UNCHANGED <<handlers, io, called>>
    BY <1>4, MaxCommandsAssumption DEF TakeId, TypeOK, CmdId
  <2>3. /\ user'[u] = [pc |-> "has_id", cb |-> cb, cmd |-> command_id_counter]
        /\ \A v \in User \ {u} : user'[v] = user[v]
    BY <2>1 DEF TypeOK
  <2>r. \A v \in User \ {u} : result_set'[v] = result_set[v]
    BY <2>1 DEF TypeOK
  <2>s. cb = u => ~result_set'[u]
    <3>1. ASSUME cb = u PROVE (cb = "async") = FALSE
      BY <3>1, <1>b
    <3>2. ASSUME cb = u PROVE result_set' = [result_set EXCEPT ![u] = FALSE]
      BY <3>1, <3>2, <2>1
    <3> QED BY <3>2 DEF TypeOK
  <2>t. /\ user'[u].pc = "has_id" /\ user'[u].cb \in {"async", u}
        /\ user'[u].cmd = command_id_counter /\ user'[u].cb = cb
    BY <2>3
  <2>4. IdsOfUsers'
    <3>1. \A v \in User \ {u} : user'[v].pc # "idle" =>
            user'[v].cmd \in CmdId /\ user'[v].cmd < command_id_counter
      BY <2>3 DEF IdsOfUsers
    <3>2. \A c \in CmdId : c < command_id_counter => c < command_id_counter' /\ c # command_id_counter
      BY <1>a, <2>2
    <3>3. command_id_counter < command_id_counter'
      BY <1>a, <2>2
    <3> QED BY <2>2, <2>3, <2>t, <3>1, <3>2, <3>3 DEF IdsOfUsers
  <2>5. handlers[command_id_counter] = "none"
    BY <2>2, <1>a DEF IdsInMap
  <2>6. command_id_counter \notin called /\ command_id_counter # io.cmd
    BY <2>2, <1>a DEF IdsUsed, IdOfIo
  <2>7. IdsUnsent'
    BY <1>b, <2>2, <2>3, <2>5, <2>6, <2>r, <2>s, <2>t DEF IdsUnsent
  <2>8. \A v \in User, c \in CmdId : Waits(v, c) => Waits(v, c)'
    BY <2>2, <2>3, <2>r DEF Waits
  <2>9. \A c \in CmdId : c < command_id_counter => c < command_id_counter'
    <3> TAKE c \in CmdId
    <3>1. c \in Nat /\ command_id_counter \in Nat
      BY <1>a
    <3>2. command_id_counter' = command_id_counter + 1
      BY <2>2
    <3> QED BY <3>1, <3>2
  <2>10. IdsInMap' /\ IdsUsed'
    <3>1. called \subseteq CmdId
      BY DEF TypeOK
    <3>2. IdsUsed'
      BY <2>2, <2>9, <3>1 DEF IdsUsed
    <3>3. IdsInMap'
      BY <2>2, <2>8, <2>9 DEF IdsInMap
    <3> QED BY <3>2, <3>3
  <2>11. IdOfIo'
    BY <2>2, <2>8, <2>9 DEF IdOfIo
  <2> QED BY <2>4, <2>7, <2>10, <2>11
<1>5. ASSUME NEW u \in User, StartSendRefused(u) PROVE IdInv'
  <2>1. /\ user[u].pc = "has_id" /\ user'[u] = Idle
        /\ \A v \in User \ {u} : user'[v] = user[v] /\ result_set'[v] = result_set[v]
        /\ UNCHANGED <<handlers, io, called, command_id_counter>>
    BY <1>5 DEF StartSendRefused, TypeOK
  <2>2. \A v \in User, c \in CmdId : Waits(v, c) => Waits(v, c)'
    BY <2>1 DEF Waits
  <2>3. IdsOfUsers' /\ IdsUnsent'
    BY <2>1 DEF IdsOfUsers, IdsUnsent
  <2>4. IdsInMap' /\ IdsUsed' /\ IdOfIo'
    BY <2>1, <2>2 DEF IdsInMap, IdsUsed, IdOfIo
  <2> QED BY <2>3, <2>4
<1>6. ASSUME NEW u \in User, StartSend(u) PROVE IdInv'
  <2> DEFINE c0 == user[u].cmd
  <2>1. /\ user[u].pc = "has_id" /\ c0 \in CmdId /\ c0 < command_id_counter
        /\ handlers[c0] = "none" /\ c0 \notin called /\ c0 # io.cmd
        /\ user[u].cb \in {"async", u} /\ (user[u].cb = u => ~result_set[u])
    BY <1>6 DEF StartSend, IdsOfUsers, IdsUnsent
  <2>2. /\ user'[u] = IF user[u].cb = "async" THEN Idle
                      ELSE [pc |-> "sync_locked", cmd |-> c0, cb |-> user[u].cb]
        /\ \A v \in User \ {u} : user'[v] = user[v]
        /\ handlers'[c0] = user[u].cb
        /\ \A c \in CmdId \ {c0} : handlers'[c] = handlers[c]
        /\ UNCHANGED <<io, called, command_id_counter, result_set>>
    BY <1>6, <2>1 DEF StartSend, TypeOK
  <2>3. \A v \in User, c \in CmdId : Waits(v, c) => Waits(v, c)'
    BY <2>1, <2>2 DEF Waits
  <2>4. user[u].cb = u => Waits(u, c0)'
    BY <1>b, <2>1, <2>2 DEF Waits
  <2>5. IdsOfUsers'
    BY <1>b, <2>1, <2>2 DEF IdsOfUsers
  <2>6. IdsUnsent'
    BY <1>b, <2>1, <2>2 DEF IdsUnsent, IdsOfUsers
  <2>7. IdsInMap'
    BY <1>b, <2>1, <2>2, <2>3, <2>4 DEF IdsInMap
  <2>8. IdsUsed' /\ IdOfIo'
    BY <2>1, <2>2, <2>3 DEF IdsUsed, IdOfIo
  <2> QED BY <2>5, <2>6, <2>7, <2>8
<1>7. ASSUME NEW u \in User, BeginWait(u) PROVE IdInv'
  <2>1. /\ user[u].pc = "sync_locked"
        /\ user'[u] = [pc |-> "waiting", cmd |-> user[u].cmd, cb |-> user[u].cb]
        /\ \A v \in User \ {u} : user'[v] = user[v]
        /\ UNCHANGED <<handlers, io, called, command_id_counter, result_set>>
    BY <1>7 DEF BeginWait, TypeOK
  <2>2. \A v \in User, c \in CmdId : Waits(v, c) => Waits(v, c)'
    BY <2>1 DEF Waits
  <2>3. IdsOfUsers' /\ IdsUnsent'
    BY <2>1 DEF IdsOfUsers, IdsUnsent
  <2>4. IdsInMap' /\ IdsUsed' /\ IdOfIo'
    BY <2>1, <2>2 DEF IdsInMap, IdsUsed, IdOfIo
  <2> QED BY <2>3, <2>4
<1>8. ASSUME NEW u \in User, EndWait(u) PROVE IdInv'
  <2>1. /\ result_set[u] /\ user'[u] = Idle
        /\ \A v \in User \ {u} : user'[v] = user[v]
        /\ UNCHANGED <<handlers, io, called, command_id_counter, result_set>>
    BY <1>8 DEF EndWait, TypeOK
  <2>2. \A v \in User, c \in CmdId : Waits(v, c) => Waits(v, c)'
    BY <2>1 DEF Waits
  <2>3. IdsOfUsers' /\ IdsUnsent'
    BY <2>1 DEF IdsOfUsers, IdsUnsent
  <2>4. IdsInMap' /\ IdsUsed' /\ IdOfIo'
    BY <2>1, <2>2 DEF IdsInMap, IdsUsed, IdOfIo
  <2> QED BY <2>3, <2>4
<1>9. ASSUME io.pc # "callback",
             io' \in {io, IoAt("idle"), IoAt("next_send"), IoAt("parsing"),
                     IoAt("disconnected")},
             UNCHANGED <<command_id_counter, handlers, userVars, called>>
      PROVE  IdInv'
  <2>1. io.cmd = NoCmd /\ io'.cmd = NoCmd /\ io'.pc # "callback"
    BY <1>9 DEF IdOfIo
  <2> QED
    BY <1>9, <2>1 DEF IdsOfUsers, IdsUnsent, IdsInMap, IdsUsed, IdOfIo, Waits
<1>13. CASE ParsePacket
  <2> DEFINE c0 == Head(receive_buffer)
  <2>1. c0 \in CmdId
    BY <1>13, HeadTailProperties DEF ParsePacket, TypeOK
  <2>2. /\ io.pc = "parsing" /\ io.cmd = NoCmd
        /\ handlers'[c0] = "none"
        /\ \A c \in CmdId \ {c0} : handlers'[c] = handlers[c]
        /\ UNCHANGED <<called, command_id_counter, userVars>>
    BY <1>13, <2>1 DEF ParsePacket, TypeOK, IdOfIo
  <2>3. CASE handlers[c0] = "none"
    <3>1. UNCHANGED io /\ \A c \in CmdId : handlers'[c] = handlers[c]
      BY <1>13, <2>2, <2>3 DEF ParsePacket
    <3> QED
      BY <2>2, <3>1 DEF IdsOfUsers, IdsUnsent, IdsInMap, IdsUsed, IdOfIo, Waits
  <2>4. CASE handlers[c0] # "none"
    <3>1. io' = [pc |-> "callback", cmd |-> c0, cb |-> handlers[c0]]
      BY <1>13, <2>4 DEF ParsePacket
    <3>2. /\ c0 < command_id_counter /\ c0 \notin called
          /\ handlers[c0] \in Callback
          /\ handlers[c0] \in User => Waits(handlers[c0], c0)
      BY <2>1, <2>4 DEF IdsInMap, TypeOK
    <3>3. \A v \in User, c \in CmdId : Waits(v, c) => Waits(v, c)'
      BY <2>2 DEF Waits
    <3>4. IdsOfUsers'
      BY <2>2 DEF IdsOfUsers
    <3>5. IdsUnsent'
      BY <2>1, <2>2, <2>4, <3>1 DEF IdsUnsent, IdsOfUsers
    <3>6. IdsInMap' /\ IdsUsed' /\ IdOfIo'
      BY <2>1, <2>2, <3>1, <3>2, <3>3 DEF IdsInMap, IdsUsed, IdOfIo
    <3> QED BY <3>4, <3>5, <3>6
  <2> QED BY <2>3, <2>4
<1>14. CASE CallAsync
  <2>1. /\ io.pc = "callback" /\ io.cb = "async"
        /\ io' = IoAt("parsing") /\ called' = called \cup {io.cmd}
        /\ UNCHANGED <<command_id_counter, handlers, userVars>>
    BY <1>14 DEF CallAsync
  <2>2. io.cmd \in CmdId /\ io.cmd < command_id_counter /\ io'.cmd = NoCmd
    BY <2>1 DEF IdOfIo
  <2>3. IdsOfUsers' /\ IdsUnsent' /\ IdsInMap'
    BY <1>a, <2>1, <2>2 DEF IdsOfUsers, IdsUnsent, IdsInMap, Waits
  <2>4. IdsUsed' /\ IdOfIo'
    BY <1>a, <2>1, <2>2 DEF IdsUsed, IdOfIo, TypeOK
  <2> QED BY <2>3, <2>4
<1>15. CASE CallBlocking
  <2> DEFINE u == io.cb
  <2>1. /\ io.pc = "callback" /\ u \in User
        /\ io' = IoAt("parsing") /\ called' = called \cup {io.cmd}
        /\ UNCHANGED <<command_id_counter, handlers, user>>
        /\ \A v \in User \ {u} : result_set'[v] = result_set[v]
    BY <1>15 DEF CallBlocking, TypeOK
  <2>2. /\ io.cmd \in CmdId /\ io.cmd < command_id_counter /\ io'.cmd = NoCmd
        /\ Waits(u, io.cmd)
    BY <2>1 DEF IdOfIo
  <2>3. \A v \in User \ {u}, c \in CmdId : Waits(v, c) => Waits(v, c)'
    BY <2>1 DEF Waits
  <2>4. \A c \in CmdId : handlers[c] # u
    BY <2>1, <2>2, <1>b DEF IdsInMap, Waits
  <2>5. IdsOfUsers'
    BY <2>1 DEF IdsOfUsers
  <2>6. IdsUnsent'
    BY <1>a, <2>1, <2>2 DEF IdsUnsent, IdsOfUsers, Waits
  <2>7. IdsInMap'
    BY <1>a, <2>1, <2>2, <2>3, <2>4 DEF IdsInMap
  <2>8. IdsUsed' /\ IdOfIo'
    BY <1>a, <2>1, <2>2 DEF IdsUsed, IdOfIo, TypeOK
  <2> QED BY <2>5, <2>6, <2>7, <2>8
<1>16. ASSUME NEW c \in CmdId, WriteDone(c) PROVE IdInv'
  BY <1>9, <1>16 DEF WriteDone
<1>17. CASE NextSend
  BY <1>9, <1>17 DEF NextSend
<1>18. ASSUME NEW k \in 1 .. Len(rx), ReadDocuments(k) PROVE IdInv'
  BY <1>9, <1>18 DEF ReadDocuments
<1>19. CASE ResumeReceive
  BY <1>9, <1>19 DEF ResumeReceive
<1>20. CASE \/ Connect \/ ConnectFailed \/ Register \/ RegisterFailed
            \/ LinkDown \/ Close \/ ReadFailed \/ UNCHANGED vars
  <2>1. UNCHANGED <<command_id_counter, handlers, userVars, io, called>>
    BY <1>20 DEF Connect, ConnectFailed, NewConnection, Register,
                 RegisterFailed, LinkDown, Close, ReadFailed
  <2> QED BY <2>1, IdUnchanged
<1>21. ASSUME NEW c \in CmdId,
              WriteFailed(c) \/ Transfer(c) \/ Respond(c) \/ RespondTwice(c)
       PROVE  IdInv'
  <2>1. UNCHANGED <<command_id_counter, handlers, userVars, io, called>>
    BY <1>21 DEF WriteFailed, Transfer, Respond, RespondTwice
  <2> QED BY <2>1, IdUnchanged
<1>22. CASE ReadEof \/ Disconnected
  BY <1>9, <1>22 DEF ReadEof, Disconnected
<1> QED
  BY <1>4, <1>5, <1>6, <1>7, <1>8, <1>13, <1>14, <1>15, <1>16, <1>17, <1>18,
     <1>19, <1>20, <1>21, <1>22 DEF Next, UserStep, IoStep, Read

\* IdInv and the types together are inductive.
LEMMA IdAlways == Spec => [](TypeOK /\ IdInv)
<1>1. Init => TypeOK
  <2> SUFFICES ASSUME Init PROVE TypeOK
    OBVIOUS
  <2>1. <<>> \in Seq(CmdId)
    BY EmptySeq
  <2>2. 0 \in 0 .. MaxCommands
    BY MaxCommandsAssumption
  <2>3. user \in [User -> [pc : {"idle", "has_id", "sync_locked", "waiting"},
                           cmd : CmdId \cup {NoCmd},
                           cb : Callback \cup {"none"}]]
    BY DEF Init, Idle, IoAt
  <2>4. io \in [pc : {"idle", "next_send", "parsing", "callback",
                      "disconnected"},
                cmd : CmdId \cup {NoCmd}, cb : Callback \cup {"none"}]
    BY DEF Init, Idle, IoAt
  <2>5. /\ handlers \in [CmdId -> Callback \cup {"none"}]
        /\ result_set \in [User -> BOOLEAN]
    BY DEF Init
  <2> QED BY <2>1, <2>2, <2>3, <2>4, <2>5 DEF Init, TypeOK
<1>2. Init => IdInv
  BY DEF Init, IdInv, Idle, IoAt, IdsOfUsers, IdsUnsent, IdsInMap, IdsUsed, IdOfIo
<1>3. TypeOK /\ IdInv /\ [Next]_vars => (TypeOK /\ IdInv)'
  BY TypeStep, IdStep DEF IdInv
<1> QED BY <1>1, <1>2, <1>3, PTL DEF Spec

\* Every variable keeps its type, whatever the number of threads and commands.
THEOREM TypeCorrect == Spec => []TypeOK
BY IdAlways, PTL

\* However the threads, the io thread and a backend that may answer twice
\* interleave, the callback of a blocking call only ever runs while its caller
\* is inside the call that issued this command (session.cpp, blockingCommand).
THEOREM CallbackTarget == Spec => []CallbackTargetLive
<1>1. IdInv => CallbackTargetLive
  BY DEF IdInv, IdOfIo, Waits, CallbackTargetLive
<1> QED BY <1>1, IdAlways, PTL

\* parsePacket erases a callback before it calls it, so no callback is called
\* twice, for any set of commands the backend answers twice.
THEOREM CalledOnce == Spec => []CalledAtMostOnce
<1>1. TypeOK /\ IdInv => CalledAtMostOnce
  BY DEF TypeOK, IdInv, IdsInMap, IdsUsed, CalledAtMostOnce
<1> QED BY <1>1, IdAlways, PTL

----------------------------------------------------------------------------

\* What makes OneWriteInFlight inductive: send_in_progress says exactly
\* whether a write is outstanding.
WriteInv == OneWriteInFlight /\ (send_in_progress <=> writes # {})

\* startNextSendNoLock starts a write only when none is outstanding.
LEMMA StartNextSendWrites ==
  ASSUME WriteInv, NEW q, StartNextSendNoLock(q)
  PROVE  WriteInv'
<1>1. CASE send_in_progress \/ q = <<>>
  BY <1>1 DEF WriteInv, OneWriteInFlight, StartNextSendNoLock
<1>2. CASE ~(send_in_progress \/ q = <<>>)
  BY <1>2 DEF WriteInv, OneWriteInFlight, StartNextSendNoLock
<1> QED BY <1>1, <1>2

\* Every step that starts or ends a write keeps the flag true to it.
LEMMA WriteStep ==
  ASSUME WriteInv, [Next]_vars
  PROVE  WriteInv'
<1>1. ASSUME NEW u \in User, StartSend(u) PROVE WriteInv'
  BY <1>1, StartNextSendWrites DEF StartSend
<1>2. CASE NextSend
  BY <1>2, StartNextSendWrites DEF NextSend
<1>3. ASSUME NEW c \in CmdId, WriteDone(c) \/ WriteFailed(c) PROVE WriteInv'
  BY <1>3 DEF WriteDone, WriteFailed, WriteInv, OneWriteInFlight
<1>4. CASE UNCHANGED <<writes, send_in_progress>>
  BY <1>4 DEF WriteInv, OneWriteInFlight
<1>5. ASSUME NEW u \in User, TakeId(u) \/ StartSendRefused(u) \/ BeginWait(u) \/ EndWait(u)
      PROVE  UNCHANGED <<writes, send_in_progress>>
  BY <1>5 DEF TakeId, StartSendRefused, BeginWait, EndWait
<1>6. ASSUME NEW c \in CmdId, Transfer(c) \/ Respond(c) \/ RespondTwice(c)
      PROVE  UNCHANGED <<writes, send_in_progress>>
  BY <1>6 DEF Transfer, Respond, RespondTwice
<1>7. ASSUME \/ Connect \/ ConnectFailed \/ Register \/ RegisterFailed
             \/ LinkDown \/ Close \/ ParsePacket \/ CallAsync
             \/ CallBlocking \/ ResumeReceive \/ ReadEof \/ Disconnected
             \/ ReadFailed \/ Read \/ UNCHANGED vars
      PROVE  UNCHANGED <<writes, send_in_progress>>
  BY <1>7 DEF Connect, ConnectFailed, NewConnection, Register, RegisterFailed,
              LinkDown, Close, ParsePacket, CallAsync, CallBlocking,
              ResumeReceive, ReadEof, Disconnected, ReadFailed, Read,
              ReadDocuments
<1> QED
  BY <1>1, <1>2, <1>3, <1>4, <1>5, <1>6, <1>7 DEF Next, UserStep, IoStep

LEMMA WriteAlways == Spec => []WriteInv
<1>1. Init => WriteInv
  BY DEF Init, WriteInv, OneWriteInFlight
<1> QED BY <1>1, WriteStep, PTL DEF Spec

\* startNextSendNoLock is reached from every user thread and from the write
\* handler, which clears the flag without the lock; no two async_writes are
\* ever outstanding on the socket.
THEOREM OneWrite == Spec => []OneWriteInFlight
<1>1. WriteInv => OneWriteInFlight
  BY DEF WriteInv
<1> QED BY <1>1, WriteAlways, PTL

----------------------------------------------------------------------------

\* Without a connection the socket is closed to startSendCommand, and nothing has
\* been sent before the first one.  Before close() there is no second one.
Fresh ==
  /\ link = "none" =>
       /\ main_socket = "closed" /\ wire = <<>>
       /\ ~io_stopped => /\ tx_queue = <<>> /\ writes = {}
                         /\ \A c \in CmdId : handlers[c] = "none"
  /\ ~io_stopped => abandoned = {}

\* What is queued has not left the queue, neither to the socket nor with an
\* earlier connection, and is not to be queued again.
Gone == writes \cup abandoned

QueueFrom(q) ==
  /\ \A i, j \in 1 .. Len(q) : q[i] = q[j] => i = j
  /\ \A c \in CmdId : InSeq(c, q) => c < command_id_counter /\ c \notin Gone
  /\ \A c \in Gone : c < command_id_counter

QueueInv ==
  /\ QueueFrom(tx_queue)
  /\ \A u \in User : user[u].pc = "has_id" =>
       ~InSeq(user[u].cmd, tx_queue) /\ user[u].cmd \notin Gone

\* startSendCommand takes an id once.
AcceptedOnce ==
  /\ \A i, j \in 1 .. Len(accepted) : accepted[i] = accepted[j] => i = j
  /\ \A i \in 1 .. Len(accepted) : accepted[i] < command_id_counter
  /\ \A u \in User : user[u].pc = "has_id" => ~InSeq(user[u].cmd, accepted)

\* From the moment the socket is open: in RequestOrder the registration may
\* still be going on.
Alive == link \in {"registering", "up"}

Untransferred == {c \in writes \ abandoned : ~Transferred(c)}

Order ==
  IF Untransferred = {} THEN wire \o tx_queue = accepted
  ELSE \E c \in Untransferred : wire \o <<c>> \o tx_queue = accepted

\* Documents are kept only while they are parsed.
BufferUsed ==
  io.pc \in {"idle", "next_send", "disconnected"} => receive_buffer = <<>>

\* Who owes the callback of c, unless nobody does: unlike in PendingAccounted, a
\* write counts only until its bytes have arrived.
Owed(c) ==
  \/ c \in abandoned \/ InSeq(c, tx_queue) \/ c \in Untransferred
  \/ c \in unanswered \/ InSeq(c, rx) \/ InSeq(c, receive_buffer)

SendInv ==
  /\ Fresh /\ AcceptedOnce /\ BufferUsed
  /\ Alive => /\ Order
              /\ ~io_stopped /\ tx_queue # <<>> =>
                   send_in_progress \/ io.pc = "next_send"
              /\ \A c \in CmdId : handlers[c] # "none" => Owed(c)

----------------------------------------------------------------------------

\* Sequences: an element moved from the front of one to the end of another.
LEMMA Shift ==
  ASSUME NEW S, NEW s \in Seq(S), NEW t \in Seq(S), NEW e \in S
  PROVE  /\ Append(s, e) \o t = s \o <<e>> \o t
         /\ s \o Append(t, e) = Append(s \o t, e)
<1>1. <<e>> \in Seq(S)
  OBVIOUS
<1>2. Append(s, e) = s \o <<e>> /\ Append(t, e) = t \o <<e>>
  BY AppendIsConcat
<1>3. s \o t \in Seq(S)
  BY ConcatProperties
<1>4. Append(s \o t, e) = (s \o t) \o <<e>>
  BY <1>3, AppendIsConcat
<1>5. (s \o t) \o <<e>> = s \o (t \o <<e>>)
  BY <1>1, ConcatAssociative
<1> QED BY <1>2, <1>4, <1>5

LEMMA HeadFirst ==
  ASSUME NEW S, NEW s \in Seq(S), NEW q \in Seq(S), q # <<>>
  PROVE  /\ s \o q = s \o <<Head(q)>> \o Tail(q)
         /\ (s \o q)[Len(s) + 1] = Head(q)
         /\ Len(s) + 1 \in 1 .. Len(s \o q)
         /\ \A i \in 1 .. Len(s) : i \in 1 .. Len(s \o q) /\ (s \o q)[i] = s[i]
<1>1. Head(q) \in S /\ Tail(q) \in Seq(S) /\ Len(Tail(q)) = Len(q) - 1
      /\ \A i \in 1 .. Len(Tail(q)) : Tail(q)[i] = q[i + 1]
  BY HeadTailProperties
<1>2. Len(s) \in Nat /\ Len(q) \in Nat \ {0}
  BY LenProperties, EmptySeq
<1>3. /\ s \o q \in Seq(S) /\ Len(s \o q) = Len(s) + Len(q)
      /\ \A i \in 1 .. Len(s) + Len(q) :
           (s \o q)[i] = IF i <= Len(s) THEN s[i] ELSE q[i - Len(s)]
  BY ConcatProperties
<1>4. Head(q) = q[1]
  BY <1>2
<1>5. (s \o q)[Len(s) + 1] = Head(q)
  BY <1>2, <1>3, <1>4
<1>6. \A i \in 1 .. Len(s) : i \in 1 .. Len(s \o q) /\ (s \o q)[i] = s[i]
  BY <1>2, <1>3
<1>7. <<Head(q)>> \in Seq(S)
  BY <1>1
<1>8. q = <<Head(q)>> \o Tail(q)
  <2>1. q = SubSeq(q, 1, Len(q))
    BY SubSeqFull
  <2>2. 1 \in 1 .. Len(q) /\ Len(q) \in 1 .. Len(q)
    BY <1>2
  <2>3. SubSeq(q, 1, Len(q)) = <<q[1]>> \o SubSeq(q, 2, Len(q))
    BY <2>2, SubSeqRecursiveFirst
  <2>4. Tail(q) = SubSeq(q, 2, Len(q))
    BY TailIsSubSeq
  <2> QED BY <1>4, <2>1, <2>3, <2>4
<1>9. (s \o <<Head(q)>>) \o Tail(q) = s \o (<<Head(q)>> \o Tail(q))
  BY <1>1, <1>7, ConcatAssociative
<1>10. Len(s) + 1 \in 1 .. Len(s \o q)
  BY <1>2, <1>3
<1> QED BY <1>5, <1>6, <1>8, <1>9, <1>10

LEMMA InTail ==
  ASSUME NEW S, NEW q \in Seq(S), q # <<>>, NEW c, InSeq(c, q)
  PROVE  c = Head(q) \/ InSeq(c, Tail(q))
<1>1. Len(Tail(q)) = Len(q) - 1 /\ \A i \in 1 .. Len(Tail(q)) : Tail(q)[i] = q[i + 1]
  BY HeadTailProperties
<1>2. Len(q) \in Nat
  BY LenProperties
<1>3. PICK i \in 1 .. Len(q) : q[i] = c
  BY DEF InSeq
<1>4. CASE i = 1
  BY <1>3, <1>4
<1>5. CASE i # 1
  <2>1. i - 1 \in 1 .. Len(Tail(q)) /\ Tail(q)[i - 1] = c
    BY <1>1, <1>2, <1>3, <1>5
  <2> QED BY <2>1 DEF InSeq
<1> QED BY <1>4, <1>5

LEMMA InAppend ==
  ASSUME NEW S, NEW q \in Seq(S), NEW e \in S
  PROVE  /\ InSeq(e, Append(q, e))
         /\ \A c : InSeq(c, q) => InSeq(c, Append(q, e))
         /\ \A c : InSeq(c, Append(q, e)) => c = e \/ InSeq(c, q)
<1>1. /\ Len(Append(q, e)) = Len(q) + 1
      /\ \A i \in 1 .. Len(q) : Append(q, e)[i] = q[i]
      /\ Append(q, e)[Len(q) + 1] = e
  BY AppendProperties
<1>2. Len(q) \in Nat
  BY LenProperties
<1> QED BY <1>1, <1>2 DEF InSeq

----------------------------------------------------------------------------

\* startNextSendNoLock, applied to the queue q, takes its front off for good.
LEMMA StartNextSendQueue ==
  ASSUME TypeOK, NEW q \in Seq(CmdId), QueueFrom(q), StartNextSendNoLock(q),
         UNCHANGED <<abandoned, command_id_counter>>
  PROVE  /\ QueueFrom(tx_queue)'
         /\ \A c \in CmdId : InSeq(c, tx_queue') \/ c \in Gone' =>
                             InSeq(c, q) \/ c \in Gone
<1>1. CASE send_in_progress \/ q = <<>>
  <2>1. tx_queue' = q /\ UNCHANGED <<send_in_progress, writes>>
    BY <1>1 DEF StartNextSendNoLock
  <2> QED BY <2>1 DEF QueueFrom, Gone, InSeq
<1>2. CASE ~(send_in_progress \/ q = <<>>)
  <2>1. tx_queue' = Tail(q) /\ writes' = writes \cup {Head(q)} /\ q # <<>>
    BY <1>2 DEF StartNextSendNoLock
  <2>2. /\ Head(q) \in CmdId /\ Tail(q) \in Seq(CmdId)
        /\ Len(Tail(q)) = Len(q) - 1
        /\ \A i \in 1 .. Len(Tail(q)) : Tail(q)[i] = q[i + 1]
    BY <2>1, HeadTailProperties
  <2>3. Len(q) \in Nat \ {0} /\ Head(q) = q[1]
    BY <2>1, LenProperties, EmptySeq
  <2>4. InSeq(Head(q), q)
    BY <2>3 DEF InSeq
  <2>5. \A i \in 1 .. Len(Tail(q)) :
          /\ i + 1 \in 1 .. Len(q) /\ Tail(q)[i] = q[i + 1]
          /\ i + 1 # 1
    BY <2>2, <2>3
  <2>6. \A c : InSeq(c, Tail(q)) => InSeq(c, q) /\ c # Head(q)
    BY <2>3, <2>5 DEF InSeq, QueueFrom
  <2>7. \A i, j \in 1 .. Len(Tail(q)) : Tail(q)[i] = Tail(q)[j] => i = j
    BY <2>5, <2>3 DEF QueueFrom
  <2>8. Gone' = Gone \cup {Head(q)}
    BY <2>1 DEF Gone
  <2>9. QueueFrom(tx_queue)'
    BY <2>1, <2>2, <2>4, <2>6, <2>7, <2>8 DEF QueueFrom
  <2> QED BY <2>1, <2>4, <2>6, <2>8, <2>9
<1> QED BY <1>1, <1>2

\* Every step keeps the queue apart from what has left it.
LEMMA QueueStep ==
  ASSUME TypeOK, IdInv, QueueInv, [Next]_vars
  PROVE  QueueInv'
<1> USE DEF Idle, IoAt
<1>a. /\ command_id_counter \in Nat /\ CmdId \subseteq Nat
      /\ Gone \subseteq CmdId /\ tx_queue \in Seq(CmdId)
  BY MaxCommandsAssumption DEF TypeOK, CmdId, Gone
<1>1. CASE Connect \/ ConnectFailed
  <2>1. /\ UNCHANGED <<tx_queue, command_id_counter, user, writes>>
        /\ abandoned' = writes \cup
             {c \in CmdId : handlers[c] # "none" /\ ~InSeq(c, tx_queue)}
    BY <1>1 DEF Connect, ConnectFailed, NewConnection
  <2>2. \A c \in Gone' : c \in Gone \/ (c \in CmdId /\ handlers[c] # "none"
                                                   /\ ~InSeq(c, tx_queue))
    BY <2>1 DEF Gone
  <2>3. \A c \in CmdId : handlers[c] # "none" => c < command_id_counter
    BY DEF IdInv, IdsInMap
  <2>4. \A u \in User : user[u].pc = "has_id" => handlers[user[u].cmd] = "none"
    BY DEF IdInv, IdsUnsent
  <2>5. QueueFrom(tx_queue)'
    BY <2>1, <2>2, <2>3 DEF QueueInv, QueueFrom, InSeq
  <2> QED BY <2>1, <2>2, <2>4, <2>5 DEF QueueInv, InSeq
<1>2. ASSUME NEW u \in User, TakeId(u) PROVE QueueInv'
  <2>1. PICK cb \in {"async", u} :
          user' = [user EXCEPT ![u] = [pc |-> "has_id", cb |-> cb,
                                       cmd |-> command_id_counter]]
    BY <1>2 DEF TakeId
  <2>2. /\ user'[u].cmd = command_id_counter
        /\ \A v \in User \ {u} : user'[v] = user[v]
    BY <2>1 DEF TypeOK
  <2>3. /\ command_id_counter' = command_id_counter + 1
        /\ command_id_counter \in CmdId
        /\ UNCHANGED <<tx_queue, Gone>>
    BY <1>2, MaxCommandsAssumption DEF TakeId, TypeOK, CmdId, Gone
  <2>4. \A c \in CmdId : c < command_id_counter => c < command_id_counter'
                                                  /\ c # command_id_counter
    BY <1>a, <2>3
  <2>5. QueueFrom(tx_queue)'
    BY <1>a, <2>3, <2>4 DEF QueueInv, QueueFrom, InSeq
  <2>6. ~InSeq(command_id_counter, tx_queue) /\ command_id_counter \notin Gone
    BY <1>a, <2>3, <2>4 DEF QueueInv, QueueFrom
  <2> QED BY <2>2, <2>3, <2>5, <2>6 DEF QueueInv, InSeq
<1>3. ASSUME NEW u \in User, StartSend(u) PROVE QueueInv'
  <2> DEFINE c0 == user[u].cmd
             q == Append(tx_queue, c0)
  <2>1. /\ user[u].pc = "has_id" /\ c0 \in CmdId /\ c0 < command_id_counter
        /\ ~InSeq(c0, tx_queue) /\ c0 \notin Gone
    BY <1>3 DEF StartSend, IdInv, IdsOfUsers, QueueInv
  <2>2. /\ StartNextSendNoLock(q)
        /\ UNCHANGED <<abandoned, command_id_counter>>
        /\ user'[u].pc # "has_id"
        /\ \A v \in User \ {u} : user'[v] = user[v]
    BY <1>3 DEF StartSend, TypeOK
  <2>3. /\ q \in Seq(CmdId)
        /\ Len(q) = Len(tx_queue) + 1 /\ Len(tx_queue) \in Nat
        /\ \A i \in 1 .. Len(tx_queue) : q[i] = tx_queue[i]
        /\ q[Len(tx_queue) + 1] = c0
    BY <1>a, <2>1, AppendProperties, LenProperties
  <2>4. \A i, j \in 1 .. Len(q) : q[i] = q[j] => i = j
    BY <2>1, <2>3 DEF QueueInv, QueueFrom, InSeq
  <2>5. \A c : InSeq(c, q) => c = c0 \/ InSeq(c, tx_queue)
    BY <1>a, <2>1, InAppend
  <2>6. QueueFrom(q)
    BY <2>1, <2>4, <2>5 DEF QueueInv, QueueFrom
  <2>7. /\ QueueFrom(tx_queue)'
        /\ \A c \in CmdId : InSeq(c, tx_queue') \/ c \in Gone' =>
                            InSeq(c, q) \/ c \in Gone
    BY <2>2, <2>3, <2>6, StartNextSendQueue
  <2>8. ASSUME NEW v \in User \ {u}, user[v].pc = "has_id"
        PROVE  ~InSeq(user[v].cmd, tx_queue') /\ user[v].cmd \notin Gone'
    <3>1. /\ user[v].cmd \in CmdId /\ user[v].cmd # c0
          /\ ~InSeq(user[v].cmd, tx_queue) /\ user[v].cmd \notin Gone
      BY <2>1, <2>8 DEF IdInv, IdsOfUsers, QueueInv
    <3> QED BY <2>5, <2>7, <3>1
  <2> QED BY <2>2, <2>7, <2>8 DEF QueueInv, InSeq
<1>4. CASE NextSend
  <2>1. /\ StartNextSendNoLock(tx_queue) /\ user' = user
        /\ UNCHANGED <<abandoned, command_id_counter>>
    BY <1>4 DEF NextSend
  <2>2. /\ QueueFrom(tx_queue)'
        /\ \A c \in CmdId : InSeq(c, tx_queue') \/ c \in Gone' =>
                            InSeq(c, tx_queue) \/ c \in Gone
    BY <1>a, <2>1, StartNextSendQueue DEF QueueInv
  <2>3. \A v \in User : user[v].pc = "has_id" => user[v].cmd \in CmdId
    BY DEF IdInv, IdsOfUsers
  <2> QED BY <2>1, <2>2, <2>3 DEF QueueInv, InSeq
<1>5. ASSUME UNCHANGED <<tx_queue, command_id_counter, abandoned>>,
             writes' \subseteq writes,
             \A v \in User : user'[v].pc = "has_id" => user'[v] = user[v]
      PROVE  QueueInv'
  <2>1. Gone' \subseteq Gone
    BY <1>5 DEF Gone
  <2> QED BY <1>5, <2>1 DEF QueueInv, QueueFrom, InSeq
<1>6. ASSUME NEW u \in User, StartSendRefused(u) \/ BeginWait(u) \/ EndWait(u)
      PROVE  QueueInv'
  <2>1. \A v \in User : user'[v].pc = "has_id" => user'[v] = user[v]
    BY <1>6 DEF StartSendRefused, BeginWait, EndWait, TypeOK
  <2> QED BY <1>5, <1>6, <2>1 DEF StartSendRefused, BeginWait, EndWait
<1>7. ASSUME NEW c \in CmdId, \/ WriteDone(c) \/ WriteFailed(c) \/ Transfer(c)
                              \/ Respond(c) \/ RespondTwice(c)
      PROVE  QueueInv'
  BY <1>5, <1>7 DEF WriteDone, WriteFailed, Transfer, Respond, RespondTwice
<1>8. CASE \/ Register \/ RegisterFailed \/ LinkDown \/ Close \/ ReadEof
           \/ ReadFailed \/ Disconnected \/ Read \/ ParsePacket \/ CallAsync
           \/ CallBlocking \/ ResumeReceive \/ UNCHANGED vars
  BY <1>5, <1>8 DEF Register, RegisterFailed, LinkDown, Close, ReadEof,
                    ReadFailed, Disconnected, Read, ReadDocuments, ParsePacket,
                    CallAsync, CallBlocking, ResumeReceive
<1> QED
  BY <1>1, <1>2, <1>3, <1>4, <1>6, <1>7, <1>8 DEF Next, UserStep, IoStep

LEMMA QueueAlways == Spec => []QueueInv
<1>1. Init => QueueInv
  BY EmptySeq DEF Init, QueueInv, QueueFrom, Gone, InSeq, Idle, IoAt
<1> QED BY <1>1, QueueStep, IdAlways, PTL DEF Spec

----------------------------------------------------------------------------

OrderOf(q, all) ==
  IF Untransferred = {} THEN wire \o q = all
  ELSE \E c \in Untransferred : wire \o <<c>> \o q = all

\* startNextSendNoLock, applied to the queue q, keeps the order of the requests
\* and none of them gets lost on the way from the queue to the write.
LEMMA StartNextSendOrder ==
  ASSUME TypeOK, WriteInv, NEW q \in Seq(CmdId), NEW all \in Seq(CmdId),
         \A c \in CmdId : InSeq(c, q) => c \notin abandoned,
         \A i, j \in 1 .. Len(all) : all[i] = all[j] => i = j,
         OrderOf(q, all), StartNextSendNoLock(q), UNCHANGED <<wire, abandoned>>
  PROVE  /\ OrderOf(tx_queue, all)'
         /\ tx_queue' # <<>> => send_in_progress'
         /\ \A c \in CmdId : InSeq(c, q) \/ c \in Untransferred =>
                             InSeq(c, tx_queue') \/ c \in Untransferred'
<1>1. CASE send_in_progress \/ q = <<>>
  <2>1. tx_queue' = q /\ UNCHANGED <<send_in_progress, writes>>
    BY <1>1 DEF StartNextSendNoLock
  <2> QED BY <1>1, <2>1 DEF OrderOf, Untransferred, Transferred
<1>2. CASE ~(send_in_progress \/ q = <<>>)
  <2>1. /\ tx_queue' = Tail(q) /\ writes' = writes \cup {Head(q)}
        /\ send_in_progress' = TRUE
    BY <1>2 DEF StartNextSendNoLock
  <2>2. writes = {} /\ Untransferred = {} /\ wire \o q = all
    BY <1>2 DEF WriteInv, Untransferred, OrderOf
  <2>3. wire \in Seq(CmdId) /\ q # <<>>
    BY <1>2 DEF TypeOK
  <2>4. /\ all = wire \o <<Head(q)>> \o Tail(q)
        /\ all[Len(wire) + 1] = Head(q)
        /\ Len(wire) + 1 \in 1 .. Len(all)
        /\ \A i \in 1 .. Len(wire) : i \in 1 .. Len(all) /\ all[i] = wire[i]
    <3>1. /\ wire \o q = wire \o <<Head(q)>> \o Tail(q)
          /\ (wire \o q)[Len(wire) + 1] = Head(q)
          /\ Len(wire) + 1 \in 1 .. Len(wire \o q)
          /\ \A i \in 1 .. Len(wire) : i \in 1 .. Len(wire \o q)
                                       /\ (wire \o q)[i] = wire[i]
      BY ONLY <2>3, HeadFirst, q \in Seq(CmdId)
    <3> QED BY <2>2, <3>1
  <2>5. ~Transferred(Head(q))
    <3> SUFFICES ASSUME NEW i \in 1 .. Len(wire), wire[i] = Head(q) PROVE FALSE
      BY DEF Transferred
    <3>1. i = Len(wire) + 1
      BY <2>4
    <3>2. Len(wire) \in Nat
      BY <2>3, LenProperties
    <3> QED BY <3>1, <3>2
  <2>6. Untransferred' = {Head(q)}
    <3>1. Head(q) \in CmdId /\ Head(q) = q[1] /\ 1 \in 1 .. Len(q)
      BY <2>3, HeadTailProperties, LenProperties, EmptySeq
    <3>2. Head(q) \notin abandoned
      BY <3>1 DEF InSeq
    <3> QED BY <2>1, <2>2, <2>5, <3>2 DEF Untransferred, Transferred
  <2>7. OrderOf(tx_queue, all)'
    BY <2>1, <2>4, <2>6 DEF OrderOf
  <2>8. ASSUME NEW c \in CmdId, InSeq(c, q) \/ c \in Untransferred
        PROVE  InSeq(c, tx_queue') \/ c \in Untransferred'
    <3>1. c = Head(q) \/ InSeq(c, Tail(q))
      BY <2>2, <2>3, <2>8, InTail
    <3> QED BY <2>1, <2>6, <3>1
  <2> QED BY <2>1, <2>7, <2>8
<1> QED BY <1>1, <1>2

\* A step that moves neither a request nor a callback keeps SendInv.
LEMMA SendUnchanged ==
  ASSUME TypeOK, SendInv,
         UNCHANGED <<sendVars, wire, receive_buffer, user>>,
         Alive' => Alive /\ io_stopped' = io_stopped, Fresh',
         Alive' => UNCHANGED unanswered /\ \A c : InSeq(c, rx) => InSeq(c, rx'),
         io'.pc \in {"idle", "next_send", "disconnected"} => receive_buffer = <<>>,
         io.pc = "next_send" => io'.pc = "next_send"
  PROVE  SendInv'
<1>1. AcceptedOnce'
  BY DEF SendInv, AcceptedOnce, InSeq
<1>2. BufferUsed'
  BY DEF BufferUsed
<1>3. ASSUME Alive'
      PROVE  /\ Order'
             /\ ~io_stopped' /\ tx_queue' # <<>> =>
                  send_in_progress' \/ io'.pc = "next_send"
             /\ \A c \in CmdId : handlers'[c] # "none" => Owed(c)'
  <2>1. /\ Order
        /\ ~io_stopped /\ tx_queue # <<>> =>
             send_in_progress \/ io.pc = "next_send"
        /\ \A c \in CmdId : handlers[c] # "none" => Owed(c)
    BY <1>3 DEF SendInv
  <2>2. Order'
    BY <2>1 DEF Order, Untransferred, Transferred
  <2>3. \A c : c \in Untransferred => c \in Untransferred'
    BY DEF Untransferred, Transferred
  <2>4. \A c \in CmdId : Owed(c) => Owed(c)'
    BY <1>3, <2>3 DEF Owed, InSeq
  <2> QED BY <1>3, <2>1, <2>2, <2>4
<1> QED BY <1>1, <1>2, <1>3 DEF SendInv

\* Every step keeps SendInv.
LEMMA SendStep ==
  ASSUME TypeOK, IdInv, WriteInv, QueueInv, SendInv, [Next]_vars
  PROVE  SendInv'
<1> USE DEF Idle, IoAt
<1>a. command_id_counter \in Nat /\ CmdId \subseteq Nat
  BY MaxCommandsAssumption DEF TypeOK, CmdId
<1>1. CASE Register \/ RegisterFailed \/ LinkDown \/ Close \/ ReadEof
           \/ ReadFailed \/ Disconnected \/ UNCHANGED vars
  <2> USE DEF Alive, SendInv, BufferUsed, Fresh
  <2>1. CASE Register \/ RegisterFailed \/ ReadFailed \/ UNCHANGED vars
    BY <2>1, SendUnchanged DEF Register, RegisterFailed, ReadFailed
  <2>2. CASE LinkDown
    BY <2>2, SendUnchanged DEF LinkDown
  <2>3. CASE Close
    <3>1. /\ UNCHANGED <<io, receive_buffer>>
          /\ link' = "none" /\ main_socket' = "closed" /\ io_stopped'
          /\ accepted' = <<>> /\ Len(<<>>) = 0
      BY <2>3, EmptySeq DEF Close
    <3>2. AcceptedOnce'
      BY <3>1 DEF AcceptedOnce, InSeq
    <3>3. wire' = <<>>
      BY <2>3 DEF Close
    <3> QED BY <3>1, <3>2, <3>3
  <2>4. CASE ReadEof
    BY <2>4, SendUnchanged DEF ReadEof
  <2>5. CASE Disconnected
    BY <2>5, SendUnchanged DEF Disconnected
  <2> QED BY <1>1, <2>1, <2>2, <2>3, <2>4, <2>5
<1>13. CASE Connect \/ ConnectFailed
  <2>1. /\ link = "none" /\ link' # "none"
        /\ UNCHANGED <<io_stopped, command_id_counter, handlers, tx_queue,
                       send_in_progress, writes, user, io, receive_buffer, wire>>
        /\ accepted' = tx_queue
        /\ abandoned' = writes \cup
             {c \in CmdId : handlers[c] # "none" /\ ~InSeq(c, tx_queue)}
    BY <1>13 DEF Connect, ConnectFailed, NewConnection
  <2>2. Fresh' /\ BufferUsed'
    BY <2>1 DEF SendInv, Fresh, BufferUsed
  <2>3. AcceptedOnce'
    <3>1. \A i \in 1 .. Len(tx_queue) : tx_queue[i] \in CmdId
      BY ElementOfSeq DEF TypeOK
    <3>2. \A i \in 1 .. Len(tx_queue) : tx_queue[i] < command_id_counter
      BY <3>1 DEF QueueInv, QueueFrom, InSeq
    <3> QED BY <2>1, <3>2 DEF QueueInv, QueueFrom, AcceptedOnce, InSeq
  <2>4. Order'
    <3>1. wire = <<>>
      BY <2>1 DEF SendInv, Fresh
    <3>2. wire \o tx_queue = tx_queue
      BY <3>1, ConcatEmptySeq DEF TypeOK
    <3> QED BY <2>1, <3>2 DEF Order, Untransferred
  <2>5. ~io_stopped => tx_queue = <<>>
    BY <2>1 DEF SendInv, Fresh
  <2>6. \A c \in CmdId : handlers'[c] # "none" => Owed(c)'
    BY <2>1 DEF Owed, InSeq
  <2> QED BY <2>1, <2>2, <2>3, <2>4, <2>5, <2>6 DEF SendInv
<1>2. ASSUME NEW c \in CmdId, WriteFailed(c) PROVE SendInv'
  <2>1. /\ ~Alive' /\ link' # "none"
        /\ UNCHANGED <<link, accepted, command_id_counter, user, io,
                       receive_buffer, io_stopped, abandoned>>
    BY <1>2 DEF WriteFailed, Alive
  <2> QED BY <2>1 DEF SendInv, Fresh, AcceptedOnce, BufferUsed, InSeq
<1>3. ASSUME NEW u \in User, TakeId(u) PROVE SendInv'
  <2>1. PICK cb \in {"async", u} :
          user' = [user EXCEPT ![u] = [pc |-> "has_id", cb |-> cb,
                                       cmd |-> command_id_counter]]
    BY <1>3 DEF TakeId
  <2>2. /\ user'[u].cmd = command_id_counter
        /\ \A v \in User \ {u} : user'[v] = user[v]
    BY <2>1 DEF TypeOK
  <2>3. /\ command_id_counter' = command_id_counter + 1
        /\ UNCHANGED <<link, main_socket, io_stopped, abandoned,
                       send_in_progress, wire, tx_queue,
                       accepted, writes, handlers, io, receive_buffer,
                       unanswered, rx>>
    BY <1>3 DEF TakeId
  <2>4. \A i \in 1 .. Len(accepted) :
          accepted[i] \in Nat /\ accepted[i] < command_id_counter
    BY <1>a, ElementOfSeq DEF SendInv, AcceptedOnce, TypeOK
  <2>5. ~InSeq(command_id_counter, accepted)
    BY <1>a, <2>4 DEF InSeq
  <2>6. AcceptedOnce'
    <3>1. \A i \in 1 .. Len(accepted) : accepted[i] < command_id_counter'
      BY <1>a, <2>3, <2>4
    <3>2. \A v \in User : user'[v].pc = "has_id" => ~InSeq(user'[v].cmd, accepted)
      BY <2>2, <2>5 DEF SendInv, AcceptedOnce
    <3> QED BY <2>3, <3>1, <3>2 DEF SendInv, AcceptedOnce, InSeq
  <2>7. Fresh' /\ BufferUsed'
    BY <2>3 DEF SendInv, Fresh, BufferUsed
  <2>8. Untransferred' = Untransferred /\ (Order => Order')
    BY <2>3 DEF Order, Untransferred, Transferred
  <2>9. \A c \in CmdId : Owed(c) => Owed(c)'
    BY <2>3, <2>8 DEF Owed, InSeq
  <2> QED BY <2>3, <2>6, <2>7, <2>8, <2>9 DEF SendInv, Alive
<1>4. ASSUME NEW u \in User, StartSendRefused(u) \/ BeginWait(u) \/ EndWait(u)
      PROVE  SendInv'
  <2>1. /\ \A v \in User : user'[v].pc = "has_id" => user'[v] = user[v]
        /\ UNCHANGED <<link, main_socket, io_stopped, sendVars, wire, io,
                       receive_buffer,
                       unanswered, rx>>
    BY <1>4 DEF StartSendRefused, BeginWait, EndWait, TypeOK
  <2>2. AcceptedOnce'
    BY <2>1 DEF SendInv, AcceptedOnce, InSeq
  <2>3. Fresh' /\ BufferUsed'
    BY <2>1 DEF SendInv, Fresh, BufferUsed
  <2>4. Untransferred' = Untransferred /\ (Order => Order')
    BY <2>1 DEF Order, Untransferred, Transferred
  <2>5. \A c \in CmdId : Owed(c) => Owed(c)'
    BY <2>1, <2>4 DEF Owed, InSeq
  <2> QED BY <2>1, <2>2, <2>3, <2>4, <2>5 DEF SendInv, Alive
<1>5. ASSUME NEW u \in User, StartSend(u) PROVE SendInv'
  <2> DEFINE c0 == user[u].cmd
             q == Append(tx_queue, c0)
             all == Append(accepted, c0)
  <2>1. /\ user[u].pc = "has_id" /\ c0 \in CmdId /\ c0 < command_id_counter
        /\ ~InSeq(c0, accepted) /\ c0 \notin abandoned
    BY <1>5 DEF StartSend, IdInv, IdsOfUsers, SendInv, AcceptedOnce, QueueInv, Gone
  <2>2. /\ main_socket = "open" /\ accepted' = all
        /\ StartNextSendNoLock(q)
        /\ handlers' = [handlers EXCEPT ![c0] = user[u].cb]
        /\ UNCHANGED <<link, main_socket, io_stopped, abandoned,
                       command_id_counter, wire, io,
                       receive_buffer, unanswered, rx>>
        /\ user'[u].pc # "has_id"
        /\ \A v \in User \ {u} : user'[v] = user[v]
    BY <1>5 DEF StartSend, TypeOK
  <2>3. /\ q \in Seq(CmdId) /\ all \in Seq(CmdId)
        /\ Len(all) = Len(accepted) + 1 /\ Len(accepted) \in Nat
        /\ \A i \in 1 .. Len(accepted) : all[i] = accepted[i]
        /\ all[Len(accepted) + 1] = c0
    BY <2>1, AppendProperties, LenProperties DEF TypeOK
  <2>4. \A i, j \in 1 .. Len(all) : all[i] = all[j] => i = j
    BY <2>1, <2>3 DEF SendInv, AcceptedOnce, InSeq
  <2>5. AcceptedOnce'
    <3>1. \A i \in 1 .. Len(all) : all[i] < command_id_counter
      BY <2>1, <2>3 DEF SendInv, AcceptedOnce
    <3>2. ASSUME NEW v \in User \ {u}, user[v].pc = "has_id"
          PROVE  ~InSeq(user[v].cmd, all)
      <4>1. ~InSeq(user[v].cmd, accepted)
        BY <3>2 DEF SendInv, AcceptedOnce
      <4>2. user[v].cmd # c0
        BY <2>1, <3>2 DEF IdInv, IdsOfUsers
      <4> QED BY <2>1, <4>1, <4>2, InAppend DEF TypeOK
    <3> QED BY <2>2, <2>4, <3>1, <3>2 DEF AcceptedOnce
  <2>6. ASSUME Alive
        PROVE  /\ Order'
               /\ tx_queue' # <<>> => send_in_progress'
               /\ \A c \in CmdId : handlers'[c] # "none" => Owed(c)'
    <3>1. OrderOf(q, all)
      <4>0. wire \in Seq(CmdId) /\ tx_queue \in Seq(CmdId)
        BY DEF TypeOK
      <4>1. CASE Untransferred = {}
        <5>1. wire \o tx_queue = accepted
          BY <2>6, <4>1 DEF SendInv, Order
        <5> QED BY <2>1, <4>0, <4>1, <5>1, Shift DEF OrderOf
      <4>2. CASE Untransferred # {}
        <5>1. PICK c \in Untransferred : wire \o <<c>> \o tx_queue = accepted
          BY <2>6, <4>2 DEF SendInv, Order
        <5>2. c \in CmdId /\ <<c>> \in Seq(CmdId)
          BY DEF Untransferred, TypeOK
        <5>3. wire \o <<c>> \in Seq(CmdId)
          BY <4>0, <5>2, ConcatProperties
        <5>4. (wire \o <<c>>) \o q = Append((wire \o <<c>>) \o tx_queue, c0)
          BY <2>1, <4>0, <5>3, Shift
        <5> QED BY <4>2, <5>1, <5>4 DEF OrderOf
      <4> QED BY <4>1, <4>2
    <3>2. /\ OrderOf(tx_queue, accepted)'
          /\ tx_queue' # <<>> => send_in_progress'
          /\ \A c \in CmdId : InSeq(c, q) \/ c \in Untransferred =>
                              InSeq(c, tx_queue') \/ c \in Untransferred'
      <4>1. \A c : InSeq(c, q) => c = c0 \/ InSeq(c, tx_queue)
        BY <2>1, InAppend DEF TypeOK
      <4>2. \A c \in CmdId : InSeq(c, q) => c \notin abandoned
        BY <2>1, <4>1 DEF QueueInv, QueueFrom, Gone
      <4> QED BY <2>2, <2>3, <2>4, <3>1, <4>2, StartNextSendOrder DEF OrderOf
    <3>3. \A c \in CmdId : handlers'[c] # "none" => Owed(c)'
      <4>1. ASSUME NEW c \in CmdId, handlers'[c] # "none", c # c0 PROVE Owed(c)'
        <5>1. Owed(c)
          BY <2>1, <2>2, <2>6, <4>1 DEF SendInv, TypeOK
        <5>2. InSeq(c, tx_queue) => InSeq(c, q)
          BY <2>1, InAppend DEF TypeOK
        <5> QED BY <2>2, <3>2, <5>1, <5>2 DEF Owed
      <4>2. ASSUME NEW c \in CmdId, c = c0 PROVE Owed(c)'
        <5>1. InSeq(c, q)
          BY <2>1, <4>2, InAppend DEF TypeOK
        <5> QED BY <3>2, <5>1 DEF Owed
      <4> QED BY <4>1, <4>2
    <3> QED BY <3>2, <3>3 DEF OrderOf, Order
  <2>7. Fresh' /\ BufferUsed'
    BY <2>2 DEF SendInv, Fresh, BufferUsed
  <2> QED BY <2>2, <2>5, <2>6, <2>7 DEF SendInv, Alive
<1>6. CASE NextSend
  <2>1. /\ io.pc = "next_send" /\ io' = Idle /\ StartNextSendNoLock(tx_queue)
        /\ UNCHANGED <<link, main_socket, io_stopped, abandoned,
                       command_id_counter, handlers,
                       accepted, user, wire, receive_buffer, unanswered, rx>>
    BY <1>6 DEF NextSend
  <2>2. AcceptedOnce' /\ BufferUsed'
    BY <2>1 DEF SendInv, AcceptedOnce, BufferUsed, InSeq
  <2>3. Fresh'
    BY <2>1 DEF SendInv, Fresh, StartNextSendNoLock
  <2>4. ASSUME Alive
        PROVE  /\ Order'
               /\ tx_queue' # <<>> => send_in_progress'
               /\ \A c \in CmdId : handlers'[c] # "none" => Owed(c)'
    <3>1. OrderOf(tx_queue, accepted)
      BY <2>4 DEF SendInv, Order, OrderOf
    <3>2. /\ OrderOf(tx_queue, accepted)'
          /\ tx_queue' # <<>> => send_in_progress'
          /\ \A c \in CmdId : InSeq(c, tx_queue) \/ c \in Untransferred =>
                              InSeq(c, tx_queue') \/ c \in Untransferred'
      <4>1. \A i, j \in 1 .. Len(accepted) : accepted[i] = accepted[j] => i = j
        BY DEF SendInv, AcceptedOnce
      <4>2. tx_queue \in Seq(CmdId) /\ accepted \in Seq(CmdId)
        BY DEF TypeOK
      <4>3. \A c \in CmdId : InSeq(c, tx_queue) => c \notin abandoned
        BY DEF QueueInv, QueueFrom, Gone
      <4> QED BY <2>1, <3>1, <4>1, <4>2, <4>3, StartNextSendOrder DEF OrderOf
    <3> QED BY <2>1, <2>4, <3>2 DEF OrderOf, Order, SendInv, Owed
  <2> QED BY <2>1, <2>2, <2>3, <2>4 DEF SendInv, Alive
<1>7. ASSUME NEW c \in CmdId, WriteDone(c) PROVE SendInv'
  <2>1. /\ io.pc = "idle" /\ io'.pc = "next_send" /\ Transferred(c)
        /\ writes' = writes \ {c} /\ c \in writes
        /\ UNCHANGED <<link, main_socket, io_stopped, abandoned,
                       command_id_counter, handlers,
                       accepted, user, wire, tx_queue, receive_buffer,
                       unanswered, rx>>
    BY <1>7 DEF WriteDone, Transferred
  <2>2. Untransferred' = Untransferred
    BY <2>1 DEF Untransferred, Transferred
  <2>3. Fresh'
    BY <2>1 DEF SendInv, Fresh
  <2>4. AcceptedOnce' /\ BufferUsed'
    BY <2>1 DEF SendInv, AcceptedOnce, BufferUsed, InSeq
  <2>5. Alive => Order' /\ \A d \in CmdId : handlers'[d] # "none" => Owed(d)'
    BY <2>1, <2>2 DEF SendInv, Order, Owed, InSeq
  <2> QED BY <2>1, <2>3, <2>4, <2>5 DEF SendInv, Alive
<1>8. ASSUME NEW c \in CmdId, Transfer(c) PROVE SendInv'
  <2>1. /\ link = "up" /\ c \in writes \ abandoned /\ ~Transferred(c)
        /\ wire' = Append(wire, c) /\ unanswered' = unanswered \cup {c}
        /\ UNCHANGED <<socketVars, sendVars, user, io, receive_buffer, rx>>
    BY <1>8 DEF Transfer, Transferred
  <2>2. wire \in Seq(CmdId) /\ tx_queue \in Seq(CmdId)
    BY DEF TypeOK
  <2>3. writes = {c} /\ Untransferred = {c}
    BY <2>1 DEF WriteInv, OneWriteInFlight, Untransferred
  <2>4. Untransferred' = {}
    <3>1. Transferred(c)'
      BY <2>1, <2>2, InAppend DEF Transferred, InSeq
    <3> QED BY <2>1, <2>3, <3>1 DEF Untransferred
  <2>5. wire' \o tx_queue = accepted
    BY <2>1, <2>2, <2>3, Shift DEF SendInv, Alive, Order
  <2>6. ASSUME NEW d \in CmdId, handlers[d] # "none" PROVE Owed(d)'
    BY <2>1, <2>3, <2>6 DEF SendInv, Alive, Owed, InSeq
  <2>7. AcceptedOnce' /\ BufferUsed' /\ Fresh'
    BY <2>1 DEF SendInv, AcceptedOnce, BufferUsed, Fresh, InSeq
  <2> QED BY <2>1, <2>4, <2>5, <2>6, <2>7 DEF SendInv, Alive, Order
<1>9. ASSUME NEW c \in CmdId, Respond(c) \/ RespondTwice(c) PROVE SendInv'
  <2>0. rx \in Seq(CmdId)
    BY DEF TypeOK
  <2>1. /\ unanswered' = unanswered \ {c}
        /\ UNCHANGED <<socketVars, sendVars, user, wire, io, receive_buffer>>
    BY <1>9 DEF Respond, RespondTwice
  <2>2. InSeq(c, rx') /\ \A d \in CmdId : InSeq(d, rx) => InSeq(d, rx')
    <3>1. CASE Respond(c)
      BY <2>0, <3>1, InAppend DEF Respond
    <3>2. CASE RespondTwice(c)
      <4>1. /\ rx' = rx \o <<c, c>> /\ <<c, c>> \in Seq(CmdId)
            /\ Len(<<c, c>>) = 2 /\ Len(rx) \in Nat
        BY <2>0, <3>2, LenProperties DEF RespondTwice
      <4>2. /\ Len(rx') = Len(rx) + 2
            /\ \A i \in 1 .. Len(rx) + 2 :
                 rx'[i] = IF i <= Len(rx) THEN rx[i] ELSE <<c, c>>[i - Len(rx)]
        BY <2>0, <4>1, ConcatProperties
      <4>3. \A i \in 1 .. Len(rx) : i \in 1 .. Len(rx') /\ rx'[i] = rx[i]
        BY <4>1, <4>2
      <4>4. Len(rx) + 1 \in 1 .. Len(rx') /\ rx'[Len(rx) + 1] = c
        BY <4>1, <4>2
      <4> QED BY <4>3, <4>4 DEF InSeq
    <3> QED BY <1>9, <3>1, <3>2
  <2>3. AcceptedOnce' /\ BufferUsed' /\ Fresh'
    BY <2>1 DEF SendInv, AcceptedOnce, BufferUsed, Fresh, InSeq
  <2>4. Order => Order'
    BY <2>1 DEF Order, Untransferred, Transferred
  <2>5. Untransferred' = Untransferred
    BY <2>1 DEF Untransferred, Transferred
  <2>6. \A d \in CmdId : Owed(d) => Owed(d)'
    BY <2>1, <2>2, <2>5 DEF Owed
  <2> QED BY <2>1, <2>3, <2>4, <2>6 DEF SendInv, Alive
<1>10. ASSUME NEW k \in 1 .. Len(rx), ReadDocuments(k) PROVE SendInv'
  <2>1. /\ receive_buffer = <<>> /\ io'.pc = "parsing" /\ io.pc = "idle"
        /\ receive_buffer' = SubSeq(rx, 1, k)
        /\ rx' = SubSeq(rx, k + 1, Len(rx))
        /\ UNCHANGED <<main_socket, link, io_stopped, sendVars, user, wire,
                       unanswered>>
    BY <1>10 DEF ReadDocuments, SendInv, BufferUsed
  <2>2. \A d \in CmdId : InSeq(d, rx) => InSeq(d, rx') \/ InSeq(d, receive_buffer')
    <3> SUFFICES ASSUME NEW i \in 1 .. Len(rx)
                 PROVE  InSeq(rx[i], rx') \/ InSeq(rx[i], receive_buffer')
      BY DEF InSeq
    <3>0. Len(rx) \in Nat /\ \A j \in 1 .. Len(rx) : rx[j] \in CmdId
      BY LenProperties, ElementOfSeq DEF TypeOK
    <3>1. /\ Len(receive_buffer') = k
          /\ \A j \in 1 .. k : receive_buffer'[j] = rx[j]
      BY <2>1, <3>0, SubSeqProperties
    <3>2. /\ Len(rx') = IF k + 1 <= Len(rx) THEN Len(rx) - (k + 1) + 1 ELSE 0
          /\ \A j \in 1 .. Len(rx) - (k + 1) + 1 : rx'[j] = rx[(k + 1) + j - 1]
      <4>1. \A j \in k + 1 .. Len(rx) : rx[j] \in CmdId
        BY <3>0
      <4>2. k + 1 \in Int /\ Len(rx) \in Int
        BY <3>0
      <4> QED BY <2>1, <4>1, <4>2, SubSeqProperties
    <3>3. CASE i <= k
      BY <3>0, <3>1, <3>3 DEF InSeq
    <3>4. CASE i > k
      <4>1. i - k \in 1 .. Len(rx') /\ rx'[i - k] = rx[i]
        BY <3>0, <3>2, <3>4
      <4> QED BY <4>1 DEF InSeq
    <3> QED BY <3>0, <3>3, <3>4
  <2>3. AcceptedOnce' /\ BufferUsed' /\ Fresh'
    BY <2>1 DEF SendInv, AcceptedOnce, BufferUsed, Fresh, InSeq
  <2>4. Untransferred' = Untransferred /\ (Order => Order')
    BY <2>1 DEF Order, Untransferred, Transferred
  <2>5. \A d : ~InSeq(d, <<>>)
    BY DEF InSeq
  <2>6. \A d \in CmdId : Owed(d) => Owed(d)'
    BY <2>1, <2>2, <2>4, <2>5 DEF Owed
  <2> QED BY <2>1, <2>3, <2>4, <2>6 DEF SendInv, Alive
<1>11. CASE ParsePacket
  <2> DEFINE c0 == Head(receive_buffer)
  <2>1. /\ io.pc = "parsing" /\ io'.pc \in {"parsing", "callback"}
        /\ receive_buffer # <<>> /\ receive_buffer \in Seq(CmdId)
        /\ receive_buffer' = Tail(receive_buffer)
        /\ handlers' = [handlers EXCEPT ![c0] = "none"]
        /\ UNCHANGED <<socketVars, accepted, abandoned, command_id_counter, tx_queue,
                       send_in_progress, writes, user, wire, unanswered, rx>>
    BY <1>11 DEF ParsePacket, TypeOK
  <2>2. AcceptedOnce' /\ BufferUsed'
    BY <2>1 DEF SendInv, AcceptedOnce, BufferUsed, InSeq
  <2>3. Fresh'
    BY <2>1 DEF SendInv, Fresh, TypeOK
  <2>4. Untransferred' = Untransferred /\ (Order => Order')
    BY <2>1 DEF Order, Untransferred, Transferred
  <2>5. ASSUME NEW d \in CmdId, handlers'[d] # "none", Owed(d) PROVE Owed(d)'
    <3>1. d # c0
      BY <2>1, <2>5 DEF TypeOK
    <3>2. InSeq(d, receive_buffer) => InSeq(d, receive_buffer')
      BY <2>1, <3>1, InTail
    <3> QED BY <2>1, <2>4, <2>5, <3>2 DEF Owed
  <2>6. \A d \in CmdId : handlers'[d] # "none" => handlers[d] # "none"
    BY <2>1 DEF TypeOK
  <2> QED BY <2>1, <2>2, <2>3, <2>4, <2>5, <2>6 DEF SendInv, Alive
<1>12. CASE CallAsync \/ CallBlocking \/ ResumeReceive
  <2>1. /\ UNCHANGED <<sendVars, wire, receive_buffer, user, link, main_socket, io_stopped,
                       unanswered, rx>>
        /\ io'.pc = "idle" => receive_buffer = <<>>
        /\ io'.pc # "disconnected"
        /\ io'.pc # "next_send" /\ io.pc # "next_send"
    BY <1>12 DEF CallAsync, CallBlocking, ResumeReceive
  <2> QED BY <2>1, SendUnchanged DEF Alive, SendInv, Fresh
<1> QED
  BY <1>1, <1>2, <1>3, <1>4, <1>5, <1>6, <1>7, <1>8, <1>9, <1>10, <1>11, <1>12,
     <1>13
  DEF Next, UserStep, IoStep, Read

LEMMA SendAlways == Spec => []SendInv
<1>1. Init => SendInv
  <2> SUFFICES ASSUME Init PROVE SendInv
    OBVIOUS
  <2>1. Fresh /\ BufferUsed /\ ~Alive
    BY DEF Init, Fresh, BufferUsed, Alive
  <2>2. AcceptedOnce
    BY EmptySeq DEF Init, AcceptedOnce, Idle, IoAt
  <2> QED BY <2>1, <2>2 DEF SendInv
<1> QED BY <1>1, SendStep, IdAlways, WriteAlways, QueueAlways, PTL DEF Spec

\* While the connection is up the backend has got the requests in the order
\* startSendCommand queued them, none lost and none twice, for any number of
\* threads and commands (session.cpp, startSendCommand, startNextSendNoLock).
THEOREM RequestsInOrder == Spec => []RequestOrder
<1>1. SendInv => RequestOrder
  BY DEF SendInv, Alive, Order, Untransferred, RequestOrder
<1> QED BY <1>1, SendAlways, PTL

\* A request in the queue is being followed up: a write is outstanding, whose
\* handler calls startNextSend(), or that handler is on its way.
THEOREM QueueServed == Spec => []QueueNotStuck
<1>1. SendInv => QueueNotStuck
  BY DEF SendInv, Alive, QueueNotStuck
<1> QED BY <1>1, SendAlways, PTL

\* A callback in command_result_handlers is owed by someone as long as the
\* connection is up, whatever order the backend answers in.
THEOREM CallbacksOwed == Spec => []PendingAccounted
<1>1. SendInv => PendingAccounted
  BY DEF SendInv, Fresh, Alive, Owed, Untransferred, PendingAccounted
<1> QED BY <1>1, SendAlways, PTL
=============================================================================
