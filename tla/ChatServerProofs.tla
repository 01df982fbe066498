--------------------------- MODULE ChatServerProofs ---------------------------
(***************************************************************************)
(* Proofs about ChatServer for every set of sessions, every history bound  *)
(* and every choice of header lengths.                                     *)
(***************************************************************************)
EXTENDS ChatServer, TLAPS

-----------------------------------------------------------------------------
(* Type correctness, helper by helper.                                     *)

(* Starting writes, for any set of sessions, counts them per session.      *)
LEMMA StartWriteType ==
  ASSUME NEW S, WriteTypeOK, StartWrite(S)
  PROVE  writing' \in [Session -> Nat] /\ failed' \in [Session -> Nat]
BY DEF WriteTypeOK, StartWrite

(* Setting the deadline keeps the types of the timer's state.              *)
LEMMA SetDeadlineType ==
  ASSUME NEW s \in Session, NEW when \in {"max", "set", "past"},
         TimerTypeOK, SetDeadline(s, when)
  PROVE  TimerTypeOK'
BY DEF TimerTypeOK, SetDeadline

(* The trimmed history is a sequence of messages of bounded length.        *)
LEMMA RememberType ==
  ASSUME RoomTypeOK, NEW m \in Message
  PROVE  Remember(m) \in Seq(Message) /\ Len(Remember(m)) <= MaxRecent
<1> DEFINE longer == Append(recent, m)
<1>1. longer \in Seq(Message) /\ Len(longer) = Len(recent) + 1
  BY DEF RoomTypeOK
<1>2. CASE Len(longer) > MaxRecent
  <2>1. longer # <<>> 
    BY <1>1, <1>2 DEF RoomTypeOK
  <2>2. Tail(longer) \in Seq(Message) /\ Len(Tail(longer)) = Len(longer) - 1
    BY <1>1, <2>1
  <2>3. Remember(m) = Tail(longer)
    BY <1>2 DEF Remember
  <2>4. Len(recent) \in Nat
    BY DEF RoomTypeOK
  <2>5. QED
    BY <1>1, <2>2, <2>3, <2>4, ConstantsAssumption DEF RoomTypeOK
<1>3. CASE ~(Len(longer) > MaxRecent)
  <2>1. Remember(m) = longer
    BY <1>3 DEF Remember
  <2>2. Len(recent) \in Nat
    BY DEF RoomTypeOK
  <2>3. QED
    BY <1>1, <1>3, <2>1, <2>2, ConstantsAssumption DEF RoomTypeOK
<1>4. QED
  BY <1>2, <1>3

(* A broadcast keeps the types of the room and of the queues.              *)
LEMMA BroadcastType ==
  ASSUME RoomTypeOK, WriteTypeOK, NEW m \in Message, Broadcast(m)
  PROVE  RoomTypeOK' /\ WriteTypeOK'
<1>1. RoomTypeOK'
  BY RememberType DEF Broadcast, RoomTypeOK
<1>2. wq' \in [Session -> Seq(Message)]
  BY DEF Broadcast, OnMessage, WriteTypeOK
<1>3. writing' \in [Session -> Nat] /\ failed' \in [Session -> Nat]
  BY StartWriteType DEF Broadcast, OnMessage
<1>4. QED
  BY <1>1, <1>2, <1>3 DEF Broadcast, WriteTypeOK

(* Entering keeps the types of the room and of the queues.                 *)
LEMMA EnterType ==
  ASSUME RoomTypeOK, WriteTypeOK, ReadTypeOK, NEW s \in Session, Enter(s)
  PROVE  RoomTypeOK' /\ WriteTypeOK' /\ base' \in [Session -> Int]
<1>1. RoomTypeOK'
  BY DEF Enter, RoomTypeOK
<1>2. wq' \in [Session -> Seq(Message)]
  BY DEF Enter, RoomTypeOK, WriteTypeOK
<1>3. writing' \in [Session -> Nat] /\ failed' \in [Session -> Nat]
  BY StartWriteType DEF Enter
<1>4. base' \in [Session -> Int]
  BY DEF Enter, RoomTypeOK, ReadTypeOK
<1>5. QED
  BY <1>1, <1>2, <1>3, <1>4 DEF Enter, WriteTypeOK

(* Leaving and stopping to read keep every type.                           *)
LEMMA StopReadingType ==
  ASSUME TypeOK, NEW s \in Session, StopReading(s)
  PROVE  /\ RoomTypeOK' /\ WriteTypeOK' /\ TimerTypeOK'
         /\ rd' \in [Session -> ReadState]
BY DEF StopReading, Leave, TypeOK, RoomTypeOK, ReadTypeOK, WriteTypeOK,
       TimerTypeOK, ReadState, writeVars, timerVars

(* A step keeps every type.  WriteHandler takes the front of the queue, so *)
(* the queue must not be empty, which is what OneWrite is needed for.      *)
LEMMA TypeStep ==
  ASSUME TypeOK, OneWrite, [Next]_vars
  PROVE  TypeOK'
<1>0. RoomTypeOK /\ ReadTypeOK /\ WriteTypeOK /\ TimerTypeOK
  BY DEF TypeOK
<1>1. ASSUME NEW s \in Session, OnAccept(s)
      PROVE  TypeOK'
  <2>1. RoomTypeOK' /\ WriteTypeOK' /\ base' \in [Session -> Int]
    BY <1>0, <1>1, EnterType DEF OnAccept
  <2>2. rd' \in [Session -> ReadState]
    BY <1>0, <1>1 DEF OnAccept, StartRead, ReadTypeOK, ReadState
  <2>3. ReadTypeOK'
    BY <1>0, <1>1, <2>1, <2>2 DEF OnAccept, ReadTypeOK
  <2>4. TimerTypeOK'
    BY <1>0, <1>1 DEF OnAccept, TimerTypeOK
  <2>5. QED
    BY <2>1, <2>3, <2>4 DEF TypeOK
<1>2. ASSUME NEW s \in Session, HeaderHandler(s)
      PROVE  TypeOK'
  <2>1. /\ RoomTypeOK' /\ WriteTypeOK' /\ TimerTypeOK'
        /\ rd' \in [Session -> ReadState]
    <3>1. CASE StopReading(s)
      BY <3>1, StopReadingType
    <3>2. CASE /\ SetDeadline(s, "set")
               /\ StartRead(s, "bodyWait", "bodyErr")
               /\ UNCHANGED <<roomVars, writeVars>>
      <4>1. TimerTypeOK'
        BY <1>0, <3>2, SetDeadlineType
      <4>2. rd' \in [Session -> ReadState]
        BY <1>0, <3>2 DEF StartRead, ReadTypeOK, ReadState
      <4>3. RoomTypeOK' /\ WriteTypeOK'
        BY <1>0, <3>2 DEF roomVars, writeVars, RoomTypeOK, WriteTypeOK
      <4>4. QED
        BY <4>1, <4>2, <4>3
    <3>3. QED
      BY <1>2, <3>1, <3>2 DEF HeaderHandler
  <2>2. ReadTypeOK'
    BY <1>0, <1>2, <2>1 DEF HeaderHandler, ReadTypeOK
  <2>3. QED
    BY <2>1, <2>2 DEF TypeOK
<1>3. ASSUME NEW s \in Session, ReadHandler(s)
      PROVE  TypeOK'
  <2>1. /\ RoomTypeOK' /\ WriteTypeOK' /\ TimerTypeOK'
        /\ rd' \in [Session -> ReadState]
    <3>1. CASE StopReading(s)
      BY <3>1, StopReadingType
    <3>2. CASE /\ SetDeadline(s, "max")
               /\ Broadcast([from |-> s, n |-> got[s]])
               /\ StartRead(s, "hdrWait", "hdrErr")
      <4>1. [from |-> s, n |-> got[s]] \in Message
        BY <1>0 DEF Message, ReadTypeOK
      <4>2. TimerTypeOK'
        BY <1>0, <3>2, SetDeadlineType
      <4>3. rd' \in [Session -> ReadState]
        BY <1>0, <3>2 DEF StartRead, ReadTypeOK, ReadState
      <4>4. QED
        BY <1>0, <3>2, <4>1, <4>2, <4>3, BroadcastType
    <3>3. QED
      BY <1>3, <3>1, <3>2 DEF ReadHandler
  <2>2. ReadTypeOK'
    BY <1>0, <1>3, <2>1 DEF ReadHandler, ReadTypeOK
  <2>3. QED
    BY <2>1, <2>2 DEF TypeOK
<1>4. ASSUME NEW s \in Session, WriteHandlerOk(s)
      PROVE  TypeOK'
  <2>1. wq[s] # <<>>
    BY <1>0, <1>4 DEF OneWrite, OneWriteOf, Outstanding, WriteHandlerOk, WriteTypeOK
  <2>2. wq' \in [Session -> Seq(Message)]
    BY <1>0, <1>4, <2>1 DEF WriteHandlerOk, WriteTypeOK
  <2>3. delivered' \in [Session -> Seq(Message)]
    BY <1>0, <1>4, <2>1 DEF WriteHandlerOk, WriteTypeOK
  <2>4. writing' \in [Session -> Nat] /\ failed' \in [Session -> Nat]
    BY <1>0, <1>4, StartWriteType DEF WriteHandlerOk
  <2>5. written' \in [Session -> Nat]
    BY <1>0, <1>4 DEF WriteHandlerOk, WriteTypeOK
  <2>6. RoomTypeOK' /\ ReadTypeOK' /\ TimerTypeOK'
    BY <1>0, <1>4 DEF WriteHandlerOk, RoomTypeOK, ReadTypeOK, TimerTypeOK,
                      roomVars, timerVars
  <2>7. QED
    BY <2>2, <2>3, <2>4, <2>5, <2>6 DEF TypeOK, WriteTypeOK
<1>5. ASSUME NEW s \in Session, WriteHandlerErr(s)
      PROVE  TypeOK'
  <2>1. RoomTypeOK'
    BY <1>0, <1>5 DEF WriteHandlerErr, Leave, RoomTypeOK
  <2>2. WriteTypeOK'
    BY <1>0, <1>5 DEF WriteHandlerErr, WriteTypeOK
  <2>3. ReadTypeOK' /\ TimerTypeOK'
    BY <1>0, <1>5 DEF WriteHandlerErr, ReadTypeOK, TimerTypeOK, timerVars
  <2>4. QED
    BY <2>1, <2>2, <2>3 DEF TypeOK
<1>6. ASSUME NEW s \in Session, CheckDeadline(s)
      PROVE  TypeOK'
  <2>1. RoomTypeOK'
    BY <1>0, <1>6 DEF CheckDeadline, RoomTypeOK, roomVars
  <2>2. WriteTypeOK'
    <3>1. CASE CloseSocket(s)
      <4>1. writing' \in [Session -> Nat] /\ failed' \in [Session -> Nat]
        BY <1>0, <3>1 DEF CloseSocket, WriteTypeOK
      <4>2. QED
        BY <1>0, <1>6, <4>1 DEF CheckDeadline, WriteTypeOK
    <3>2. CASE UNCHANGED <<failed, writing>>
      BY <1>0, <1>6, <3>2 DEF CheckDeadline, WriteTypeOK
    <3>3. QED
      BY <1>6, <3>1, <3>2 DEF CheckDeadline
  <2>3. ReadTypeOK'
    BY <1>0, <1>6 DEF CheckDeadline, CloseSocket, ReadTypeOK, ReadState
  <2>4. TimerTypeOK'
    BY <1>0, <1>6 DEF CheckDeadline, TimerTypeOK
  <2>5. QED
    BY <2>1, <2>2, <2>3, <2>4 DEF TypeOK
<1>7. ASSUME NEW s \in Session, Environment(s)
      PROVE  TypeOK'
  <2> USE <1>0 DEF roomVars, writeVars, timerVars
  <2>1. RoomTypeOK'
    BY <1>7 DEF Environment, Connect, PeerDrops, HeaderArrives, BodyArrives,
      ReadFails, WriteDone, WriteFails, DeadlinePasses, TimerFires, RoomTypeOK
  <2>2. WriteTypeOK'
    <3>1. CASE WriteDone(s)
      <4>1. writing' \in [Session -> Nat] /\ written' \in [Session -> Nat]
        BY <3>1 DEF WriteDone, WriteTypeOK
      <4>2. QED
        BY <3>1, <4>1 DEF WriteDone, WriteTypeOK
    <3>2. CASE WriteFails(s)
      <4>1. writing' \in [Session -> Nat] /\ failed' \in [Session -> Nat]
        BY <3>2 DEF WriteFails, WriteTypeOK
      <4>2. QED
        BY <3>2, <4>1 DEF WriteFails, WriteTypeOK
    <3>3. CASE UNCHANGED writeVars
      BY <3>3 DEF WriteTypeOK
    <3>4. QED
      BY <1>7, <3>1, <3>2, <3>3 DEF Environment, Connect, PeerDrops,
        HeaderArrives, BodyArrives, ReadFails, DeadlinePasses, TimerFires
  <2>3. ReadTypeOK'
    BY <1>7, ConstantsAssumption
    DEF Environment, Connect, PeerDrops, HeaderArrives, BodyArrives,
      ReadFails, WriteDone, WriteFails, DeadlinePasses, TimerFires, ReadTypeOK,
      ReadState
  <2>4. TimerTypeOK'
    BY <1>7 DEF Environment, Connect, PeerDrops, HeaderArrives, BodyArrives,
      ReadFails, WriteDone, WriteFails, DeadlinePasses, TimerFires, TimerTypeOK
  <2>5. QED
    BY <2>1, <2>2, <2>3, <2>4 DEF TypeOK
<1>8. CASE UNCHANGED vars
  BY <1>0, <1>8 DEF vars, roomVars, writeVars, timerVars, TypeOK, RoomTypeOK,
                    ReadTypeOK, WriteTypeOK, TimerTypeOK
<1>9. QED
  BY <1>1, <1>2, <1>3, <1>4, <1>5, <1>6, <1>7, <1>8 DEF Next, Handlers

-----------------------------------------------------------------------------
(* The control invariants: writes, watchdog, reads and deadline.           *)

(* A session that has not started has no operations and an empty queue.    *)
Fresh ==
  \A s \in Session : rd[s] = "new" =>
    /\ wq[s] = <<>>
    /\ delivered[s] = <<>>
    /\ Outstanding(s) = 0
    /\ waiting[s] = 0
    /\ fired[s] = 0
    /\ got[s] = 0

Control == Fresh /\ OneWrite /\ OneWatchdog /\ MemberIsRead /\ DeadlineFollowsRead

(* A broadcast to members whose writes are in order starts a write exactly *)
(* where none is outstanding.                                              *)
LEMMA BroadcastOneWrite ==
  ASSUME TypeOK, OneWrite, NEW m \in Message, Broadcast(m)
  PROVE  OneWrite'
<1> USE DEF TypeOK, WriteTypeOK
<1> SUFFICES ASSUME NEW t \in Session
             PROVE  OneWriteOf(t)'
  BY DEF OneWrite
<1>1. OneWriteOf(t)
  BY DEF OneWrite
<1>2. members' = members /\ written' = written
  BY DEF Broadcast
<1>3. CASE t \in members
  <2>1. wq'[t] = Append(wq[t], m)
    BY <1>3 DEF Broadcast, OnMessage
  <2>2. wq'[t] # <<>>
    BY <2>1
  <2>3. writing'[t] + failed'[t]
          = writing[t] + failed[t] + IF wq[t] = <<>> THEN 1 ELSE 0
    BY <1>3 DEF Broadcast, OnMessage, StartWrite
  <2>4. Outstanding(t)' = 1
    <3>1. /\ writing[t] \in Nat /\ written[t] \in Nat /\ failed[t] \in Nat
          /\ writing'[t] \in Nat /\ failed'[t] \in Nat
      BY BroadcastType
    <3>2. written'[t] = written[t]
      BY <1>2
    <3>3. CASE wq[t] = <<>>
      BY <1>1, <2>3, <3>1, <3>2, <3>3 DEF OneWriteOf, Outstanding
    <3>4. CASE wq[t] # <<>>
      BY <1>1, <1>3, <2>3, <3>1, <3>2, <3>4 DEF OneWriteOf, Outstanding
    <3>5. QED
      BY <3>3, <3>4
  <2>5. QED
    BY <2>2, <2>4 DEF OneWriteOf
<1>4. CASE t \notin members
  <2>1. wq'[t] = wq[t] /\ writing'[t] = writing[t] /\ failed'[t] = failed[t]
    BY <1>4 DEF Broadcast, OnMessage, StartWrite
  <2>2. QED
    BY <1>1, <1>2, <1>4, <2>1 DEF OneWriteOf, Outstanding
<1>5. QED
  BY <1>3, <1>4

(* Every step keeps the writes of a session in order.                      *)
LEMMA OneWriteStep ==
  ASSUME TypeOK, Fresh, OneWrite, [Next]_vars
  PROVE  OneWrite'
<1> USE DEF TypeOK, WriteTypeOK
<1>0. ASSUME NEW t \in Session, wq'[t] = wq[t],
             Outstanding(t)' = Outstanding(t), t \in members' => t \in members
      PROVE  OneWriteOf(t)'
  BY <1>0 DEF OneWrite, OneWriteOf
<1>1. ASSUME NEW s \in Session, OnAccept(s)
      PROVE  OneWrite'
  <2> SUFFICES ASSUME NEW t \in Session
               PROVE  OneWriteOf(t)'
    BY DEF OneWrite
  <2>1. CASE t = s
    <3>1. wq[s] = <<>> /\ Outstanding(s) = 0 /\ Open(s)
      BY <1>1 DEF OnAccept, Fresh
    <3>2. wq'[s] = recent
      BY <1>1, <3>1 DEF OnAccept, Enter, RoomTypeOK
    <3>3. /\ writing'[s] = writing[s] + IF recent = <<>> THEN 0 ELSE 1
          /\ failed'[s] = failed[s]
          /\ written'[s] = written[s]
      BY <1>1, <3>1 DEF OnAccept, Enter, StartWrite
    <3>4. Outstanding(s)' = IF recent = <<>> THEN 0 ELSE 1
      BY <3>1, <3>3 DEF Outstanding
    <3>5. QED
      BY <2>1, <3>2, <3>4 DEF OneWriteOf
  <2>2. CASE t # s
    <3>1. /\ wq'[t] = wq[t] /\ (t \in members' => t \in members)
          /\ writing'[t] = writing[t] /\ failed'[t] = failed[t]
          /\ written'[t] = written[t]
      BY <1>1, <2>2 DEF OnAccept, Enter, StartWrite
    <3>2. QED
      BY <1>0, <3>1 DEF Outstanding
  <2>3. QED
    BY <2>1, <2>2
<1>2. ASSUME NEW s \in Session, StopReading(s)
      PROVE  OneWrite'
  BY <1>0, <1>2 DEF StopReading, Leave, writeVars, OneWrite, Outstanding
<1>3. ASSUME NEW s \in Session, HeaderHandler(s)
      PROVE  OneWrite'
  <2>1. CASE StopReading(s)
    BY <1>2, <2>1
  <2>2. CASE UNCHANGED <<roomVars, writeVars>>
    BY <1>0, <2>2 DEF roomVars, writeVars, OneWrite, Outstanding
  <2>3. QED
    BY <1>3, <2>1, <2>2 DEF HeaderHandler
<1>4. ASSUME NEW s \in Session, ReadHandler(s)
      PROVE  OneWrite'
  <2>1. CASE StopReading(s)
    BY <1>2, <2>1
  <2>2. CASE Broadcast([from |-> s, n |-> got[s]])
    <3>1. [from |-> s, n |-> got[s]] \in Message
      BY DEF Message, ReadTypeOK
    <3>2. QED
      BY <2>2, <3>1, BroadcastOneWrite
  <2>3. QED
    BY <1>4, <2>1, <2>2 DEF ReadHandler
<1>5. ASSUME NEW s \in Session, WriteHandlerOk(s)
      PROVE  OneWrite'
  <2> SUFFICES ASSUME NEW t \in Session
               PROVE  OneWriteOf(t)'
    BY DEF OneWrite
  <2>1. CASE t = s
    <3>1. OneWriteOf(s) /\ written[s] > 0
      BY <1>5 DEF OneWrite, WriteHandlerOk
    <3>2. /\ writing[s] = 0 /\ failed[s] = 0 /\ written[s] = 1
          /\ wq[s] # <<>>
      BY <3>1 DEF OneWriteOf, Outstanding
    <3>3. wq'[s] = Tail(wq[s]) /\ Len(wq'[s]) = Len(wq[s]) - 1
      BY <1>5, <3>2 DEF WriteHandlerOk
    <3>4. /\ written'[s] = 0
          /\ writing'[s] + failed'[s] = IF Len(wq[s]) > 1 THEN 1 ELSE 0
      BY <1>5, <3>2 DEF WriteHandlerOk, StartWrite
    <3>5. Outstanding(s)' = IF Len(wq[s]) > 1 THEN 1 ELSE 0
      <4>1. writing'[s] \in Nat /\ failed'[s] \in Nat
        BY <1>5, StartWriteType DEF WriteHandlerOk
      <4>2. QED
        BY <3>4, <4>1 DEF Outstanding
    <3>6. wq'[s] # <<>> <=> Len(wq[s]) > 1
      <4>1. ASSUME NEW q \in Seq(Message)
            PROVE  q # <<>> <=> Len(q) > 0
        OBVIOUS
      <4>2. wq[s] \in Seq(Message) /\ Tail(wq[s]) \in Seq(Message)
        BY <3>2
      <4>3. wq'[s] # <<>> <=> Len(wq'[s]) > 0
        BY <3>3, <4>1, <4>2
      <4>4. QED
        BY <3>3, <4>2, <4>3
    <3>7. QED
      BY <2>1, <3>5, <3>6 DEF OneWriteOf
  <2>2. CASE t # s
    <3>1. /\ wq'[t] = wq[t] /\ members' = members
          /\ writing'[t] = writing[t] /\ failed'[t] = failed[t]
          /\ written'[t] = written[t]
      BY <1>5, <2>2 DEF WriteHandlerOk, StartWrite, roomVars
    <3>2. QED
      BY <1>0, <3>1 DEF Outstanding
  <2>3. QED
    BY <2>1, <2>2
<1>6. ASSUME NEW s \in Session, WriteHandlerErr(s)
      PROVE  OneWrite'
  <2> SUFFICES ASSUME NEW t \in Session
               PROVE  OneWriteOf(t)'
    BY DEF OneWrite
  <2>1. CASE t = s
    <3>1. OneWriteOf(s) /\ failed[s] > 0
      BY <1>6 DEF OneWrite, WriteHandlerErr
    <3>2. Outstanding(s)' = 0
      BY <1>6, <3>1 DEF OneWriteOf, Outstanding, WriteHandlerErr
    <3>3. s \notin members'
      BY <1>6 DEF WriteHandlerErr, Leave
    <3>4. QED
      BY <2>1, <3>2, <3>3 DEF OneWriteOf
  <2>2. CASE t # s
    BY <1>0, <1>6, <2>2 DEF WriteHandlerErr, Leave, Outstanding
  <2>3. QED
    BY <2>1, <2>2
<1>7. ASSUME NEW s \in Session, CheckDeadline(s)
      PROVE  OneWrite'
  <2> SUFFICES ASSUME NEW t \in Session
               PROVE  OneWriteOf(t)'
    BY DEF OneWrite
  <2>1. wq' = wq /\ written' = written /\ members' = members
    BY <1>7 DEF CheckDeadline, roomVars
  <2>2. writing'[t] + failed'[t] = writing[t] + failed[t]
    <3>1. CASE CloseSocket(s)
      BY <3>1 DEF CloseSocket
    <3>2. CASE UNCHANGED <<failed, writing>>
      BY <3>2
    <3>3. QED
      BY <1>7, <3>1, <3>2 DEF CheckDeadline
  <2>3. writing'[t] \in Nat /\ failed'[t] \in Nat
    <3>1. CASE CloseSocket(s)
      BY <3>1 DEF CloseSocket
    <3>2. CASE UNCHANGED <<failed, writing>>
      BY <3>2
    <3>3. QED
      BY <1>7, <3>1, <3>2 DEF CheckDeadline
  <2>4. Outstanding(t)' = Outstanding(t)
    <3>1. writing[t] \in Nat /\ failed[t] \in Nat /\ written[t] \in Nat
      OBVIOUS
    <3>2. writing'[t] + written'[t] + failed'[t]
            = writing[t] + written[t] + failed[t]
      BY <2>1, <2>2, <2>3, <3>1, SMTT(30)
    <3>3. QED
      BY <3>2 DEF Outstanding
  <2>5. QED
    BY <1>0, <2>1, <2>4
<1>8. ASSUME NEW s \in Session, WriteDone(s) \/ WriteFails(s)
      PROVE  OneWrite'
  <2> SUFFICES ASSUME NEW t \in Session
               PROVE  OneWriteOf(t)'
    BY DEF OneWrite
  <2>1. wq' = wq /\ members' = members
    BY <1>8 DEF WriteDone, WriteFails, roomVars
  <2>2. Outstanding(t)' = Outstanding(t)
    <3>1. CASE WriteDone(s)
      BY <3>1 DEF Outstanding, WriteDone
    <3>2. CASE WriteFails(s)
      BY <3>2 DEF Outstanding, WriteFails
    <3>3. QED
      BY <1>8, <3>1, <3>2
  <2>3. QED
    BY <1>0, <2>1, <2>2
<1>9. ASSUME UNCHANGED <<members, writeVars>>
      PROVE  OneWrite'
  BY <1>0, <1>9 DEF writeVars, Outstanding, OneWrite
<1>10. QED
  <2>1. ASSUME NEW s \in Session, Environment(s)
        PROVE  OneWrite'
    BY <1>8, <1>9, <2>1 
    DEF Environment, Connect, PeerDrops, HeaderArrives, BodyArrives, ReadFails,
        DeadlinePasses, TimerFires, roomVars
  <2>2. CASE UNCHANGED vars
    BY <1>9, <2>2 DEF vars, roomVars
  <2>3. QED
    BY <1>1, <1>3, <1>4, <1>5, <1>6, <1>7, <2>1, <2>2 DEF Next, Handlers

(* Handlers run, and reads, writes and timers complete, only for sessions  *)
(* that have started.                                                      *)
LEMMA FreshStep ==
  ASSUME TypeOK, Control, [Next]_vars
  PROVE  Fresh'
<1> SUFFICES ASSUME NEW t \in Session, rd'[t] = "new"
             PROVE  /\ wq'[t] = <<>>
                    /\ delivered'[t] = <<>>
                    /\ Outstanding(t)' = 0
                    /\ waiting'[t] = 0
                    /\ fired'[t] = 0
                    /\ got'[t] = 0
  BY DEF Fresh
<1> USE DEF TypeOK, ReadTypeOK, WriteTypeOK, TimerTypeOK, ReadState
<1>1. rd[t] = "new"
  <2>1. ASSUME NEW s \in Session, OnAccept(s)
        PROVE  rd[t] = "new"
    BY <2>1 DEF OnAccept, StartRead
  <2>2. ASSUME NEW s \in Session, HeaderHandler(s) \/ ReadHandler(s)
        PROVE  rd[t] = "new"
    BY <2>2 DEF HeaderHandler, ReadHandler, StartRead, StopReading
  <2>3. ASSUME NEW s \in Session, CheckDeadline(s)
        PROVE  rd[t] = "new"
    BY <2>3 DEF CheckDeadline, CloseSocket
  <2>4. ASSUME NEW s \in Session, HeaderArrives(s) \/ BodyArrives(s) \/ ReadFails(s)
        PROVE  rd[t] = "new"
    BY <2>4 DEF HeaderArrives, BodyArrives, ReadFails
  <2>5. CASE UNCHANGED rd
    BY <2>5
  <2>6. QED
    BY <2>1, <2>2, <2>3, <2>4, <2>5
    DEF Next, Handlers, Environment, WriteHandlerOk, WriteHandlerErr, Connect,
        PeerDrops, WriteDone, WriteFails, DeadlinePasses, TimerFires, vars
<1>2. /\ wq[t] = <<>> /\ delivered[t] = <<>> /\ waiting[t] = 0 /\ fired[t] = 0
      /\ got[t] = 0 /\ writing[t] = 0 /\ written[t] = 0 /\ failed[t] = 0
      /\ t \notin members
  BY <1>1 DEF Control, Fresh, MemberIsRead, Outstanding
<1>3. ASSUME NEW s \in Session, OnAccept(s)
      PROVE  s # t
  BY <1>3 DEF OnAccept, StartRead
<1>4. wq'[t] = <<>> /\ delivered'[t] = <<>>
  <2>1. ASSUME NEW s \in Session, OnAccept(s)
        PROVE  wq'[t] = <<>> /\ delivered'[t] = <<>>
    BY <1>2, <1>3, <2>1 DEF OnAccept, Enter
  <2>2. ASSUME NEW s \in Session, ReadHandler(s)
        PROVE  wq'[t] = <<>> /\ delivered'[t] = <<>>
    BY <1>2, <2>2
    DEF ReadHandler, Broadcast, OnMessage, StopReading, writeVars
  <2>3. ASSUME NEW s \in Session, WriteHandlerOk(s)
        PROVE  wq'[t] = <<>> /\ delivered'[t] = <<>>
    BY <1>2, <2>3 DEF WriteHandlerOk
  <2>4. CASE UNCHANGED <<wq, delivered>>
    BY <1>2, <2>4
  <2>5. QED
    BY <2>1, <2>2, <2>3, <2>4
    DEF Next, Handlers, Environment, HeaderHandler, StopReading,
        WriteHandlerErr, CheckDeadline, Connect, PeerDrops, HeaderArrives,
        BodyArrives, ReadFails, WriteDone, WriteFails, DeadlinePasses,
        TimerFires, vars, writeVars
<1>5. Outstanding(t)' = 0
  <2>1. OneWriteOf(t)'
    BY OneWriteStep DEF Control, OneWrite
  <2>2. TypeOK'
    BY TypeStep DEF Control
  <2>3. writing'[t] \in Nat /\ written'[t] \in Nat /\ failed'[t] \in Nat
    BY <2>2
  <2>4. QED
    BY <1>4, <2>1, <2>3, SMTT(30) DEF OneWriteOf, Outstanding
<1>6. waiting'[t] = 0 /\ fired'[t] = 0
  <2>1. ASSUME NEW s \in Session, OnAccept(s)
        PROVE  waiting'[t] = 0 /\ fired'[t] = 0
    BY <1>2, <1>3, <2>1 DEF OnAccept
  <2>2. ASSUME NEW s \in Session, HeaderHandler(s)
        PROVE  waiting'[t] = 0 /\ fired'[t] = 0
    BY <1>2, <2>2 DEF HeaderHandler, SetDeadline, StopReading, timerVars
  <2>3. ASSUME NEW s \in Session, ReadHandler(s)
        PROVE  waiting'[t] = 0 /\ fired'[t] = 0
    BY <1>2, <2>3 DEF ReadHandler, SetDeadline, StopReading, timerVars
  <2>4. ASSUME NEW s \in Session, CheckDeadline(s)
        PROVE  waiting'[t] = 0 /\ fired'[t] = 0
    BY <1>2, <2>4 DEF CheckDeadline
  <2>5. ASSUME NEW s \in Session, TimerFires(s)
        PROVE  waiting'[t] = 0 /\ fired'[t] = 0
    BY <1>2, <2>5 DEF TimerFires
  <2>6. CASE UNCHANGED <<waiting, fired>>
    BY <1>2, <2>6
  <2>7. QED
    BY <2>1, <2>2, <2>3, <2>4, <2>5, <2>6
    DEF Next, Handlers, Environment, WriteHandlerOk, WriteHandlerErr, Connect,
        PeerDrops, HeaderArrives, BodyArrives, ReadFails, WriteDone,
        WriteFails, DeadlinePasses, vars, timerVars
<1>7. got'[t] = 0
  <2>1. ASSUME NEW s \in Session, BodyArrives(s)
        PROVE  got'[t] = 0
    BY <1>1, <1>2, <2>1 DEF BodyArrives
  <2>2. CASE UNCHANGED got
    BY <1>2, <2>2
  <2>3. QED
    BY <2>1, <2>2
    DEF Next, Handlers, Environment, OnAccept, HeaderHandler, ReadHandler,
        WriteHandlerOk, WriteHandlerErr, CheckDeadline, Connect, PeerDrops,
        HeaderArrives, ReadFails, WriteDone, WriteFails, DeadlinePasses,
        TimerFires, vars
<1>8. QED
  BY <1>4, <1>5, <1>6, <1>7

(* Every wait that ends is replaced, and nothing else starts one.          *)
LEMMA OneWatchdogStep ==
  ASSUME TypeOK, Control, [Next]_vars
  PROVE  OneWatchdog'
<1> SUFFICES ASSUME NEW t \in Session, rd'[t] # "new"
             PROVE  waiting'[t] + fired'[t] = 1
  BY DEF OneWatchdog
<1> USE DEF TypeOK, ReadTypeOK, TimerTypeOK, ReadState
<1>1. CASE rd[t] = "new"
  <2>1. waiting[t] = 0 /\ fired[t] = 0
    BY <1>1 DEF Control, Fresh
  <2>2. ASSUME NEW s \in Session, OnAccept(s)
        PROVE  waiting'[t] + fired'[t] = 1
    <3>1. s = t
      BY <1>1, <2>2 DEF OnAccept, StartRead
    <3>2. QED
      BY <2>1, <2>2, <3>1 DEF OnAccept
  <2>3. ASSUME NEW s \in Session, HeaderHandler(s) \/ ReadHandler(s)
        PROVE  FALSE
    BY <1>1, <2>3 DEF HeaderHandler, ReadHandler, StartRead, StopReading
  <2>4. ASSUME NEW s \in Session, CheckDeadline(s)
        PROVE  FALSE
    BY <1>1, <2>1, <2>4 DEF CheckDeadline, CloseSocket
  <2>5. ASSUME NEW s \in Session, HeaderArrives(s) \/ BodyArrives(s) \/ ReadFails(s)
        PROVE  FALSE
    BY <1>1, <2>5 DEF HeaderArrives, BodyArrives, ReadFails
  <2>6. CASE UNCHANGED rd
    BY <1>1, <2>6
  <2>7. QED
    BY <2>2, <2>3, <2>4, <2>5, <2>6
    DEF Next, Handlers, Environment, WriteHandlerOk, WriteHandlerErr, Connect,
        PeerDrops, WriteDone, WriteFails, DeadlinePasses, TimerFires, vars
<1>2. CASE rd[t] # "new"
  <2>1. waiting[t] + fired[t] = 1 /\ waiting[t] \in Nat /\ fired[t] \in Nat
    BY <1>2 DEF Control, OneWatchdog
  <2>2. ASSUME NEW s \in Session, OnAccept(s)
        PROVE  waiting'[t] + fired'[t] = 1
    BY <1>2, <2>1, <2>2 DEF OnAccept
  <2>3. ASSUME NEW s \in Session, NEW when, SetDeadline(s, when)
        PROVE  waiting'[t] + fired'[t] = 1
    BY <2>1, <2>3 DEF SetDeadline
  <2>4. ASSUME NEW s \in Session, HeaderHandler(s) \/ ReadHandler(s)
        PROVE  waiting'[t] + fired'[t] = 1
    BY <2>1, <2>3, <2>4 DEF HeaderHandler, ReadHandler, StopReading, timerVars
  <2>5. ASSUME NEW s \in Session, CheckDeadline(s)
        PROVE  waiting'[t] + fired'[t] = 1
    BY <2>1, <2>5 DEF CheckDeadline
  <2>6. ASSUME NEW s \in Session, TimerFires(s)
        PROVE  waiting'[t] + fired'[t] = 1
    BY <2>1, <2>6 DEF TimerFires
  <2>7. CASE UNCHANGED <<waiting, fired>>
    BY <2>1, <2>7
  <2>8. QED
    BY <2>2, <2>4, <2>5, <2>6, <2>7
    DEF Next, Handlers, Environment, WriteHandlerOk, WriteHandlerErr, Connect,
        PeerDrops, HeaderArrives, BodyArrives, ReadFails, WriteDone,
        WriteFails, DeadlinePasses, vars, timerVars
<1>3. QED
  BY <1>1, <1>2

(* A session that stops reading leaves in the same step.                   *)
LEMMA MemberIsReadStep ==
  ASSUME TypeOK, Control, [Next]_vars
  PROVE  MemberIsRead'
<1> SUFFICES ASSUME NEW t \in members'
             PROVE  rd'[t] \notin {"new", "none"}
  BY DEF MemberIsRead
<1> USE DEF TypeOK, RoomTypeOK, ReadTypeOK, ReadState, Control, MemberIsRead
<1>1. ASSUME NEW s \in Session, OnAccept(s)
      PROVE  rd'[t] \notin {"new", "none"}
  BY <1>1 DEF OnAccept, StartRead, Enter
<1>2. ASSUME NEW s \in Session, HeaderHandler(s)
      PROVE  rd'[t] \notin {"new", "none"}
  BY <1>2 DEF HeaderHandler, StartRead, StopReading, Leave, roomVars
<1>3. ASSUME NEW s \in Session, ReadHandler(s)
      PROVE  rd'[t] \notin {"new", "none"}
  BY <1>3 DEF ReadHandler, StartRead, StopReading, Leave, Broadcast
<1>4. ASSUME NEW s \in Session, CheckDeadline(s)
      PROVE  rd'[t] \notin {"new", "none"}
  BY <1>4 DEF CheckDeadline, CloseSocket, roomVars
<1>5. ASSUME NEW s \in Session, HeaderArrives(s) \/ BodyArrives(s) \/ ReadFails(s)
      PROVE  rd'[t] \notin {"new", "none"}
  BY <1>5 DEF HeaderArrives, BodyArrives, ReadFails, roomVars
<1>6. ASSUME NEW s \in Session, WriteHandlerErr(s)
      PROVE  rd'[t] \notin {"new", "none"}
  BY <1>6 DEF WriteHandlerErr, Leave
<1>7. CASE UNCHANGED <<rd, members>>
  BY <1>7
<1>8. QED
  BY <1>1, <1>2, <1>3, <1>4, <1>5, <1>6, <1>7
  DEF Next, Handlers, Environment, WriteHandlerOk, Connect, PeerDrops,
      WriteDone, WriteFails, DeadlinePasses, TimerFires, vars, roomVars

(* The deadline is set when a body read starts and lifted when it is over. *)
LEMMA DeadlineFollowsReadStep ==
  ASSUME TypeOK, Control, [Next]_vars
  PROVE  DeadlineFollowsRead'
<1> SUFFICES ASSUME NEW t \in Session
             PROVE  /\ rd'[t] = "bodyWait" => deadline'[t] # "max"
                    /\ rd'[t] \in {"new", "hdrWait", "hdrOk"}
                         => deadline'[t] = "max"
  BY DEF DeadlineFollowsRead
<1> DEFINE Goal == /\ rd'[t] = "bodyWait" => deadline'[t] # "max"
                   /\ rd'[t] \in {"new", "hdrWait", "hdrOk"}
                        => deadline'[t] = "max"
<1> USE DEF TypeOK, ReadTypeOK, TimerTypeOK, ReadState, Control,
            DeadlineFollowsRead
<1>1. ASSUME NEW s \in Session, OnAccept(s)
      PROVE  Goal
  BY <1>1 DEF OnAccept, StartRead
<1>2. ASSUME NEW s \in Session, HeaderHandler(s)
      PROVE  Goal
  BY <1>2 DEF HeaderHandler, StartRead, StopReading, SetDeadline, timerVars
<1>3. ASSUME NEW s \in Session, ReadHandler(s)
      PROVE  Goal
  BY <1>3 DEF ReadHandler, StartRead, StopReading, SetDeadline, timerVars
<1>4. ASSUME NEW s \in Session, CheckDeadline(s)
      PROVE  Goal
  BY <1>4 DEF CheckDeadline, CloseSocket
<1>5. ASSUME NEW s \in Session, HeaderArrives(s) \/ BodyArrives(s) \/ ReadFails(s)
      PROVE  Goal
  BY <1>5 DEF HeaderArrives, BodyArrives, ReadFails, timerVars
<1>6. ASSUME NEW s \in Session, DeadlinePasses(s)
      PROVE  Goal
  BY <1>6 DEF DeadlinePasses
<1>7. CASE UNCHANGED <<rd, deadline>>
  BY <1>7
<1>8. QED
  BY <1>1, <1>2, <1>3, <1>4, <1>5, <1>6, <1>7
  DEF Next, Handlers, Environment, WriteHandlerOk, WriteHandlerErr, Connect,
      PeerDrops, WriteDone, WriteFails, TimerFires, vars, timerVars

-----------------------------------------------------------------------------
(* The data: the history and the streams against the log.                  *)

(* Appending one message to the log and to the history, and dropping the   *)
(* oldest of the history when it is too long, keeps it the tail of the log.*)
LEMMA BroadcastHistory ==
  ASSUME TypeOK, HistoryIsTail, NEW m \in Message, Broadcast(m)
  PROVE  HistoryIsTail'
<1> USE ConstantsAssumption DEF TypeOK, RoomTypeOK
<1> DEFINE longer == Append(recent, m)
<1>1. /\ log' = Append(log, m) /\ recent' = Remember(m)
      /\ Len(log') = Len(log) + 1 /\ Len(longer) = Len(recent) + 1
      /\ Len(log) \in Nat /\ Len(recent) \in Nat
  BY DEF Broadcast
<1>2. Len(recent) <= Len(log)
  BY <1>1 DEF HistoryIsTail
<1>3. \A i \in 1 .. Len(longer) : longer[i] = log'[Len(log') - Len(longer) + i]
  <2> SUFFICES ASSUME NEW i \in 1 .. Len(longer)
               PROVE  longer[i] = log'[Len(log') - Len(longer) + i]
    OBVIOUS
  <2>1. CASE i \in 1 .. Len(recent)
    <3>1. longer[i] = recent[i]
      BY <2>1
    <3>2. Len(log) - Len(recent) + i \in 1 .. Len(log)
      BY <1>1, <1>2, <2>1
    <3>3. log'[Len(log) - Len(recent) + i] = log[Len(log) - Len(recent) + i]
      BY <1>1, <3>2
    <3>4. recent[i] = log[Len(log) - Len(recent) + i]
      BY <2>1 DEF HistoryIsTail
    <3>5. Len(log') - Len(longer) + i = Len(log) - Len(recent) + i
      BY <1>1, <2>1
    <3>6. QED
      BY <3>1, <3>3, <3>4, <3>5
  <2>2. CASE i = Len(longer)
    <3>1. longer[i] = m
      BY <1>1, <2>2
    <3>2. Len(log') - Len(longer) + i = Len(log) + 1
      BY <1>1, <2>2
    <3>3. log'[Len(log) + 1] = m
      BY <1>1
    <3>4. QED
      BY <3>1, <3>2, <3>3
  <2>3. i \in 1 .. Len(recent) \/ i = Len(longer)
    BY <1>1
  <2>4. QED
    BY <2>1, <2>2, <2>3
<1>4. CASE Len(longer) > MaxRecent
  <2>1. recent' = Tail(longer)
    BY <1>1, <1>4 DEF Remember
  <2>2. longer \in Seq(Message) /\ longer # <<>>
    BY <1>1
  <2>3. Len(recent') = Len(longer) - 1
    BY <2>1, <2>2
  <2>4. Len(recent) = MaxRecent
    BY <1>1, <1>4
  <2>5. Len(recent') = IF Len(log') < MaxRecent THEN Len(log') ELSE MaxRecent
    BY <1>1, <1>2, <2>3, <2>4
  <2>6. ASSUME NEW i \in 1 .. Len(recent')
        PROVE  recent'[i] = log'[Len(log') - Len(recent') + i]
    <3>1. recent'[i] = longer[i + 1]
      BY <2>1, <2>2, <2>3
    <3>2. i + 1 \in 1 .. Len(longer)
      BY <1>1, <2>3
    <3>3. longer[i + 1] = log'[Len(log') - Len(longer) + (i + 1)]
      BY <1>3, <3>2
    <3>4. Len(log') - Len(longer) + (i + 1) = Len(log') - Len(recent') + i
      BY <1>1, <2>3
    <3>5. QED
      BY <3>1, <3>3, <3>4
  <2>7. QED
    BY <2>5, <2>6 DEF HistoryIsTail
<1>5. CASE ~(Len(longer) > MaxRecent)
  <2>1. recent' = longer
    BY <1>1, <1>5 DEF Remember
  <2>2. Len(recent) = Len(log)
    BY <1>1, <1>5 DEF HistoryIsTail
  <2>3. Len(recent') = IF Len(log') < MaxRecent THEN Len(log') ELSE MaxRecent
    BY <1>1, <1>5, <2>1, <2>2
  <2>4. QED
    BY <1>3, <2>1, <2>3 DEF HistoryIsTail
<1>6. QED
  BY <1>4, <1>5

(* The room and the queues change together only when a body was read: the  *)
(* history and the log change in no other step.                            *)
LEMMA HistoryStep ==
  ASSUME TypeOK, HistoryIsTail, [Next]_vars
  PROVE  HistoryIsTail'
<1>1. ASSUME NEW s \in Session, ReadHandler(s)
      PROVE  HistoryIsTail'
  <2>1. [from |-> s, n |-> got[s]] \in Message
    BY DEF Message, TypeOK, ReadTypeOK
  <2>2. CASE Broadcast([from |-> s, n |-> got[s]])
    BY <2>1, <2>2, BroadcastHistory
  <2>3. CASE StopReading(s)
    BY <2>3 DEF StopReading, HistoryIsTail
  <2>4. QED
    BY <1>1, <2>2, <2>3 DEF ReadHandler
<1>2. CASE UNCHANGED <<recent, log>>
  BY <1>2 DEF HistoryIsTail
<1>3. QED
  BY <1>1, <1>2
  DEF Next, Handlers, Environment, OnAccept, Enter, HeaderHandler, StopReading,
      WriteHandlerOk, WriteHandlerErr, CheckDeadline, Connect, PeerDrops,
      HeaderArrives, BodyArrives, ReadFails, WriteDone, WriteFails,
      DeadlinePasses, TimerFires, vars, roomVars

(* Moving the front of a queue to the end of what was delivered leaves the *)
(* stream as it was.                                                       *)
LEMMA MoveFront ==
  ASSUME NEW d \in Seq(Message), NEW q \in Seq(Message), q # <<>>
  PROVE  Append(d, Head(q)) \o Tail(q) = d \o q
<1> DEFINE l == Append(d, Head(q)) \o Tail(q)
           r == d \o q
<1>1. Append(d, Head(q)) \in Seq(Message) /\ Tail(q) \in Seq(Message)
  OBVIOUS
<1>2. Len(Append(d, Head(q))) = Len(d) + 1 /\ Len(Tail(q)) = Len(q) - 1
  OBVIOUS
<1>3. l \in Seq(Message) /\ r \in Seq(Message)
  BY <1>1
<1>4. Len(l) = Len(d) + Len(q) /\ Len(r) = Len(d) + Len(q)
  BY <1>1, <1>2
<1>5. ASSUME NEW i \in 1 .. Len(r)
      PROVE  l[i] = r[i]
  <2>1. CASE i <= Len(d)
    BY <1>1, <1>2, <1>4, <2>1
  <2>2. CASE i = Len(d) + 1
    BY <1>1, <1>2, <1>4, <2>2
  <2>3. CASE i > Len(d) + 1
    <3>1. l[i] = Tail(q)[i - (Len(d) + 1)]
      BY <1>1, <1>2, <1>4, <2>3
    <3>2. i - (Len(d) + 1) \in 1 .. Len(Tail(q))
      BY <1>2, <1>4, <2>3
    <3>3. Tail(q)[i - (Len(d) + 1)] = q[i - Len(d)]
      BY <3>2
    <3>4. r[i] = q[i - Len(d)]
      BY <1>4, <2>3
    <3>5. QED
      BY <3>1, <3>3, <3>4
  <2>4. QED
    BY <1>4, <2>1, <2>2, <2>3
<1>6. QED
  BY <1>3, <1>4, <1>5

(* Appending one message at the end of a sequence, or of its second part.  *)
LEMMA AppendOne ==
  ASSUME NEW q \in Seq(Message), NEW m \in Message
  PROVE  /\ Len(Append(q, m)) = Len(q) + 1
         /\ \A i \in 1 .. Len(q) : Append(q, m)[i] = q[i]
         /\ Append(q, m)[Len(q) + 1] = m
OBVIOUS

(* The same for the second of two sequences put together.                  *)
LEMMA AppendToStream ==
  ASSUME NEW d \in Seq(Message), NEW q \in Seq(Message), NEW m \in Message
  PROVE  /\ d \o Append(q, m) = Append(d \o q, m)
         /\ Len(Append(q, m)) = Len(q) + 1
OBVIOUS

(* A stream that matches the log from b on still does when the log grows,  *)
(* and, if it reached the end of the log, when both grow by one message.   *)
LEMMA ExtendLog ==
  ASSUME NEW lg \in Seq(Message), NEW st \in Seq(Message), NEW b \in Nat,
         NEW m \in Message, b + Len(st) <= Len(lg),
         \A i \in 1 .. Len(st) : st[i] = lg[b + i]
  PROVE  \A i \in 1 .. Len(st) : st[i] = Append(lg, m)[b + i]
<1> SUFFICES ASSUME NEW i \in 1 .. Len(st)
             PROVE  st[i] = Append(lg, m)[b + i]
  OBVIOUS
<1>1. b + i \in 1 .. Len(lg)
  <2>1. Len(st) \in Nat /\ Len(lg) \in Nat /\ i \in Int
    OBVIOUS
  <2>2. QED
    BY <2>1
<1>2. Append(lg, m)[b + i] = lg[b + i]
  BY <1>1, AppendOne
<1>3. QED
  BY <1>2

(* The second case: both grow by the message.                              *)
LEMMA ExtendBoth ==
  ASSUME NEW lg \in Seq(Message), NEW st \in Seq(Message), NEW b \in Nat,
         NEW m \in Message, b + Len(st) = Len(lg),
         \A i \in 1 .. Len(st) : st[i] = lg[b + i]
  PROVE  \A i \in 1 .. Len(Append(st, m)) :
           Append(st, m)[i] = Append(lg, m)[b + i]
<1> SUFFICES ASSUME NEW i \in 1 .. Len(Append(st, m))
             PROVE  Append(st, m)[i] = Append(lg, m)[b + i]
  OBVIOUS
<1>1. Len(st) \in Nat /\ Len(lg) \in Nat /\ Len(Append(st, m)) = Len(st) + 1
  BY AppendOne
<1>2. i \in 1 .. Len(st) \/ i = Len(st) + 1
  BY <1>1
<1>3. CASE i \in 1 .. Len(st)
  <2>1. st[i] = Append(lg, m)[b + i]
    BY <1>1, <1>3, ExtendLog
  <2>2. QED
    BY <1>3, <2>1, AppendOne
<1>4. CASE i = Len(st) + 1
  <2>1. b + i = Len(lg) + 1
    BY <1>1, <1>4
  <2>2. QED
    BY <1>4, <2>1, AppendOne
<1>5. QED
  BY <1>2, <1>3, <1>4

(* The window of one session.                                              *)
Window(s) ==
  /\ 0 <= base[s]
  /\ StreamEnd(s) <= Len(log)
  /\ \A i \in 1 .. Len(Stream(s)) : Stream(s)[i] = log[base[s] + i]
  /\ s \in members => StreamEnd(s) = Len(log)

(* Addition, for terms that are not numerals.                              *)
LEMMA Sums ==
  ASSUME NEW b \in Int, NEW d \in Nat, NEW q \in Nat
  PROVE  /\ b + d + q = b + (d + q)
         /\ b + d + (q + 1) = b + d + q + 1
OBVIOUS

(* Where a stream ends, by its length.                                     *)
LEMMA StreamLength ==
  ASSUME TypeOK, NEW s \in Session
  PROVE  /\ Stream(s) \in Seq(Message)
         /\ StreamEnd(s) = base[s] + Len(Stream(s))
<1>1. /\ delivered[s] \in Seq(Message) /\ wq[s] \in Seq(Message)
      /\ base[s] \in Int
  BY DEF TypeOK, ReadTypeOK, WriteTypeOK
<1>2. /\ Len(delivered[s]) \in Nat /\ Len(wq[s]) \in Nat
      /\ Len(Stream(s)) = Len(delivered[s]) + Len(wq[s])
      /\ Stream(s) \in Seq(Message)
  BY <1>1 DEF Stream
<1>3. StreamEnd(s) = base[s] + Len(delivered[s]) + Len(wq[s])
  BY DEF StreamEnd
<1>4. base[s] + Len(delivered[s]) + Len(wq[s])
        = base[s] + (Len(delivered[s]) + Len(wq[s]))
  BY <1>1, <1>2, Sums, Zenon
<1>5. QED
  BY <1>2, <1>3, <1>4, Zenon

(* A broadcast extends the streams of the members, and only theirs, by the *)
(* message that it appends to the log.                                     *)
LEMMA BroadcastWindow ==
  ASSUME TypeOK, NEW m \in Message, Broadcast(m), UNCHANGED base,
         NEW t \in Session, Window(t)
  PROVE  Window(t)'
<1>1. /\ log' = Append(log, m) /\ members' = members
      /\ delivered' = delivered /\ base' = base
  BY DEF Broadcast
<1>2. /\ log \in Seq(Message) /\ Len(log) \in Nat /\ Len(log') \in Nat
      /\ Len(log') = Len(log) + 1
      /\ base[t] \in Nat
  <2>1. log \in Seq(Message) /\ base[t] \in Int
    BY DEF TypeOK, RoomTypeOK, ReadTypeOK
  <2>2. Len(log') = Len(log) + 1
    BY <1>1, <2>1, AppendOne
  <2>3. base[t] \in Nat
    BY <2>1 DEF Window
  <2>4. Len(log) \in Nat
    BY <2>1
  <2>5. QED
    BY <2>1, <2>2, <2>3, <2>4
<1>3. /\ delivered[t] \in Seq(Message) /\ wq[t] \in Seq(Message)
      /\ Len(delivered[t]) \in Nat /\ Len(wq[t]) \in Nat
  <2>1. delivered[t] \in Seq(Message) /\ wq[t] \in Seq(Message)
    BY DEF TypeOK, WriteTypeOK
  <2>2. QED
    BY <2>1
<1>4. Stream(t) \in Seq(Message) /\ StreamEnd(t) = base[t] + Len(Stream(t))
  BY StreamLength
<1>5. CASE t \in members
  <2>1. wq'[t] = Append(wq[t], m)
    BY <1>5 DEF Broadcast, OnMessage, TypeOK, WriteTypeOK
  <2>2. Len(wq'[t]) = Len(wq[t]) + 1
    BY <1>3, <2>1, AppendToStream
  <2>3. Stream(t)' = Append(Stream(t), m)
    <3>1. Stream(t)' = delivered[t] \o Append(wq[t], m)
      BY <1>1, <2>1, Zenon DEF Stream
    <3>2. QED
      BY <1>3, <3>1, AppendToStream DEF Stream
  <2>4. StreamEnd(t) = Len(log)
    BY <1>5 DEF Window
  <2>5. StreamEnd(t)' = StreamEnd(t) + 1
    <3>1. StreamEnd(t)' = base[t] + Len(delivered[t]) + Len(wq'[t])
      BY <1>1, Zenon DEF StreamEnd
    <3>2. StreamEnd(t) = base[t] + Len(delivered[t]) + Len(wq[t])
      BY DEF StreamEnd
    <3>3. base[t] + Len(delivered[t]) + (Len(wq[t]) + 1)
            = base[t] + Len(delivered[t]) + Len(wq[t]) + 1
      <4>1. base[t] \in Int
        BY DEF TypeOK, ReadTypeOK
      <4>2. QED
        BY <1>3, <4>1, Sums, Zenon
    <3>4. StreamEnd(t)' = base[t] + Len(delivered[t]) + (Len(wq[t]) + 1)
      BY <2>2, <3>1, Zenon
    <3>5. QED
      BY <3>2, <3>3, <3>4, Zenon
  <2>6. \A i \in 1 .. Len(Stream(t)) : Stream(t)[i] = log[base[t] + i]
    BY DEF Window
  <2>7. base[t] + Len(Stream(t)) = Len(log)
    BY <1>4, <2>4
  <2>8. \A i \in 1 .. Len(Append(Stream(t), m)) :
          Append(Stream(t), m)[i] = Append(log, m)[base[t] + i]
    BY <1>2, <1>4, <2>6, <2>7, ExtendBoth, ZenonT(60)
  <2>9. \A i \in 1 .. Len(Stream(t)') :
          Stream(t)'[i] = log'[base'[t] + i]
    BY <1>1, <2>3, <2>8, Zenon
  <2>10. StreamEnd(t)' = Len(log')
    BY <1>2, <2>4, <2>5
  <2>11. 0 <= base'[t] /\ StreamEnd(t)' <= Len(log')
    BY <1>1, <1>2, <2>10
  <2>12. QED
    BY <2>9, <2>10, <2>11 DEF Window
<1>6. CASE t \notin members
  <2>1. wq'[t] = wq[t]
    BY <1>6 DEF Broadcast, OnMessage, TypeOK, WriteTypeOK
  <2>2. Stream(t)' = Stream(t) /\ StreamEnd(t)' = StreamEnd(t)
    BY <1>1, <2>1, Zenon DEF Stream, StreamEnd
  <2>3. \A i \in 1 .. Len(Stream(t)) : Stream(t)[i] = log[base[t] + i]
    BY DEF Window
  <2>4. base[t] + Len(Stream(t)) <= Len(log)
    BY <1>4 DEF Window
  <2>5. \A i \in 1 .. Len(Stream(t)) :
          Stream(t)[i] = Append(log, m)[base[t] + i]
    BY <1>2, <1>4, <2>3, <2>4, ExtendLog
  <2>6. \A i \in 1 .. Len(Stream(t)') :
          Stream(t)'[i] = log'[base'[t] + i]
    BY <1>1, <2>2, <2>5, Zenon
  <2>7. StreamEnd(t) \in Int
    <3>1. Len(Stream(t)) \in Nat
      BY <1>4
    <3>2. QED
      BY <1>2, <1>4, <3>1
  <2>8. 0 <= base'[t] /\ StreamEnd(t)' <= Len(log')
    <3>1. StreamEnd(t) <= Len(log)
      BY DEF Window
    <3>2. QED
      BY <1>1, <1>2, <2>2, <2>7, <3>1
  <2>9. QED
    BY <1>1, <1>6, <2>6, <2>8 DEF Window
<1>7. QED
  BY <1>5, <1>6

(* A newcomer's stream is the history, which ends where the log ends.      *)
LEMMA EnterWindow ==
  ASSUME TypeOK, HistoryIsTail, NEW s \in Session, Enter(s),
         wq[s] = <<>>, delivered[s] = <<>>
  PROVE  Window(s)'
<1> USE DEF TypeOK, RoomTypeOK, ReadTypeOK, WriteTypeOK
<1>1. /\ log' = log /\ base'[s] = Len(log) - Len(recent)
      /\ delivered'[s] = <<>> /\ wq'[s] = recent
      /\ recent \in Seq(Message) /\ log \in Seq(Message)
      /\ Len(log) \in Nat /\ Len(recent) \in Nat
  BY DEF Enter
<1>2. Stream(s)' = recent
  BY <1>1 DEF Stream
<1>3. StreamEnd(s)' = Len(log)
  BY <1>1 DEF StreamEnd
<1>4. Len(recent) <= Len(log)
  BY <1>1, ConstantsAssumption DEF HistoryIsTail
<1>5. ASSUME NEW i \in 1 .. Len(recent)
      PROVE  recent[i] = log[Len(log) - Len(recent) + i]
  BY DEF HistoryIsTail
<1>6. QED
  BY <1>1, <1>2, <1>3, <1>4, <1>5 DEF Window

(* Every step keeps every stream a window of the log.                      *)
LEMMA WindowStep ==
  ASSUME TypeOK, Control, HistoryIsTail, StreamIsWindow, [Next]_vars
  PROVE  StreamIsWindow'
<1> SUFFICES ASSUME NEW t \in Session
             PROVE  Window(t)'
  BY DEF StreamIsWindow, Window
<1>0. Window(t)
  BY DEF StreamIsWindow, Window
<1>1. ASSUME UNCHANGED <<log, base[t], delivered[t], wq[t]>>,
             t \in members' => t \in members
      PROVE  Window(t)'
  BY <1>0, <1>1 DEF Window, StreamEnd, Stream
<1>2. ASSUME NEW s \in Session, OnAccept(s)
      PROVE  Window(t)'
  <2>1. CASE t = s
    <3>1. wq[s] = <<>> /\ delivered[s] = <<>> /\ Enter(s)
      BY <1>2 DEF OnAccept, Control, Fresh
    <3>2. QED
      BY <2>1, <3>1, EnterWindow
  <2>2. CASE t # s
    <3>1. /\ UNCHANGED <<log, base[t], delivered[t], wq[t]>>
          /\ t \in members' => t \in members
      BY <1>2, <2>2 DEF OnAccept, Enter, TypeOK, ReadTypeOK, WriteTypeOK
    <3>2. QED
      BY <1>1, <3>1
  <2>3. QED
    BY <2>1, <2>2
<1>3. ASSUME NEW s \in Session, StopReading(s), UNCHANGED base
      PROVE  Window(t)'
  BY <1>1, <1>3 DEF StopReading, Leave, writeVars
<1>4. ASSUME NEW s \in Session, HeaderHandler(s)
      PROVE  Window(t)'
  BY <1>1, <1>3, <1>4 DEF HeaderHandler, roomVars, writeVars
<1>5. ASSUME NEW s \in Session, ReadHandler(s)
      PROVE  Window(t)'
  <2>1. [from |-> s, n |-> got[s]] \in Message
    BY DEF Message, TypeOK, ReadTypeOK
  <2>2. CASE Broadcast([from |-> s, n |-> got[s]])
    BY <1>0, <1>5, <2>1, <2>2, BroadcastWindow DEF ReadHandler
  <2>3. CASE StopReading(s)
    BY <1>3, <1>5, <2>3 DEF ReadHandler
  <2>4. QED
    BY <1>5, <2>2, <2>3 DEF ReadHandler
<1>6. ASSUME NEW s \in Session, WriteHandlerOk(s)
      PROVE  Window(t)'
  <2>1. CASE t = s
    <3>1. OneWriteOf(s) /\ written[s] > 0
      BY <1>6 DEF Control, OneWrite, WriteHandlerOk
    <3>2. /\ wq[s] # <<>> /\ wq[s] \in Seq(Message)
          /\ delivered[s] \in Seq(Message)
      BY <3>1 DEF OneWriteOf, Outstanding, TypeOK, WriteTypeOK
    <3>3. /\ wq'[s] = Tail(wq[s])
          /\ delivered'[s] = Append(delivered[s], Head(wq[s]))
      BY <1>6 DEF WriteHandlerOk, TypeOK, WriteTypeOK
    <3>4. Stream(s)' = Stream(s)
      <4>1. Stream(s)' = Append(delivered[s], Head(wq[s])) \o Tail(wq[s])
        BY <3>3, Zenon DEF Stream
      <4>2. QED
        BY <3>2, <4>1, MoveFront, Zenon DEF Stream
    <3>5. /\ Len(wq'[s]) = Len(wq[s]) - 1
          /\ Len(delivered'[s]) = Len(delivered[s]) + 1
          /\ Len(wq[s]) \in Nat /\ Len(delivered[s]) \in Nat
      BY <3>2, <3>3
    <3>6. base'[s] = base[s] /\ base[s] \in Int
      BY <1>6 DEF WriteHandlerOk, TypeOK, ReadTypeOK
    <3>7. StreamEnd(s)' = StreamEnd(s)
      BY <3>5, <3>6 DEF StreamEnd
    <3>8. log' = log /\ members' = members
      BY <1>6 DEF WriteHandlerOk, roomVars
    <3>9. QED
      BY <1>0, <2>1, <3>4, <3>6, <3>7, <3>8, Zenon DEF Window
  <2>2. CASE t # s
    <3>1. /\ UNCHANGED <<log, base[t], delivered[t], wq[t]>>
          /\ members' = members
      BY <1>6, <2>2 DEF WriteHandlerOk, TypeOK, WriteTypeOK, roomVars
    <3>2. QED
      BY <1>1, <3>1
  <2>3. QED
    BY <2>1, <2>2
<1>7. ASSUME NEW s \in Session, WriteHandlerErr(s)
      PROVE  Window(t)'
  BY <1>1, <1>7 DEF WriteHandlerErr, Leave
<1>8. CASE UNCHANGED <<log, base, delivered, wq, members>>
  BY <1>1, <1>8
<1>9. QED
  BY <1>2, <1>4, <1>5, <1>6, <1>7, <1>8
  DEF Next, Handlers, Environment, CheckDeadline, Connect, PeerDrops,
      HeaderArrives, BodyArrives, ReadFails, WriteDone, WriteFails,
      DeadlinePasses, TimerFires, vars, roomVars, writeVars

-----------------------------------------------------------------------------
(* The inductive invariant and what follows from it.                       *)

IInv == TypeOK /\ Control /\ HistoryIsTail /\ StreamIsWindow

(* The inductive invariant holds at first.                                 *)
LEMMA IInvInit == Init => IInv
<1> SUFFICES ASSUME Init
             PROVE  IInv
  OBVIOUS
<1>1. TypeOK
  BY ConstantsAssumption
  DEF Init, TypeOK, RoomTypeOK, ReadTypeOK, WriteTypeOK, TimerTypeOK, ReadState
<1>2. Control
  BY DEF Init, Control, Fresh, OneWrite, OneWriteOf, Outstanding, OneWatchdog,
         MemberIsRead, DeadlineFollowsRead
<1>3. HistoryIsTail
  BY ConstantsAssumption DEF Init, HistoryIsTail
<1>4. StreamIsWindow
  <2> SUFFICES ASSUME NEW s \in Session
               PROVE  Window(s)
    BY DEF StreamIsWindow, Window
  <2>1. delivered[s] = <<>> /\ wq[s] = <<>> /\ base[s] = 0 /\ log = <<>>
        /\ s \notin members
    BY DEF Init
  <2>2. Stream(s) = <<>> /\ StreamEnd(s) = 0
    BY <2>1 DEF Stream, StreamEnd
  <2>3. QED
    BY <2>1, <2>2 DEF Window
<1>5. QED
  BY <1>1, <1>2, <1>3, <1>4 DEF IInv

(* The inductive invariant is kept by every step.                          *)
LEMMA IInvStep == IInv /\ [Next]_vars => IInv'
<1> SUFFICES ASSUME IInv, [Next]_vars
             PROVE  IInv'
  OBVIOUS
<1>1. TypeOK /\ Control /\ HistoryIsTail /\ StreamIsWindow
  BY DEF IInv
<1>2. Fresh /\ OneWrite
  BY <1>1 DEF Control
<1>3. TypeOK'
  BY <1>1, <1>2, TypeStep
<1>4. Control'
  BY <1>1, <1>2, FreshStep, OneWriteStep, OneWatchdogStep, MemberIsReadStep,
     DeadlineFollowsReadStep DEF Control
<1>5. HistoryIsTail' /\ StreamIsWindow'
  BY <1>1, HistoryStep, WindowStep
<1>6. QED
  BY <1>3, <1>4, <1>5 DEF IInv

(* All of it holds in every reachable state.                               *)
THEOREM Invariance == Spec => []IInv
BY IInvInit, IInvStep, PTL DEF Spec

(* Every variable holds a value of its kind, and the history never exceeds *)
(* max_recent_msgs.                                                        *)
THEOREM TypeCorrect == Spec => []TypeOK
<1>1. IInv => TypeOK
  BY DEF IInv
<1>2. QED
  BY <1>1, Invariance, PTL

(* Broadcast and Enter keep recent_msgs_ equal to the last broadcasts.     *)
THEOREM HistoryCorrect == Spec => []HistoryIsTail
<1>1. IInv => HistoryIsTail
  BY DEF IInv
<1>2. QED
  BY <1>1, Invariance, PTL

(* OnMessage and WriteHandler never overlap two writes of a session and    *)
(* never leave a member's queue without one.                               *)
THEOREM WritesInOrder == Spec => []OneWrite
<1>1. IInv => OneWrite
  BY DEF IInv, Control
<1>2. QED
  BY <1>1, Invariance, PTL

(* CheckDeadline neither stops nor multiplies.                             *)
THEOREM WatchdogAlive == Spec => []OneWatchdog
<1>1. IInv => OneWatchdog
  BY DEF IInv, Control
<1>2. QED
  BY <1>1, Invariance, PTL

(* A session from which nothing is read is out of the room.                *)
THEOREM MembersAreRead == Spec => []MemberIsRead
<1>1. IInv => MemberIsRead
  BY DEF IInv, Control
<1>2. QED
  BY <1>1, Invariance, PTL

(* The deadline runs over body reads and over nothing else.                *)
THEOREM ReadsWatched == Spec => []DeadlineFollowsRead
<1>1. IInv => DeadlineFollowsRead
  BY DEF IInv, Control
<1>2. QED
  BY <1>1, Invariance, PTL

(* Whatever joins, leaves and writes overlap, every peer is sent a run of  *)
(* consecutive broadcasts, up to the last one while it is a member.        *)
THEOREM DeliveryInOrder == Spec => []StreamIsWindow
<1>1. IInv => StreamIsWindow
  BY DEF IInv
<1>2. QED
  BY <1>1, Invariance, PTL

(* No step of the server closes the socket of a peer that is between       *)
(* packets, whatever CheckDeadlines are queued.                            *)
THEOREM IdlePeersStay == Spec => NoIdleDisconnect
<1> DEFINE A == \A s \in Session : conn[s] # "closed" /\ conn'[s] = "closed"
                  => rd[s] \notin {"new", "hdrWait", "hdrOk"}
<1>1. IInv /\ [Next]_vars => [A]_vars
  <2> SUFFICES ASSUME IInv, [Next]_vars, NEW t \in Session,
                      conn[t] # "closed", conn'[t] = "closed"
               PROVE  rd[t] \notin {"new", "hdrWait", "hdrOk"}
    OBVIOUS
  <2>1. conn \in [Session -> {"none", "up", "broken", "closed"}]
    BY DEF IInv, TypeOK, ReadTypeOK
  <2>2. ASSUME NEW s \in Session, CheckDeadline(s)
        PROVE  rd[t] \notin {"new", "hdrWait", "hdrOk"}
    <3>1. CASE deadline[s] = "past" /\ CloseSocket(s)
      <4>1. t = s
        BY <2>1, <3>1 DEF CloseSocket
      <4>2. QED
        BY <3>1, <4>1 DEF IInv, Control, DeadlineFollowsRead
    <3>2. CASE conn' = conn
      BY <3>2
    <3>3. QED
      BY <2>2, <3>1, <3>2 DEF CheckDeadline
  <2>3. ASSUME NEW s \in Session, Connect(s) \/ PeerDrops(s)
        PROVE  FALSE
    BY <2>1, <2>3 DEF Connect, PeerDrops
  <2>4. CASE UNCHANGED conn
    BY <2>4
  <2>5. QED
    BY <2>2, <2>3, <2>4
    DEF Next, Handlers, Environment, OnAccept, HeaderHandler, ReadHandler,
        WriteHandlerOk, WriteHandlerErr, HeaderArrives, BodyArrives, ReadFails,
        WriteDone, WriteFails, DeadlinePasses, TimerFires, vars
<1>2. QED
  BY <1>1, Invariance, PTL DEF Spec, NoIdleDisconnect

-----------------------------------------------------------------------------
(* The server starts as the relay does.                                    *)
LEMMA RelayInit == Init => Relay!Init
BY DEF Init, Relay!Init, Joined, Ends, StreamEnd

(* Where only one session's rd changes, and not from or to "new", the same *)
(* sessions have joined.                                                   *)
LEMMA RelayStep ==
  ASSUME IInv, [Next]_vars
  PROVE  [Relay!Next]_(Relay!vars)
<1> USE DEF IInv, TypeOK, RoomTypeOK, ReadTypeOK, WriteTypeOK, ReadState
<1>1. ASSUME UNCHANGED <<log, Joined, members, base, Ends, delivered>>
      PROVE  UNCHANGED Relay!vars
  BY <1>1 DEF Relay!vars
<1>2. ASSUME NEW s \in Session, OnAccept(s)
      PROVE  Relay!Join(s)
  <2>1. s \notin Joined
    BY <1>2 DEF OnAccept, Joined
  <2>2. Joined' = Joined \cup {s}
    BY <1>2 DEF OnAccept, StartRead, Joined
  <2>3. members' = members \cup {s} /\ UNCHANGED <<log, delivered>>
    BY <1>2 DEF OnAccept, Enter
  <2>4. Len(recent) = IF Len(log) < MaxRecent THEN Len(log) ELSE MaxRecent
    BY DEF HistoryIsTail
  <2>5. base' = [base EXCEPT ![s] =
                   IF Len(log) > MaxRecent THEN Len(log) - MaxRecent ELSE 0]
    <3>1. Len(log) \in Nat /\ MaxRecent \in Nat
      BY ConstantsAssumption
    <3>2. Len(log) - Len(recent)
            = IF Len(log) > MaxRecent THEN Len(log) - MaxRecent ELSE 0
      <4>1. ASSUME NEW l \in Nat, NEW k \in Nat, NEW r,
                   r = IF l < k THEN l ELSE k
            PROVE  l - r = IF l > k THEN l - k ELSE 0
        BY <4>1
      <4>2. QED
        BY <2>4, <3>1, <4>1
    <3>3. base' = [base EXCEPT ![s] = Len(log) - Len(recent)]
      BY <1>2 DEF OnAccept, Enter
    <3>4. QED
      BY <3>2, <3>3
  <2>6. Ends' = [Ends EXCEPT ![s] = Len(log)]
    <3>1. wq[s] = <<>> /\ delivered[s] = <<>> /\ Enter(s)
      BY <1>2 DEF OnAccept, Control, Fresh
    <3>2. StreamEnd(s)' = Len(log)
      <4>1. /\ base'[s] = Len(log) - Len(recent) /\ delivered'[s] = <<>>
            /\ wq'[s] = recent /\ Len(log) \in Nat /\ Len(recent) \in Nat
        BY <3>1 DEF Enter
      <4>2. QED
        BY <4>1 DEF StreamEnd
    <3>3. ASSUME NEW t \in Session, t # s
          PROVE  StreamEnd(t)' = StreamEnd(t)
      BY <3>1, <3>3 DEF Enter, StreamEnd
    <3>4. QED
      BY <3>2, <3>3 DEF Ends
  <2>7. QED
    BY <2>1, <2>2, <2>3, <2>5, <2>6 DEF Relay!Join
<1>3. ASSUME NEW s \in Session, StopReading(s), rd[s] # "new", UNCHANGED base
      PROVE  Relay!Quit(s)
  <2>1. Joined' = Joined
    BY <1>3 DEF StopReading, Joined
  <2>2. Ends' = Ends
    BY <1>3 DEF StopReading, writeVars, Ends, StreamEnd
  <2>3. QED
    BY <1>3, <2>1, <2>2 DEF StopReading, Leave, writeVars, Relay!Quit
<1>4. ASSUME NEW s \in Session, HeaderHandler(s)
      PROVE  Relay!Quit(s) \/ UNCHANGED Relay!vars
  <2>1. CASE StopReading(s)
    BY <1>3, <1>4, <2>1 DEF HeaderHandler
  <2>2. CASE /\ StartRead(s, "bodyWait", "bodyErr")
             /\ UNCHANGED <<roomVars, writeVars>>
    <3>1. Joined' = Joined
      BY <1>4, <2>2 DEF HeaderHandler, StartRead, Joined
    <3>2. Ends' = Ends
      BY <1>4, <2>2 DEF HeaderHandler, writeVars, Ends, StreamEnd
    <3>3. QED
      BY <1>1, <1>4, <2>2, <3>1, <3>2 DEF HeaderHandler, roomVars, writeVars
  <2>3. QED
    BY <1>4, <2>1, <2>2 DEF HeaderHandler
<1>5. ASSUME NEW s \in Session, ReadHandler(s)
      PROVE  Relay!Quit(s) \/ Relay!Post
  <2>1. CASE StopReading(s)
    BY <1>3, <1>5, <2>1 DEF ReadHandler
  <2>2. CASE /\ Broadcast([from |-> s, n |-> got[s]])
             /\ StartRead(s, "hdrWait", "hdrErr")
    <3> DEFINE m == [from |-> s, n |-> got[s]]
    <3>1. m \in Message
      BY DEF Message
    <3>2. log' = Append(log, m) /\ UNCHANGED <<members, delivered, base>>
      BY <1>5, <2>2 DEF ReadHandler, Broadcast
    <3>3. log' # <<>> /\ log'[Len(log')] = m
      <4>1. ASSUME NEW l \in Seq(Message), NEW x \in Message
            PROVE  /\ Append(l, x) # <<>>
                   /\ Append(l, x)[Len(Append(l, x))] = x
        <5>1. Len(Append(l, x)) = Len(l) + 1 /\ Len(l) \in Nat
          OBVIOUS
        <5>2. Append(l, x)[Len(l) + 1] = x
          OBVIOUS
        <5>3. Append(l, x) # <<>>
          <6>1. Len(<<>>) = 0 /\ Len(l) + 1 # 0
            BY <5>1
          <6>2. QED
            BY <5>1, <6>1, Zenon
        <5>4. QED
          BY <5>1, <5>2, <5>3
      <4>2. QED
        BY <3>1, <3>2, <4>1
    <3>4. Joined' = Joined
      BY <1>5, <2>2 DEF ReadHandler, StartRead, Joined
    <3>5. ASSUME NEW t \in Session
          PROVE  StreamEnd(t)' = IF t \in members THEN Len(log) + 1 ELSE StreamEnd(t)
      <4>1. Window(t)
        BY DEF StreamIsWindow, Window
      <4>2. CASE t \in members
        <5>1. Window(t)'
          BY <2>2, <3>1, <3>2, <4>1, BroadcastWindow
        <5>2. Len(log') = Len(log) + 1
          BY <3>1, <3>2
        <5>3. QED
          BY <3>2, <4>2, <5>1, <5>2 DEF Window
      <4>3. CASE t \notin members
        BY <2>2, <3>2, <4>3 DEF Broadcast, OnMessage, StreamEnd
      <4>4. QED
        BY <4>2, <4>3
    <3>6. Ends' = [t \in Session |->
                     IF t \in members THEN Len(log) + 1 ELSE Ends[t]]
      BY <3>5, Zenon DEF Ends
    <3>7. QED
      BY <3>1, <3>2, <3>3, <3>4, <3>6 DEF Relay!Post
  <2>3. QED
    BY <1>5, <2>1, <2>2 DEF ReadHandler
<1>6. ASSUME NEW s \in Session, WriteHandlerOk(s)
      PROVE  Relay!Deliver(s)
  <2>1. OneWriteOf(s) /\ written[s] > 0
    BY <1>6 DEF Control, OneWrite, WriteHandlerOk
  <2>2. /\ wq[s] # <<>> /\ wq[s] \in Seq(Message)
        /\ delivered[s] \in Seq(Message) /\ base[s] \in Int
        /\ Len(wq[s]) \in Nat /\ Len(delivered[s]) \in Nat
    BY <2>1 DEF OneWriteOf, Outstanding
  <2>3. Len(wq[s]) > 0
    BY <2>2
  <2>4. Window(s)
    BY DEF StreamIsWindow, Window
  <2>5. base[s] + Len(delivered[s]) + 1 <= Ends[s]
    BY <2>2, <2>3 DEF Ends, StreamEnd
  <2>6. Head(wq[s]) = log[base[s] + Len(delivered[s]) + 1]
    <3>1. Len(delivered[s]) + 1 \in 1 .. Len(Stream(s))
      BY <2>2, <2>3 DEF Stream
    <3>2. Stream(s)[Len(delivered[s]) + 1] = Head(wq[s])
      BY <2>2, <2>3 DEF Stream
    <3>3. Stream(s)[Len(delivered[s]) + 1] = log[base[s] + (Len(delivered[s]) + 1)]
      BY <2>4, <3>1 DEF Window
    <3>4. base[s] + (Len(delivered[s]) + 1) = base[s] + Len(delivered[s]) + 1
      BY <2>2
    <3>5. QED
      BY <3>2, <3>3, <3>4
  <2>7. /\ delivered' = [delivered EXCEPT ![s] = Append(@, Head(wq[s]))]
        /\ UNCHANGED <<log, members, base, rd>>
    BY <1>6 DEF WriteHandlerOk, roomVars
  <2>8. Ends' = Ends
    <3>1. ASSUME NEW t \in Session
          PROVE  StreamEnd(t)' = StreamEnd(t)
      <4>1. CASE t = s
        <5>1. /\ wq'[s] = Tail(wq[s])
              /\ delivered'[s] = Append(delivered[s], Head(wq[s]))
          BY <1>6 DEF WriteHandlerOk
        <5>2. /\ Len(wq'[s]) = Len(wq[s]) - 1
              /\ Len(delivered'[s]) = Len(delivered[s]) + 1
          BY <2>2, <5>1
        <5>3. QED
          BY <2>2, <2>7, <4>1, <5>2 DEF StreamEnd
      <4>2. CASE t # s
        BY <1>6, <4>2 DEF WriteHandlerOk, StreamEnd
      <4>3. QED
        BY <4>1, <4>2
    <3>2. QED
      BY <3>1, Zenon DEF Ends
  <2>9. Joined' = Joined
    BY <2>7 DEF Joined
  <2>10. QED
    BY <2>5, <2>6, <2>7, <2>8, <2>9 DEF Relay!Deliver
<1>7. ASSUME NEW s \in Session, WriteHandlerErr(s)
      PROVE  Relay!Quit(s)
  BY <1>7 DEF WriteHandlerErr, Leave, Joined, Ends, StreamEnd, Relay!Quit
<1>8. ASSUME NEW s \in Session, CheckDeadline(s)
      PROVE  UNCHANGED Relay!vars
  <2>1. Joined' = Joined
    BY <1>8, SMTT(30) DEF CheckDeadline, CloseSocket, Joined
  <2>2. Ends' = Ends
    BY <1>8 DEF CheckDeadline, Ends, StreamEnd
  <2>3. QED
    BY <1>1, <1>8, <2>1, <2>2 DEF CheckDeadline, roomVars
<1>9. ASSUME NEW s \in Session, Environment(s)
      PROVE  UNCHANGED Relay!vars
  <2>1. Joined' = Joined
    BY <1>9 DEF Environment, Connect, PeerDrops, HeaderArrives, BodyArrives,
      ReadFails, WriteDone, WriteFails, DeadlinePasses, TimerFires, Joined
  <2>2. UNCHANGED <<log, members, base, wq, delivered>>
    BY <1>9 DEF Environment, Connect, PeerDrops, HeaderArrives, BodyArrives,
      ReadFails, WriteDone, WriteFails, DeadlinePasses, TimerFires, roomVars,
      writeVars
  <2>3. Ends' = Ends
    BY <2>2 DEF Ends, StreamEnd
  <2>4. QED
    BY <1>1, <2>1, <2>2, <2>3
<1>10. CASE UNCHANGED vars
  BY <1>1, <1>10
  DEF vars, roomVars, writeVars, Joined, Ends, StreamEnd
<1>11. QED
  BY <1>2, <1>4, <1>5, <1>6, <1>7, <1>8, <1>9, <1>10
  DEF Next, Handlers, Relay!Next

(* Every behaviour of the server, seen through what its sessions have been *)
(* given, is a behaviour of the relay.                                     *)
THEOREM ServerImplementsRelay == Spec => RelaySpec
<1>1. IInv /\ [Next]_vars => [Relay!Next]_(Relay!vars)
  BY RelayStep
<1>2. QED
  BY RelayInit, <1>1, Invariance, PTL DEF Spec, RelaySpec, Relay!Spec

-----------------------------------------------------------------------------
(* Every body is broadcast once.                                           *)

(* Broadcasts carry numbers of bodies that were read, and the body that is *)
(* in read_msg_ has not been broadcast.                                    *)
Numbered ==
  \A i \in 1 .. Len(log) :
    /\ log[i].n <= got[log[i].from]
    /\ rd[log[i].from] = "bodyOk" => log[i].n < got[log[i].from]

(* Every step keeps the bodies of each sender numbered in order.           *)
LEMMA NumberedStep ==
  ASSUME TypeOK, TypeOK', Numbered, BroadcastOnce, [Next]_vars
  PROVE  Numbered' /\ BroadcastOnce'
<1> USE DEF TypeOK, RoomTypeOK, ReadTypeOK, ReadState
<1>0. \A i \in 1 .. Len(log) : log[i] \in Message
  OBVIOUS
<1>1. ASSUME NEW s \in Session, BodyArrives(s)
      PROVE  Numbered' /\ BroadcastOnce'
  <2>1. /\ log' = log /\ rd[s] = "bodyWait"
        /\ rd' = [rd EXCEPT ![s] = "bodyOk"]
        /\ got' = [got EXCEPT ![s] = @ + 1]
    BY <1>1 DEF BodyArrives, roomVars
  <2>2. Numbered'
    <3> SUFFICES ASSUME NEW i \in 1 .. Len(log)
                 PROVE  /\ log[i].n <= got'[log[i].from]
                        /\ rd'[log[i].from] = "bodyOk"
                             => log[i].n < got'[log[i].from]
      BY <2>1 DEF Numbered
    <3>1. log[i].from \in Session /\ log[i].n \in Nat
      BY <1>0 DEF Message
    <3>2. CASE log[i].from = s
      BY <2>1, <3>1, <3>2 DEF Numbered
    <3>3. CASE log[i].from # s
      BY <2>1, <3>1, <3>3 DEF Numbered
    <3>4. QED
      BY <3>2, <3>3
  <2>3. ASSUME NEW t \in Session, NEW n \in 1 .. got'[t]
        PROVE  \/ n = got'[t] /\ rd'[t] = "bodyOk"
               \/ \E i \in 1 .. Len(log) : log[i] = [from |-> t, n |-> n]
    <3>1. CASE t = s /\ n = got'[t]
      BY <2>1, <3>1
    <3>2. CASE ~(t = s /\ n = got'[t])
      <4>1. n \in 1 .. got[t] /\ (rd'[t] = rd[t] \/ t = s)
        BY <2>1, <3>2
      <4>2. \/ n = got[t] /\ rd[t] = "bodyOk"
            \/ \E i \in 1 .. Len(log) : log[i] = [from |-> t, n |-> n]
        BY <4>1 DEF BroadcastOnce
      <4>3. CASE n = got[t] /\ rd[t] = "bodyOk"
        BY <2>1, <4>3
      <4>4. QED
        BY <4>2, <4>3
    <3>3. QED
      BY <3>1, <3>2
  <2>4. QED
    BY <2>1, <2>2, <2>3, SMTT(30) DEF BroadcastOnce
<1>2. ASSUME NEW s \in Session, rd[s] = "bodyOk",
             log' = Append(log, [from |-> s, n |-> got[s]]), got' = got,
             rd' = [rd EXCEPT ![s] = rd'[s]], rd'[s] # "bodyOk"
      PROVE  Numbered' /\ BroadcastOnce'
  <2> DEFINE m == [from |-> s, n |-> got[s]]
  <2>1. m \in Message /\ Len(log) \in Nat
    BY DEF Message
  <2>2. /\ Len(log') = Len(log) + 1 /\ log'[Len(log) + 1] = m
        /\ \A i \in 1 .. Len(log) : log'[i] = log[i]
    BY <1>2, <2>1
  <2>3. ASSUME NEW i \in 1 .. Len(log')
        PROVE  i \in 1 .. Len(log) \/ i = Len(log) + 1
    BY <2>1, <2>2
  <2>4. ASSUME NEW i \in 1 .. Len(log')
        PROVE  /\ log'[i].n <= got'[log'[i].from]
               /\ rd'[log'[i].from] = "bodyOk" => log'[i].n < got'[log'[i].from]
    <3>1. CASE i \in 1 .. Len(log)
      <4>1. log'[i] = log[i] /\ log[i] \in Message
        BY <1>0, <2>2, <3>1
      <4>2. log[i].from \in Session /\ log[i].n \in Nat
        BY <4>1 DEF Message
      <4>3. /\ log[i].n <= got[log[i].from]
            /\ rd[log[i].from] = "bodyOk" => log[i].n < got[log[i].from]
        BY <3>1 DEF Numbered
      <4>4. rd'[log[i].from] = "bodyOk" => rd[log[i].from] = "bodyOk"
        BY <1>2, <4>2
      <4>5. QED
        BY <1>2, <4>1, <4>3, <4>4
    <3>2. CASE i = Len(log) + 1
      BY <1>2, <2>2, <3>2
    <3>3. QED
      BY <2>3, <3>1, <3>2
  <2>5. ASSUME NEW i \in 1 .. Len(log'), NEW j \in 1 .. Len(log'),
               i < j, log'[i].from = log'[j].from
        PROVE  log'[i].n < log'[j].n
    <3>1. i \in 1 .. Len(log)
      BY <2>1, <2>2, <2>5
    <3>2. log'[i] = log[i]
      BY <2>2, <3>1
    <3>3. CASE j \in 1 .. Len(log)
      BY <2>2, <2>5, <3>1, <3>2, <3>3 DEF BroadcastOnce
    <3>4. CASE j = Len(log) + 1
      <4>1. log'[j] = m
        BY <2>2, <3>4
      <4>2. log[i].from = s
        BY <2>5, <3>2, <4>1
      <4>3. log[i].n < got[s]
        BY <1>2, <3>1, <4>2 DEF Numbered
      <4>4. QED
        BY <3>2, <4>1, <4>3
    <3>5. QED
      BY <2>3, <3>3, <3>4
  <2>6. ASSUME NEW t \in Session, NEW n \in 1 .. got'[t]
        PROVE  \/ n = got'[t] /\ rd'[t] = "bodyOk"
               \/ \E i \in 1 .. Len(log') : log'[i] = [from |-> t, n |-> n]
    <3>1. CASE t = s /\ n = got[t]
      <4>1. Len(log) + 1 \in 1 .. Len(log')
        BY <2>1, <2>2
      <4>2. QED
        BY <2>2, <3>1, <4>1
    <3>2. CASE ~(t = s /\ n = got[t])
      <4>1. CASE n = got[t] /\ rd[t] = "bodyOk"
        BY <1>2, <3>2, <4>1
      <4>2. CASE \E i \in 1 .. Len(log) : log[i] = [from |-> t, n |-> n]
        <5>1. PICK i \in 1 .. Len(log) : log[i] = [from |-> t, n |-> n]
          BY <4>2
        <5>2. i \in 1 .. Len(log') /\ log'[i] = log[i]
          BY <2>1, <2>2
        <5>3. QED
          BY <5>1, <5>2
      <4>3. QED
        BY <1>2, <4>1, <4>2 DEF BroadcastOnce
    <3>3. QED
      BY <3>1, <3>2
  <2>7. QED
    BY <2>4, <2>5, <2>6 DEF Numbered, BroadcastOnce
<1>3. ASSUME UNCHANGED <<log, got>>,
             \A t \in Session : rd'[t] = "bodyOk" <=> rd[t] = "bodyOk"
      PROVE  Numbered' /\ BroadcastOnce'
  <2>1. \A i \in 1 .. Len(log) : log[i].from \in Session
    BY <1>0 DEF Message
  <2>2. Numbered'
    BY <1>3, <2>1 DEF Numbered
  <2>3. ASSUME NEW t \in Session, NEW n \in 1 .. got[t]
        PROVE  \/ n = got[t] /\ rd'[t] = "bodyOk"
               \/ \E i \in 1 .. Len(log) : log[i] = [from |-> t, n |-> n]
    <3>1. \/ n = got[t] /\ rd[t] = "bodyOk"
          \/ \E i \in 1 .. Len(log) : log[i] = [from |-> t, n |-> n]
      BY DEF BroadcastOnce
    <3>2. QED
      BY <1>3, <3>1
  <2>4. BroadcastOnce'
    BY <1>3, <2>3 DEF BroadcastOnce
  <2>5. QED
    BY <2>2, <2>4
<1>4. ASSUME NEW s \in Session, ReadHandler(s)
      PROVE  Numbered' /\ BroadcastOnce'
  <2>1. CASE rd[s] = "bodyOk"
    BY <1>2, <1>4, <2>1 DEF ReadHandler, Broadcast, StartRead
  <2>2. CASE rd[s] = "bodyErr"
    BY <1>3, <1>4, <2>2 DEF ReadHandler, StopReading
  <2>3. QED
    BY <1>4, <2>1, <2>2 DEF ReadHandler
<1>5. ASSUME NEW s \in Session, OnAccept(s)
      PROVE  Numbered' /\ BroadcastOnce'
  BY <1>3, <1>5 DEF OnAccept, StartRead, Enter
<1>6. ASSUME NEW s \in Session, HeaderHandler(s)
      PROVE  Numbered' /\ BroadcastOnce'
  <2>1. \A t \in Session : rd'[t] = "bodyOk" <=> rd[t] = "bodyOk"
    BY <1>6 DEF HeaderHandler, StartRead, StopReading
  <2>2. QED
    BY <1>3, <1>6, <2>1 DEF HeaderHandler, StopReading, roomVars
<1>7. ASSUME NEW s \in Session, CheckDeadline(s)
      PROVE  Numbered' /\ BroadcastOnce'
  <2>1. \A t \in Session : rd'[t] = "bodyOk" <=> rd[t] = "bodyOk"
    BY <1>7 DEF CheckDeadline, CloseSocket
  <2>2. QED
    BY <1>3, <1>7, <2>1 DEF CheckDeadline, roomVars
<1>8. ASSUME NEW s \in Session, HeaderArrives(s) \/ ReadFails(s)
      PROVE  Numbered' /\ BroadcastOnce'
  BY <1>3, <1>8 DEF HeaderArrives, ReadFails, roomVars
<1>9. CASE UNCHANGED <<log, got, rd>>
  BY <1>3, <1>9
<1>10. QED
  BY <1>1, <1>4, <1>5, <1>6, <1>7, <1>8, <1>9
  DEF Next, Handlers, Environment, WriteHandlerOk, WriteHandlerErr, Connect,
      PeerDrops, WriteDone, WriteFails, DeadlinePasses, TimerFires, vars,
      roomVars

(* No body that was read is lost, repeated or overtaken by a later one of  *)
(* the same peer on its way into the room.                                 *)
THEOREM EveryBodyOnce == Spec => []BroadcastOnce
<1>1. Init => Numbered /\ BroadcastOnce
  BY DEF Init, Numbered, BroadcastOnce
<1>2. IInv /\ IInv' /\ Numbered /\ BroadcastOnce /\ [Next]_vars
        => (Numbered /\ BroadcastOnce)'
  BY NumberedStep DEF IInv
<1>3. QED
  BY <1>1, <1>2, Invariance, PTL DEF Spec
=============================================================================
