-------------------------- MODULE SelectServerProofs --------------------------
(***************************************************************************)
(* Proofs about SelectServer for every size of the table, any connections  *)
(* and any number of lines: a descriptor that the walk comes to means what *)
(* it meant when select returned.                                          *)
(***************************************************************************)
EXTENDS SelectServer, TLAPS

IInv == TypeOK /\ TableIsOpen /\ SeenIsSame

(* The descriptors of clients are neither of the other two, nor free.      *)
LEMMA ClientFdsApart ==
  /\ Stdin \notin ClientFds /\ Listener \notin ClientFds /\ Free \notin ClientFds
  /\ ClientFds \subseteq Int
BY ConstantsAssumption DEF Stdin, Listener, Free, ClientFds

(* The table is a set of descriptors of clients.                           *)
LEMMA TabledIsFds ==
  ASSUME TypeOK
  PROVE  Tabled \subseteq ClientFds
BY DEF TypeOK, Tabled

(* select reports clients that are in the table only.                      *)
LEMMA ReadableIsTabled ==
  ASSUME TypeOK
  PROVE  /\ Readable \subseteq {Stdin, Listener} \cup ClientFds
         /\ Readable \cap ClientFds \subseteq Tabled
BY TabledIsFds, ClientFdsApart DEF Readable

-----------------------------------------------------------------------------
LEMMA InitInv == Init => IInv
<1> SUFFICES ASSUME Init PROVE IInv
  OBVIOUS
<1>1. TypeOK
  <2>1. typed \in 0 .. MaxTyped
    BY ConstantsAssumption DEF Init
  <2>2. eof \in BOOLEAN
    BY DEF Init
  <2>3. ready \subseteq {Stdin, Listener} \cup ClientFds
    BY DEF Init
  <2>4. slot \in 0 .. MaxClients /\ slot = MaxClients
    BY ConstantsAssumption DEF Init
  <2>5. full \subseteq Connections /\ data \subseteq Connections
    BY DEF Init
  <2>6. QED
    BY <2>1, <2>2, <2>3, <2>4, <2>5 DEF Init, TypeOK
<1>2. TableIsOpen
  BY ClientFdsApart DEF Init, TableIsOpen, Tabled
<1>3. SeenIsSame
  BY DEF Init, SeenIsSame
<1>4. QED
  BY <1>1, <1>2, <1>3 DEF IInv

(* What leaves the table and the descriptors alone keeps both in step, and *)
(* a walk that goes on over no more than it had before keeps what it saw.  *)
LEMMA Untouched ==
  ASSUME IInv, UNCHANGED <<client_fds, conn, seen>>,
         ready' \subseteq ready, pc' \in {"walk", "send"} => pc \in {"walk", "send"}
  PROVE  TableIsOpen' /\ SeenIsSame'
<1>1. TableIsOpen'
  BY DEF IInv, TableIsOpen, Tabled
<1>2. SeenIsSame'
  BY DEF IInv, SeenIsSame
<1>3. QED
  BY <1>1, <1>2

LEMMA SelectInv ==
  ASSUME IInv, Select
  PROVE  IInv'
<1>1. TypeOK'
  BY ReadableIsTabled DEF IInv, TypeOK, Select, lineVars
<1>2. TableIsOpen'
  BY DEF IInv, TableIsOpen, Tabled, Select
<1>3. SeenIsSame'
  BY ReadableIsTabled DEF IInv, TableIsOpen, SeenIsSame, Select
<1>4. QED
  BY <1>1, <1>2, <1>3 DEF IInv

(* A new connection takes a descriptor that is not open, which the walk is *)
(* therefore not going to reach.                                           *)
LEMMA AcceptInv ==
  ASSUME IInv, NEW c \in Connections, NEW fd \in ClientFds, NEW j \in Slots,
         Accept(c, fd, j)
  PROVE  IInv'
<1>1. TypeOK'
  BY DEF IInv, TypeOK, Accept, At, lineVars
<1>2. fd \notin Tabled
  BY DEF IInv, TableIsOpen, Accept
<1>3. Tabled' = Tabled \cup {fd}
  <2>1. client_fds' = [client_fds EXCEPT ![j] = fd] /\ client_fds[j] = Free
    BY DEF Accept
  <2>2. client_fds \in [Slots -> ClientFds \cup {Free}]
    BY DEF IInv, TypeOK
  <2>3. QED
    BY <2>1, <2>2, ClientFdsApart DEF Tabled
<1>4. TableIsOpen'
  <2>1. Tabled' = {other \in ClientFds : conn'[other] # Nobody}
    BY <1>3, NobodyAssumption DEF IInv, TypeOK, TableIsOpen, Accept
  <2>2. \A i, k \in Slots :
          client_fds'[i] = client_fds'[k] => i = k \/ client_fds'[i] = Free
    BY <1>2 DEF IInv, TypeOK, TableIsOpen, Accept, Tabled
  <2>3. QED
    BY <2>1, <2>2 DEF TableIsOpen
<1>5. SeenIsSame'
  BY DEF IInv, TypeOK, SeenIsSame, Accept, At
<1>6. QED
  BY <1>1, <1>4, <1>5 DEF IInv

(* A descriptor that is closed leaves the table, and the walk has passed   *)
(* it.                                                                     *)
LEMMA RecvEndsInv ==
  ASSUME IInv, NEW fd \in ClientFds, RecvEnds(fd)
  PROVE  IInv'
<1>1. TypeOK'
  BY DEF IInv, TypeOK, RecvEnds, At, lineVars
<1>2. Tabled' = Tabled \ {fd}
  BY ClientFdsApart DEF IInv, TypeOK, RecvEnds, Tabled
<1>3. TableIsOpen'
  <2>1. Tabled' = {other \in ClientFds : conn'[other] # Nobody}
    BY <1>2 DEF IInv, TypeOK, TableIsOpen, RecvEnds
  <2>2. \A i, k \in Slots :
          client_fds'[i] = client_fds'[k] => i = k \/ client_fds'[i] = Free
    BY DEF IInv, TypeOK, TableIsOpen, RecvEnds
  <2>3. QED
    BY <2>1, <2>2 DEF TableIsOpen
<1>4. SeenIsSame'
  BY DEF IInv, TypeOK, SeenIsSame, RecvEnds, At
<1>5. QED
  BY <1>1, <1>3, <1>4 DEF IInv

(* The sending of a line to the client of one slot.                        *)
LEMMA SendInv ==
  ASSUME IInv, NEW j \in Slots, SkipSlot(j) \/ Send(j) \/ SendFails(j)
  PROVE  IInv'
<1>1. pc = "send" /\ pc' \in {"send", "killed"} /\ slot' = j + 1
  BY DEF SkipSlot, Send, SendFails, Sending
<1>2. UNCHANGED <<client_fds, conn, peer, data, typed, eof, ready, seen>>
  BY DEF SkipSlot, Send, SendFails
<1>3. full' \subseteq Connections
  <2>1. CASE SkipSlot(j) \/ SendFails(j)
    BY <2>1 DEF IInv, TypeOK, SkipSlot, SendFails
  <2>2. CASE Send(j)
    <3>1. client_fds[j] \in ClientFds
      BY <2>2 DEF IInv, TypeOK, Send
    <3>2. conn[client_fds[j]] # Nobody
      BY <3>1, <2>2 DEF IInv, TableIsOpen, Tabled, Send
    <3>3. Receiver(j) \in Connections
      BY <3>1, <3>2 DEF IInv, TypeOK, Receiver
    <3>4. QED
      BY <2>2, <3>3 DEF IInv, TypeOK, Send
  <2>3. QED
    BY <2>1, <2>2
<1>4. slot' \in 0 .. MaxClients
  BY <1>1, ConstantsAssumption DEF Slots
<1>5. TypeOK'
  BY <1>1, <1>2, <1>3, <1>4 DEF IInv, TypeOK
<1>6. QED
  BY <1>1, <1>2, <1>5, Untouched DEF IInv

(* The other steps of the walk.                                            *)
LEMMA WalkInv ==
  ASSUME IInv,
         \/ EndWalk \/ ReadLine \/ LineSent \/ ReadEof
         \/ \E c \in Connections : Refuse(c) \/ AcceptFails(c)
         \/ \E fd \in ClientFds : Recv(fd)
  PROVE  IInv'
<1>1. TypeOK'
  <2>1. CASE EndWalk
    BY <2>1 DEF IInv, TypeOK, EndWalk, lineVars
  <2>2. CASE ReadLine
    <3>1. typed' \in 0 .. MaxTyped
      <4>1. typed \in 0 .. MaxTyped
        BY DEF IInv, TypeOK
      <4>2. typed > 0 /\ typed' = typed - 1
        BY <2>2 DEF ReadLine
      <4>3. QED
        BY <4>1, <4>2, ConstantsAssumption
    <3>2. slot' \in 0 .. MaxClients /\ pc' = "send"
      BY <2>2, ConstantsAssumption DEF ReadLine
    <3>3. ready' \subseteq ready
      BY <2>2 DEF ReadLine, At
    <3>4. UNCHANGED <<client_fds, conn, peer, data, full, eof, seen>>
      BY <2>2 DEF ReadLine
    <3>5. QED
      BY <3>1, <3>2, <3>3, <3>4 DEF IInv, TypeOK
  <2>3. CASE LineSent
    BY <2>3 DEF IInv, TypeOK, LineSent, Sending, lineVars
  <2>4. CASE ReadEof
    BY <2>4 DEF IInv, TypeOK, ReadEof, At, lineVars
  <2>5. ASSUME NEW c \in Connections, Refuse(c) \/ AcceptFails(c)
        PROVE  TypeOK'
    BY <2>5 DEF IInv, TypeOK, Refuse, AcceptFails, At, lineVars
  <2>6. ASSUME NEW fd \in ClientFds, Recv(fd)
        PROVE  TypeOK'
    BY <2>6 DEF IInv, TypeOK, Recv, At, lineVars
  <2>7. QED
    BY <2>1, <2>2, <2>3, <2>4, <2>5, <2>6
<1>2. /\ UNCHANGED <<client_fds, conn, seen>> /\ ready' \subseteq ready
      /\ pc' \in {"walk", "send"} => pc \in {"walk", "send"}
  BY DEF EndWalk, ReadLine, LineSent, ReadEof, Refuse, AcceptFails, Recv, At, Sending
<1>3. QED
  BY <1>1, <1>2, Untouched DEF IInv

(* The user and the peers.                                                 *)
LEMMA EnvironmentInv ==
  ASSUME IInv, Environment
  PROVE  IInv'
<1>1. TypeOK'
  <2>1. CASE Type
    BY <2>1, ConstantsAssumption DEF IInv, TypeOK, Type
  <2>2. CASE EndInput
    BY <2>2 DEF IInv, TypeOK, EndInput
  <2>3. ASSUME NEW c \in Connections,
               \/ Connect(c) \/ PeerCloses(c) \/ PeerBreaks(c)
               \/ PeerSends(c) \/ PeerReads(c)
        PROVE  TypeOK'
    BY <2>3 DEF IInv, TypeOK, Connect, PeerCloses, PeerBreaks, PeerSends, PeerReads,
               PeerMoves, lineVars
  <2>4. QED
    BY <2>1, <2>2, <2>3 DEF Environment
<1>2. UNCHANGED <<client_fds, conn, seen, ready, pc>>
  BY DEF Environment, Type, EndInput, Connect, PeerCloses, PeerBreaks, PeerSends, PeerReads,
         PeerMoves
<1>3. QED
  BY <1>1, <1>2, Untouched DEF IInv

LEMMA StepInv == IInv /\ [Next]_vars => IInv'
<1> SUFFICES ASSUME IInv, [Next]_vars PROVE IInv'
  OBVIOUS
<1>1. CASE Select
  BY <1>1, SelectInv
<1>2. ASSUME NEW c \in Connections, NEW fd \in ClientFds, NEW j \in Slots, Accept(c, fd, j)
      PROVE  IInv'
  BY <1>2, AcceptInv
<1>3. ASSUME NEW fd \in ClientFds, RecvEnds(fd)
      PROVE  IInv'
  BY <1>3, RecvEndsInv
<1>4. CASE \/ EndWalk \/ ReadLine \/ LineSent \/ ReadEof
           \/ \E c \in Connections : Refuse(c) \/ AcceptFails(c)
           \/ \E fd \in ClientFds : Recv(fd)
  BY <1>4, WalkInv
<1>5. ASSUME NEW j \in Slots, SkipSlot(j) \/ Send(j) \/ SendFails(j)
      PROVE  IInv'
  BY <1>5, SendInv
<1>6. CASE Environment
  BY <1>6, EnvironmentInv
<1>7. CASE UNCHANGED vars
  BY <1>7 DEF vars, lineVars, IInv, TypeOK, TableIsOpen, Tabled, SeenIsSame
<1>8. QED
  BY <1>1, <1>2, <1>3, <1>4, <1>5, <1>6, <1>7 DEF Next, Round

-----------------------------------------------------------------------------
THEOREM Invariance == Spec => []IInv
BY InitInv, StepInv, PTL DEF Spec

(* The variables keep their types: no line is sent that was not typed.     *)
THEOREM TypeCorrect == Spec => []TypeOK
<1>1. IInv => TypeOK
  BY DEF IInv
<1>2. QED
  BY <1>1, Invariance, PTL

(* main keeps client_fds and the open descriptors in step: none is leaked, *)
(* none has two slots.                                                     *)
THEOREM TableCorrect == Spec => []TableIsOpen
<1>1. IInv => TableIsOpen
  BY DEF IInv
<1>2. QED
  BY <1>1, Invariance, PTL

(* Neither what is accepted nor what send has failed for earlier in a walk *)
(* changes the connection that a reported descriptor means: recv is called *)
(* on those only that select has reported.                                 *)
THEOREM WalkCorrect == Spec => []SeenIsSame
<1>1. IInv => SeenIsSame
  BY DEF IInv
<1>2. QED
  BY <1>1, Invariance, PTL
=============================================================================
