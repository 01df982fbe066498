---------------------------- MODULE TermLoopProofs ----------------------------
(***************************************************************************)
(* Proofs about TermLoop for any number of keys, any depth of the control  *)
(* stack and any number of connections: messages go out in order, and the  *)
(* socket that is used is the one that select has reported.                *)
(***************************************************************************)
EXTENDS TermLoop, SequenceTheorems, WellFoundedInduction, TLAPS

UpTo(n) == [i \in 1 .. n |-> i]

(* EnteredIsSent without terminate, which the next key sets back: a        *)
(* message is in hand while it is sent, and when the program has ended.    *)
InOrder ==
  /\ sent \o hand \o out = UpTo(entered)
  /\ hand # <<>> => pc = "send" \/ pc \in Ended

(* What select has reported still means the same, since no descriptor is   *)
(* ever closed; and what it found readable is, until it is read.           *)
ReadyIsSeen ==
  /\ \A fd \in (readable \cup writable) \ {0} : conn[fd] # Nobody /\ conn[fd] = seen[fd]
  /\ pc \in {"keyb", "events", "read"} /\ sockfd \in readable =>
       conn[sockfd] \in inbox \/ Closed(conn[sockfd])

IInv == TypeOK /\ InsertHasText /\ InOrder /\ ReadyIsSeen

-----------------------------------------------------------------------------
(* A set of numbers below a bound has a greatest one.                      *)
LEMMA Greatest ==
  ASSUME NEW n \in Nat, NEW S \in SUBSET (0 .. n), S # {}
  PROVE  \E g \in S : \A m \in S : m <= g
<1> DEFINE T == {n - m : m \in S}
           Less == {pair \in Nat \X Nat : pair[1] < pair[2]}
<1>1. T \subseteq Nat /\ T # {}
  <2>1. \A m \in S : n - m \in Nat
    OBVIOUS
  <2>2. QED
    BY <2>1
<1>2. IsWellFoundedOn(Less, Nat)
  BY NatLessThanWellFounded DEF OpToRel
<1>3. PICK t \in T : \A u \in T : <<u, t>> \notin Less
  <2> HIDE DEF T, Less
  <2> QED BY <1>1, <1>2, WFMin
<1>4. PICK g \in S : t = n - g
  OBVIOUS
<1>5. ASSUME NEW m \in S PROVE m <= g
  <2>1. n - m \in T /\ n - m \in Nat /\ n - g \in Nat
    OBVIOUS
  <2>2. ~ (n - m < n - g)
    BY <1>3, <1>4, <2>1
  <2>3. QED
    BY <2>2
<1>6. QED
  BY <1>5

(* clearCtrlStack leaves a stack of keys.                                  *)
LEMMA ClearedIsStack ==
  ASSUME NEW stack \in Seq(Keys)
  PROVE  Cleared(stack) \in Seq(Keys)
<1> DEFINE kept == {0} \cup {i - 1 : i \in {j \in 1 .. Len(stack) : stack[j] = Backtick}}
           n == CHOOSE k \in kept : \A m \in kept : m <= k
<1>1. kept \in SUBSET (0 .. Len(stack)) /\ kept # {} /\ Len(stack) \in Nat
  OBVIOUS
<1>2. \E k \in kept : \A m \in kept : m <= k
  <2> HIDE DEF kept
  <2> QED BY <1>1, Greatest
<1>3. n \in kept
  <2> HIDE DEF kept
  <2> QED BY <1>2
<1>4. n \in 0 .. Len(stack)
  BY <1>1, <1>3
<1>5. Cleared(stack) = SubSeq(stack, 1, n)
  BY DEF Cleared
<1>6. QED
  <2> HIDE DEF n
  <2> QED BY <1>4, <1>5

(* A sequence of one element was appended to the empty one.                *)
LEMMA AppendedAlone ==
  ASSUME NEW stack \in Seq(Keys), NEW key, NEW alone, Append(stack, key) = <<alone>>
  PROVE  stack = <<>> /\ key = alone
<1>1. Len(Append(stack, key)) = Len(stack) + 1 /\ Len(<<alone>>) = 1
  OBVIOUS
<1>2. Len(stack) = 0
  BY <1>1
<1>3. stack = <<>>
  BY <1>2
<1>4. Append(stack, key)[1] = key /\ <<alone>>[1] = alone
  BY <1>3
<1>5. QED
  BY <1>3, <1>4

(* What a key that is pushed does: the stack stays one of keys, the event  *)
(* is one of the table's, and the printable key inserts only from an empty *)
(* stack, where it is not pushed.                                          *)
LEMMA PushEvent ==
  ASSUME TypeOK, NEW key \in Keys, key \notin Printable \/ ctrlStack # <<>>, Push(key)
  PROVE  /\ ctrlStack' \in Seq(Keys)
         /\ event' \in [cmd : {"none"} \cup {k.cmd : k \in keyCommands}, text : BOOLEAN]
         /\ InsertHasText'
<1> DEFINE stack == Append(ctrlStack, key)
           found == {k \in keyCommands : k.combo = stack}
<1>1. stack \in Seq(Keys)
  BY DEF TypeOK
<1>2. CASE found = {} /\ event' = NoEvent /\ ctrlStack' = stack
  BY <1>1, <1>2 DEF NoEvent, Event, InsertHasText
<1>3. ASSUME NEW k \in found, event' = Event(k.cmd, FALSE), ctrlStack' = Cleared(stack)
      PROVE  /\ ctrlStack' \in Seq(Keys)
             /\ event' \in [cmd : {"none"} \cup {c.cmd : c \in keyCommands}, text : BOOLEAN]
             /\ InsertHasText'
  <2>1. ctrlStack' \in Seq(Keys)
    BY <1>1, <1>3, ClearedIsStack
  <2>2. event' \in [cmd : {"none"} \cup {c.cmd : c \in keyCommands}, text : BOOLEAN]
    BY <1>3 DEF Event
  <2>3. k.combo # <<"k">>
    <3>1. stack = <<"k">> => ctrlStack = <<>> /\ key = "k"
      BY AppendedAlone DEF TypeOK
    <3>2. QED
      BY <3>1 DEF Printable
  <2>4. k.cmd # "insert"
    BY <2>3 DEF keyCommands
  <2>5. InsertHasText'
    BY <1>3, <2>4 DEF InsertHasText, Event
  <2>6. QED
    BY <2>1, <2>2, <2>5
<1>4. QED
  BY <1>2, <1>3 DEF Push

(* Appending to the last of two sequences appends to both.                 *)
LEMMA AppendedBehind ==
  ASSUME NEW v \in Seq(Nat), NEW u \in Seq(Nat), NEW e \in Nat
  PROVE  v \o Append(u, e) = Append(v \o u, e)
<1>1. Append(u, e) = u \o <<e>> /\ <<e>> \in Seq(Nat)
  BY AppendIsConcat
<1>2. v \o (u \o <<e>>) = (v \o u) \o <<e>>
  <2> DEFINE w == <<e>>
  <2> HIDE DEF w
  <2>1. w \in Seq(Nat)
    BY <1>1 DEF w
  <2>2. (v \o u) \o w = v \o (u \o w)
    BY <2>1, ConcatAssociative, SMTT(30)
  <2>3. QED
    BY <2>2 DEF w
<1>3. v \o u \in Seq(Nat)
  OBVIOUS
<1>4. Append(v \o u, e) = (v \o u) \o <<e>>
  BY <1>3, AppendIsConcat
<1>5. QED
  BY <1>1, <1>2, <1>4

(* Adding the next number to the numbers up to n.                          *)
LEMMA OneMore ==
  ASSUME NEW n \in Nat, NEW s \in Seq(Nat), NEW t \in Seq(Nat), NEW u \in Seq(Nat),
         s \o t \o u = UpTo(n)
  PROVE  s \o t \o Append(u, n + 1) = UpTo(n + 1)
<1>1. s \o t \in Seq(Nat) /\ n + 1 \in Nat
  OBVIOUS
<1>2. s \o t \o Append(u, n + 1) = Append(s \o t \o u, n + 1)
  BY <1>1, AppendedBehind
<1>3. Append(UpTo(n), n + 1) = UpTo(n + 1)
  BY DEF UpTo
<1>4. QED
  BY <1>2, <1>3

(* No event is of the type of events.                                      *)
LEMMA NoEventTyped ==
  NoEvent \in [cmd : {"none"} \cup {k.cmd : k \in keyCommands}, text : BOOLEAN]
BY DEF NoEvent, Event

(* A message moves from one sequence to the next.                          *)
LEMMA Moved ==
  ASSUME NEW s \in Seq(Nat), NEW h \in Seq(Nat), NEW u \in Seq(Nat)
  PROVE  /\ (s \o h) \o <<>> \o u = s \o h \o u
         /\ u # <<>> => s \o <<Head(u)>> \o Tail(u) = s \o <<>> \o u
<1>1. (s \o h) \o <<>> = s \o h
  OBVIOUS
<1>2. ASSUME u # <<>> PROVE s \o <<Head(u)>> \o Tail(u) = s \o <<>> \o u
  <2>1. <<Head(u)>> \o Tail(u) = u
    BY <1>2
  <2>2. s \o <<>> = s
    OBVIOUS
  <2>3. (s \o <<Head(u)>>) \o Tail(u) = s \o (<<Head(u)>> \o Tail(u))
    BY <1>2
  <2>4. QED
    BY <2>1, <2>2, <2>3
<1>3. QED
  BY <1>1, <1>2

-----------------------------------------------------------------------------
(* The steps.                                                              *)

(* The loop begins with the connection that client_init has made.          *)
LEMMA InitInv == Init => IInv
<1> SUFFICES ASSUME Init PROVE IInv
  OBVIOUS
<1>1. TypeOK
  <2>1. 3 \in Fds /\ 1 \in Connections
    BY TermLoopAssumption DEF Fds, Connections
  <2>2. pressed \in 0 .. MaxKeys
    BY TermLoopAssumption DEF Init
  <2>3. conn \in [Fds -> Connections \cup {Nobody}]
    BY <2>1 DEF Init
  <2>4. sockfd \in Fds /\ conn[sockfd] # Nobody
    BY <2>1 DEF Init, Nobody
  <2>5. peer \in [Connections -> {"none", "up", "fin", "reset", "left"}]
    BY DEF Init
  <2>6. event \in [cmd : {"none"} \cup {k.cmd : k \in keyCommands}, text : BOOLEAN]
    BY DEF Init, NoEvent, Event
  <2>7. /\ ctrlStack \in Seq(Keys)
        /\ out \in Seq(Nat) /\ hand \in Seq(Nat) /\ entered \in Nat /\ sent \in Seq(Nat)
        /\ pc \in Steps \cup Ended
        /\ readable \subseteq {0} \cup Fds /\ writable \subseteq Fds
        /\ tty \in {"idle", "key", "part", "eof"}
        /\ inbox \subseteq Connections /\ full \subseteq Connections
    BY DEF Init, Steps
  <2>8. line \in BOOLEAN /\ terminate \in BOOLEAN
    BY DEF Init
  <2>9. seen \in [Fds -> Connections \cup {Nobody}]
    BY <2>3 DEF Init
  <2>10. QED
    BY <2>2, <2>3, <2>4, <2>5, <2>6, <2>7, <2>8, <2>9 DEF TypeOK
<1>2. InsertHasText
  BY DEF Init, InsertHasText, NoEvent, Event
<1>3. InOrder
  BY DEF Init, InOrder, UpTo
<1>4. ReadyIsSeen
  BY DEF Init, ReadyIsSeen
<1>5. QED
  BY <1>1, <1>2, <1>3, <1>4 DEF IInv

(* Steps that leave the messages alone and stay out of the sending.        *)
LEMMA OrderUntouched ==
  ASSUME InOrder, UNCHANGED outVars,
         pc \in {"send"} \cup Ended => pc' \in {"send"} \cup Ended
  PROVE  InOrder'
BY DEF InOrder, outVars

(* Steps that leave descriptors and what select has left alone.            *)
LEMMA ReadyUntouched ==
  ASSUME ReadyIsSeen, UNCHANGED <<sockfd, conn, setVars>>,
         pc' \in {"keyb", "events", "read"} => pc \in {"keyb", "events", "read"},
         \A c \in {conn[sockfd]} : c \in inbox \/ Closed(c) => c \in inbox' \/ Closed(c)'
  PROVE  ReadyIsSeen'
BY DEF ReadyIsSeen, setVars, Closed

(* select asks for sockfd, which is open, and for the keyboard.            *)
LEMMA SelectInv ==
  ASSUME IInv, Select
  PROVE  IInv'
<1>1. TypeOK'
  BY DEF IInv, TypeOK, Steps, Ended, Select, keyVars, fdVars, outVars, setVars,
       ttyVars, peerVars
<1>2. InsertHasText'
  BY DEF IInv, InsertHasText, Select, keyVars
<1>3. InOrder'
  BY OrderUntouched DEF IInv, Ended, Select, outVars
<1>4. ReadyIsSeen'
  <2>1. (readable' \cup writable') \ {0} \subseteq {sockfd} \ {NoSocket}
    BY DEF Select
  <2>2. \A fd \in {sockfd} \ {NoSocket} : conn[fd] # Nobody
    BY DEF IInv, TypeOK
  <2>3. 0 # sockfd
    BY DEF IInv, TypeOK, Fds, NoSocket
  <2>4. sockfd \in readable' => conn[sockfd] \in inbox \/ Closed(conn[sockfd])
    BY <2>3 DEF Select
  <2>5. QED
    BY <2>1, <2>2, <2>4 DEF ReadyIsSeen, Select, Closed, fdVars, peerVars
<1>5. QED
  BY <1>1, <1>2, <1>3, <1>4 DEF IInv

(* A key touches neither the messages nor the descriptors.                 *)
LEMMA KeybInv ==
  ASSUME IInv, NEW key \in Keys, Keyb(key)
  PROVE  IInv'
<1>1. /\ ctrlStack' \in Seq(Keys)
      /\ event' \in [cmd : {"none"} \cup {k.cmd : k \in keyCommands}, text : BOOLEAN]
      /\ InsertHasText'
  <2>1. CASE key \in Printable /\ ctrlStack = <<>> /\ event' = Event("insert", TRUE)
             /\ UNCHANGED ctrlStack
    BY <2>1 DEF IInv, TypeOK, InsertHasText, Event, keyCommands
  <2>2. CASE event' = NoEvent /\ ctrlStack' = Cleared(ctrlStack)
    BY <2>2, ClearedIsStack DEF IInv, TypeOK, InsertHasText, NoEvent, Event
  <2>3. CASE key # "ctrl_g" /\ (key \notin Printable \/ ctrlStack # <<>>) /\ Push(key)
    BY <2>3, PushEvent DEF IInv
  <2>4. QED
    BY <2>1, <2>2, <2>3 DEF Keyb
<1>2. TypeOK'
  BY <1>1 DEF IInv, TypeOK, Keyb, Steps, fdVars, outVars, setVars, peerVars
<1>3. InOrder'
  BY OrderUntouched DEF IInv, Ended, Keyb, outVars
<1>4. ReadyIsSeen'
  BY ReadyUntouched DEF IInv, Closed, Keyb, fdVars, setVars, peerVars
<1>5. QED
  BY <1>1, <1>2, <1>3, <1>4 DEF IInv

LEMMA KeybNothingInv ==
  ASSUME IInv, KeybNothing
  PROVE  IInv'
<1>1. TypeOK'
  BY DEF IInv, TypeOK, Steps, KeybNothing, NoEvent, Event, fdVars, outVars,
       setVars, peerVars
<1>2. InsertHasText'
  BY DEF IInv, InsertHasText, KeybNothing, NoEvent, Event
<1>3. InOrder'
  BY OrderUntouched DEF IInv, Ended, KeybNothing, outVars
<1>4. ReadyIsSeen'
  BY ReadyUntouched DEF IInv, Closed, KeybNothing, fdVars, setVars, peerVars
<1>5. QED
  BY <1>1, <1>2, <1>3, <1>4 DEF IInv

LEMMA EditInv ==
  ASSUME IInv, Edit
  PROVE  IInv'
<1>1. TypeOK'
  BY DEF IInv, TypeOK, Steps, Edit, EventDone, NoEvent, Event, fdVars, outVars,
       setVars, ttyVars, peerVars
<1>2. InsertHasText'
  BY DEF IInv, InsertHasText, Edit, EventDone, NoEvent, Event
<1>3. InOrder'
  BY OrderUntouched DEF IInv, Ended, Edit, AtEvent, outVars
<1>4. ReadyIsSeen'
  BY ReadyUntouched DEF IInv, Closed, Edit, AtEvent, EventDone, fdVars, setVars,
       peerVars
<1>5. QED
  BY <1>1, <1>2, <1>3, <1>4 DEF IInv

(* The message that is queued is the next one, behind all others.          *)
LEMMA EnterInv ==
  ASSUME IInv, Enter
  PROVE  IInv'
<1>1. TypeOK'
  <2>1. event' \in [cmd : {"none"} \cup {k.cmd : k \in keyCommands}, text : BOOLEAN]
    BY NoEventTyped DEF Enter, EventDone
  <2>2. line' \in BOOLEAN /\ terminate' \in BOOLEAN
    BY DEF IInv, TypeOK, Enter
  <2>3. entered' \in Nat /\ out' \in Seq(Nat)
    <3>1. \/ entered' = entered + 1 /\ out' = Append(out, entered')
          \/ UNCHANGED <<entered, out>>
      BY DEF Enter
    <3>2. entered \in Nat /\ out \in Seq(Nat)
      BY DEF IInv, TypeOK
    <3>3. QED
      BY <3>1, <3>2, SMTT(30)
  <2>4. QED
    BY <2>1, <2>2, <2>3 DEF IInv, TypeOK, Steps, Enter, EventDone, fdVars,
         setVars, ttyVars, peerVars
<1>2. InsertHasText'
  BY DEF IInv, InsertHasText, Enter, EventDone, NoEvent, Event
<1>3. InOrder'
  <2>1. CASE UNCHANGED outVars
    BY <2>1, OrderUntouched DEF IInv, Ended, Enter, AtEvent
  <2>2. CASE entered' = entered + 1 /\ out' = Append(out, entered')
    <3>1. sent \o hand \o Append(out, entered + 1) = UpTo(entered + 1)
      <4>1. /\ entered \in Nat /\ sent \in Seq(Nat) /\ hand \in Seq(Nat) /\ out \in Seq(Nat)
            /\ sent \o hand \o out = UpTo(entered)
        BY DEF IInv, TypeOK, InOrder
      <4>2. QED
        BY <4>1, OneMore
    <3>2. QED
      BY <2>2, <3>1 DEF IInv, InOrder, Enter, AtEvent, Ended
  <2>3. QED
    BY <2>1, <2>2 DEF Enter, outVars
<1>4. ReadyIsSeen'
  BY ReadyUntouched DEF IInv, Closed, Enter, AtEvent, EventDone, fdVars, setVars,
       peerVars
<1>5. QED
  BY <1>1, <1>2, <1>3, <1>4 DEF IInv

(* socket gives a descriptor that is not open: none of those that select   *)
(* has reported.                                                           *)
LEMMA ConnectOkInv ==
  ASSUME IInv, NEW fd \in Fds, NEW c \in Connections, ConnectOk(fd, c)
  PROVE  IInv'
<1>1. TypeOK'
  <2>1. event' \in [cmd : {"none"} \cup {k.cmd : k \in keyCommands}, text : BOOLEAN]
    BY NoEventTyped DEF ConnectOk, EventDone
  <2>2. conn' \in [Fds -> Connections \cup {Nobody}]
    BY DEF IInv, TypeOK, ConnectOk
  <2>3. sockfd' \in Fds /\ conn'[sockfd'] # Nobody
    BY DEF IInv, TypeOK, ConnectOk, Connections, Nobody
  <2>4. /\ peer' \in [Connections -> {"none", "up", "fin", "reset", "left"}]
        /\ inbox' \subseteq Connections /\ full' \subseteq Connections
    BY DEF IInv, TypeOK, ConnectOk, Leave
  <2>5. QED
    BY <2>1, <2>2, <2>3, <2>4 DEF IInv, TypeOK, Steps, ConnectOk, EventDone,
         outVars, setVars, ttyVars
<1>2. InsertHasText'
  BY DEF IInv, InsertHasText, ConnectOk, EventDone, NoEvent, Event
<1>3. InOrder'
  BY OrderUntouched DEF IInv, Ended, ConnectOk, AtEvent, outVars
<1>4. ReadyIsSeen'
  <2>1. conn[fd] = Nobody
    BY DEF ConnectOk, Lowest
  <2>2. fd \notin readable \cup writable
    BY <2>1 DEF IInv, ReadyIsSeen, Fds
  <2>3. \A other \in (readable \cup writable) \ {0} : conn'[other] = conn[other]
    BY <2>2 DEF IInv, TypeOK, ConnectOk
  <2>4. QED
    BY <2>2, <2>3 DEF IInv, ReadyIsSeen, ConnectOk, setVars
<1>5. QED
  BY <1>1, <1>2, <1>3, <1>4 DEF IInv

(* Without a socket there is nothing that select could have reported.      *)
LEMMA ConnectFailsInv ==
  ASSUME IInv, ConnectFails
  PROVE  IInv'
<1>1. TypeOK'
  <2>1. event' \in [cmd : {"none"} \cup {k.cmd : k \in keyCommands}, text : BOOLEAN]
    BY NoEventTyped DEF ConnectFails, EventDone
  <2>2. sockfd' = NoSocket /\ NoSocket \notin Fds
    BY DEF ConnectFails, NoSocket, Fds
  <2>3. /\ peer' \in [Connections -> {"none", "up", "fin", "reset", "left"}]
        /\ inbox' \subseteq Connections /\ full' \subseteq Connections
    BY DEF IInv, TypeOK, ConnectFails, Leave
  <2>4. QED
    BY <2>1, <2>2, <2>3 DEF IInv, TypeOK, Steps, ConnectFails, EventDone, outVars,
         setVars, ttyVars
<1>2. InsertHasText'
  BY DEF IInv, InsertHasText, ConnectFails, EventDone, NoEvent, Event
<1>3. InOrder'
  BY OrderUntouched DEF IInv, Ended, ConnectFails, AtEvent, outVars
<1>4. ReadyIsSeen'
  <2>1. NoSocket \notin readable
    BY DEF IInv, TypeOK, NoSocket, Fds
  <2>2. QED
    BY <2>1 DEF IInv, ReadyIsSeen, ConnectFails, setVars
<1>5. QED
  BY <1>1, <1>2, <1>3, <1>4 DEF IInv

(* Nothing asks again for what was read.                                   *)
LEMMA ReadingInv ==
  ASSUME IInv, NotReadable \/ ReadData \/ ReadEnds
  PROVE  IInv'
<1>1. TypeOK'
  BY DEF IInv, TypeOK, Steps, Ended, NotReadable, ReadData, ReadEnds, Idle,
       keyVars, fdVars, outVars, setVars, ttyVars, peerVars
<1>2. InsertHasText'
  BY DEF IInv, InsertHasText, NotReadable, ReadData, ReadEnds, Idle, keyVars
<1>3. InOrder'
  BY OrderUntouched DEF IInv, Ended, NotReadable, ReadData, ReadEnds, Idle, outVars
<1>4. ReadyIsSeen'
  BY DEF IInv, ReadyIsSeen, NotReadable, ReadData, ReadEnds, Idle, fdVars, setVars
<1>5. QED
  BY <1>1, <1>2, <1>3, <1>4 DEF IInv

LEMMA AskWriteInv ==
  ASSUME IInv, AskWrite
  PROVE  IInv'
<1>1. TypeOK'
  BY DEF IInv, TypeOK, Steps, Ended, AskWrite, Idle, keyVars, fdVars, outVars,
       setVars, ttyVars, peerVars
<1>2. InsertHasText'
  BY DEF IInv, InsertHasText, AskWrite, Idle, keyVars
<1>3. InOrder'
  BY OrderUntouched DEF IInv, Ended, AskWrite, Idle, outVars
<1>4. ReadyIsSeen'
  BY ReadyUntouched DEF IInv, Closed, AskWrite, Idle, fdVars, setVars, peerVars
<1>5. QED
  BY <1>1, <1>2, <1>3, <1>4 DEF IInv

LEMMA EndRoundInv ==
  ASSUME IInv, EndRound
  PROVE  IInv'
<1>1. TypeOK'
  BY DEF IInv, TypeOK, Steps, Ended, EndRound, keyVars, fdVars, outVars, setVars,
       ttyVars, peerVars
<1>2. InsertHasText'
  BY DEF IInv, InsertHasText, EndRound, keyVars
<1>3. InOrder'
  BY OrderUntouched DEF IInv, Ended, EndRound, outVars
<1>4. ReadyIsSeen'
  BY DEF IInv, ReadyIsSeen, EndRound
<1>5. QED
  BY <1>1, <1>2, <1>3, <1>4 DEF IInv

(* The hand is empty: the message in it was sent, or the program has       *)
(* ended.                                                                  *)
LEMMA DequeueInv ==
  ASSUME IInv, Dequeue
  PROVE  IInv'
<1>1. TypeOK'
  BY DEF IInv, TypeOK, Steps, Ended, Dequeue, Idle, keyVars, fdVars, outVars,
       setVars, ttyVars, peerVars
<1>2. InsertHasText'
  BY DEF IInv, InsertHasText, Dequeue, Idle, keyVars
<1>3. InOrder'
  <2>1. hand = <<>>
    BY DEF IInv, InOrder, Dequeue, Ended
  <2>2. sent \o hand' \o out' = sent \o hand \o out
    BY <2>1, Moved DEF IInv, TypeOK, Dequeue
  <2>3. QED
    BY <2>2 DEF IInv, InOrder, Dequeue
<1>4. ReadyIsSeen'
  BY ReadyUntouched DEF IInv, Closed, Dequeue, Idle, fdVars, setVars, peerVars
<1>5. QED
  BY <1>1, <1>2, <1>3, <1>4 DEF IInv

LEMMA SendWholeInv ==
  ASSUME IInv, SendWhole
  PROVE  IInv'
<1>1. TypeOK'
  <2>1. peer' \in [Connections -> {"none", "up", "fin", "reset", "left"}]
    BY DEF IInv, TypeOK, SendWhole
  <2>2. sent' \in Seq(Nat) /\ hand' \in Seq(Nat)
    BY DEF IInv, TypeOK, SendWhole
  <2>3. terminate' \in BOOLEAN
    BY DEF IInv, TypeOK, SendWhole
  <2>4. pc' \in Steps \cup Ended
    BY DEF SendWhole, NextMessage, Steps, Ended
  <2>5. QED
    BY <2>1, <2>2, <2>3, <2>4 DEF IInv, TypeOK, SendWhole, Idle, keyVars, fdVars,
         setVars, ttyVars
<1>2. InsertHasText'
  BY DEF IInv, InsertHasText, SendWhole, Idle, keyVars
<1>3. InOrder'
  <2>1. sent' \o hand' \o out' = sent \o hand \o out
    BY Moved DEF IInv, TypeOK, SendWhole
  <2>2. QED
    BY <2>1 DEF IInv, InOrder, SendWhole
<1>4. ReadyIsSeen'
  BY DEF IInv, ReadyIsSeen, SendWhole, NextMessage, Idle, fdVars, setVars
<1>5. QED
  BY <1>1, <1>2, <1>3, <1>4 DEF IInv

(* What a send that fails was to send stays in hand, in an ended program.  *)
LEMMA SendEndsInv ==
  ASSUME IInv, SendFails \/ SendKills
  PROVE  IInv'
<1>1. TypeOK'
  BY DEF IInv, TypeOK, Steps, Ended, SendFails, SendKills, NextMessage, Idle,
       keyVars, fdVars, outVars, setVars, ttyVars, peerVars
<1>2. InsertHasText'
  BY DEF IInv, InsertHasText, SendFails, SendKills, Idle, keyVars
<1>3. InOrder'
  BY OrderUntouched DEF IInv, Ended, SendFails, SendKills, NextMessage, Idle, outVars
<1>4. ReadyIsSeen'
  BY ReadyUntouched DEF IInv, Closed, SendFails, SendKills, NextMessage, Idle,
       fdVars, setVars, peerVars
<1>5. QED
  BY <1>1, <1>2, <1>3, <1>4 DEF IInv

LEMMA UserInv ==
  ASSUME IInv, \/ \E arrives \in {"key", "part"} : Press(arrives)
         \/ TtyGoes("part", "key") \/ TtyGoes("idle", "eof")
  PROVE  IInv'
<1>1. TypeOK'
  <2>1. tty' \in {"idle", "key", "part", "eof"}
    BY DEF Press, TtyGoes
  <2>2. pressed' \in 0 .. MaxKeys
    BY TermLoopAssumption DEF IInv, TypeOK, Press, TtyGoes
  <2>3. UNCHANGED <<keyVars, fdVars, outVars, setVars, peerVars, terminate, pc>>
    BY DEF Press, TtyGoes
  <2>4. QED
    BY <2>1, <2>2, <2>3 DEF IInv, TypeOK, keyVars, fdVars, outVars, setVars, peerVars
<1>2. InsertHasText'
  BY DEF IInv, InsertHasText, Press, TtyGoes, keyVars
<1>3. InOrder'
  BY OrderUntouched DEF IInv, Ended, Press, TtyGoes, outVars
<1>4. ReadyIsSeen'
  BY ReadyUntouched DEF IInv, Closed, Press, TtyGoes, fdVars, setVars, peerVars
<1>5. QED
  BY <1>1, <1>2, <1>3, <1>4 DEF IInv

(* What the peer does leaves what is readable so: more data, or its end.   *)
LEMMA PeerInv ==
  ASSUME IInv, NEW c \in Connections, NEW from, NEW to \in {"fin", "reset"},
         PeerMoves(c, from, to) \/ PeerSends(c) \/ PeerStalls(c)
  PROVE  IInv'
<1>1. TypeOK'
  <2>1. peer' \in [Connections -> {"none", "up", "fin", "reset", "left"}]
    BY DEF IInv, TypeOK, PeerMoves, PeerSends, PeerStalls
  <2>2. inbox' \subseteq Connections /\ full' \subseteq Connections
    BY DEF IInv, TypeOK, PeerMoves, PeerSends, PeerStalls
  <2>3. UNCHANGED <<keyVars, fdVars, outVars, setVars, ttyVars, terminate, pc>>
    BY DEF PeerMoves, PeerSends, PeerStalls
  <2>4. QED
    BY <2>1, <2>2, <2>3 DEF IInv, TypeOK, keyVars, fdVars, outVars, setVars, ttyVars
<1>2. InsertHasText'
  BY DEF IInv, InsertHasText, PeerMoves, PeerSends, PeerStalls, keyVars
<1>3. InOrder'
  BY OrderUntouched DEF IInv, Ended, PeerMoves, PeerSends, PeerStalls, outVars
<1>4. ReadyIsSeen'
  <2>1. \A other \in Connections :
          other \in inbox \/ Closed(other) => other \in inbox' \/ Closed(other)'
    BY DEF IInv, TypeOK, Closed, PeerMoves, PeerSends, PeerStalls
  <2>2. sockfd \in readable => conn[sockfd] \in Connections
    <3>1. NoSocket \notin readable
      BY DEF IInv, TypeOK, NoSocket, Fds
    <3>2. QED
      BY <3>1 DEF IInv, TypeOK
  <2>3. UNCHANGED <<fdVars, setVars, pc>>
    BY DEF PeerMoves, PeerSends, PeerStalls
  <2>4. QED
    BY <2>1, <2>2, <2>3 DEF IInv, ReadyIsSeen, fdVars, setVars
<1>5. QED
  BY <1>1, <1>2, <1>3, <1>4 DEF IInv

LEMMA StutterInv ==
  ASSUME IInv, UNCHANGED vars
  PROVE  IInv'
<1>1. TypeOK'
  BY DEF IInv, TypeOK, vars, keyVars, fdVars, outVars, setVars, ttyVars, peerVars
<1>2. InsertHasText'
  BY DEF IInv, InsertHasText, vars, keyVars
<1>3. InOrder'
  BY OrderUntouched DEF IInv, vars
<1>4. ReadyIsSeen'
  BY ReadyUntouched DEF IInv, Closed, vars, fdVars, peerVars
<1>5. QED
  BY <1>1, <1>2, <1>3, <1>4 DEF IInv

LEMMA NextInv ==
  ASSUME IInv, [Next]_vars
  PROVE  IInv'
<1>1. ASSUME Loop PROVE IInv'
  BY <1>1, SelectInv, KeybInv, EditInv, EnterInv, ConnectOkInv, ConnectFailsInv,
     ReadingInv, AskWriteInv, EndRoundInv, DequeueInv, SendWholeInv, SendEndsInv DEF Loop
<1>2. ASSUME Interrupted PROVE IInv'
  BY <1>2, KeybNothingInv, SendEndsInv DEF Interrupted
<1>3. ASSUME Environment PROVE IInv'
  <2>1. CASE \/ Press("key") \/ Press("part") \/ TtyGoes("part", "key") \/ TtyGoes("idle", "eof")
    BY <2>1, UserInv
  <2>2. ASSUME NEW c \in {conn[fd] : fd \in {sockfd} \ {NoSocket}},
               \/ PeerMoves(c, {"up"}, "fin") \/ PeerMoves(c, {"up", "fin"}, "reset")
               \/ PeerSends(c) \/ PeerStalls(c)
        PROVE  IInv'
    <3>1. c \in Connections
      BY DEF IInv, TypeOK
    <3>2. QED
      BY <2>2, <3>1, PeerInv
  <2>3. QED
    BY <1>3, <2>1, <2>2 DEF Environment
<1>4. QED
  BY <1>1, <1>2, <1>3, StutterInv DEF Next

(* What the invariant says of the properties.                              *)
LEMMA InvImplies ==
  ASSUME IInv
  PROVE  EnteredIsSent /\ SocketIsSeen
<1>1. EnteredIsSent
  BY DEF IInv, InOrder, UpTo, EnteredIsSent
<1>2. SocketIsSeen
  <2>1. ASSUME sockfd \in readable \cup writable
        PROVE  conn[sockfd] = seen[sockfd]
    <3>1. sockfd # 0
      BY DEF IInv, TypeOK, Fds, NoSocket
    <3>2. QED
      BY <2>1, <3>1 DEF IInv, ReadyIsSeen
  <2>2. QED
    BY <2>1 DEF IInv, ReadyIsSeen, SocketIsSeen
<1>3. QED
  BY <1>1, <1>2

LEMMA Invariance == Spec => []IInv
<1>1. Init => IInv
  BY InitInv
<1>2. IInv /\ [Next]_vars => IInv'
  BY NextInv
<1>3. QED
  BY <1>1, <1>2, PTL DEF Spec

-----------------------------------------------------------------------------
(* The variables keep their types, and sockfd, once it is set, is an open  *)
(* descriptor: connect_to_server sets it to a new one or to none.          *)
THEOREM TypeCorrect == Spec => []TypeOK
<1>1. IInv => TypeOK
  BY DEF IInv
<1>2. QED
  BY <1>1, Invariance, PTL

(* No key, behind whatever others on the control stack, makes keyb ask for *)
(* an insert without its text.                                             *)
THEOREM InsertsAreWhole == Spec => []InsertHasText
<1>1. IInv => InsertHasText
  BY DEF IInv
<1>2. QED
  BY <1>1, Invariance, PTL

(* What cmd_enter has queued is sent once and in order, over all           *)
(* connections; only the message of a send that fails is lost.             *)
THEOREM OrderCorrect == Spec => []EnteredIsSent
<1>1. IInv => EnteredIsSent
  BY InvImplies
<1>2. QED
  BY <1>1, Invariance, PTL

(* The loop reads and writes the socket that select has reported, also     *)
(* when the key before has connected to another one.                       *)
THEOREM SocketCorrect == Spec => []SocketIsSeen
<1>1. IInv => SocketIsSeen
  BY InvImplies
<1>2. QED
  BY <1>1, Invariance, PTL
=============================================================================
