----------------------------- MODULE EditorProofs -----------------------------
(***************************************************************************)
(* Proofs about Editor for any characters and any number of keys: whatever *)
(* is typed, moved, marked, undone and redone, the node and the two stacks *)
(* keep their types, no null pointer gets where a command would follow it, *)
(* the cursor leaves the text only by toggle_cursor, an undo takes back    *)
(* what its action did and a redo does it again.                           *)
(***************************************************************************)
EXTENDS Editor, SequenceTheorems, WellFoundedInduction, TLAPS

-----------------------------------------------------------------------------
(* Induction over the natural numbers, with sets instead of predicates:    *)
(* the numbers that have a property are the members of a set.              *)

(* A set of natural numbers that is not empty has a least member.          *)
LEMMA LeastNumber ==
  ASSUME NEW T, T \subseteq Nat, T # {}
  PROVE  \E x \in T : \A y \in T : x <= y
<1> DEFINE R == OpToRel(<, Nat)
<1>1. IsWellFoundedOn(R, Nat)
  BY NatLessThanWellFounded
<1>2. \A x \in Nat, y \in Nat : x < y => <<x, y>> \in R
  BY DEF OpToRel
<1> HIDE DEF R
<1>3. PICK x \in T : \A y \in T : ~(<<y, x>> \in R)
  BY <1>1, WFMin
<1>4. ASSUME NEW y \in T
      PROVE  x <= y
  <2>1. x \in Nat /\ y \in Nat
    OBVIOUS
  <2>2. ~(y < x)
    BY <1>2, <1>3, <2>1
  <2>3. QED
    BY <2>1, <2>2
<1>5. QED
  BY <1>4

(* A set with 0 and the successor of each of its numbers has all of them.  *)
LEMMA Induction ==
  ASSUME NEW S, 0 \in S, \A n \in Nat : n \in S => n + 1 \in S
  PROVE  Nat \subseteq S
<1> DEFINE T == Nat \ S
<1>1. SUFFICES ASSUME T # {} PROVE FALSE
  OBVIOUS
<1>2. T \subseteq Nat
  OBVIOUS
<1> HIDE DEF T
<1>3. PICK x \in T : \A y \in T : x <= y
  BY <1>1, <1>2, LeastNumber
<1>4. x \in Nat /\ x \notin S
  BY <1>3 DEF T
<1>5. x - 1 \in Nat
  BY <1>4
<1>6. x - 1 \in S
  BY <1>3, <1>4, <1>5 DEF T
<1>7. QED
  BY <1>4, <1>5, <1>6

(* A bounded set of numbers that is not empty has a greatest member.       *)
LEMMA GreatestNumber ==
  ASSUME NEW m \in Nat, NEW T, T \subseteq 0 .. m, T # {}
  PROVE  \E x \in T : \A y \in T : x >= y
<1> DEFINE D == {m - y : y \in T}
<1>1. D \subseteq Nat /\ D # {}
  <2>1. \A y \in T : m - y \in Nat
    OBVIOUS
  <2>2. PICK t \in T : TRUE
    OBVIOUS
  <2>3. m - t \in D
    OBVIOUS
  <2>4. QED
    BY <2>1, <2>3
<1>2. PICK d \in D : \A e \in D : d <= e
  <2> HIDE DEF D
  <2>1. QED
    BY <1>1, LeastNumber
<1>3. PICK x \in T : d = m - x
  OBVIOUS
<1>4. ASSUME NEW y \in T
      PROVE  x >= y
  <2>1. m - y \in D
    OBVIOUS
  <2>2. d <= m - y
    BY <1>2, <2>1
  <2>3. QED
    BY <1>3, <2>2
<1>5. QED
  BY <1>4

-----------------------------------------------------------------------------
(* The invariant.                                                          *)

(* Cursor and marker may be one before the text: a marker that is not set. *)
Placed == {n \in Node : n.cursor >= -1 /\ n.marker >= Unset}
Seqs == {s \in [kind : {"null", "text", "hex"}, text : Seq(Chars), pos : Int] : s.pos >= -1}
Actions == {a \in Action : a.cmd \in Recorded /\ a.seq \in Seqs}

(* The null pointer lies at the bottom of undoStack only.                  *)
Stacks == {s \in Seq(Actions \cup {NULL}) : \A i \in 1 .. Len(s) - 1 : s[i] # NULL}

Editors == [node : Placed, undo : Stacks, exit : {"no", "uninsert"},
            act : Actions \cup {NULL}]

IInv ==
  /\ node \in Placed
  /\ undo \in Stacks /\ redo \in Seq(Actions)
  /\ exit \in {"no", "uninsert"}
  /\ keys \in 0 .. MaxKeys

(* What cmd_toggle_cursor makes of a node.                                 *)
Swapped(n) == [n EXCEPT !.cursor = n.marker, !.marker = n.cursor]

-----------------------------------------------------------------------------
(* Numbers, sequences and stacks.                                          *)

(* The ends of a set of positions are in the set.                          *)
LEMMA LeastIs ==
  ASSUME NEW S, S \subseteq Nat, S # {}
  PROVE  Least(S) \in S /\ \A i \in S : Least(S) <= i
BY LeastNumber DEF Least

(* The last of a set of positions is in the set.                           *)
LEMMA GreatestIs ==
  ASSUME NEW m \in Nat, NEW S, S \subseteq 0 .. m, S # {}
  PROVE  Greatest(S) \in S /\ \A i \in S : Greatest(S) >= i
BY GreatestNumber DEF Greatest

(* A text before a position, and from it on.                               *)
LEMMA Cut ==
  ASSUME NEW t \in Seq(Chars), NEW i \in 0 .. Len(t)
  PROVE  /\ SubSeq(t, 1, i) \in Seq(Chars) /\ Len(SubSeq(t, 1, i)) = i
         /\ SubSeq(t, i + 1, Len(t)) \in Seq(Chars)
         /\ Len(SubSeq(t, i + 1, Len(t))) = Len(t) - i
<1>1. Len(t) \in Nat /\ \A j \in 1 .. Len(t) : t[j] \in Chars
  OBVIOUS
<1> DEFINE a == SubSeq(t, 1, i)
           b == SubSeq(t, i + 1, Len(t))
<1>2. a \in Seq(Chars) /\ Len(a) = IF 1 <= i THEN i - 1 + 1 ELSE 0
  BY <1>1, SubSeqProperties
<1>3. b \in Seq(Chars)
      /\ Len(b) = IF i + 1 <= Len(t) THEN Len(t) - (i + 1) + 1 ELSE 0
  BY <1>1, SubSeqProperties
<1> HIDE DEF a, b
<1>4. Len(a) = i /\ Len(b) = Len(t) - i
  BY <1>1, <1>2, <1>3
<1>5. QED
  BY <1>2, <1>3, <1>4 DEF a, b

(* Two texts one after the other.                                          *)
LEMMA Joined ==
  ASSUME NEW s \in Seq(Chars), NEW t \in Seq(Chars)
  PROVE  s \o t \in Seq(Chars) /\ Len(s \o t) = Len(s) + Len(t)
OBVIOUS

(* utf8_byte_offset stays in the text.                                     *)
LEMMA OffsetIs ==
  ASSUME NEW t \in Seq(Chars), NEW pos \in Int
  PROVE  /\ Offset(t, pos) \in 0 .. Len(t)
         /\ pos \in 0 .. Len(t) => Offset(t, pos) = pos
         /\ pos >= 0 => Offset(t, pos) <= pos
         /\ pos < 0 => Offset(t, pos) = 0
BY DEF Offset

(* The null pointer is no action that a command has recorded.              *)
LEMMA NullIs == NULL \in Action /\ NULL \notin Actions /\ NULL.cmd = "NULL"
<1>1. NULL.cmd = "NULL"
  BY DEF NULL, NewAction
<1>2. NULL \notin Actions
  BY <1>1 DEF Actions, Recorded, Motions, MarkerCommands
<1>3. NULL \in Action
  <2>1. EmptyNode \in Node
    BY DEF EmptyNode, Node, Unset
  <2>2. NoSeq \in [kind : {"null", "text", "hex"}, text : Seq(Chars), pos : Int]
    BY DEF NoSeq
  <2> DEFINE new == NewAction("NULL", NoSeq, EmptyNode, EmptyNode)
  <2>3. new \in Action
    BY <2>1, <2>2 DEF NewAction, Action
  <2> HIDE DEF new
  <2>4. [new EXCEPT !.cnt = 0] \in Action
    BY <2>3 DEF Action
  <2>5. QED
    BY <2>4 DEF NULL, new
<1>4. QED
  BY <1>1, <1>2, <1>3

(* Stacks after a push or a pop.                                           *)
LEMMA PopIs ==
  ASSUME NEW s \in Stacks, s # <<>>
  PROVE  Tail(s) \in Stacks /\ Head(s) \in Actions \cup {NULL}
<1>1. s \in Seq(Actions \cup {NULL}) /\ Len(s) \in Nat /\ Len(s) > 0
  BY DEF Stacks
<1>2. Head(s) \in Actions \cup {NULL}
  BY <1>1
<1>3. /\ Tail(s) \in Seq(Actions \cup {NULL}) /\ Len(Tail(s)) = Len(s) - 1
      /\ \A i \in 1 .. Len(s) - 1 : Tail(s)[i] = s[i + 1]
  BY <1>1
<1>4. \A i \in 1 .. Len(Tail(s)) - 1 : Tail(s)[i] # NULL
  BY <1>1, <1>3 DEF Stacks
<1>5. QED
  BY <1>2, <1>3, <1>4 DEF Stacks

(* A push keeps the null pointer at the bottom.                            *)
LEMMA PushIs ==
  ASSUME NEW s \in Stacks, NEW a \in Actions
  PROVE  Push(a, s) \in Stacks
<1>1. s \in Seq(Actions \cup {NULL}) /\ <<a>> \in Seq(Actions \cup {NULL})
  BY DEF Stacks
<1>2. /\ Push(a, s) \in Seq(Actions \cup {NULL}) /\ Len(Push(a, s)) = Len(s) + 1
      /\ Push(a, s)[1] = a
      /\ \A i \in 1 .. Len(s) : Push(a, s)[i + 1] = s[i]
  BY <1>1 DEF Push
<1>3. ASSUME NEW i \in 1 .. Len(Push(a, s)) - 1
      PROVE  Push(a, s)[i] # NULL
  <2>1. CASE i = 1
    BY <1>2, <2>1, NullIs
  <2>2. CASE i > 1
    <3>1. i - 1 \in 1 .. Len(s) - 1 /\ i - 1 \in 1 .. Len(s) /\ (i - 1) + 1 = i
      BY <1>1, <1>2, <2>2
    <3>2. s[i - 1] # NULL
      BY <3>1 DEF Stacks
    <3>3. QED
      BY <1>2, <3>1, <3>2
  <2>3. QED
    BY <2>1, <2>2
<1>4. QED
  BY <1>2, <1>3 DEF Stacks

(* What mngAct leaves of an empty stack.                                   *)
LEMMA NullStack == <<NULL>> \in Stacks
BY DEF Stacks

-----------------------------------------------------------------------------
(* The commands on a node.                                                 *)

(* upd_forward_word and upd_backward_word find a place, in the text if     *)
(* they began in it.                                                       *)
LEMMA WordEndIs ==
  ASSUME NEW n \in Placed
  PROVE  /\ WordEnd(n) \in Int /\ WordEnd(n) >= -1
         /\ InText(n) => WordEnd(n) \in 0 .. Len(n.text)
<1> DEFINE t == n.text
           from == Offset(t, n.cursor)
           words == {i \in from .. Len(t) : ~SpaceAt(t, i + 1)}
           word == Least(words)
           ends == {i \in word .. Len(t) : i = Len(t) \/ SpaceAt(t, i + 1)}
           end == Least(ends)
<1>1. t \in Seq(Chars) /\ n.cursor \in Int /\ n.cursor >= -1 /\ Len(t) \in Nat
  BY DEF Placed, Node
<1>2. from \in 0 .. Len(t)
  BY <1>1, OffsetIs
<1> HIDE DEF t, from
<1>3. word \in words
  <2>1. words \subseteq Nat /\ Len(t) \in words
    BY <1>1, <1>2 DEF SpaceAt
  <2> HIDE DEF words
  <2>2. QED
    BY <2>1, LeastIs
<1>4. word \in 0 .. Len(t)
  <2> HIDE DEF word
  <2>1. QED
    BY <1>2, <1>3
<1> HIDE DEF words, word
<1>5. end \in ends
  <2>1. ends \subseteq Nat /\ Len(t) \in ends
    BY <1>1, <1>4
  <2> HIDE DEF ends
  <2>2. QED
    BY <2>1, LeastIs
<1>6. end \in 0 .. Len(t)
  <2> HIDE DEF end
  <2>1. QED
    BY <1>4, <1>5
<1> HIDE DEF ends, end
<1>7. WordEnd(n) = IF n.cursor > Len(t) THEN n.cursor
                   ELSE IF n.cursor < 0 /\ end < Len(t) THEN end - 1 ELSE end
  BY DEF WordEnd, t, from, words, word, ends, end
<1>8. InText(n) => n.cursor \in 0 .. Len(t)
  BY DEF InText, t
<1>9. QED
  BY <1>1, <1>6, <1>7, <1>8 DEF t

(* upd_backward_word finds a place likewise.                               *)
LEMMA WordStartIs ==
  ASSUME NEW n \in Placed
  PROVE  /\ WordStart(n) \in Int /\ WordStart(n) >= -1
         /\ InText(n) => WordStart(n) \in 0 .. Len(n.text)
<1> DEFINE t == n.text
           from == Offset(t, n.cursor)
           words == {i \in 0 .. from : ~SpaceAt(t, i)}
           word == Greatest(words)
           starts == {i \in 0 .. word : i = 0 \/ SpaceAt(t, i)}
           start == Greatest(starts)
<1>1. t \in Seq(Chars) /\ n.cursor \in Int /\ n.cursor >= -1 /\ Len(t) \in Nat
  BY DEF Placed, Node
<1>2. /\ from \in 0 .. Len(t)
      /\ n.cursor \in 0 .. Len(t) => from = n.cursor
      /\ n.cursor >= 0 => from <= n.cursor
  BY <1>1, OffsetIs
<1> HIDE DEF t, from
<1>3. word \in words
  <2>1. from \in Nat /\ words \subseteq 0 .. from /\ 0 \in words
    BY <1>2 DEF SpaceAt
  <2> HIDE DEF words
  <2>2. QED
    BY <2>1, GreatestIs
<1>4. word \in 0 .. from
  <2> HIDE DEF word
  <2>1. QED
    BY <1>3
<1> HIDE DEF words, word
<1>5. start \in starts
  <2>1. word \in Nat /\ starts \subseteq 0 .. word /\ 0 \in starts
    BY <1>2, <1>4
  <2> HIDE DEF starts
  <2>2. QED
    BY <2>1, GreatestIs
<1>6. start \in 0 .. from
  <2> HIDE DEF start
  <2>1. QED
    BY <1>2, <1>4, <1>5
<1> HIDE DEF starts, start
<1>7. WordStart(n) = IF n.cursor < 0 THEN n.cursor
                     ELSE IF start > 0 THEN start + (n.cursor - from) ELSE 0
  BY DEF WordStart, t, from, words, word, starts, start
<1>8. InText(n) => n.cursor \in 0 .. Len(t)
  BY DEF InText, t
<1>9. QED
  BY <1>1, <1>2, <1>6, <1>7, <1>8 DEF t

(* upd_insert at any position.                                             *)
LEMMA InsertIs ==
  ASSUME NEW n \in Placed, NEW t \in Seq(Chars)
  PROVE  /\ Insert(n, t) \in Placed
         /\ InText(n) => InText(Insert(n, t))
<1> DEFINE at == Offset(n.text, n.cursor)
           a == SubSeq(n.text, 1, at)
           b == SubSeq(n.text, at + 1, Len(n.text))
<1>1. /\ n.text \in Seq(Chars) /\ n.cursor \in Int /\ n.cursor >= -1
      /\ n.marker \in Int /\ n.marker >= -1
  BY DEF Placed, Node, Unset
<1>2. at \in 0 .. Len(n.text)
  BY <1>1, OffsetIs
<1> HIDE DEF at
<1>3. /\ a \in Seq(Chars) /\ Len(a) = at
      /\ b \in Seq(Chars) /\ Len(b) = Len(n.text) - at
  BY <1>1, <1>2, Cut
<1> HIDE DEF a, b
<1>4. a \o t \o b \in Seq(Chars) /\ Len(a \o t \o b) = Len(n.text) + Len(t)
  <2> DEFINE left == a \o t
             k == Len(t)
             size == Len(n.text)
  <2>1. left \in Seq(Chars) /\ Len(left) = at + k
    BY <1>3, Joined
  <2> HIDE DEF left
  <2>2. left \o b \in Seq(Chars) /\ Len(left \o b) = at + k + (size - at)
    BY <1>3, <2>1, Joined
  <2>3. k \in Nat /\ size \in Nat /\ at \in Nat
    BY <1>1, <1>2
  <2> HIDE DEF k, size
  <2>4. at + k + (size - at) = size + k
    BY <2>3
  <2>5. QED
    BY <2>2, <2>4, Zenon DEF left, k, size
<1>5. Insert(n, t) =
        [text |-> a \o t \o b, cursor |-> n.cursor + Len(t),
         marker |-> IF n.marker >= n.cursor + Len(t) THEN n.marker + Len(t) ELSE n.marker]
  BY DEF Insert, at, a, b
<1>6. Len(t) \in Nat /\ Len(n.text) \in Nat
  BY <1>1
<1>7. /\ Insert(n, t).text \in Seq(Chars)
      /\ Len(Insert(n, t).text) = Len(n.text) + Len(t)
      /\ Insert(n, t).cursor = n.cursor + Len(t)
  BY <1>4, <1>5
<1>8. Insert(n, t) \in Placed
  BY <1>1, <1>4, <1>5, <1>6 DEF Placed, Node, Unset
<1>9. InText(n) => InText(Insert(n, t))
  BY <1>1, <1>6, <1>7 DEF InText
<1>10. QED
  BY <1>8, <1>9

(* cmd_backspace, by a key or in a redo, and what it takes away.           *)
LEMMA BackspaceIs ==
  ASSUME NEW n \in Placed, NEW seq \in Seqs
  PROVE  /\ Backspace(n, seq) \in Placed
         /\ InText(n) => InText(Backspace(n, seq))
         /\ Deleted(n, seq) \in Seq(Chars)
<1> DEFINE t == n.text
           to == BackTo(n, seq)
           i == Offset(t, to)
           j == Offset(t, n.cursor)
           a == SubSeq(t, 1, i)
           b == SubSeq(t, j + 1, Len(t))
<1>1. /\ t \in Seq(Chars) /\ n.cursor \in Int /\ n.cursor >= -1
      /\ n.marker \in Int /\ n.marker >= -1 /\ Len(t) \in Nat
  BY DEF Placed, Node, Unset
<1>2. to \in Nat /\ (n.cursor >= 0 => to <= n.cursor)
  <2>1. Len(seq.text) \in Nat
    BY DEF Seqs
  <2>2. QED
    BY <1>1, <2>1 DEF BackTo
<1>3. Backspace(n, seq) = [n EXCEPT !.text = a \o b, !.cursor = to]
  BY DEF Backspace
<1>4. Deleted(n, seq) = SubSeq(t, i + 1, j)
  BY DEF Deleted
<1> HIDE DEF t, to
<1>5. /\ i \in 0 .. Len(t) /\ j \in 0 .. Len(t)
      /\ n.cursor \in 0 .. Len(t) => i = to /\ j = n.cursor
  BY <1>1, <1>2, OffsetIs
<1>6. Deleted(n, seq) \in Seq(Chars)
  <2>1. \A x \in i + 1 .. j : t[x] \in Chars
    BY <1>1, <1>5
  <2> HIDE DEF i, j
  <2>2. SubSeq(t, i + 1, j) \in Seq(Chars)
    BY <1>5, <2>1, SubSeqProperties
  <2>3. QED
    BY <1>4, <2>2
<1> HIDE DEF i, j
<1>7. /\ a \in Seq(Chars) /\ Len(a) = i
      /\ b \in Seq(Chars) /\ Len(b) = Len(t) - j
  BY <1>1, <1>5, Cut
<1> HIDE DEF a, b
<1>8. a \o b \in Seq(Chars) /\ Len(a \o b) = i + (Len(t) - j)
  BY <1>1, <1>5, <1>7, SMTT(30)
<1>9. Backspace(n, seq) \in Placed
  <2> DEFINE ab == a \o b
  <2>1. ab \in Seq(Chars) /\ to \in Int /\ to >= -1
    BY <1>2, <1>8
  <2>2. Backspace(n, seq) = [n EXCEPT !.text = ab, !.cursor = to]
    BY <1>3
  <2> HIDE DEF ab
  <2>3. QED
    BY <2>1, <2>2 DEF Placed, Node, Unset
<1>10. Backspace(n, seq).text = a \o b /\ Backspace(n, seq).cursor = to
  BY <1>3 DEF Placed, Node
<1>11. InText(n) => InText(Backspace(n, seq))
  BY <1>1, <1>2, <1>5, <1>8, <1>10 DEF InText, t
<1>12. QED
  BY <1>6, <1>9, <1>11

(* Whatever a recorded command does with a node, and what it stores.       *)
LEMMA ApplyIs ==
  ASSUME NEW c \in Recorded, NEW seq \in Seqs, NEW n \in Placed
  PROVE  /\ Apply(c, seq, n) \in Placed
         /\ c # "toggle_cursor" /\ InText(n) => InText(Apply(c, seq, n))
         /\ c = "toggle_cursor" => Apply(c, seq, n) = Swapped(n)
<1>1. /\ n.text \in Seq(Chars) /\ n.cursor \in Int /\ n.cursor >= -1
      /\ n.marker \in Int /\ n.marker >= -1 /\ Len(n.text) \in Nat
  BY DEF Placed, Node, Unset
<1>2. seq.text \in Seq(Chars) /\ seq.pos \in Int /\ seq.pos >= -1
  BY DEF Seqs
<1>3. ASSUME NEW p \in Int, p >= -1
      PROVE  /\ [n EXCEPT !.cursor = p] \in Placed /\ [n EXCEPT !.marker = p] \in Placed
             /\ InText([n EXCEPT !.cursor = p]) <=> p \in 0 .. Len(n.text)
             /\ InText(n) => InText([n EXCEPT !.marker = p])
  BY <1>1, <1>3 DEF Placed, Node, Unset, InText
<1>4. CASE c = "backward_char"
  <2> DEFINE p == IF n.cursor > 0 THEN n.cursor - 1 ELSE n.cursor
  <2>1. Apply(c, seq, n) = [n EXCEPT !.cursor = p]
    BY <1>4 DEF Apply
  <2>2. p \in Int /\ p >= -1 /\ (InText(n) => p \in 0 .. Len(n.text))
    BY <1>1 DEF InText
  <2> HIDE DEF p
  <2>3. QED
    BY <1>3, <1>4, <2>1, <2>2
<1>5. CASE c = "forward_char"
  <2> DEFINE p == IF n.cursor + 1 >= Len(n.text) THEN Len(n.text) ELSE n.cursor + 1
  <2>1. Apply(c, seq, n) = [n EXCEPT !.cursor = p]
    BY <1>5 DEF Apply
  <2>2. p \in Int /\ p >= -1 /\ (InText(n) => p \in 0 .. Len(n.text))
    BY <1>1 DEF InText
  <2> HIDE DEF p
  <2>3. QED
    BY <1>3, <1>5, <2>1, <2>2
<1>6. CASE c = "backward_word"
  <2>1. Apply(c, seq, n) = [n EXCEPT !.cursor = WordStart(n)]
    BY <1>6 DEF Apply
  <2>2. QED
    BY <1>3, <1>6, <2>1, WordStartIs
<1>7. CASE c = "forward_word"
  <2>1. Apply(c, seq, n) = [n EXCEPT !.cursor = WordEnd(n)]
    BY <1>7 DEF Apply
  <2>2. QED
    BY <1>3, <1>7, <2>1, WordEndIs
<1>8. CASE c = "to_beginning_of_line"
  <2> DEFINE p == 0
  <2>1. Apply(c, seq, n) = [n EXCEPT !.cursor = p]
    BY <1>8 DEF Apply
  <2>2. p \in Int /\ p >= -1 /\ p \in 0 .. Len(n.text)
    BY <1>1
  <2> HIDE DEF p
  <2>3. QED
    BY <1>3, <1>8, <2>1, <2>2
<1>9. CASE c = "to_end_of_line"
  <2> DEFINE p == Len(n.text)
  <2>1. Apply(c, seq, n) = [n EXCEPT !.cursor = p]
    BY <1>9 DEF Apply
  <2>2. p \in Int /\ p >= -1 /\ p \in 0 .. Len(n.text)
    BY <1>1
  <2> HIDE DEF p
  <2>3. QED
    BY <1>3, <1>9, <2>1, <2>2
<1>10. CASE c = "insert"
  <2>1. Apply(c, seq, n) = Insert(n, seq.text)
    BY <1>10 DEF Apply
  <2>2. QED
    BY <1>2, <1>10, <2>1, InsertIs
<1>11. CASE c = "backspace"
  <2>1. Apply(c, seq, n) = Backspace(n, seq)
    BY <1>11 DEF Apply
  <2>2. QED
    BY <1>11, <2>1, BackspaceIs
<1>12. CASE c = "set_marker"
  <2> DEFINE p == IF seq = NoSeq THEN n.cursor ELSE seq.pos
  <2>1. Apply(c, seq, n) = [n EXCEPT !.marker = p]
    BY <1>12 DEF Apply
  <2>2. p \in Int /\ p >= -1
    BY <1>1, <1>2
  <2> HIDE DEF p
  <2>3. QED
    BY <1>3, <1>12, <2>1, <2>2
<1>13. CASE c = "unset_marker"
  <2> DEFINE p == -1
  <2>1. Apply(c, seq, n) = [n EXCEPT !.marker = p]
    BY <1>13 DEF Apply, Unset
  <2>2. p \in Int /\ p >= -1
    OBVIOUS
  <2> HIDE DEF p
  <2>3. QED
    BY <1>3, <1>13, <2>1, <2>2
<1>14. CASE c = "toggle_cursor"
  <2>1. Apply(c, seq, n) = Swapped(n)
    BY <1>14 DEF Apply, Swapped
  <2>2. Swapped(n) \in Placed
    BY <1>1 DEF Swapped, Placed, Node, Unset
  <2>3. QED
    BY <1>14, <2>1, <2>2
<1>15. QED
  BY <1>4, <1>5, <1>6, <1>7, <1>8, <1>9, <1>10, <1>11, <1>12, <1>13, <1>14
     DEF Recorded, Motions, MarkerCommands

(* What a command stores with its action.                                  *)
LEMMA SeqOfIs ==
  ASSUME NEW c \in Recorded, NEW seq \in Seqs, NEW n \in Placed, NEW old \in Actions
  PROVE  SeqOf(c, seq, n, old) \in Seqs
<1>1. /\ n.cursor \in Int /\ n.cursor >= -1 /\ n.marker \in Int /\ n.marker >= -1
      /\ seq.text \in Seq(Chars) /\ old.seq \in Seqs /\ old.seq.text \in Seq(Chars)
  BY DEF Placed, Node, Unset, Seqs, Actions
<1> DEFINE Raw == [kind : {"null", "text", "hex"}, text : Seq(Chars), pos : Int]
<1>0. NoSeq \in Raw /\ NoSeq.pos = 0
  BY DEF NoSeq
<1>2. \A t \in Seq(Chars) : Text(t) \in Seqs
  <2> TAKE t \in Seq(Chars)
  <2>1. Text(t) \in Raw /\ Text(t).pos = 0
    BY <1>0 DEF Text
  <2>2. QED
    BY <2>1 DEF Seqs
<1>3. \A p \in Int : p >= -1 => Hex(p) \in Seqs
  <2> TAKE p \in Int
  <2>1. Hex(p) \in Raw /\ Hex(p).pos = p
    BY <1>0 DEF Hex
  <2>2. QED
    BY <2>1 DEF Seqs
<1>4. Apply(c, seq, n).cursor \in Int /\ Apply(c, seq, n).cursor >= -1
  BY ApplyIs DEF Placed, Node
<1>5. Deleted(n, seq) \in Seq(Chars)
  BY BackspaceIs
<1>6. Deleted(n, seq) \o old.seq.text \in Seq(Chars) /\ old.seq.text \o seq.text \in Seq(Chars)
  BY <1>1, <1>5, Joined
<1>7. QED
  BY <1>1, <1>2, <1>3, <1>4, <1>5, <1>6 DEF SeqOf

-----------------------------------------------------------------------------
(* The commands on an editor.                                              *)

(* What the editor may become by a command of comp_cmds: it stays one, and *)
(* the cursor stays in the text unless the command is toggle_cursor.       *)
Commands == Recorded \cup {"uninsert", "get_back_to_line_pos"}
StaysInText(c, m, n) ==
  IF c = "toggle_cursor" THEN n = Swapped(m) ELSE InText(m) => InText(n)

(* mngAct leaves a stack without the action that it merges into, or with a *)
(* null pointer at its bottom, and an action of the command.               *)
LEMMA MngActIs ==
  ASSUME NEW c \in Recorded, NEW seq \in Seqs, NEW e \in Editors
  PROVE  /\ MngAct(c, seq, e) \in Editors /\ MngAct(c, seq, e).act \in Actions
         /\ StaysInText(c, e.node, MngAct(c, seq, e).node)
<1> DEFINE last == Head(e.undo)
           n == Apply(c, seq, e.node)
           merges == Merges(c, e)
           old == IF merges THEN [last EXCEPT !.cnt = @ + 1] ELSE NewAction(c, seq, e.node, n)
           cnt == IF c \in {"insert", "backspace"} THEN 1 ELSE old.cnt
           stack == IF merges THEN Tail(e.undo)
                    ELSE IF e.undo = <<>> THEN <<NULL>> ELSE e.undo
           kept == SeqOf(c, seq, e.node, old)
           whole == old.whole /\ (merges => Same(c, last.to, e.node))
           act == [old EXCEPT !.seq = kept, !.cnt = cnt, !.to = n, !.whole = whole]
<1>1. e.node \in Placed /\ e.undo \in Stacks /\ e.exit \in {"no", "uninsert"}
  BY DEF Editors
<1>2. n \in Placed /\ n \in Node /\ e.node \in Node
  BY <1>1, ApplyIs DEF Placed
<1>3. merges => e.undo # <<>> /\ last.cmd = c
  BY DEF Merges
<1>4. stack \in Stacks
  BY <1>1, <1>3, PopIs, NullStack
<1>5. merges => last \in Actions
  BY <1>1, <1>3, PopIs, NullIs DEF Recorded, Motions, MarkerCommands
<1>6. MngAct(c, seq, e) = [e EXCEPT !.node = n, !.undo = stack, !.act = act]
  BY DEF MngAct
<1> HIDE DEF last, n, merges, stack
<1>7. old \in Actions
  <2>1. CASE merges
    <3>1. last \in Actions
      BY <1>5, <2>1
    <3>2. [last EXCEPT !.cnt = @ + 1] \in Actions
      BY <3>1 DEF Actions, Action
    <3>3. QED
      BY <2>1, <3>2
  <2>2. CASE ~merges
    <3>1. seq \in [kind : {"null", "text", "hex"}, text : Seq(Chars), pos : Int]
      BY DEF Seqs
    <3>2. NewAction(c, seq, e.node, n) \in Actions
      BY <1>2, <3>1 DEF NewAction, Actions, Action
    <3>3. QED
      BY <2>2, <3>2
  <2>3. QED
    BY <2>1, <2>2
<1> HIDE DEF old
<1>8. kept \in Seqs
  BY <1>1, <1>7, SeqOfIs
<1>9. cnt \in Nat /\ whole \in BOOLEAN
  BY <1>7 DEF Actions, Action
<1> HIDE DEF kept, cnt, whole
<1>10. act \in Actions
  BY <1>2, <1>7, <1>8, <1>9 DEF Actions, Action, Seqs
<1> HIDE DEF act
<1>11. MngAct(c, seq, e) \in Editors
  BY <1>2, <1>4, <1>6, <1>10 DEF Editors
<1>12. MngAct(c, seq, e).node = n /\ MngAct(c, seq, e).act = act
  BY <1>6 DEF Editors
<1>13. StaysInText(c, e.node, n)
  BY <1>1, ApplyIs DEF StaysInText, n
<1>14. QED
  BY <1>10, <1>11, <1>12, <1>13

(* cmd_uninsert takes back what lies before the cursor, or exits.          *)
LEMMA UninsertIs ==
  ASSUME NEW seq \in Seqs, NEW e \in Editors
  PROVE  /\ Uninsert(seq, e) \in Editors
         /\ InText(e.node) => InText(Uninsert(seq, e).node)
<1> DEFINE t == e.node.text
           at == Offset(t, e.node.cursor)
           k == Len(seq.text)
           a == SubSeq(t, 1, at - k)
           b == SubSeq(t, at + 1, Len(t))
           ab == a \o b
           cursor == e.node.cursor - k
<1>1. /\ e.node \in Placed /\ t \in Seq(Chars) /\ Len(t) \in Nat
      /\ e.node.cursor \in Int /\ e.node.cursor >= -1 /\ k \in Nat
  BY DEF Editors, Placed, Node, Seqs
<1>2. /\ at \in 0 .. Len(t) /\ (e.node.cursor \in 0 .. Len(t) => at = e.node.cursor)
      /\ e.node.cursor >= 0 => at <= e.node.cursor
      /\ e.node.cursor < 0 => at = 0
  BY <1>1, OffsetIs
<1>3. Uninsert(seq, e) = IF at < k THEN [e EXCEPT !.exit = "uninsert"]
                         ELSE [e EXCEPT !.node.text = ab, !.node.cursor = @ - k]
  BY DEF Uninsert
<1> HIDE DEF t, at, k
<1>4. CASE at < k
  <2>1. Uninsert(seq, e) = [e EXCEPT !.exit = "uninsert"]
    BY <1>3, <1>4
  <2>2. QED
    BY <2>1 DEF Editors
<1>5. CASE ~(at < k)
  <2>1. at - k \in 0 .. Len(t) /\ k <= at
    BY <1>1, <1>2, <1>5
  <2>2. a \in Seq(Chars) /\ Len(a) = at - k
    BY <1>1, <2>1, Cut
  <2>3. b \in Seq(Chars) /\ Len(b) = Len(t) - at
    BY <1>1, <1>2, Cut
  <2> HIDE DEF a, b
  <2>4. ab \in Seq(Chars) /\ Len(ab) = (at - k) + (Len(t) - at)
    BY <2>2, <2>3, Joined
  <2> HIDE DEF ab
  <2>5. Len(ab) = Len(t) - k
    BY <1>1, <1>2, <2>4
  <2>6. cursor \in Int /\ cursor >= -1
    BY <1>1, <1>2, <2>1
  <2>7. e.node.cursor \in 0 .. Len(t) => cursor \in 0 .. Len(ab)
    BY <1>1, <1>2, <2>1, <2>5
  <2> DEFINE m == [e.node EXCEPT !.text = ab, !.cursor = cursor]
  <2>8. Uninsert(seq, e) = [e EXCEPT !.node = m]
    BY <1>3, <1>5 DEF Editors, Placed, Node
  <2> HIDE DEF cursor
  <2>9. m \in Placed /\ m.text = ab /\ m.cursor = cursor
    BY <1>1, <2>4, <2>6 DEF Placed, Node
  <2> HIDE DEF m
  <2>10. Uninsert(seq, e) \in Editors /\ Uninsert(seq, e).node = m
    BY <2>8, <2>9 DEF Editors
  <2>11. InText(e.node) => InText(m)
    BY <2>7, <2>9 DEF InText, t
  <2>12. QED
    BY <2>10, <2>11
<1>6. QED
  BY <1>4, <1>5

(* cmd_get_back_to_line_pos goes to a place in the text, or nowhere.       *)
LEMMA GetBackIs ==
  ASSUME NEW seq \in Seqs, NEW e \in Editors
  PROVE  /\ GetBack(seq, e) \in Editors
         /\ InText(e.node) => InText(GetBack(seq, e).node)
<1>1. CASE seq.pos \in 0 .. Len(e.node.text)
  <2> DEFINE p == seq.pos
             m == [e.node EXCEPT !.cursor = p]
  <2>1. e.node \in Placed /\ Len(e.node.text) \in Nat
    BY DEF Editors, Placed, Node
  <2>2. p \in Int /\ p >= -1 /\ p \in 0 .. Len(e.node.text)
    BY <1>1, <2>1
  <2>3. GetBack(seq, e) = [e EXCEPT !.node = m]
    BY <1>1 DEF GetBack, Editors, Placed, Node
  <2> HIDE DEF p
  <2>4. m \in Placed /\ m.text = e.node.text /\ m.cursor = p
    BY <2>1, <2>2 DEF Placed, Node
  <2> HIDE DEF m
  <2>5. GetBack(seq, e) \in Editors /\ GetBack(seq, e).node = m
    BY <2>3, <2>4 DEF Editors
  <2>6. QED
    BY <2>2, <2>4, <2>5 DEF InText
<1>2. CASE seq.pos \notin 0 .. Len(e.node.text)
  BY <1>2 DEF GetBack
<1>3. QED
  BY <1>1, <1>2

(* Any command of comp_cmds keeps the editor one.                          *)
LEMMA RunIs ==
  ASSUME NEW c \in Commands, NEW seq \in Seqs, NEW e \in Editors
  PROVE  /\ Run(c, seq, e) \in Editors
         /\ StaysInText(c, e.node, Run(c, seq, e).node)
<1>1. CASE c = "uninsert"
  BY <1>1, UninsertIs DEF Run, StaysInText
<1>2. CASE c = "get_back_to_line_pos"
  BY <1>2, GetBackIs DEF Run, StaysInText
<1>3. CASE c \in Recorded /\ c # "uninsert" /\ c # "get_back_to_line_pos"
  <2>1. CASE Refuses(c, e.node)
    <3>1. Run(c, seq, e) = [e EXCEPT !.act = NULL]
      BY <1>3, <2>1 DEF Run
    <3>2. c # "toggle_cursor"
      BY <2>1 DEF Refuses
    <3>3. Run(c, seq, e) \in Editors /\ Run(c, seq, e).node = e.node
      BY <3>1 DEF Editors
    <3>4. QED
      BY <3>2, <3>3 DEF StaysInText
  <2>2. CASE ~Refuses(c, e.node)
    <3>1. Run(c, seq, e) = MngAct(c, seq, e)
      BY <1>3, <2>2 DEF Run
    <3>2. QED
      BY <1>3, <3>1, MngActIs
  <2>3. QED
    BY <2>1, <2>2
<1>4. QED
  BY <1>1, <1>2, <1>3 DEF Commands

(* A complement is a command, and only toggle_cursor is its own.           *)
LEMMA ComplementIs ==
  ASSUME NEW c \in Recorded
  PROVE  /\ Complement[c] \in Commands
         /\ Complement[c] = "toggle_cursor" => c = "toggle_cursor"
BY DEF Complement, Commands, Recorded, Motions, MarkerCommands

(* The recursion of cmd_undo and cmd_redo over the cnt of an action is a   *)
(* function with the values that its definition says.                      *)
Runs(f, k, c, seq, e) ==
  /\ f = [i \in 0 .. k |-> IF i = 0 THEN e ELSE Run(c, seq, f[i - 1])]
  /\ RunTimes(k, c, seq, e) = f[k]

(* Such a function exists.                                                 *)
LEMMA RunTimesIs ==
  ASSUME NEW k \in Nat, NEW c, NEW seq, NEW e
  PROVE  \E f : Runs(f, k, c, seq, e)
<1> DEFINE Is(f, m) == f = [i \in 0 .. m |-> IF i = 0 THEN e ELSE Run(c, seq, f[i - 1])]
           S == {m \in Nat : \E f : Is(f, m)}
<1>1. 0 \in S
  <2>1. Is([i \in 0 .. 0 |-> e], 0)
    OBVIOUS
  <2>2. QED
    BY <2>1
<1>2. ASSUME NEW m \in Nat, m \in S
      PROVE  m + 1 \in S
  <2>1. PICK f : Is(f, m)
    BY <1>2
  <2> DEFINE g == [i \in 0 .. m + 1 |-> IF i = 0 THEN e ELSE Run(c, seq, f[i - 1])]
  <2>2. \A i \in 0 .. m : g[i] = f[i]
    BY <2>1
  <2>3. \A i \in 0 .. m + 1 : i # 0 => i - 1 \in 0 .. m
    OBVIOUS
  <2>4. Is(g, m + 1)
    BY <2>2, <2>3
  <2> HIDE DEF Is, g
  <2>5. QED
    BY <2>4
<1> HIDE DEF S
<1>3. k \in S
  BY <1>1, <1>2, Induction
<1>4. \E f : Is(f, k)
  BY <1>3 DEF S
<1>5. RunTimes(k, c, seq, e) = (CHOOSE f : Is(f, k))[k]
  BY DEF RunTimes
<1>6. QED
  BY <1>4, <1>5 DEF Runs

(* What each run of a command keeps, all of them keep.                     *)
LEMMA RunTimesIn ==
  ASSUME NEW k \in Nat, NEW c, NEW seq, NEW G, NEW e \in G,
         \A x \in G : Run(c, seq, x) \in G
  PROVE  RunTimes(k, c, seq, e) \in G
<1> PICK f : Runs(f, k, c, seq, e)
  BY RunTimesIs
<1>1. /\ f = [i \in 0 .. k |-> IF i = 0 THEN e ELSE Run(c, seq, f[i - 1])]
      /\ RunTimes(k, c, seq, e) = f[k]
  BY DEF Runs
<1> DEFINE S == {i \in Nat : i <= k => f[i] \in G}
<1>2. 0 \in S
  BY <1>1
<1>3. ASSUME NEW i \in Nat, i \in S
      PROVE  i + 1 \in S
  <2>1. CASE i + 1 <= k
    <3>1. f[i] \in G
      BY <1>3, <2>1
    <3>2. i + 1 \in 0 .. k /\ i + 1 # 0 /\ (i + 1) - 1 = i
      BY <2>1
    <3>3. f[i + 1] = Run(c, seq, f[i])
      BY <1>1, <3>2
    <3>4. QED
      BY <3>1, <3>3
  <2>2. CASE ~(i + 1 <= k)
    BY <2>2
  <2>3. QED
    BY <2>1, <2>2
<1> HIDE DEF S
<1>4. k \in S
  BY <1>2, <1>3, Induction
<1>5. QED
  BY <1>1, <1>4 DEF S

(* However often a command runs, the editor stays one; a cursor leaves the *)
(* text only by an odd number of swaps.                                    *)
LEMMA RunTimesKeeps ==
  ASSUME NEW k \in Nat, NEW c \in Commands, NEW seq \in Seqs, NEW e \in Editors
  PROVE  LET end == RunTimes(k, c, seq, e)
         IN  /\ end \in Editors
             /\ c # "toggle_cursor" /\ InText(e.node) => InText(end.node)
             /\ c = "toggle_cursor" => end.node \in {e.node, Swapped(e.node)}
<1> DEFINE G == {x \in Editors :
                   /\ c # "toggle_cursor" /\ InText(e.node) => InText(x.node)
                   /\ c = "toggle_cursor" => x.node \in {e.node, Swapped(e.node)}}
<1>1. e \in G
  OBVIOUS
<1>2. Swapped(Swapped(e.node)) = e.node
  BY DEF Swapped, Editors, Placed, Node
<1>3. ASSUME NEW x \in G
      PROVE  Run(c, seq, x) \in G
  <2>1. Run(c, seq, x) \in Editors /\ StaysInText(c, x.node, Run(c, seq, x).node)
    BY <1>3, RunIs
  <2>2. CASE c = "toggle_cursor"
    BY <1>2, <1>3, <2>1, <2>2 DEF StaysInText
  <2>3. CASE c # "toggle_cursor"
    BY <1>3, <2>1, <2>3 DEF StaysInText
  <2>4. QED
    BY <2>2, <2>3
<1> HIDE DEF G
<1>4. RunTimes(k, c, seq, e) \in G
  BY <1>1, <1>3, RunTimesIn
<1>5. QED
  BY <1>4 DEF G

-----------------------------------------------------------------------------
(* The keys.                                                               *)

(* A step that leaves the text has swapped cursor and marker.              *)
Leaves == InText(node) /\ ~InText(node') => node' = Swapped(node)

(* The editor of a state.                                                  *)
LEMMA EditorIs ==
  ASSUME IInv
  PROVE  /\ Editor \in Editors /\ Editor.node = node
         /\ undo # <<>> =>
              /\ Head(undo) \in Actions \cup {NULL}
              /\ [Editor EXCEPT !.undo = Tail(@)] \in Editors
              /\ [Editor EXCEPT !.undo = Tail(@)].node = node
         /\ Tail(undo) \in Stacks \/ undo = <<>>
BY PopIs DEF IInv, Editor, Editors

(* An event without a seq, and one with a text.                            *)
LEMMA NoSeqIs == NoSeq \in Seqs /\ \A t \in Seq(Chars) : Text(t) \in Seqs
<1>1. NoSeq \in [kind : {"null", "text", "hex"}, text : Seq(Chars), pos : Int] /\ NoSeq.pos = 0
  BY DEF NoSeq
<1>2. ASSUME NEW t \in Seq(Chars)
      PROVE  Text(t) \in [kind : {"null", "text", "hex"}, text : Seq(Chars), pos : Int]
             /\ Text(t).pos = 0
  BY <1>1 DEF Text
<1>3. QED
  BY <1>1, <1>2 DEF Seqs

(* A recorded command on a key.                                            *)
LEMMA KeyStep ==
  ASSUME IInv, NEW c \in Recorded, NEW seq \in Seqs, Key(c, seq)
  PROVE  IInv' /\ Leaves
<1> DEFINE e == Run(c, seq, Editor)
<1>1. Editor \in Editors /\ Editor.node = node
  BY EditorIs
<1>2. e = MngAct(c, seq, Editor)
  <2>1. ~Refuses(c, Editor.node) /\ c # "uninsert" /\ c # "get_back_to_line_pos"
    BY <1>1 DEF Key, Recorded, Motions, MarkerCommands
  <2>2. QED
    BY <2>1 DEF Run
<1>3. e \in Editors /\ e.act \in Actions /\ StaysInText(c, node, e.node)
  BY <1>1, <1>2, MngActIs
<1>4. /\ node' = e.node /\ undo' = Push(e.act, e.undo) /\ redo' = <<>>
      /\ exit' = e.exit /\ keys' \in 0 .. MaxKeys
  BY EditorAssumption DEF Key, Become, Pressed, IInv
<1> HIDE DEF e
<1>5. e.node \in Placed /\ e.undo \in Stacks /\ e.exit \in {"no", "uninsert"}
  BY <1>3 DEF Editors
<1>6. Push(e.act, e.undo) \in Stacks
  BY <1>3, <1>5, PushIs
<1>7. IInv'
  BY <1>4, <1>5, <1>6 DEF IInv
<1>8. Leaves
  BY <1>3, <1>4 DEF Leaves, StaysInText
<1>9. QED
  BY <1>7, <1>8

(* cmd_undo runs the complement as often as the action counts.             *)
LEMMA UndoStep == ASSUME IInv, Undo PROVE IInv' /\ Leaves
<1> DEFINE a == Head(undo)
           start == [Editor EXCEPT !.undo = Tail(@)]
           c == Complement[a.cmd]
           e == RunTimes(a.cnt, c, a.seq, start)
<1>1. /\ a \in Actions \cup {NULL} /\ start \in Editors /\ start.node = node
      /\ Tail(undo) \in Stacks
  BY EditorIs DEF Undo
<1>2. keys' \in 0 .. MaxKeys
  BY EditorAssumption DEF Undo, Pressed, IInv
<1>3. IF a = NULL THEN Become(node, Tail(undo), redo, exit)
      ELSE Become(e.node, e.undo, IF e.exit = "no" THEN Push(a, redo) ELSE redo, e.exit)
  BY DEF Undo
<1> HIDE DEF a, start, c, e
<1>4. CASE a = NULL
  BY <1>1, <1>2, <1>3, <1>4 DEF Become, IInv, Leaves
<1>5. CASE a # NULL
  <2>1. a \in Actions
    BY <1>1, <1>5
  <2>2. a.cmd \in Recorded /\ a.seq \in Seqs /\ a.cnt \in Nat
    BY <2>1 DEF Actions, Action
  <2>3. c \in Commands
    BY <2>2, ComplementIs DEF c
  <2>4. /\ e \in Editors
        /\ c # "toggle_cursor" /\ InText(node) => InText(e.node)
        /\ c = "toggle_cursor" => e.node \in {node, Swapped(node)}
    BY <1>1, <2>2, <2>3, RunTimesKeeps DEF e
  <2>5. e.node \in Placed /\ e.undo \in Stacks /\ e.exit \in {"no", "uninsert"}
    BY <2>4 DEF Editors
  <2>6. Push(a, redo) \in Seq(Actions)
    BY <2>1 DEF IInv, Push
  <2>7. /\ node' = e.node /\ undo' = e.undo /\ redo' \in Seq(Actions) /\ exit' = e.exit
    BY <1>3, <1>5, <2>6 DEF Become, IInv
  <2>8. IInv'
    BY <1>2, <2>5, <2>7 DEF IInv
  <2>9. Leaves
    BY <2>4, <2>7 DEF Leaves
  <2>10. QED
    BY <2>8, <2>9
<1>6. QED
  BY <1>4, <1>5

(* cmd_redo runs the command itself.                                       *)
LEMMA RedoStep == ASSUME IInv, Redo PROVE IInv' /\ Leaves
<1> DEFINE a == Head(redo)
           c == a.cmd
           e == RunTimes(a.cnt, c, a.seq, Editor)
<1>1. Editor \in Editors /\ Editor.node = node
  BY EditorIs
<1>2. a \in Actions /\ Tail(redo) \in Seq(Actions)
  BY DEF IInv, Redo
<1>3. keys' \in 0 .. MaxKeys
  BY EditorAssumption DEF Redo, Pressed, IInv
<1>4. node' = e.node /\ undo' = Push(a, e.undo) /\ redo' = Tail(redo) /\ exit' = e.exit
  BY DEF Redo, Become
<1> HIDE DEF a, e
<1>5. c \in Recorded /\ c \in Commands /\ a.seq \in Seqs /\ a.cnt \in Nat
  BY <1>2 DEF Actions, Action, Commands
<1> HIDE DEF c
<1>6. /\ e \in Editors
      /\ c # "toggle_cursor" /\ InText(node) => InText(e.node)
      /\ c = "toggle_cursor" => e.node \in {node, Swapped(node)}
  BY <1>1, <1>5, RunTimesKeeps DEF e
<1>7. e.node \in Placed /\ e.undo \in Stacks /\ e.exit \in {"no", "uninsert"}
  BY <1>6 DEF Editors
<1>8. Push(a, e.undo) \in Stacks
  BY <1>2, <1>7, PushIs
<1>9. IInv'
  BY <1>2, <1>3, <1>4, <1>7, <1>8 DEF IInv
<1>10. Leaves
  BY <1>4, <1>6 DEF Leaves
<1>11. QED
  BY <1>9, <1>10

(* cmd_enter begins a new node with the old stacks.                        *)
LEMMA EnterStep == ASSUME IInv, Enter PROVE IInv' /\ Leaves
<1>1. EmptyNode \in Placed /\ InText(EmptyNode)
  BY DEF EmptyNode, Placed, Node, Unset, InText
<1>2. keys' \in 0 .. MaxKeys
  BY EditorAssumption DEF Enter, Pressed, IInv
<1>3. QED
  BY <1>1, <1>2 DEF Enter, IInv, Leaves

(* Every step keeps the invariant, and leaves the text only by a swap.     *)
LEMMA NextKeeps == ASSUME IInv, Next PROVE IInv' /\ Leaves
<1>1. CASE TypeChar
  <2>1. PICK ch \in Chars : Key("insert", Text(<<ch>>))
    BY <1>1 DEF TypeChar
  <2>2. <<ch>> \in Seq(Chars)
    OBVIOUS
  <2>3. Text(<<ch>>) \in Seqs
    BY <2>2, NoSeqIs
  <2>4. "insert" \in Recorded
    BY DEF Recorded
  <2>5. QED
    BY <2>1, <2>3, <2>4, KeyStep
<1>2. CASE DeleteBack
  BY <1>2, NoSeqIs, KeyStep DEF DeleteBack, Recorded
<1>3. CASE Move
  BY <1>3, NoSeqIs, KeyStep DEF Move, Recorded
<1>4. CASE Mark
  BY <1>4, NoSeqIs, KeyStep DEF Mark, Recorded
<1>5. QED
  BY <1>1, <1>2, <1>3, <1>4, EnterStep, UndoStep, RedoStep DEF Next

(* The inductive invariant.                                                *)
THEOREM Invariance == Spec => []IInv
<1>1. Init => IInv
  BY EditorAssumption
     DEF Init, IInv, EmptyNode, Placed, Node, Unset, Stacks
<1>2. IInv /\ [Next]_vars => IInv'
  <2>1. IInv /\ UNCHANGED vars => IInv'
    BY DEF IInv, vars
  <2>2. QED
    BY <2>1, NextKeeps
<1>3. QED
  BY <1>1, <1>2, PTL DEF Spec

(* Cursor, marker and text keep their types, and the null pointers that    *)
(* mngAct pushes lie at the bottom of undoStack and never on redoStack,    *)
(* where cmd_redo would follow one.                                        *)
THEOREM TypeCorrect == Spec => []TypeOK
<1>1. IInv => TypeOK
  <2> SUFFICES ASSUME IInv PROVE TypeOK
    OBVIOUS
  <2>1. Actions \subseteq Action \ {NULL} /\ NULL \in Action
    BY NullIs DEF Actions
  <2>2. undo \in Seq(Action) /\ \A i \in 1 .. Len(undo) - 1 : undo[i] # NULL
    <3>1. undo \in Seq(Actions \cup {NULL})
      BY DEF IInv, Stacks
    <3>2. QED
      BY <2>1, <3>1 DEF IInv, Stacks
  <2>3. redo \in Seq(Action \ {NULL})
    BY <2>1 DEF IInv
  <2>4. QED
    BY <2>2, <2>3 DEF IInv, TypeOK, Placed
<1>2. QED
  BY <1>1, Invariance, PTL

(* No command but cmd_toggle_cursor, and no undo or redo of another, takes *)
(* the cursor out of the text.                                             *)
THEOREM CursorCorrect == Spec => CursorLeavesByToggle
<1>1. IInv /\ [Next]_vars =>
        [InText(node) /\ ~InText(node') =>
           node' = [node EXCEPT !.cursor = node.marker, !.marker = node.cursor]]_vars
  BY NextKeeps DEF Leaves, Swapped
<1>2. QED
  BY <1>1, Invariance, PTL DEF Spec, CursorLeavesByToggle

-----------------------------------------------------------------------------
(* Undo and redo.  A node whose cursor lies between the texts x and y.     *)

At(n, x, y) == n.text = x \o y /\ n.cursor = Len(x)

(* A text cut where two texts meet falls into the two.                     *)
LEMMA CutJoined ==
  ASSUME NEW x \in Seq(Chars), NEW y \in Seq(Chars)
  PROVE  /\ SubSeq(x \o y, 1, Len(x)) = x
         /\ SubSeq(x \o y, Len(x) + 1, Len(x \o y)) = y
<1> DEFINE t == x \o y
           a == SubSeq(t, 1, Len(x))
           b == SubSeq(t, Len(x) + 1, Len(t))
<1>1. /\ t \in Seq(Chars) /\ Len(t) = Len(x) + Len(y)
      /\ \A i \in 1 .. Len(x) + Len(y) : t[i] = IF i <= Len(x) THEN x[i] ELSE y[i - Len(x)]
  BY ConcatProperties
<1>2. Len(x) \in Nat /\ Len(y) \in Nat
  OBVIOUS
<1> HIDE DEF t
<1>3. Len(x) \in 0 .. Len(t)
  BY <1>1, <1>2
<1>4. /\ a \in Seq(Chars) /\ Len(a) = Len(x)
      /\ b \in Seq(Chars) /\ Len(b) = Len(t) - Len(x)
  BY <1>1, <1>3, Cut
<1>5. Len(b) = Len(y)
  BY <1>1, <1>2, <1>4
<1>6. \A i \in 1 .. Len(t) : t[i] \in Chars
  BY <1>1
<1>7. ASSUME NEW i \in 1 .. Len(a)
      PROVE  a[i] = x[i]
  <2>1. \A j \in 1 .. Len(x) - 1 + 1 : a[j] = t[1 + j - 1]
    BY <1>1, <1>2, <1>6, SubSeqProperties
  <2>2. i \in 1 .. Len(x) - 1 + 1 /\ 1 + i - 1 = i /\ i \in 1 .. Len(x) + Len(y) /\ i <= Len(x)
    BY <1>2, <1>4
  <2>3. QED
    BY <1>1, <2>1, <2>2
<1>8. ASSUME NEW i \in 1 .. Len(b)
      PROVE  b[i] = y[i]
  <2>1. \A j \in 1 .. Len(t) - (Len(x) + 1) + 1 : b[j] = t[(Len(x) + 1) + j - 1]
    BY <1>1, <1>2, <1>6, SubSeqProperties
  <2> DEFINE k == (Len(x) + 1) + i - 1
  <2>2. /\ i \in 1 .. Len(t) - (Len(x) + 1) + 1 /\ k \in 1 .. Len(x) + Len(y)
        /\ ~(k <= Len(x)) /\ k - Len(x) = i
    BY <1>1, <1>2, <1>5
  <2> HIDE DEF k
  <2>3. b[i] = t[k]
    BY <2>1, <2>2 DEF k
  <2>4. t[k] = y[k - Len(x)]
    BY <1>1, <2>2
  <2>5. QED
    BY <2>2, <2>3, <2>4
<1> HIDE DEF a, b
<1>9. a = x
  BY <1>4, <1>7, SeqEqual
<1>10. b = y
  BY <1>4, <1>5, <1>8, SeqEqual
<1>11. QED
  BY <1>9, <1>10 DEF a, b, t

(* The byte offset of a position in the text.                              *)
LEMMA OffsetInText ==
  ASSUME NEW t \in Seq(Chars), NEW p \in 0 .. Len(t)
  PROVE  Offset(t, p) = p
BY OffsetIs

(* A cursor in the text lies between two texts.                            *)
LEMMA Parts ==
  ASSUME NEW n \in Placed, InText(n)
  PROVE  \E x \in Seq(Chars), y \in Seq(Chars) : At(n, x, y)
<1> DEFINE t == n.text
           x == SubSeq(t, 1, n.cursor)
           y == SubSeq(t, n.cursor + 1, Len(t))
<1>1. t \in Seq(Chars) /\ n.cursor \in 0 .. Len(t) /\ Len(t) \in Nat
  BY DEF Placed, Node, InText
<1> HIDE DEF t
<1>2. x \in Seq(Chars) /\ Len(x) = n.cursor /\ y \in Seq(Chars)
  BY <1>1, Cut
<1>3. x \o y = t
  <2>1. /\ 1 \in 1 .. Len(t) + 1 /\ n.cursor \in 1 - 1 .. Len(t)
        /\ Len(t) \in n.cursor .. Len(t)
    BY <1>1
  <2>2. x \o y = SubSeq(t, 1, Len(t))
    BY <1>1, <2>1, ConcatAdjacentSubSeq
  <2>3. QED
    BY <1>1, <2>2, SubSeqFull
<1> HIDE DEF x, y
<1>4. QED
  BY <1>2, <1>3 DEF At, t

(* upd_insert puts a text before the cursor.                               *)
LEMMA InsertAt ==
  ASSUME NEW n \in Placed, NEW x \in Seq(Chars), NEW y \in Seq(Chars), At(n, x, y),
         NEW t \in Seq(Chars)
  PROVE  At(Insert(n, t), x \o t, y)
<1>1. /\ n.text = x \o y /\ n.cursor = Len(x) /\ x \o y \in Seq(Chars)
      /\ Len(x) \in 0 .. Len(x \o y)
  BY Joined DEF At
<1>2. Offset(n.text, n.cursor) = Len(x)
  <2>1. Offset(x \o y, Len(x)) = Len(x)
    BY <1>1, OffsetInText
  <2>2. QED
    BY <1>1, <2>1
<1>3. /\ SubSeq(n.text, 1, Len(x)) = x
      /\ SubSeq(n.text, Len(x) + 1, Len(n.text)) = y
  BY <1>1, CutJoined
<1>4. Insert(n, t).text = x \o t \o y /\ Insert(n, t).cursor = Len(x) + Len(t)
  BY <1>1, <1>2, <1>3 DEF Insert
<1>5. QED
  BY <1>4, Joined DEF At

(* cmd_uninsert takes it back.                                             *)
LEMMA UninsertAt ==
  ASSUME NEW e \in Editors, NEW seq \in Seqs, NEW x \in Seq(Chars), NEW y \in Seq(Chars),
         At(e.node, x \o seq.text, y)
  PROVE  LET end == Uninsert(seq, e)
         IN At(end.node, x, y) /\ end.exit = e.exit
<1> DEFINE t == seq.text
           k == Len(t)
           at == Offset(e.node.text, e.node.cursor)
           left == x \o t
<1>1. t \in Seq(Chars) /\ e.node \in Placed
  BY DEF Seqs, Editors
<1> HIDE DEF t
<1>2. left \in Seq(Chars) /\ Len(left) = Len(x) + k
  BY <1>1, Joined
<1> HIDE DEF left
<1>3. /\ e.node.text = left \o y /\ e.node.cursor = Len(left) /\ left \o y \in Seq(Chars)
      /\ Len(left \o y) = Len(left) + Len(y)
  BY <1>2, Joined DEF At, left, t
<1>4. Len(x) \in Nat /\ Len(y) \in Nat /\ k \in Nat
  BY <1>1
<1> HIDE DEF k
<1>5. at = Len(left)
  <2>1. Len(left) \in 0 .. Len(left \o y)
    BY <1>2, <1>3, <1>4
  <2>2. Offset(left \o y, Len(left)) = Len(left)
    BY <1>3, <2>1, OffsetInText
  <2>3. QED
    BY <1>3, <2>2
<1> HIDE DEF at
<1>6. ~(at < k) /\ at - k = Len(x)
  BY <1>2, <1>4, <1>5
<1>7. SubSeq(e.node.text, at + 1, Len(e.node.text)) = y
  BY <1>2, <1>3, <1>5, CutJoined
<1>8. SubSeq(e.node.text, 1, at - k) = x
  <2>1. e.node.text = x \o (t \o y) /\ t \o y \in Seq(Chars)
    BY <1>1, <1>3, Joined, ConcatAssociative, SMTT(30) DEF left
  <2>2. SubSeq(x \o (t \o y), 1, Len(x)) = x
    BY <2>1, CutJoined
  <2>3. QED
    BY <1>6, <2>1, <2>2
<1>9. Uninsert(seq, e) = [e EXCEPT !.node.text = x \o y, !.node.cursor = @ - k]
  BY <1>6, <1>7, <1>8 DEF Uninsert, at, k, t
<1>10. e.node.cursor - k = Len(x)
  BY <1>2, <1>3, <1>4
<1>11. /\ Uninsert(seq, e).node.text = x \o y /\ Uninsert(seq, e).node.cursor = e.node.cursor - k
       /\ Uninsert(seq, e).exit = e.exit
  <2> DEFINE xy == x \o y
             cursor == e.node.cursor - k
             m == [e.node EXCEPT !.text = xy, !.cursor = cursor]
  <2>1. Uninsert(seq, e) = [e EXCEPT !.node = m]
    BY <1>1, <1>9 DEF Editors, Placed, Node
  <2> HIDE DEF xy, cursor
  <2>2. m.text = xy /\ m.cursor = cursor
    BY <1>1 DEF Placed, Node
  <2> HIDE DEF m
  <2>3. Uninsert(seq, e).node = m /\ Uninsert(seq, e).exit = e.exit
    BY <2>1 DEF Editors
  <2>4. QED
    BY <2>2, <2>3 DEF xy, cursor
<1>12. QED
  BY <1>10, <1>11 DEF At

(* A text as long as what cmd_backspace takes away with this seq.          *)
Takes(seq, t) == Len(t) = IF seq = NoSeq THEN 1 ELSE Len(seq.text)

(* cmd_backspace takes away what it stores: one character, or those of its *)
(* action.                                                                 *)
LEMMA BackspaceAt ==
  ASSUME NEW n \in Placed, NEW seq \in Seqs,
         NEW x \in Seq(Chars), NEW t \in Seq(Chars), NEW y \in Seq(Chars), At(n, x \o t, y),
         Takes(seq, t)
  PROVE  At(Backspace(n, seq), x, y) /\ Deleted(n, seq) = t
         /\ Backspace(n, seq).marker = n.marker
<1> DEFINE k == Len(t)
           left == x \o t
<1>1. left \in Seq(Chars) /\ Len(left) = Len(x) + k
  BY Joined
<1> HIDE DEF left
<1>2. /\ n.text = left \o y /\ n.cursor = Len(left) /\ left \o y \in Seq(Chars)
      /\ Len(left \o y) = Len(left) + Len(y)
  BY <1>1, Joined DEF At, left
<1>3. Len(x) \in Nat /\ Len(y) \in Nat /\ k \in Nat
  OBVIOUS
<1>4. BackTo(n, seq) = IF n.cursor - k < 0 THEN 0 ELSE n.cursor - k
  BY DEF BackTo, Takes
<1> HIDE DEF k
<1>5. BackTo(n, seq) = Len(x)
  BY <1>1, <1>2, <1>3, <1>4
<1>6. Offset(n.text, n.cursor) = Len(left) /\ Offset(n.text, Len(x)) = Len(x)
  <2>1. Len(left) \in 0 .. Len(left \o y) /\ Len(x) \in 0 .. Len(left \o y)
    BY <1>1, <1>2, <1>3
  <2>2. \A p \in 0 .. Len(left \o y) : Offset(left \o y, p) = p
    BY <1>2, OffsetInText
  <2>3. QED
    BY <1>2, <2>1, <2>2
<1>7. SubSeq(n.text, Len(left) + 1, Len(n.text)) = y
  BY <1>1, <1>2, CutJoined
<1>8. n.text = x \o (t \o y) /\ t \o y \in Seq(Chars)
  BY <1>2, Joined, ConcatAssociative DEF left
<1>9. SubSeq(n.text, 1, Len(x)) = x
  BY <1>8, CutJoined
<1>10. Deleted(n, seq) = t
  <2>1. Deleted(n, seq) = SubSeq(n.text, Len(x) + 1, Len(left))
    BY <1>5, <1>6 DEF Deleted
  <2> DEFINE d == SubSeq(n.text, Len(x) + 1, Len(left))
  <2>2. n.text \in Seq(Chars)
    BY DEF Placed, Node
  <2>3. Len(x) + 1 \in 1 .. Len(n.text) + 1 /\ Len(left) \in (Len(x) + 1) - 1 .. Len(n.text)
        /\ Len(n.text) \in Len(left) .. Len(n.text)
    BY <1>1, <1>2, <1>3
  <2>4. d \o y = SubSeq(n.text, Len(x) + 1, Len(n.text))
    BY <1>7, <2>2, <2>3, ConcatAdjacentSubSeq
  <2>5. SubSeq(n.text, Len(x) + 1, Len(n.text)) = t \o y
    <3>1. SubSeq(x \o (t \o y), Len(x) + 1, Len(x \o (t \o y))) = t \o y
      BY <1>8, CutJoined
    <3>2. QED
      BY <1>8, <3>1
  <2>6. d \in Seq(Chars)
    BY <1>1, <1>2, <1>3, <2>2, SubSeqProperties
  <2> HIDE DEF d
  <2>7. d = t
    BY <2>4, <2>5, <2>6, ConcatSimplifications
  <2>8. QED
    BY <2>1, <2>7 DEF d
<1>11. /\ Backspace(n, seq).text = x \o y /\ Backspace(n, seq).cursor = Len(x)
       /\ Backspace(n, seq).marker = n.marker
  BY <1>5, <1>6, <1>7, <1>9 DEF Backspace, Placed, Node
<1>12. QED
  BY <1>10, <1>11 DEF At

-----------------------------------------------------------------------------
(* Commands one after the other, on the node and on undoStack.             *)

(* A recorded command changes the node as Apply says, or refuses to; it    *)
(* puts nothing on undoStack but a null pointer, and does not exit.        *)
LEMMA RunRecorded ==
  ASSUME NEW c \in Recorded, NEW seq \in Seqs, NEW e \in Editors
  PROVE  LET end == Run(c, seq, e)
         IN  /\ end.node = IF Refuses(c, e.node) THEN e.node ELSE Apply(c, seq, e.node)
             /\ end.exit = e.exit
             /\ \/ end.undo = e.undo \/ end.undo = <<NULL>>
                \/ e.undo # <<>> /\ end.undo = Tail(e.undo)
<1>1. c # "uninsert" /\ c # "get_back_to_line_pos"
  BY DEF Recorded, Motions, MarkerCommands
<1>2. CASE Refuses(c, e.node)
  <2>1. Run(c, seq, e) = [e EXCEPT !.act = NULL]
    BY <1>1, <1>2 DEF Run
  <2>2. QED
    BY <1>2, <2>1 DEF Editors
<1>3. CASE ~Refuses(c, e.node)
  <2>1. Run(c, seq, e) = MngAct(c, seq, e)
    BY <1>1, <1>3 DEF Run
  <2> DEFINE n == Apply(c, seq, e.node)
             act == MngAct(c, seq, e).act
             stack == IF Merges(c, e) THEN Tail(e.undo)
                      ELSE IF e.undo = <<>> THEN <<NULL>> ELSE e.undo
  <2>2. MngAct(c, seq, e) = [e EXCEPT !.node = n, !.undo = stack, !.act = act]
    BY DEF MngAct, Editors
  <2>3. stack = e.undo \/ stack = <<NULL>> \/ (e.undo # <<>> /\ stack = Tail(e.undo))
    BY DEF Merges
  <2> HIDE DEF n, act, stack
  <2>4. /\ MngAct(c, seq, e).node = n /\ MngAct(c, seq, e).exit = e.exit
        /\ MngAct(c, seq, e).undo = stack
    BY <2>2 DEF Editors
  <2>5. QED
    BY <1>3, <2>1, <2>3, <2>4 DEF n
<1>4. QED
  BY <1>2, <1>3

(* The actions of undoStack stay in any set that they were in.             *)
LEMMA RunStack ==
  ASSUME NEW c \in Commands, NEW seq \in Seqs, NEW e \in Editors,
         NEW A, e.undo \in Seq(A \cup {NULL})
  PROVE  Run(c, seq, e).undo \in Seq(A \cup {NULL})
<1>1. CASE c = "uninsert"
  BY <1>1 DEF Run, Uninsert, Editors
<1>2. CASE c = "get_back_to_line_pos"
  BY <1>2 DEF Run, GetBack, Editors
<1>3. CASE c \in Recorded
  <2> DEFINE end == Run(c, seq, e)
  <2>1. \/ end.undo = e.undo \/ end.undo = <<NULL>>
        \/ e.undo # <<>> /\ end.undo = Tail(e.undo)
    BY <1>3, RunRecorded
  <2> HIDE DEF end
  <2>2. e.undo # <<>> => Tail(e.undo) \in Seq(A \cup {NULL})
    OBVIOUS
  <2>3. <<NULL>> \in Seq(A \cup {NULL})
    OBVIOUS
  <2>4. QED
    BY <2>1, <2>2, <2>3 DEF end
<1>4. QED
  BY <1>1, <1>2, <1>3 DEF Commands

(* However often the command runs.                                         *)
LEMMA RunTimesStack ==
  ASSUME NEW k \in Nat, NEW c \in Commands, NEW seq \in Seqs, NEW e \in Editors,
         NEW A, e.undo \in Seq(A \cup {NULL})
  PROVE  RunTimes(k, c, seq, e).undo \in Seq(A \cup {NULL})
<1> DEFINE G == {x \in Editors : x.undo \in Seq(A \cup {NULL})}
<1>1. e \in G /\ \A x \in G : Run(c, seq, x) \in G
  BY RunIs, RunStack
<1> HIDE DEF G
<1>2. RunTimes(k, c, seq, e) \in G
  BY <1>1, RunTimesIn
<1>3. QED
  BY <1>2 DEF G

(* A command that takes each of the nodes h[0] .. h[k] to the next.        *)
Follows(h, k, c, seq) ==
  \A i \in 0 .. k - 1 : \A x \in Editors :
    x.node = h[i] => Run(c, seq, x).node = h[i + 1] /\ Run(c, seq, x).exit = x.exit

(* Run k times it takes the first to the last.                             *)
LEMMA RunTimesFollows ==
  ASSUME NEW k \in Nat, NEW c \in Commands, NEW seq \in Seqs, NEW e \in Editors,
         NEW h, Follows(h, k, c, seq), e.node = h[0]
  PROVE  LET end == RunTimes(k, c, seq, e)
         IN  end.node = h[k] /\ end.exit = e.exit
<1> PICK f : Runs(f, k, c, seq, e)
  BY RunTimesIs
<1>1. /\ f = [i \in 0 .. k |-> IF i = 0 THEN e ELSE Run(c, seq, f[i - 1])]
      /\ RunTimes(k, c, seq, e) = f[k]
  BY DEF Runs
<1> DEFINE Good(x, i) == x \in Editors /\ x.node = h[i] /\ x.exit = e.exit
           S == {i \in Nat : i <= k => Good(f[i], i)}
<1>2. f[0] = e /\ Good(e, 0)
  BY <1>1
<1>3. 0 \in S
  BY <1>2
<1>4. ASSUME NEW i \in 0 .. k - 1, NEW x, Good(x, i)
      PROVE  Good(Run(c, seq, x), i + 1)
  BY <1>4, RunIs DEF Follows
<1> HIDE DEF Good
<1>5. ASSUME NEW i \in Nat, i \in S
      PROVE  i + 1 \in S
  <2>1. CASE i + 1 <= k
    <3>1. Good(f[i], i)
      BY <1>5, <2>1
    <3>2. i + 1 \in 0 .. k /\ i + 1 # 0 /\ (i + 1) - 1 = i /\ i \in 0 .. k - 1
      BY <2>1
    <3>3. f[i + 1] = Run(c, seq, f[i])
      BY <1>1, <3>2
    <3>4. QED
      BY <1>4, <3>1, <3>2, <3>3
  <2>2. CASE ~(i + 1 <= k)
    BY <2>2
  <2>3. QED
    BY <2>1, <2>2
<1> HIDE DEF S
<1>6. k \in S
  BY <1>3, <1>5, Induction
<1>7. Good(f[k], k)
  BY <1>6 DEF S
<1>8. QED
  BY <1>1, <1>7 DEF Good

(* A recorded command never exits, however often it is run.                *)
LEMMA RunTimesExit ==
  ASSUME NEW k \in Nat, NEW c \in Recorded, NEW seq \in Seqs, NEW e \in Editors
  PROVE  RunTimes(k, c, seq, e).exit = e.exit
<1> DEFINE G == {x \in Editors : x.exit = e.exit}
<1>1. e \in G /\ \A x \in G : Run(c, seq, x) \in G
  BY RunIs, RunRecorded DEF Commands
<1> HIDE DEF G
<1>2. RunTimes(k, c, seq, e) \in G
  BY <1>1, RunTimesIn
<1>3. QED
  BY <1>2 DEF G

(* A command run once.                                                     *)
LEMMA RunOnce ==
  ASSUME NEW c, NEW seq, NEW e
  PROVE  RunTimes(1, c, seq, e) = Run(c, seq, e)
<1> PICK f : Runs(f, 1, c, seq, e)
  BY RunTimesIs
<1>1. /\ f = [i \in 0 .. 1 |-> IF i = 0 THEN e ELSE Run(c, seq, f[i - 1])]
      /\ RunTimes(1, c, seq, e) = f[1]
  BY DEF Runs
<1>2. f[0] = e /\ f[1] = Run(c, seq, f[0])
  BY <1>1
<1>3. QED
  BY <1>1, <1>2

-----------------------------------------------------------------------------
(* What an action knows of the commands that it stands for, if each began  *)
(* where the last one had ended and the first had its cursor in the text.  *)

(* A command that may be repeated and looks at no seq, and one that does   *)
(* nothing when it is repeated.                                            *)
Moves == {"backward_char", "forward_char", "backward_word", "forward_word", "toggle_cursor"}
Once == {"to_beginning_of_line", "to_end_of_line", "set_marker", "unset_marker"}

(* The nodes g[0] .. g[k] that a repeated command goes through.            *)
Leads(c, g, k) ==
  /\ \A i \in 0 .. k : g[i] \in Placed
  /\ \A i \in 0 .. k - 1 :
       ~Refuses(c, g[i]) /\ g[i + 1] = Apply(c, NoSeq, g[i])
  /\ c # "toggle_cursor" => \A i \in 0 .. k : InText(g[i])

Moved(a) ==
  /\ \E g : Leads(a.cmd, g, a.cnt) /\ g[0] = a.from /\ g[a.cnt] = a.to
  /\ a.cmd = "backward_word" =>
       a.seq = Hex(a.from.cursor) /\ a.to = [a.from EXCEPT !.cursor = a.to.cursor]

DoneOnce(a) ==
  /\ a.cnt = 1 /\ ~Refuses(a.cmd, a.from) /\ a.to = Apply(a.cmd, NoSeq, a.from)
  /\ a.seq = Hex(IF a.cmd = "unset_marker" THEN a.from.marker ELSE a.from.cursor)

Inserted(a) == a.cnt = 1 /\ Same("insert", Insert(a.from, a.seq.text), a.to)

Erased(a) ==
  /\ a.cnt = 1 /\ a.seq = Text(a.seq.text) /\ Len(a.seq.text) > 0
  /\ Same("backspace", Insert(a.to, a.seq.text), a.from)

Knows(a) ==
  /\ a.cnt > 0 /\ a.from \in Placed /\ a.to \in Placed
  /\ a.cmd # "toggle_cursor" => InText(a.to)
  /\ a.cmd \in Moves => Moved(a)
  /\ a.cmd \in Once => DoneOnce(a)
  /\ a.cmd = "insert" => Inserted(a)
  /\ a.cmd = "backspace" => Erased(a)

Sound(a) == a.whole /\ InText(a.from) => Knows(a)

SoundActions == {a \in Actions : Sound(a)}

(* The same text and cursor, seen from both sides of the cursor.           *)
LEMMA SameAt ==
  ASSUME NEW c, NEW m, NEW n, NEW x, NEW y, At(m, x, y)
  PROVE  /\ Same(c, m, n) \/ Same(c, n, m) => At(n, x, y)
         /\ At(n, x, y) /\ c \in {"insert", "backspace"} => Same(c, m, n)
BY DEF At, Same

(* Except for insert and backspace the same node is the node.              *)
LEMMA SameIs ==
  ASSUME NEW c, c \notin {"insert", "backspace"}, NEW m \in Node, NEW n \in Node,
         Same(c, m, n)
  PROVE  m = n
BY DEF Same, Node

(* The commands of the four groups.                                        *)
LEMMA RecordedIs == Recorded = Moves \cup Once \cup {"insert", "backspace"}
BY DEF Recorded, Motions, MarkerCommands, Moves, Once

(* The action that mngAct makes or merges, as its fields.                  *)
Recording(c, seq, e) ==
  LET last == Head(e.undo)
      act == MngAct(c, seq, e).act
  IN  /\ act.cmd = c /\ act.to = Apply(c, seq, e.node)
      /\ ~Merges(c, e) =>
           /\ act.from = e.node /\ act.cnt = 1
           /\ act.seq = SeqOf(c, seq, e.node, NewAction(c, seq, e.node, act.to))
      /\ Merges(c, e) =>
           /\ last \in Actions /\ last.cmd = c
           /\ e.undo # <<>> /\ act.from = last.from
           /\ act.cnt = IF c \in {"insert", "backspace"} THEN 1 ELSE last.cnt + 1
           /\ act.seq = SeqOf(c, seq, e.node, [last EXCEPT !.cnt = @ + 1])
           /\ act.whole => last.whole /\ Same(c, last.to, e.node)

(* mngAct records so.                                                      *)
LEMMA ActIs ==
  ASSUME NEW c \in Recorded, NEW seq \in Seqs, NEW e \in Editors
  PROVE  Recording(c, seq, e)
<1> DEFINE last == Head(e.undo)
           n == Apply(c, seq, e.node)
           merges == Merges(c, e)
           old == IF merges THEN [last EXCEPT !.cnt = @ + 1] ELSE NewAction(c, seq, e.node, n)
           cnt == IF c \in {"insert", "backspace"} THEN 1 ELSE old.cnt
           stack == IF merges THEN Tail(e.undo)
                    ELSE IF e.undo = <<>> THEN <<NULL>> ELSE e.undo
           kept == SeqOf(c, seq, e.node, old)
           whole == old.whole /\ (merges => Same(c, last.to, e.node))
           act == [old EXCEPT !.seq = kept, !.cnt = cnt, !.to = n, !.whole = whole]
<1>1. MngAct(c, seq, e) = [e EXCEPT !.node = n, !.undo = stack, !.act = act]
  BY DEF MngAct, Editors
<1>2. MngAct(c, seq, e).act = act
  <2> HIDE DEF n, stack, act
  <2>1. QED
    BY <1>1 DEF Editors
<1>3. merges => last \in Actions /\ last.cmd = c /\ e.undo # <<>>
  <2>1. merges => e.undo # <<>> /\ last.cmd = c
    BY DEF Merges
  <2>2. e.undo \in Stacks
    BY DEF Editors
  <2>3. merges => last \in Actions \cup {NULL}
    BY <2>1, <2>2, PopIs
  <2>4. c # "NULL"
    BY DEF Recorded, Motions, MarkerCommands
  <2>5. QED
    BY <2>1, <2>3, <2>4, NullIs
<1> HIDE DEF last, merges
<1>4. CASE merges
  <2>1. last \in Action
    BY <1>3, <1>4 DEF Actions
  <2>2. old = [last EXCEPT !.cnt = @ + 1]
    BY <1>4
  <2>3. /\ old \in [cmd : Recorded \cup {"NULL"},
                    seq : [kind : {"null", "text", "hex"}, text : Seq(Chars), pos : Int],
                    cnt : Nat, from : Node, to : Node, whole : BOOLEAN]
        /\ old.cmd = last.cmd /\ old.from = last.from /\ old.whole = last.whole
        /\ old.cnt = last.cnt + 1
    BY <2>1, <2>2 DEF Action
  <2>4. kept = SeqOf(c, seq, e.node, [last EXCEPT !.cnt = @ + 1])
    BY <2>2
  <2> HIDE DEF old, kept, whole, cnt, n
  <2>5. /\ act.cmd = last.cmd /\ act.from = last.from /\ act.seq = kept /\ act.cnt = cnt
        /\ act.to = n /\ act.whole = whole
    BY <2>3
  <2> HIDE DEF act
  <2>6. act.whole => last.whole /\ Same(c, last.to, e.node)
    BY <1>4, <2>3, <2>5 DEF whole
  <2>7. act.cnt = IF c \in {"insert", "backspace"} THEN 1 ELSE last.cnt + 1
    BY <2>3, <2>5 DEF cnt
  <2>8. QED
    BY <1>2, <1>3, <1>4, <2>4, <2>5, <2>6, <2>7 DEF Recording, n, last, merges
<1>5. CASE ~merges
  <2>1. /\ old = NewAction(c, seq, e.node, n)
        /\ kept = SeqOf(c, seq, e.node, NewAction(c, seq, e.node, n))
        /\ cnt = 1
    BY <1>5 DEF NewAction
  <2> HIDE DEF kept, whole, cnt, n, old
  <2>2. /\ act.cmd = c /\ act.from = e.node /\ act.seq = kept /\ act.cnt = cnt /\ act.to = n
    BY <2>1 DEF NewAction
  <2> HIDE DEF act
  <2>3. QED
    BY <1>2, <1>5, <2>1, <2>2 DEF Recording, n, merges
<1>6. QED
  BY <1>4, <1>5

-----------------------------------------------------------------------------
(* What a key records is sound.                                            *)

(* A repeated command goes on from the last of its nodes.                  *)
LEMMA LeadsOn ==
  ASSUME NEW c, NEW k \in Nat, NEW g, Leads(c, g, k), NEW n \in Placed,
         ~Refuses(c, g[k]), n = Apply(c, NoSeq, g[k]), c # "toggle_cursor" => InText(n)
  PROVE  \E h : Leads(c, h, k + 1) /\ h[0] = g[0] /\ h[k + 1] = n
<1> DEFINE h == [i \in 0 .. k + 1 |-> IF i = k + 1 THEN n ELSE g[i]]
<1>1. h[k + 1] = n /\ h[0] = g[0] /\ h[k] = g[k]
  OBVIOUS
<1>2. \A i \in 0 .. k + 1 : i = k + 1 \/ (i \in 0 .. k /\ h[i] = g[i])
  OBVIOUS
<1> HIDE DEF h
<1>3. \A i \in 0 .. k + 1 : h[i] \in Placed
  BY <1>1, <1>2 DEF Leads
<1>4. c # "toggle_cursor" => \A i \in 0 .. k + 1 : InText(h[i])
  BY <1>1, <1>2 DEF Leads
<1>5. ASSUME NEW i \in 0 .. (k + 1) - 1
      PROVE  ~Refuses(c, h[i]) /\ h[i + 1] = Apply(c, NoSeq, h[i])
  <2>1. CASE i = k
    BY <1>1, <2>1
  <2>2. CASE i # k
    <3>1. i \in 0 .. k - 1 /\ i \in 0 .. k + 1 /\ i + 1 \in 0 .. k + 1
          /\ i # k + 1 /\ i + 1 # k + 1
      BY <2>2
    <3>2. h[i] = g[i] /\ h[i + 1] = g[i + 1]
      BY <1>2, <3>1
    <3>3. QED
      BY <3>1, <3>2 DEF Leads
  <2>3. QED
    BY <2>1, <2>2
<1>6. Leads(c, h, k + 1)
  BY <1>3, <1>4, <1>5 DEF Leads
<1>7. QED
  BY <1>1, <1>6

(* A command that does nothing when repeated.                              *)
LEMMA OnceRefuses ==
  ASSUME NEW c \in Once, NEW n \in Placed, InText(n)
  PROVE  Refuses(c, Apply(c, NoSeq, n))
<1>1. /\ n.text \in Seq(Chars) /\ n.cursor \in 0 .. Len(n.text) /\ Len(n.text) \in Nat
      /\ n \in Node
  BY DEF Placed, Node, InText
<1>2. CASE c = "to_beginning_of_line"
  <2>1. Apply(c, NoSeq, n) = [n EXCEPT !.cursor = 0]
    BY <1>2 DEF Apply
  <2>2. QED
    BY <1>1, <1>2, <2>1 DEF Refuses, Node
<1>3. CASE c = "to_end_of_line"
  <2> DEFINE k == Len(n.text)
  <2>1. Apply(c, NoSeq, n) = [n EXCEPT !.cursor = k]
    BY <1>3 DEF Apply
  <2> HIDE DEF k
  <2>2. Apply(c, NoSeq, n).cursor = k /\ Apply(c, NoSeq, n).text = n.text
    BY <1>1, <2>1 DEF Node
  <2>3. QED
    BY <1>1, <1>3, <2>2 DEF Refuses, AtOrPastEnd, k
<1>4. CASE c = "set_marker"
  <2>1. Apply(c, NoSeq, n) = [n EXCEPT !.marker = n.cursor]
    BY <1>4 DEF Apply
  <2>2. Apply(c, NoSeq, n).marker = n.cursor
    BY <1>1, <2>1 DEF Node
  <2>3. QED
    BY <1>1, <1>4, <2>2 DEF Refuses, Unset
<1>5. CASE c = "unset_marker"
  <2>1. Apply(c, NoSeq, n) = [n EXCEPT !.marker = Unset]
    BY <1>5 DEF Apply
  <2>2. QED
    BY <1>1, <1>5, <2>1 DEF Refuses, Node
<1>6. QED
  BY <1>2, <1>3, <1>4, <1>5 DEF Once

(* A key's command on an editor whose actions are sound.                   *)
Pressing(c, seq, e) ==
  /\ ~Refuses(c, e.node)
  /\ c = "insert" \/ seq = NoSeq
  /\ Merges(c, e) => Sound(Head(e.undo))

(* What it knows before it is done: the last action, if it is merged into. *)
LEMMA MergedIs ==
  ASSUME NEW c \in Recorded, NEW seq \in Seqs, NEW e \in Editors, Pressing(c, seq, e),
         MngAct(c, seq, e).act.whole, InText(MngAct(c, seq, e).act.from)
  PROVE  LET last == Head(e.undo)
         IN  /\ Merges(c, e) =>
                  /\ last \in Actions /\ last.cmd = c
                  /\ Knows(last) /\ Same(c, last.to, e.node)
                  /\ c \notin {"insert", "backspace"} => last.to = e.node
             /\ c # "toggle_cursor" => InText(e.node)
<1> DEFINE last == Head(e.undo)
           act == MngAct(c, seq, e).act
<1>1. /\ ~Merges(c, e) => act.from = e.node
      /\ Merges(c, e) => /\ last \in Actions /\ last.cmd = c /\ act.from = last.from
                         /\ act.whole => last.whole /\ Same(c, last.to, e.node)
  <2>1. Recording(c, seq, e)
    BY ActIs
  <2>2. QED
    BY <2>1 DEF Recording
<1>2. act.whole /\ InText(act.from) /\ (Merges(c, e) => Sound(last)) /\ e.node \in Placed
  BY DEF Pressing, Editors
<1> HIDE DEF last, act
<1>3. CASE Merges(c, e)
  <2>1. Knows(last) /\ Same(c, last.to, e.node)
    BY <1>1, <1>2, <1>3 DEF Sound
  <2>2. c \notin {"insert", "backspace"} => last.to = e.node
    BY <1>2, <2>1, SameIs DEF Knows, Placed
  <2>3. c # "toggle_cursor" => InText(e.node)
    BY <1>1, <1>3, <2>1 DEF Knows, Same, InText
  <2>4. QED
    BY <1>1, <1>3, <2>1, <2>2, <2>3 DEF last
<1>4. CASE ~Merges(c, e)
  BY <1>1, <1>2, <1>4
<1>5. QED
  BY <1>3, <1>4

(* What a repeated command has gone through.                               *)
LEMMA MoveKnows ==
  ASSUME NEW c \in Moves, NEW seq \in Seqs, NEW e \in Editors, Pressing(c, seq, e),
         MngAct(c, seq, e).act.whole, InText(MngAct(c, seq, e).act.from)
  PROVE  LET act == MngAct(c, seq, e).act
         IN act.from \in Placed /\ act.cnt > 0 /\ Moved(act)
<1> DEFINE last == Head(e.undo)
           act == MngAct(c, seq, e).act
           n == Apply(c, NoSeq, e.node)
<1>1. /\ c \in Recorded /\ c \notin {"insert", "backspace"} /\ seq = NoSeq
      /\ ~Refuses(c, e.node) /\ e.node \in Placed /\ NoSeq \in Seqs
  BY RecordedIs, NoSeqIs DEF Moves, Pressing, Editors
<1>2. /\ act.cmd = c /\ act.to = n
      /\ ~Merges(c, e) =>
           /\ act.from = e.node /\ act.cnt = 1
           /\ act.seq = SeqOf(c, NoSeq, e.node, NewAction(c, NoSeq, e.node, act.to))
      /\ Merges(c, e) =>
           /\ act.from = last.from /\ act.cnt = last.cnt + 1
           /\ act.seq = SeqOf(c, NoSeq, e.node, [last EXCEPT !.cnt = @ + 1])
  <2>1. Recording(c, NoSeq, e)
    BY <1>1, ActIs
  <2>2. QED
    BY <1>1, <2>1 DEF Recording
<1>3. /\ Merges(c, e) => last \in Actions /\ last.cmd = c /\ Knows(last) /\ last.to = e.node
      /\ c # "toggle_cursor" => InText(e.node)
  BY <1>1, MergedIs
<1>4. n \in Placed /\ (c # "toggle_cursor" => InText(n))
  BY <1>1, <1>3, ApplyIs
<1>5. c = "backward_word" => n = [e.node EXCEPT !.cursor = n.cursor]
  <2> DEFINE p == WordStart(e.node)
  <2>1. c = "backward_word" => n = [e.node EXCEPT !.cursor = p]
    BY DEF Apply
  <2> HIDE DEF p, n
  <2>2. QED
    BY <1>1, <2>1 DEF Placed, Node
<1> HIDE DEF last, act, n
<1>6. CASE Merges(c, e)
  <2>1. Moved(last) /\ last.cnt > 0 /\ last.cnt \in Nat /\ last.from \in Placed
    BY <1>3, <1>6 DEF Knows, Actions, Action
  <2>2. PICK g : Leads(c, g, last.cnt) /\ g[0] = last.from /\ g[last.cnt] = e.node
    BY <1>3, <1>6, <2>1 DEF Moved
  <2>3. \E h : Leads(c, h, last.cnt + 1) /\ h[0] = g[0] /\ h[last.cnt + 1] = n
    BY <1>1, <1>4, <2>1, <2>2, LeadsOn DEF n
  <2>4. \E h : Leads(act.cmd, h, act.cnt) /\ h[0] = act.from /\ h[act.cnt] = act.to
    BY <1>2, <1>6, <2>2, <2>3
  <2>5. ASSUME c = "backward_word"
        PROVE  act.seq = Hex(act.from.cursor) /\ act.to = [act.from EXCEPT !.cursor = act.to.cursor]
    <3>1. last.seq = Hex(last.from.cursor) /\ e.node = [last.from EXCEPT !.cursor = e.node.cursor]
      BY <1>3, <1>6, <2>1, <2>5 DEF Moved
    <3>2. act.seq = last.seq
      <4> DEFINE old == [last EXCEPT !.cnt = @ + 1]
      <4>1. old.cnt = last.cnt + 1 /\ old.seq = last.seq
        BY <1>3, <1>6 DEF Actions, Action
      <4>2. old.cnt > 1
        BY <2>1, <4>1
      <4> HIDE DEF old
      <4>3. SeqOf(c, NoSeq, e.node, old) = old.seq
        BY <2>5, <4>2 DEF SeqOf
      <4>4. QED
        BY <1>2, <1>6, <4>1, <4>3 DEF old
    <3>3. n = [last.from EXCEPT !.cursor = n.cursor]
      BY <1>5, <2>1, <2>5, <3>1 DEF Placed, Node
    <3>4. QED
      BY <1>2, <1>6, <3>1, <3>2, <3>3
  <2>6. Moved(act)
    BY <1>2, <2>4, <2>5 DEF Moved
  <2>7. QED
    BY <1>2, <1>6, <2>1, <2>6 DEF act
<1>7. CASE ~Merges(c, e)
  <2> DEFINE g == [i \in 0 .. 0 |-> e.node]
  <2>1. g[0] = e.node /\ Leads(c, g, 0)
    BY <1>1, <1>3 DEF Leads
  <2> HIDE DEF g
  <2>2. \E h : Leads(c, h, 0 + 1) /\ h[0] = g[0] /\ h[0 + 1] = n
    BY <1>1, <1>4, <2>1, LeadsOn DEF n
  <2>3. \E h : Leads(act.cmd, h, act.cnt) /\ h[0] = act.from /\ h[act.cnt] = act.to
    BY <1>2, <1>7, <2>1, <2>2
  <2>4. c = "backward_word" => act.seq = Hex(act.from.cursor)
    BY <1>2, <1>7 DEF SeqOf, NewAction
  <2>5. Moved(act)
    BY <1>2, <1>5, <1>7, <2>3, <2>4 DEF Moved
  <2>6. QED
    BY <1>1, <1>2, <1>7, <2>5 DEF act
<1>8. QED
  BY <1>6, <1>7

(* A command that cannot be repeated is never merged while it is sound.    *)
LEMMA OnceKnows ==
  ASSUME NEW c \in Once, NEW seq \in Seqs, NEW e \in Editors, Pressing(c, seq, e),
         MngAct(c, seq, e).act.whole, InText(MngAct(c, seq, e).act.from)
  PROVE  LET act == MngAct(c, seq, e).act
         IN act.from \in Placed /\ act.cnt > 0 /\ DoneOnce(act)
<1> DEFINE last == Head(e.undo)
           act == MngAct(c, seq, e).act
           n == Apply(c, NoSeq, e.node)
<1>1. /\ c \in Recorded /\ c \notin {"insert", "backspace"} /\ seq = NoSeq
      /\ c \notin Moves /\ c # "toggle_cursor"
      /\ ~Refuses(c, e.node) /\ e.node \in Placed /\ NoSeq \in Seqs
  BY RecordedIs, NoSeqIs DEF Moves, Once, Pressing, Editors
<1>2. /\ act.cmd = c /\ act.to = n
      /\ ~Merges(c, e) =>
           /\ act.from = e.node /\ act.cnt = 1
           /\ act.seq = SeqOf(c, NoSeq, e.node, NewAction(c, NoSeq, e.node, act.to))
      /\ Merges(c, e) => act.from = last.from
  <2>1. Recording(c, NoSeq, e)
    BY <1>1, ActIs
  <2>2. QED
    BY <1>1, <2>1 DEF Recording
<1>3. /\ Merges(c, e) => last \in Actions /\ last.cmd = c /\ Knows(last) /\ last.to = e.node
      /\ InText(act.from)
  BY <1>1, MergedIs
<1> HIDE DEF last, act
<1>4. ~Merges(c, e)
  <2> SUFFICES ASSUME Merges(c, e) PROVE FALSE
    OBVIOUS
  <2>1. DoneOnce(last) /\ last.from \in Placed /\ InText(last.from)
    BY <1>2, <1>3 DEF Knows
  <2>2. e.node = Apply(c, NoSeq, last.from)
    BY <1>3, <2>1 DEF DoneOnce
  <2>3. QED
    BY <1>1, <2>1, <2>2, OnceRefuses
<1>5. act.seq = Hex(IF c = "unset_marker" THEN act.from.marker ELSE act.from.cursor)
  <2>1. Apply("set_marker", NoSeq, e.node).cursor = e.node.cursor
    BY <1>1 DEF Apply, Placed, Node
  <2>2. QED
    BY <1>2, <1>4, <2>1 DEF SeqOf, Once
<1>6. DoneOnce(act)
  BY <1>1, <1>2, <1>4, <1>5 DEF DoneOnce, n
<1>7. QED
  BY <1>1, <1>2, <1>4, <1>6 DEF act

(* Two inserts one after the other insert the two texts at once.           *)
LEMMA InsertKnows ==
  ASSUME NEW seq \in Seqs, NEW e \in Editors, Pressing("insert", seq, e),
         MngAct("insert", seq, e).act.whole, InText(MngAct("insert", seq, e).act.from)
  PROVE  LET act == MngAct("insert", seq, e).act
         IN act.from \in Placed /\ act.cnt > 0 /\ Inserted(act)
<1> DEFINE c == "insert"
           last == Head(e.undo)
           act == MngAct(c, seq, e).act
           u == seq.text
<1>1. c \in Recorded /\ e.node \in Placed /\ u \in Seq(Chars) /\ c \in {"insert", "backspace"}
  BY RecordedIs DEF Editors, Seqs
<1>2. /\ act.to = Insert(e.node, u) /\ act.cnt = 1
      /\ ~Merges(c, e) =>
           /\ act.from = e.node
           /\ act.seq = SeqOf(c, seq, e.node, NewAction(c, seq, e.node, act.to))
      /\ Merges(c, e) =>
           /\ act.from = last.from
           /\ act.seq = SeqOf(c, seq, e.node, [last EXCEPT !.cnt = @ + 1])
  <2>1. Recording(c, seq, e)
    BY <1>1, ActIs
  <2>2. Apply(c, seq, e.node) = Insert(e.node, u)
    BY DEF Apply
  <2>3. QED
    BY <1>1, <2>1, <2>2 DEF Recording
<1>3. /\ Merges(c, e) =>
           last \in Actions /\ last.cmd = c /\ Knows(last) /\ Same(c, last.to, e.node)
      /\ InText(e.node)
  BY <1>1, MergedIs
<1> HIDE DEF last, act, u
<1>4. CASE Merges(c, e)
  <2> DEFINE t == last.seq.text
             old == [last EXCEPT !.cnt = @ + 1]
  <2>1. /\ last.from \in Placed /\ last.to \in Placed /\ last.cnt = 1 /\ t \in Seq(Chars)
        /\ Same(c, Insert(last.from, t), last.to)
    BY <1>3, <1>4 DEF Knows, Inserted, Actions, Seqs
  <2>2. InText(last.from)
    BY <1>2, <1>4 DEF act
  <2>3. act.seq.text = t \o u
    <3>1. old.cnt = 2 /\ old.seq = last.seq
      BY <1>3, <1>4, <2>1 DEF Actions, Action
    <3> HIDE DEF old
    <3>2. SeqOf(c, seq, e.node, old) = Text(t \o u)
      BY <3>1 DEF SeqOf, u
    <3> DEFINE tu == t \o u
    <3> HIDE DEF tu
    <3>3. Text(tu).text = tu
      BY DEF Text, NoSeq
    <3>4. QED
      BY <1>2, <1>4, <3>2, <3>3 DEF old, tu
  <2> HIDE DEF t
  <2>4. PICK x \in Seq(Chars), y \in Seq(Chars) : At(last.from, x, y)
    BY <2>1, <2>2, Parts
  <2>5. At(Insert(last.from, t), x \o t, y)
    BY <2>1, <2>4, InsertAt
  <2>6. At(e.node, x \o t, y)
    BY <1>3, <1>4, <2>1, <2>5, SameAt
  <2>7. x \o t \in Seq(Chars) /\ t \o u \in Seq(Chars)
    BY <1>1, <2>1, Joined
  <2>8. At(act.to, (x \o t) \o u, y)
    BY <1>1, <1>2, <2>6, <2>7, InsertAt
  <2>9. At(Insert(last.from, t \o u), x \o (t \o u), y)
    BY <2>1, <2>4, <2>7, InsertAt
  <2>10. (x \o t) \o u = x \o (t \o u)
    BY <1>1, <2>1, ConcatAssociative
  <2>11. Same(c, Insert(last.from, t \o u), act.to)
    BY <1>1, <2>8, <2>9, <2>10, SameAt
  <2>12. Inserted(act)
    BY <1>2, <1>4, <2>3, <2>11 DEF Inserted
  <2>13. QED
    BY <1>2, <1>4, <2>1, <2>12 DEF act
<1>5. CASE ~Merges(c, e)
  <2>1. act.seq = seq
    BY <1>2, <1>5 DEF SeqOf, NewAction
  <2>2. Inserted(act)
    BY <1>2, <1>5, <2>1 DEF Inserted, Same, u
  <2>3. QED
    BY <1>1, <1>2, <1>5, <2>2 DEF act
<1>6. QED
  BY <1>4, <1>5

(* What backspaces take away one by one stood before the cursor at once.   *)
LEMMA EraseKnows ==
  ASSUME NEW e \in Editors, Pressing("backspace", NoSeq, e),
         MngAct("backspace", NoSeq, e).act.whole,
         InText(MngAct("backspace", NoSeq, e).act.from)
  PROVE  LET act == MngAct("backspace", NoSeq, e).act
         IN act.from \in Placed /\ act.cnt > 0 /\ Erased(act)
<1> DEFINE c == "backspace"
           last == Head(e.undo)
           act == MngAct(c, NoSeq, e).act
<1>1. /\ c \in Recorded /\ e.node \in Placed /\ NoSeq \in Seqs /\ c \in {"insert", "backspace"}
      /\ ~Refuses(c, e.node)
  BY RecordedIs, NoSeqIs DEF Editors, Pressing
<1>2. /\ act.to = Backspace(e.node, NoSeq) /\ act.cnt = 1
      /\ ~Merges(c, e) =>
           /\ act.from = e.node
           /\ act.seq = SeqOf(c, NoSeq, e.node, NewAction(c, NoSeq, e.node, act.to))
      /\ Merges(c, e) =>
           /\ act.from = last.from
           /\ act.seq = SeqOf(c, NoSeq, e.node, [last EXCEPT !.cnt = @ + 1])
  <2>1. Recording(c, NoSeq, e)
    BY <1>1, ActIs
  <2>2. Apply(c, NoSeq, e.node) = Backspace(e.node, NoSeq)
    BY DEF Apply
  <2>3. QED
    BY <1>1, <2>1, <2>2 DEF Recording
<1>3. /\ Merges(c, e) =>
           last \in Actions /\ last.cmd = c /\ Knows(last) /\ Same(c, last.to, e.node)
      /\ InText(e.node)
  BY <1>1, MergedIs
<1> HIDE DEF last, act
<1>4. PICK z \in Seq(Chars), y \in Seq(Chars) : At(e.node, z, y)
  BY <1>1, <1>3, Parts
<1> DEFINE k == Len(z)
           x == SubSeq(z, 1, k - 1)
           t == SubSeq(z, (k - 1) + 1, Len(z))
<1>5. /\ x \in Seq(Chars) /\ t \in Seq(Chars) /\ x \o t = z
      /\ Takes(NoSeq, t)
  <2>1. e.node.cursor = k /\ k \in Nat /\ k # 0
    BY <1>1, <1>4 DEF Refuses, At
  <2>2. k - 1 \in 0 .. Len(z) /\ Len(z) - (k - 1) = 1
    BY <2>1
  <2>3. /\ x \in Seq(Chars) /\ t \in Seq(Chars) /\ Len(t) = Len(z) - (k - 1)
    BY <2>2, Cut
  <2>4. 1 \in 1 .. Len(z) + 1 /\ k - 1 \in 1 - 1 .. Len(z) /\ Len(z) \in k - 1 .. Len(z)
    BY <2>1, <2>2
  <2>5. x \o t = SubSeq(z, 1, Len(z))
    BY <2>4, ConcatAdjacentSubSeq
  <2>6. x \o t = z
    BY <2>5, SubSeqFull
  <2> HIDE DEF x, t, k
  <2>7. QED
    BY <2>2, <2>3, <2>6 DEF Takes
<1> HIDE DEF x, t, k
<1>6. At(act.to, x, y) /\ Deleted(e.node, NoSeq) = t
  <2>1. At(e.node, x \o t, y)
    BY <1>4, <1>5
  <2>2. At(Backspace(e.node, NoSeq), x, y) /\ Deleted(e.node, NoSeq) = t
    BY <1>1, <1>5, <2>1, BackspaceAt
  <2>3. QED
    BY <1>2, <2>2
<1>7. act.to \in Placed
  BY <1>1, <1>2, BackspaceIs
<1>8. CASE Merges(c, e)
  <2> DEFINE s == last.seq.text
             old == [last EXCEPT !.cnt = @ + 1]
             ts == t \o s
  <2>1. /\ last.from \in Placed /\ last.to \in Placed /\ last.cnt = 1 /\ s \in Seq(Chars)
        /\ Same(c, Insert(last.to, s), last.from) /\ InText(last.to)
    BY <1>3, <1>8 DEF Knows, Erased, Actions, Seqs
  <2>2. act.seq = Text(ts)
    <3>1. old.cnt = 2 /\ old.seq = last.seq
      BY <1>3, <1>8, <2>1 DEF Actions, Action
    <3> HIDE DEF old
    <3>2. SeqOf(c, NoSeq, e.node, old) = Text(t \o s)
      BY <1>6, <3>1 DEF SeqOf
    <3>3. QED
      BY <1>2, <1>8, <3>2 DEF old
  <2> HIDE DEF s
  <2>3. t \in Seq(Chars) /\ x \in Seq(Chars) /\ Len(t) > 0
    BY <1>5 DEF Takes
  <2>4. x \o t \in Seq(Chars) /\ ts \in Seq(Chars) /\ Len(ts) = Len(t) + Len(s)
    BY <2>1, <2>3, Joined
  <2>5. At(last.to, x \o t, y)
    BY <1>3, <1>4, <1>5, <1>8, SameAt
  <2>6. At(Insert(last.to, s), (x \o t) \o s, y)
    BY <2>1, <2>4, <2>5, InsertAt
  <2>7. At(last.from, (x \o t) \o s, y)
    BY <2>1, <2>6, SameAt
  <2>8. (x \o t) \o s = x \o ts
    BY <2>1, <2>3, ConcatAssociative, SMTT(30)
  <2> HIDE DEF ts
  <2>9. At(Insert(act.to, ts), x \o ts, y)
    BY <1>6, <1>7, <2>3, <2>4, InsertAt
  <2>10. Same(c, Insert(act.to, ts), last.from)
    BY <1>1, <2>7, <2>8, <2>9, SameAt
  <2>11. Text(ts).text = ts /\ Len(ts) > 0
    BY <2>1, <2>3, <2>4 DEF Text, NoSeq
  <2>12. Erased(act)
    BY <1>2, <1>8, <2>2, <2>10, <2>11 DEF Erased
  <2>13. QED
    BY <1>2, <1>8, <2>1, <2>12 DEF act
<1>9. CASE ~Merges(c, e)
  <2>1. act.seq = Text(t)
    BY <1>2, <1>6, <1>9 DEF SeqOf, NewAction
  <2>2. Text(t).text = t /\ Len(t) > 0
    BY <1>5 DEF Text, NoSeq, Takes
  <2>3. At(Insert(act.to, t), x \o t, y)
    BY <1>5, <1>6, <1>7, InsertAt
  <2>4. Same(c, Insert(act.to, t), e.node)
    BY <1>1, <1>4, <1>5, <2>3, SameAt
  <2>5. Erased(act)
    BY <1>2, <1>9, <2>1, <2>2, <2>4 DEF Erased
  <2>6. QED
    BY <1>1, <1>2, <1>9, <2>5 DEF act
<1>10. QED
  BY <1>8, <1>9

(* What a key records is sound.                                            *)
LEMMA KeySound ==
  ASSUME NEW c \in Recorded, NEW seq \in Seqs, NEW e \in Editors, Pressing(c, seq, e)
  PROVE  MngAct(c, seq, e).act \in SoundActions
<1> DEFINE act == MngAct(c, seq, e).act
<1>1. act \in Actions
  BY MngActIs
<1>2. ASSUME act.whole, InText(act.from)
      PROVE  Knows(act)
  <2>1. c # "toggle_cursor" => InText(e.node)
    BY <1>2, MergedIs
  <2>2. Recording(c, seq, e)
    BY ActIs
  <2>3. act.cmd = c /\ act.to = Apply(c, seq, e.node)
    BY <2>2 DEF Recording
  <2>4. e.node \in Placed
    BY DEF Editors
  <2>5. act.to \in Placed /\ (c # "toggle_cursor" => InText(act.to))
    BY <2>1, <2>3, <2>4, ApplyIs
  <2>6. CASE c \in Moves
    BY <1>2, <2>3, <2>5, <2>6, MoveKnows DEF Knows, Moves, Once
  <2>7. CASE c \in Once
    BY <1>2, <2>3, <2>5, <2>7, OnceKnows DEF Knows, Moves, Once
  <2>8. CASE c = "insert"
    BY <1>2, <2>3, <2>5, <2>8, InsertKnows DEF Knows, Moves, Once
  <2>9. CASE c = "backspace"
    <3>1. seq = NoSeq
      BY <2>9 DEF Pressing
    <3>2. QED
      BY <1>2, <2>3, <2>5, <2>9, <3>1, EraseKnows DEF Knows, Moves, Once
  <2>10. QED
    BY <2>6, <2>7, <2>8, <2>9, RecordedIs
<1> HIDE DEF act
<1>3. QED
  BY <1>1, <1>2 DEF SoundActions, Sound, act

-----------------------------------------------------------------------------
(* What an undo takes back, and a redo repeats.                            *)

(* The commands of Moves look at no seq.                                   *)
LEMMA MoveApplies ==
  ASSUME NEW c \in Moves, NEW seq, NEW n
  PROVE  Apply(c, seq, n) = Apply(c, NoSeq, n)
BY DEF Moves, Apply

(* Those of them whose complement is one of them too.                      *)
Pairs == {"backward_char", "forward_char", "toggle_cursor"}

(* The complement of one of them takes it back, and does not refuse.       *)
LEMMA StepBack ==
  ASSUME NEW c \in Pairs, NEW n \in Placed, ~Refuses(c, n),
         c # "toggle_cursor" => InText(n)
  PROVE  LET back == Complement[c]
             m == Apply(c, NoSeq, n)
         IN  back \in Pairs /\ m \in Placed /\ ~Refuses(back, m) /\ Apply(back, NoSeq, m) = n
<1> DEFINE m == Apply(c, NoSeq, n)
<1>1. n \in Node /\ n.text \in Seq(Chars) /\ Len(n.text) \in Nat /\ n.cursor \in Int
  BY DEF Placed, Node
<1>2. m \in Placed
  BY ApplyIs, RecordedIs, NoSeqIs DEF Pairs, Moves
<1>3. CASE c = "backward_char"
  <2> DEFINE p == n.cursor - 1
  <2>1. n.cursor > 0 /\ n.cursor <= Len(n.text)
    BY <1>1, <1>3 DEF Refuses, InText
  <2>2. m = [n EXCEPT !.cursor = p]
    BY <1>1, <1>3, <2>1 DEF Apply
  <2>3. p \in Int /\ p >= 0 /\ p < Len(n.text) /\ p + 1 = n.cursor
    BY <1>1, <2>1
  <2> HIDE DEF m, p
  <2>4. m.cursor = p /\ m.text = n.text /\ [m EXCEPT !.cursor = n.cursor] = n
    BY <1>1, <2>2 DEF Node
  <2>5. ~Refuses("forward_char", m)
    BY <1>1, <2>3, <2>4 DEF Refuses, AtOrPastEnd
  <2>6. (IF p + 1 >= Len(m.text) THEN Len(m.text) ELSE p + 1) = n.cursor
    BY <1>1, <2>1, <2>3, <2>4
  <2>7. Apply("forward_char", NoSeq, m) =
          [m EXCEPT !.cursor = IF p + 1 >= Len(m.text) THEN Len(m.text) ELSE p + 1]
    BY <2>4 DEF Apply
  <2>8. Apply("forward_char", NoSeq, m) = n
    BY <2>4, <2>6, <2>7
  <2>9. QED
    BY <1>2, <1>3, <2>5, <2>8 DEF Complement, Pairs, m
<1>4. CASE c = "forward_char"
  <2> DEFINE p == n.cursor + 1
  <2>1. n.cursor >= 0 /\ n.cursor < Len(n.text)
    BY <1>1, <1>4 DEF Refuses, AtOrPastEnd, InText
  <2>2. (IF n.cursor + 1 >= Len(n.text) THEN Len(n.text) ELSE n.cursor + 1) = p
    BY <1>1, <2>1
  <2>3. m = [n EXCEPT !.cursor = IF n.cursor + 1 >= Len(n.text)
                                 THEN Len(n.text) ELSE n.cursor + 1]
    BY <1>4 DEF Apply
  <2>4. p \in Int /\ p > 0 /\ p - 1 = n.cursor
    BY <1>1, <2>1
  <2> HIDE DEF m, p
  <2>5. m = [n EXCEPT !.cursor = p]
    BY <2>2, <2>3
  <2>6. m.cursor = p /\ [m EXCEPT !.cursor = n.cursor] = n
    BY <1>1, <2>5 DEF Node
  <2>7. ~Refuses("backward_char", m)
    BY <2>4, <2>6 DEF Refuses
  <2>8. Apply("backward_char", NoSeq, m) = [m EXCEPT !.cursor = p - 1]
    BY <2>4, <2>6 DEF Apply
  <2>9. QED
    BY <1>2, <1>4, <2>4, <2>6, <2>7, <2>8 DEF Complement, Pairs, m
<1>5. CASE c = "toggle_cursor"
  <2>1. m = [n EXCEPT !.cursor = n.marker, !.marker = n.cursor]
    BY <1>5 DEF Apply
  <2>2. Apply(c, NoSeq, m) = [m EXCEPT !.cursor = m.marker, !.marker = m.cursor]
    BY <1>5 DEF Apply
  <2>3. [m EXCEPT !.cursor = m.marker, !.marker = m.cursor] = n
    BY <1>1, <2>1 DEF Node
  <2> HIDE DEF m
  <2>4. ~Refuses("toggle_cursor", m)
    BY DEF Refuses
  <2>5. QED
    BY <1>2, <1>5, <2>2, <2>3, <2>4 DEF Complement, Pairs, m
<1>6. QED
  BY <1>3, <1>4, <1>5 DEF Pairs

(* A repeated command goes the way that it went.                           *)
LEMMA Repeats ==
  ASSUME NEW c \in Moves, NEW seq \in Seqs, NEW k \in Nat, NEW g, Leads(c, g, k)
  PROVE  Follows(g, k, c, seq)
<1> SUFFICES ASSUME NEW i \in 0 .. k - 1, NEW x \in Editors, x.node = g[i]
             PROVE  Run(c, seq, x).node = g[i + 1] /\ Run(c, seq, x).exit = x.exit
  BY DEF Follows
<1>1. ~Refuses(c, g[i]) /\ g[i + 1] = Apply(c, NoSeq, g[i])
  BY DEF Leads
<1>2. c \in Recorded
  BY RecordedIs
<1>3. QED
  BY <1>1, <1>2, MoveApplies, RunRecorded

(* The complement, run as often, goes the same way back.                   *)
LEMMA RepeatsBack ==
  ASSUME NEW c \in Pairs, NEW seq \in Seqs, NEW k \in Nat, NEW g, Leads(c, g, k)
  PROVE  Follows([i \in 0 .. k |-> g[k - i]], k, Complement[c], seq)
<1> DEFINE h == [i \in 0 .. k |-> g[k - i]]
           back == Complement[c]
<1> SUFFICES ASSUME NEW i \in 0 .. k - 1, NEW x \in Editors, x.node = h[i]
             PROVE  Run(back, seq, x).node = h[i + 1] /\ Run(back, seq, x).exit = x.exit
  BY DEF Follows
<1> DEFINE j == k - (i + 1)
<1>1. j \in 0 .. k - 1 /\ j \in 0 .. k /\ h[i + 1] = g[j] /\ h[i] = g[j + 1]
  <2>1. i \in 0 .. k /\ i + 1 \in 0 .. k /\ k - i = j + 1
    OBVIOUS
  <2>2. QED
    BY <2>1
<1> HIDE DEF h, j
<1>2. /\ g[j] \in Placed /\ ~Refuses(c, g[j]) /\ g[j + 1] = Apply(c, NoSeq, g[j])
      /\ c # "toggle_cursor" => InText(g[j])
  BY <1>1 DEF Leads
<1>3. back \in Pairs /\ ~Refuses(back, x.node) /\ Apply(back, NoSeq, x.node) = g[j]
  BY <1>1, <1>2, StepBack
<1> HIDE DEF back
<1>4. back \in Moves /\ back \in Recorded
  BY <1>3, RecordedIs DEF Pairs, Moves
<1>5. QED
  BY <1>1, <1>3, <1>4, MoveApplies, RunRecorded

(* cmd_get_back_to_line_pos, as often as one likes.                        *)
LEMMA GetsBack ==
  ASSUME NEW k \in Nat, k > 0, NEW e \in Editors, NEW p \in 0 .. Len(e.node.text),
         Hex(p) \in Seqs
  PROVE  LET end == RunTimes(k, "get_back_to_line_pos", Hex(p), e)
         IN  end.node = [e.node EXCEPT !.cursor = p] /\ end.exit = e.exit
<1> DEFINE c == "get_back_to_line_pos"
           m == [e.node EXCEPT !.cursor = p]
           h == [i \in 0 .. k |-> IF i = 0 THEN e.node ELSE m]
<1>1. Hex(p).pos = p /\ e.node \in Node /\ c \in Commands
  BY DEF Hex, NoSeq, Editors, Placed, Commands
<1>2. m.text = e.node.text /\ [m EXCEPT !.cursor = p] = m
  BY <1>1 DEF Node
<1> HIDE DEF m
<1>3. \A i \in 0 .. k - 1 :
        /\ h[i] = e.node \/ h[i] = m
        /\ h[i + 1] = m
  OBVIOUS
<1>4. h[0] = e.node /\ h[k] = m
  OBVIOUS
<1> HIDE DEF h
<1>5. ASSUME NEW x \in Editors, x.node = e.node \/ x.node = m
      PROVE  Run(c, Hex(p), x).node = m /\ Run(c, Hex(p), x).exit = x.exit
  <2>1. x.node.text = e.node.text /\ [x.node EXCEPT !.cursor = p] = m
    BY <1>2, <1>5 DEF m
  <2>2. Run(c, Hex(p), x) = [x EXCEPT !.node.cursor = p]
    BY <1>1, <2>1 DEF Run, GetBack
  <2>3. Run(c, Hex(p), x) = [x EXCEPT !.node = [x.node EXCEPT !.cursor = p]]
    BY <2>2 DEF Editors
  <2>4. QED
    BY <2>1, <2>3 DEF Editors
<1>6. Follows(h, k, c, Hex(p))
  BY <1>3, <1>5 DEF Follows
<1> HIDE DEF c
<1>7. LET end == RunTimes(k, c, Hex(p), e)
      IN end.node = h[k] /\ end.exit = e.exit
  BY <1>1, <1>4, <1>6, RunTimesFollows
<1>8. QED
  BY <1>4, <1>7 DEF c, m

(* cmd_undo of a sound action whose end the node is at.                    *)
Undone(a, e) ==
  LET end == RunTimes(a.cnt, Complement[a.cmd], a.seq, e)
  IN end.exit = e.exit /\ Same(a.cmd, end.node, a.from)

(* The undo of a repeated command.                                         *)
LEMMA MovesBack ==
  ASSUME NEW a \in Actions, Knows(a), a.cmd \in Moves, a.cmd # "forward_word",
         InText(a.from), NEW e \in Editors, e.node = a.to
  PROVE  Undone(a, e)
<1>1. /\ a.cnt \in Nat /\ a.cnt > 0 /\ a.seq \in Seqs /\ Moved(a)
      /\ a.from \in Placed /\ a.to \in Placed
  BY DEF Knows, Actions, Action
<1>2. CASE a.cmd \in Pairs
  <2>1. PICK g : Leads(a.cmd, g, a.cnt) /\ g[0] = a.from /\ g[a.cnt] = a.to
    BY <1>1 DEF Moved
  <2> DEFINE k == a.cnt
             h == [i \in 0 .. k |-> g[k - i]]
             back == Complement[a.cmd]
  <2>2. h[0] = a.to /\ h[k] = a.from
    <3>1. 0 \in 0 .. k /\ k \in 0 .. k /\ k - 0 = k /\ k - k = 0
      BY <1>1
    <3>2. QED
      BY <2>1, <3>1
  <2>3. Follows(h, k, back, a.seq)
    BY <1>1, <1>2, <2>1, RepeatsBack
  <2>4. back \in Commands
    BY <1>2 DEF Complement, Pairs, Commands, Recorded, Motions, MarkerCommands
  <2> HIDE DEF h, k, back
  <2>5. k \in Nat
    BY <1>1 DEF k
  <2>6. LET end == RunTimes(k, back, a.seq, e)
        IN end.node = h[k] /\ end.exit = e.exit
    BY <1>1, <2>2, <2>3, <2>4, <2>5, RunTimesFollows
  <2>7. QED
    BY <2>2, <2>6 DEF Undone, Same, k, back
<1>3. CASE a.cmd = "backward_word"
  <2> DEFINE p == a.from.cursor
  <2>1. a.seq = Hex(p) /\ a.to = [a.from EXCEPT !.cursor = a.to.cursor]
    BY <1>1, <1>3 DEF Moved
  <2>2. a.from \in Node /\ a.to.text = a.from.text /\ [a.to EXCEPT !.cursor = p] = a.from
    BY <1>1, <2>1 DEF Placed, Node
  <2>3. p \in 0 .. Len(e.node.text)
    BY <2>2 DEF InText
  <2> HIDE DEF p
  <2>4. LET end == RunTimes(a.cnt, "get_back_to_line_pos", Hex(p), e)
        IN end.node = [e.node EXCEPT !.cursor = p] /\ end.exit = e.exit
    BY <1>1, <2>1, <2>3, GetsBack
  <2>5. Complement[a.cmd] = "get_back_to_line_pos"
    BY <1>3 DEF Complement
  <2>6. QED
    BY <2>1, <2>2, <2>4, <2>5 DEF Undone, Same
<1>4. QED
  BY <1>2, <1>3 DEF Moves, Pairs

(* The undo of a command that cannot be repeated.                          *)
LEMMA OnceBack ==
  ASSUME NEW a \in Actions, Knows(a), a.cmd \in Once,
         InText(a.from), NEW e \in Editors, e.node = a.to
  PROVE  Undone(a, e)
<1> DEFINE from == a.from
           back == Complement[a.cmd]
<1>1. /\ a.cnt = 1 /\ ~Refuses(a.cmd, from) /\ a.to = Apply(a.cmd, NoSeq, from)
      /\ a.seq = Hex(IF a.cmd = "unset_marker" THEN from.marker ELSE from.cursor)
      /\ a.seq \in Seqs /\ from \in Placed /\ from \in Node
      /\ from.cursor \in 0 .. Len(from.text) /\ Len(from.text) \in Nat
  BY DEF Knows, DoneOnce, Actions, Placed, Node, InText
<1>2. RunTimes(a.cnt, back, a.seq, e) = Run(back, a.seq, e)
  <2>1. RunTimes(1, back, a.seq, e) = Run(back, a.seq, e)
    BY RunOnce
  <2>2. QED
    BY <1>1, <2>1
<1>3. CASE a.cmd \in {"to_beginning_of_line", "to_end_of_line"}
  <2> DEFINE p == from.cursor
  <2>1. a.to.text = from.text /\ [a.to EXCEPT !.cursor = p] = from
    BY <1>1, <1>3 DEF Apply, Node
  <2>2. p \in 0 .. Len(e.node.text) /\ Hex(p) \in Seqs /\ a.seq = Hex(p)
    BY <1>1, <1>3, <2>1
  <2>3. back = "get_back_to_line_pos"
    BY <1>3 DEF Complement
  <2> HIDE DEF p, from, back
  <2>4. LET end == RunTimes(1, "get_back_to_line_pos", Hex(p), e)
        IN end.node = [e.node EXCEPT !.cursor = p] /\ end.exit = e.exit
    BY <2>2, GetsBack
  <2>5. QED
    BY <1>1, <2>1, <2>2, <2>3, <2>4 DEF Undone, Same, from, back
<1>4. CASE a.cmd = "set_marker"
  <2>1. from.marker = Unset /\ a.to = [from EXCEPT !.marker = from.cursor]
    BY <1>1, <1>4 DEF Refuses, Apply
  <2>2. back = "unset_marker" /\ "unset_marker" \in Recorded
    BY <1>4 DEF Complement, Recorded, MarkerCommands
  <2>3. a.to.marker = from.cursor /\ [a.to EXCEPT !.marker = Unset] = from
    BY <1>1, <2>1 DEF Node
  <2>4. ~Refuses("unset_marker", a.to)
    BY <1>1, <2>3 DEF Refuses, Unset
  <2>5. Apply("unset_marker", a.seq, a.to) = from
    BY <2>3 DEF Apply
  <2> HIDE DEF from, back
  <2>6. Run("unset_marker", a.seq, e).node = from /\ Run("unset_marker", a.seq, e).exit = e.exit
    BY <1>1, <2>2, <2>4, <2>5, RunRecorded
  <2>7. QED
    BY <1>2, <2>2, <2>6 DEF Undone, Same, from, back
<1>5. CASE a.cmd = "unset_marker"
  <2> DEFINE p == from.marker
  <2>1. p # Unset /\ a.to = [from EXCEPT !.marker = Unset] /\ a.seq = Hex(p)
    BY <1>1, <1>5 DEF Refuses, Apply
  <2>2. back = "set_marker" /\ "set_marker" \in Recorded
    BY <1>5 DEF Complement, Recorded, MarkerCommands
  <2>3. a.to.marker = Unset /\ [a.to EXCEPT !.marker = p] = from
    BY <1>1, <2>1 DEF Node
  <2>4. ~Refuses("set_marker", a.to)
    BY <2>3 DEF Refuses
  <2>5. a.seq # NoSeq /\ a.seq.pos = p
    <3>1. Hex(p).kind = "hex" /\ Hex(p).pos = p /\ NoSeq.kind = "null"
      BY DEF Hex, NoSeq
    <3>2. QED
      BY <2>1, <3>1, Zenon
  <2>6. Apply("set_marker", a.seq, a.to) = from
    BY <2>3, <2>5 DEF Apply
  <2> HIDE DEF from, back
  <2>7. Run("set_marker", a.seq, e).node = from /\ Run("set_marker", a.seq, e).exit = e.exit
    BY <1>1, <2>2, <2>4, <2>6, RunRecorded
  <2>8. QED
    BY <1>2, <2>2, <2>7 DEF Undone, Same, from, back
<1>6. QED
  BY <1>3, <1>4, <1>5 DEF Once

(* cmd_uninsert of what was inserted, and the insert of what was erased.   *)
LEMMA TextBack ==
  ASSUME NEW a \in Actions, Knows(a), a.cmd \in {"insert", "backspace"},
         InText(a.from), NEW e \in Editors, Same(a.cmd, e.node, a.to)
  PROVE  Undone(a, e)
<1> DEFINE back == Complement[a.cmd]
           t == a.seq.text
<1>1. /\ a.seq \in Seqs /\ t \in Seq(Chars) /\ a.from \in Placed /\ a.to \in Placed
      /\ e.node \in Placed /\ InText(a.to)
  BY DEF Knows, Actions, Seqs, Editors
<1>2. a.cnt = 1 => RunTimes(a.cnt, back, a.seq, e) = Run(back, a.seq, e)
  <2>1. RunTimes(1, back, a.seq, e) = Run(back, a.seq, e)
    BY RunOnce
  <2>2. QED
    BY <2>1
<1> HIDE DEF t
<1>3. CASE a.cmd = "insert"
  <2>1. a.cnt = 1 /\ Same("insert", Insert(a.from, t), a.to)
    BY <1>3 DEF Knows, Inserted, t
  <2>2. PICK x \in Seq(Chars), y \in Seq(Chars) : At(a.from, x, y)
    BY <1>1, Parts
  <2>3. At(Insert(a.from, t), x \o t, y)
    BY <1>1, <2>2, InsertAt
  <2>4. At(a.to, x \o t, y)
    BY <2>1, <2>3, SameAt
  <2>5. At(e.node, x \o a.seq.text, y)
    BY <2>4, SameAt DEF t
  <2>6. At(Uninsert(a.seq, e).node, x, y) /\ Uninsert(a.seq, e).exit = e.exit
    BY <1>1, <2>5, UninsertAt
  <2>7. Same(a.cmd, Uninsert(a.seq, e).node, a.from)
    BY <1>3, <2>2, <2>6, SameAt
  <2>8. back = "uninsert"
    BY <1>3 DEF Complement
  <2>9. Run("uninsert", a.seq, e) = Uninsert(a.seq, e)
    BY DEF Run
  <2> HIDE DEF back
  <2>10. QED
    BY <1>2, <2>1, <2>6, <2>7, <2>8, <2>9 DEF Undone, back
<1>4. CASE a.cmd = "backspace"
  <2>1. a.cnt = 1 /\ Same("backspace", Insert(a.to, t), a.from)
    BY <1>4 DEF Knows, Erased, t
  <2>2. PICK x \in Seq(Chars), y \in Seq(Chars) : At(a.to, x, y)
    BY <1>1, Parts
  <2>3. At(Insert(a.to, t), x \o t, y)
    BY <1>1, <2>2, InsertAt
  <2>4. At(a.from, x \o t, y)
    BY <2>1, <2>3, SameAt
  <2>5. At(e.node, x, y)
    BY <2>2, SameAt
  <2>6. At(Insert(e.node, t), x \o t, y)
    BY <1>1, <2>5, InsertAt
  <2>7. Same(a.cmd, Insert(e.node, t), a.from)
    BY <1>4, <2>4, <2>6, SameAt
  <2>8. back = "insert" /\ "insert" \in Recorded
    BY <1>4 DEF Complement, Recorded
  <2>9. ~Refuses("insert", e.node) /\ Apply("insert", a.seq, e.node) = Insert(e.node, t)
    BY DEF Refuses, Apply, t
  <2>10. /\ Run("insert", a.seq, e).node = Insert(e.node, t)
         /\ Run("insert", a.seq, e).exit = e.exit
    BY <1>1, <2>8, <2>9, RunRecorded
  <2> HIDE DEF back
  <2>11. QED
    BY <1>2, <2>1, <2>7, <2>8, <2>10 DEF Undone, back
<1>5. QED
  BY <1>3, <1>4

(* The undo of any sound action but forward-word.                          *)
LEMMA TakenBack ==
  ASSUME NEW a \in SoundActions, a.whole, a.cmd # "forward_word", InText(a.from),
         NEW e \in Editors, Same(a.cmd, e.node, a.to)
  PROVE  Undone(a, e)
<1>1. a \in Actions /\ Knows(a) /\ a.cmd \in Recorded
  BY DEF SoundActions, Sound, Actions
<1>2. a.cmd \notin {"insert", "backspace"} => e.node = a.to
  BY <1>1, SameIs DEF Knows, Placed, Editors
<1>3. CASE a.cmd \in Moves
  BY <1>1, <1>2, <1>3, MovesBack DEF Moves
<1>4. CASE a.cmd \in Once
  BY <1>1, <1>2, <1>4, OnceBack DEF Once
<1>5. CASE a.cmd \in {"insert", "backspace"}
  BY <1>1, <1>5, TextBack
<1>6. QED
  BY <1>1, <1>3, <1>4, <1>5, RecordedIs

(* cmd_redo of a sound action whose beginning the node is at.              *)
Redone(a, e) ==
  LET end == RunTimes(a.cnt, a.cmd, a.seq, e)
  IN Same(a.cmd, end.node, a.to)

(* The redo of a repeated command.                                         *)
LEMMA MovesAgain ==
  ASSUME NEW a \in Actions, Knows(a), a.cmd \in Moves, NEW e \in Editors, e.node = a.from
  PROVE  Redone(a, e)
<1> DEFINE c == a.cmd
           k == a.cnt
<1>1. k \in Nat /\ a.seq \in Seqs /\ Moved(a) /\ c \in Commands
  BY RecordedIs DEF Knows, Actions, Action, Commands
<1>2. PICK g : Leads(c, g, k) /\ g[0] = a.from /\ g[k] = a.to
  BY <1>1 DEF Moved
<1> HIDE DEF k, c
<1>3. Follows(g, k, c, a.seq)
  BY <1>1, <1>2, Repeats DEF c
<1>4. LET end == RunTimes(k, c, a.seq, e)
      IN end.node = g[k] /\ end.exit = e.exit
  BY <1>1, <1>2, <1>3, RunTimesFollows
<1>5. QED
  BY <1>2, <1>4 DEF Redone, Same, k, c

(* The redo of a command that cannot be repeated.                          *)
LEMMA OnceAgain ==
  ASSUME NEW a \in Actions, Knows(a), a.cmd \in Once, InText(a.from),
         NEW e \in Editors, e.node = a.from
  PROVE  Redone(a, e)
<1>1. /\ a.cnt = 1 /\ ~Refuses(a.cmd, a.from) /\ a.to = Apply(a.cmd, NoSeq, a.from)
      /\ a.seq = Hex(IF a.cmd = "unset_marker" THEN a.from.marker ELSE a.from.cursor)
      /\ a.seq \in Seqs /\ a.cmd \in Recorded
  BY RecordedIs DEF Knows, DoneOnce, Actions
<1>2. Apply(a.cmd, a.seq, a.from) = Apply(a.cmd, NoSeq, a.from)
  <2>1. CASE a.cmd = "set_marker"
    <3> DEFINE p == a.from.cursor
    <3>1. Hex(p).kind = "hex" /\ Hex(p).pos = p /\ NoSeq.kind = "null"
      BY DEF Hex, NoSeq
    <3>2. a.seq = Hex(p)
      BY <1>1, <2>1
    <3>3. a.seq # NoSeq /\ a.seq.pos = p
      BY <3>1, <3>2, Zenon
    <3>4. QED
      BY <2>1, <3>3 DEF Apply
  <2>2. CASE a.cmd # "set_marker"
    BY <2>2 DEF Apply, Once
  <2>3. QED
    BY <2>1, <2>2
<1>3. Run(a.cmd, a.seq, e).node = a.to
  BY <1>1, <1>2, RunRecorded
<1>4. RunTimes(a.cnt, a.cmd, a.seq, e) = Run(a.cmd, a.seq, e)
  <2>1. RunTimes(1, a.cmd, a.seq, e) = Run(a.cmd, a.seq, e)
    BY RunOnce
  <2>2. QED
    BY <1>1, <2>1
<1>5. QED
  BY <1>3, <1>4 DEF Redone, Same

(* The redo of an insert or a backspace, all of its characters at once.    *)
LEMMA TextAgain ==
  ASSUME NEW a \in Actions, Knows(a), a.cmd \in {"insert", "backspace"},
         InText(a.from), NEW e \in Editors, Same(a.cmd, e.node, a.from)
  PROVE  Redone(a, e)
<1> DEFINE t == a.seq.text
<1>1. /\ a.seq \in Seqs /\ t \in Seq(Chars) /\ a.from \in Placed /\ a.to \in Placed
      /\ e.node \in Placed /\ InText(a.to) /\ a.cnt = 1 /\ a.cmd \in Recorded
  BY DEF Knows, Actions, Seqs, Editors, Inserted, Erased
<1>2. RunTimes(a.cnt, a.cmd, a.seq, e) = Run(a.cmd, a.seq, e)
  <2>1. RunTimes(1, a.cmd, a.seq, e) = Run(a.cmd, a.seq, e)
    BY RunOnce
  <2>2. QED
    BY <1>1, <2>1
<1>3. CASE a.cmd = "insert"
  <2>1. Same("insert", Insert(a.from, t), a.to)
    BY <1>3 DEF Knows, Inserted
  <2>2. ~Refuses("insert", e.node) /\ Apply("insert", a.seq, e.node) = Insert(e.node, t)
    BY DEF Refuses, Apply
  <2> HIDE DEF t
  <2>3. PICK x \in Seq(Chars), y \in Seq(Chars) : At(a.from, x, y)
    BY <1>1, Parts
  <2>4. At(e.node, x, y)
    BY <2>3, SameAt
  <2>5. At(Insert(a.from, t), x \o t, y) /\ At(Insert(e.node, t), x \o t, y)
    BY <1>1, <2>3, <2>4, InsertAt
  <2>6. At(a.to, x \o t, y)
    BY <2>1, <2>5, SameAt
  <2>7. Same(a.cmd, Insert(e.node, t), a.to)
    BY <1>3, <2>5, <2>6, SameAt
  <2>8. Run(a.cmd, a.seq, e).node = Insert(e.node, t)
    BY <1>1, <1>3, <2>2, RunRecorded
  <2>9. QED
    BY <1>2, <2>7, <2>8 DEF Redone
<1>4. CASE a.cmd = "backspace"
  <2>1. a.seq = Text(t) /\ Len(t) > 0 /\ Same("backspace", Insert(a.to, t), a.from)
    BY <1>4 DEF Knows, Erased
  <2>2. Takes(a.seq, t)
    <3>1. Text(t).kind = "text" /\ NoSeq.kind = "null"
      BY DEF Text, NoSeq
    <3>2. a.seq # NoSeq
      BY <2>1, <3>1, Zenon
    <3>3. QED
      BY <3>2 DEF Takes
  <2>3. Apply("backspace", a.seq, e.node) = Backspace(e.node, a.seq)
    BY DEF Apply
  <2> HIDE DEF t
  <2>4. PICK x \in Seq(Chars), y \in Seq(Chars) : At(a.to, x, y)
    BY <1>1, Parts
  <2>5. At(Insert(a.to, t), x \o t, y)
    BY <1>1, <2>4, InsertAt
  <2>6. At(a.from, x \o t, y)
    BY <2>1, <2>5, SameAt
  <2>7. At(e.node, x \o t, y)
    BY <2>6, SameAt
  <2>8. ~Refuses("backspace", e.node)
    <3>1. Len(x \o t) = Len(x) + Len(t) /\ Len(x) \in Nat /\ Len(t) \in Nat
      BY <1>1, Joined
    <3>2. e.node.cursor # 0
      BY <2>1, <2>7, <3>1 DEF At
    <3>3. QED
      BY <3>2 DEF Refuses
  <2>9. At(Backspace(e.node, a.seq), x, y)
    BY <1>1, <2>2, <2>7, BackspaceAt
  <2>10. Same(a.cmd, Backspace(e.node, a.seq), a.to)
    BY <1>4, <2>4, <2>9, SameAt
  <2>11. Run(a.cmd, a.seq, e).node = Backspace(e.node, a.seq)
    BY <1>1, <1>4, <2>3, <2>8, RunRecorded
  <2>12. QED
    BY <1>2, <2>10, <2>11 DEF Redone
<1>5. QED
  BY <1>3, <1>4

(* The redo of any sound action.                                           *)
LEMMA DoneAgain ==
  ASSUME NEW a \in SoundActions, a.whole, InText(a.from),
         NEW e \in Editors, Same(a.cmd, e.node, a.from)
  PROVE  Redone(a, e)
<1>1. a \in Actions /\ Knows(a) /\ a.cmd \in Recorded
  BY DEF SoundActions, Sound, Actions
<1>2. a.cmd \notin {"insert", "backspace"} => e.node = a.from
  BY <1>1, SameIs DEF Knows, Placed, Editors
<1>3. CASE a.cmd \in Moves
  BY <1>1, <1>2, <1>3, MovesAgain DEF Moves
<1>4. CASE a.cmd \in Once
  BY <1>1, <1>2, <1>4, OnceAgain DEF Once
<1>5. CASE a.cmd \in {"insert", "backspace"}
  BY <1>1, <1>5, TextAgain
<1>6. QED
  BY <1>1, <1>3, <1>4, <1>5, RecordedIs

-----------------------------------------------------------------------------
(* The stacks hold sound actions, whatever is done.                        *)

SoundStacks ==
  /\ undo \in Seq(SoundActions \cup {NULL})
  /\ redo \in Seq(SoundActions)

(* What the two properties say of a step.                                  *)
TakesBack ==
  Len(redo') > Len(redo) \/ exit' = "uninsert" =>
    LET a == Head(undo)
    IN a.whole /\ a.cmd # "forward_word" /\ InText(a.from) /\ Same(a.cmd, node, a.to)
         => exit' = "no" /\ Same(a.cmd, node', a.from)
Again ==
  Len(redo') = Len(redo) - 1 /\ undo' # <<>> /\ Head(undo') = Head(redo) =>
    LET a == Head(redo)
    IN a.whole /\ InText(a.from) /\ Same(a.cmd, node, a.from)
         => Same(a.cmd, node', a.to)
Faithful == SoundStacks' /\ TakesBack /\ Again

(* A key records a sound action and clears redoStack.                      *)
LEMMA KeyFaithful ==
  ASSUME IInv, SoundStacks, NEW c \in Recorded, NEW seq \in Seqs, Key(c, seq),
         c = "insert" \/ seq = NoSeq
  PROVE  Faithful
<1> DEFINE e == Run(c, seq, Editor)
<1>1. Editor \in Editors /\ Editor.node = node /\ Editor.undo = undo /\ Editor.exit = exit
  BY EditorIs DEF Editor
<1>2. e = MngAct(c, seq, Editor)
  <2>1. ~Refuses(c, Editor.node) /\ c # "uninsert" /\ c # "get_back_to_line_pos"
    BY <1>1 DEF Key, Recorded, Motions, MarkerCommands
  <2>2. QED
    BY <2>1 DEF Run
<1>3. Merges(c, Editor) => Head(undo) \in SoundActions
  <2>1. Merges(c, Editor) => undo # <<>> /\ Head(undo).cmd = c
    BY <1>1 DEF Merges
  <2>2. undo # <<>> => Head(undo) \in SoundActions \cup {NULL}
    BY DEF SoundStacks
  <2>3. c # "NULL"
    BY DEF Recorded, Motions, MarkerCommands
  <2>4. QED
    BY <2>1, <2>2, <2>3, NullIs
<1>4. Pressing(c, seq, Editor)
  BY <1>1, <1>3 DEF Pressing, Key, SoundActions
<1>5. e.act \in SoundActions
  BY <1>1, <1>2, <1>4, KeySound
<1>6. e.undo \in Seq(SoundActions \cup {NULL})
  BY <1>1, RunStack DEF SoundStacks, Commands
<1>7. e.exit = exit /\ e.act.to = e.node
  <2>1. Recording(c, seq, Editor)
    BY <1>1, ActIs
  <2>2. e.act.to = Apply(c, seq, node)
    BY <1>1, <1>2, <2>1 DEF Recording
  <2>3. ~Refuses(c, Editor.node)
    BY <1>1 DEF Key
  <2>4. QED
    BY <1>1, <2>2, <2>3, RunRecorded
<1>8. /\ node' = e.node /\ undo' = Push(e.act, e.undo) /\ redo' = <<>> /\ exit' = e.exit
      /\ exit = "no"
  BY DEF Key, Become, Pressed
<1> HIDE DEF e
<1>9. /\ undo' \in Seq(SoundActions \cup {NULL}) /\ Head(undo') = e.act
      /\ redo' \in Seq(SoundActions)
  BY <1>5, <1>6, <1>8 DEF Push
<1>10. SoundStacks'
  BY <1>9 DEF SoundStacks
<1>11. TakesBack
  <2>1. Len(redo') = 0 /\ Len(redo) \in Nat /\ exit' = "no"
    BY <1>7, <1>8 DEF SoundStacks
  <2>2. QED
    BY <2>1 DEF TakesBack
<1>12. Again
  BY <1>7, <1>8, <1>9 DEF Again, Same
<1>13. QED
  BY <1>10, <1>11, <1>12 DEF Faithful

(* An undo moves its action to redoStack and takes it back.                *)
LEMMA UndoFaithful == ASSUME IInv, SoundStacks, Undo PROVE Faithful
<1> DEFINE a == Head(undo)
           start == [Editor EXCEPT !.undo = Tail(@)]
           c == Complement[a.cmd]
           e == RunTimes(a.cnt, c, a.seq, start)
<1>1. /\ start \in Editors /\ start.node = node /\ start.exit = exit
      /\ start.undo = Tail(undo)
  BY EditorIs DEF Undo, Editor
<1>2. /\ a \in SoundActions \cup {NULL} /\ Tail(undo) \in Seq(SoundActions \cup {NULL})
      /\ exit = "no"
  BY DEF SoundStacks, Undo, Pressed
<1>3. IF a = NULL THEN Become(node, Tail(undo), redo, exit)
      ELSE Become(e.node, e.undo, IF e.exit = "no" THEN Push(a, redo) ELSE redo, e.exit)
  BY DEF Undo
<1>4. TakesBack <=>
        (Len(redo') > Len(redo) \/ exit' = "uninsert" =>
           (a.whole /\ a.cmd # "forward_word" /\ InText(a.from) /\ Same(a.cmd, node, a.to)
              => exit' = "no" /\ Same(a.cmd, node', a.from)))
  BY DEF TakesBack
<1>5. redo \in Seq(SoundActions) /\ Len(redo) \in Nat
  BY DEF SoundStacks
<1> HIDE DEF a, start, c, e
<1>6. CASE a = NULL
  <2>1. node' = node /\ undo' = Tail(undo) /\ redo' = redo /\ exit' = "no"
    BY <1>2, <1>3, <1>6 DEF Become
  <2>2. SoundStacks' /\ TakesBack /\ Again
    BY <1>2, <1>4, <1>5, <2>1 DEF SoundStacks, Again
  <2>3. QED
    BY <2>2 DEF Faithful
<1>7. CASE a # NULL
  <2>1. a \in SoundActions
    BY <1>2, <1>7
  <2>2. a.cmd \in Recorded /\ a.seq \in Seqs /\ a.cnt \in Nat
    BY <2>1 DEF SoundActions, Actions, Action
  <2>3. c \in Commands
    BY <2>2, ComplementIs DEF c
  <2>4. e.undo \in Seq(SoundActions \cup {NULL})
    BY <1>1, <1>2, <2>2, <2>3, RunTimesStack DEF e
  <2>5. /\ node' = e.node /\ undo' = e.undo /\ exit' = e.exit
        /\ redo' = IF e.exit = "no" THEN Push(a, redo) ELSE redo
    BY <1>3, <1>7 DEF Become
  <2>6. redo' \in Seq(SoundActions) /\ Len(redo') >= Len(redo)
    <3>1. Push(a, redo) \in Seq(SoundActions) /\ Len(Push(a, redo)) = 1 + Len(redo)
      BY <1>5, <2>1 DEF Push
    <3>2. QED
      BY <1>5, <2>5, <3>1
  <2>7. SoundStacks'
    BY <2>4, <2>5, <2>6 DEF SoundStacks
  <2>8. Again
    BY <1>5, <2>6 DEF Again
  <2>9. TakesBack
    <3>1. ASSUME a.whole, a.cmd # "forward_word", InText(a.from), Same(a.cmd, node, a.to)
          PROVE  e.exit = "no" /\ Same(a.cmd, e.node, a.from)
      <4>1. Undone(a, start)
        BY <1>1, <2>1, <3>1, TakenBack
      <4>2. QED
        BY <1>1, <1>2, <4>1 DEF Undone, e, c
    <3>2. QED
      BY <1>4, <2>5, <3>1
  <2>10. QED
    BY <2>7, <2>8, <2>9 DEF Faithful
<1>8. QED
  BY <1>6, <1>7

(* A redo moves its action to undoStack and does it again.                 *)
LEMMA RedoFaithful == ASSUME IInv, SoundStacks, Redo PROVE Faithful
<1> DEFINE a == Head(redo)
           c == a.cmd
           e == RunTimes(a.cnt, c, a.seq, Editor)
<1>1. Editor \in Editors /\ Editor.node = node /\ Editor.undo = undo /\ Editor.exit = exit
  BY EditorIs DEF Editor
<1>2. /\ a \in SoundActions /\ Tail(redo) \in Seq(SoundActions)
      /\ Len(redo) \in Nat /\ Len(Tail(redo)) = Len(redo) - 1
  BY DEF SoundStacks, Redo
<1>3. /\ node' = e.node /\ undo' = Push(a, e.undo) /\ redo' = Tail(redo) /\ exit' = e.exit
      /\ exit = "no"
  BY DEF Redo, Become, Pressed
<1>4. Again <=>
        (Len(redo') = Len(redo) - 1 /\ undo' # <<>> /\ Head(undo') = a =>
           (a.whole /\ InText(a.from) /\ Same(a.cmd, node, a.from)
              => Same(a.cmd, node', a.to)))
  BY DEF Again
<1> HIDE DEF a, e
<1>5. c \in Recorded /\ c \in Commands /\ a.seq \in Seqs /\ a.cnt \in Nat
  BY <1>2 DEF SoundActions, Actions, Action, Commands
<1>6. e.undo \in Seq(SoundActions \cup {NULL})
  BY <1>1, <1>5, RunTimesStack DEF e, SoundStacks
<1>7. SoundStacks'
  BY <1>2, <1>3, <1>6 DEF SoundStacks, Push
<1>8. e.exit = "no"
  BY <1>1, <1>3, <1>5, RunTimesExit DEF e
<1>9. TakesBack
  BY <1>2, <1>3, <1>8 DEF TakesBack
<1>10. Again
  <2>1. ASSUME a.whole, InText(a.from), Same(a.cmd, node, a.from)
        PROVE  Same(a.cmd, e.node, a.to)
    <3>1. Redone(a, Editor)
      BY <1>1, <1>2, <2>1, DoneAgain
    <3>2. QED
      BY <3>1 DEF Redone, e, c
  <2>2. QED
    BY <1>3, <1>4, <2>1
<1>11. QED
  BY <1>7, <1>9, <1>10 DEF Faithful

(* Every step keeps the stacks sound and is faithful to them.              *)
LEMMA NextFaithful == ASSUME IInv, SoundStacks, Next PROVE Faithful
<1>1. CASE TypeChar
  <2>1. PICK ch \in Chars : Key("insert", Text(<<ch>>))
    BY <1>1 DEF TypeChar
  <2>2. <<ch>> \in Seq(Chars)
    OBVIOUS
  <2>3. Text(<<ch>>) \in Seqs
    BY <2>2, NoSeqIs
  <2>4. "insert" \in Recorded
    BY DEF Recorded
  <2>5. QED
    BY <2>1, <2>3, <2>4, KeyFaithful
<1>2. CASE DeleteBack
  BY <1>2, NoSeqIs, KeyFaithful DEF DeleteBack, Recorded
<1>3. CASE Move
  BY <1>3, NoSeqIs, KeyFaithful DEF Move, Recorded
<1>4. CASE Mark
  BY <1>4, NoSeqIs, KeyFaithful DEF Mark, Recorded
<1>5. CASE Enter
  <2>1. undo' = undo /\ redo' = redo /\ exit' = "no" /\ Len(redo) \in Nat
    BY <1>5 DEF Enter, Pressed, SoundStacks
  <2>2. SoundStacks' /\ TakesBack /\ Again
    BY <2>1 DEF SoundStacks, TakesBack, Again
  <2>3. QED
    BY <2>2 DEF Faithful
<1>6. QED
  BY <1>1, <1>2, <1>3, <1>4, <1>5, UndoFaithful, RedoFaithful DEF Next

(* The inductive invariant of the stacks.                                  *)
THEOREM Soundness == Spec => []SoundStacks
<1>1. Init => SoundStacks
  BY DEF Init, SoundStacks
<1>2. IInv /\ SoundStacks /\ [Next]_vars => SoundStacks'
  <2>1. SoundStacks /\ UNCHANGED vars => SoundStacks'
    BY DEF SoundStacks, vars
  <2>2. QED
    BY <2>1, NextFaithful DEF Faithful
<1>3. QED
  BY <1>1, <1>2, Invariance, PTL DEF Spec

(* cmd_undo brings back what there was before an action, whatever was      *)
(* typed, merged, undone and redone since, if the node is as the action    *)
(* left it.                                                                *)
THEOREM UndoCorrect == Spec => UndoTakesBack
<1>1. IInv /\ SoundStacks /\ [Next]_vars => [TakesBack]_vars
  BY NextFaithful DEF Faithful
<1>2. Spec => [][TakesBack]_vars
  BY <1>1, Invariance, Soundness, PTL DEF Spec
<1>3. QED
  BY <1>2 DEF UndoTakesBack, TakesBack

(* cmd_redo does to the node that an action began with what the keys that  *)
(* it stands for did.                                                      *)
THEOREM RedoCorrect == Spec => RedoRepeats
<1>1. IInv /\ SoundStacks /\ [Next]_vars => [Again]_vars
  BY NextFaithful DEF Faithful
<1>2. Spec => [][Again]_vars
  BY <1>1, Invariance, Soundness, PTL DEF Spec
<1>3. QED
  BY <1>2 DEF RedoRepeats, Again
=============================================================================
