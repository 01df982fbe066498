---------------------------- MODULE LayoutProofs ----------------------------
(***************************************************************************)
(* Proof that DrawnInPlace holds of every window, every text and every     *)
(* height of the minibuffer: the cells that display_wrapped fills are      *)
(* those that calc_display_size has counted, and one of filler, as long as *)
(* its window is on the screen (WrappedIs); and frames that need no more   *)
(* than two rows more than they are given end above what is below them     *)
(* (FrameInRoom, OutputStacked).                                           *)
(***************************************************************************)
EXTENDS Layout, WellFoundedInduction, TLAPS

-----------------------------------------------------------------------------
(* Induction.                                                              *)

(* A set with 0 and the successor of each of its numbers has all of them.  *)
LEMMA Induction ==
  ASSUME NEW S, 0 \in S, \A n \in Nat : n \in S => n + 1 \in S
  PROVE  Nat \subseteq S
<1> DEFINE T == Nat \ S
           R == OpToRel(<, Nat)
<1>1. SUFFICES ASSUME T # {} PROVE FALSE
  OBVIOUS
<1>2. T \subseteq Nat
  OBVIOUS
<1>3. \A x \in Nat, y \in Nat : x < y => <<x, y>> \in R
  BY DEF OpToRel
<1>4. IsWellFoundedOn(R, Nat)
  BY NatLessThanWellFounded
<1> HIDE DEF R, T
<1>5. PICK x \in T : \A y \in T : ~(<<y, x>> \in R)
  BY <1>1, <1>2, <1>4, WFMin
<1>6. x \in Nat /\ x \notin S
  BY <1>5 DEF T
<1>7. x # 0 /\ x - 1 \in Nat /\ x - 1 < x /\ (x - 1) + 1 = x
  BY <1>6
<1>8. x - 1 \notin S
  BY <1>6, <1>7
<1>9. x - 1 \in T
  BY <1>7, <1>8 DEF T
<1>10. QED
  BY <1>3, <1>5, <1>6, <1>7, <1>9

-----------------------------------------------------------------------------
(* The recursive functions of the module are functions with the values     *)
(* that their definitions say.                                             *)

Placed(f, text, W) ==
  /\ f[0] = <<1, 0>>
  /\ \A i \in 0 .. Len(text) - 1 : f[i + 1] = NextPlace(f[i], text[i + 1], W)

(* calc_display_size, character by character.                              *)
LEMMA PlacesIs ==
  ASSUME NEW text, Len(text) \in Nat, NEW W
  PROVE  Placed(Places(text, W), text, W)
<1> DEFINE b == <<1, 0>>
           Is(f, m) ==
             f = [i \in 0 .. m |-> IF i = 0 THEN b ELSE NextPlace(f[i - 1], text[i], W)]
           S == {m \in Nat : \E f : Is(f, m)}
           n == Len(text)
<1>0. Places(text, W) = CHOOSE f : Is(f, n)
  BY DEF Places
<1> HIDE DEF b
<1>1. 0 \in S
  <2>1. Is([i \in 0 .. 0 |-> b], 0)
    OBVIOUS
  <2>2. QED
    BY <2>1
<1>2. ASSUME NEW m \in Nat, m \in S
      PROVE  m + 1 \in S
  <2>1. PICK f : Is(f, m)
    BY <1>2
  <2> DEFINE g == [i \in 0 .. m + 1 |-> IF i = 0 THEN b ELSE NextPlace(f[i - 1], text[i], W)]
  <2>2. \A i \in 0 .. m : g[i] = f[i]
    BY <2>1
  <2>3. \A i \in 0 .. m + 1 : i # 0 => i - 1 \in 0 .. m
    OBVIOUS
  <2>4. Is(g, m + 1)
    BY <2>2, <2>3
  <2> HIDE DEF Is, g
  <2>5. QED
    BY <2>4
<1> HIDE DEF S
<1>3. n \in S
  BY <1>1, <1>2, Induction
<1>4. \E f : Is(f, n)
  BY <1>3 DEF S
<1> DEFINE p == Places(text, W)
<1> HIDE DEF p
<1>5. Is(p, n)
  BY <1>0, <1>4 DEF p
<1>6. ASSUME NEW i \in 0 .. n - 1
      PROVE  p[i + 1] = NextPlace(p[i], text[i + 1], W)
  <2>1. i + 1 \in 0 .. n /\ i + 1 # 0 /\ (i + 1) - 1 = i
    OBVIOUS
  <2>2. QED
    BY <1>5, <2>1
<1>7. p[0] = b
  BY <1>5
<1>8. QED
  BY <1>6, <1>7 DEF Placed, p, b

First == [row |-> 0, col |-> 0, scr_row |-> 0, scr_col |-> 0,
          char |-> 0, cells |-> {}, done |-> FALSE]

Turned(f, view, text) ==
  /\ f[0] = inc_rel_row(view, First)
  /\ \A i \in 0 .. Len(text) : f[i + 1] = Turn(view, text, f[i], i)

(* display_wrapped, turn by turn.                                          *)
LEMMA TurnsIs ==
  ASSUME NEW view, NEW text, Len(text) \in Nat
  PROVE  Turned(Turns(view, text), view, text)
<1> DEFINE b == inc_rel_row(view, First)
           Is(f, m) ==
             f = [i \in 0 .. m |-> IF i = 0 THEN b ELSE Turn(view, text, f[i - 1], i - 1)]
           S == {m \in Nat : \E f : Is(f, m)}
           n == Len(text) + 1
<1>0. Turns(view, text) = CHOOSE f : Is(f, n)
  BY DEF Turns, First
<1> HIDE DEF b
<1>1. 0 \in S
  <2>1. Is([i \in 0 .. 0 |-> b], 0)
    OBVIOUS
  <2>2. QED
    BY <2>1
<1>2. ASSUME NEW m \in Nat, m \in S
      PROVE  m + 1 \in S
  <2>1. PICK f : Is(f, m)
    BY <1>2
  <2> DEFINE g == [i \in 0 .. m + 1 |-> IF i = 0 THEN b ELSE Turn(view, text, f[i - 1], i - 1)]
  <2>2. \A i \in 0 .. m : g[i] = f[i]
    BY <2>1
  <2>3. \A i \in 0 .. m + 1 : i # 0 => i - 1 \in 0 .. m
    OBVIOUS
  <2>4. Is(g, m + 1)
    BY <2>2, <2>3
  <2> HIDE DEF Is, g
  <2>5. QED
    BY <2>4
<1> HIDE DEF S
<1>3. n \in S
  BY <1>1, <1>2, Induction
<1>4. \E f : Is(f, n)
  BY <1>3 DEF S
<1> DEFINE t == Turns(view, text)
<1> HIDE DEF t
<1>6. Is(t, n)
  BY <1>0, <1>4 DEF t
<1>7. ASSUME NEW i \in 0 .. Len(text)
      PROVE  t[i + 1] = Turn(view, text, t[i], i)
  <2>1. i + 1 \in 0 .. n /\ i + 1 # 0 /\ (i + 1) - 1 = i
    OBVIOUS
  <2>2. QED
    BY <1>6, <2>1
<1>8. t[0] = b
  BY <1>6
<1>9. QED
  BY <1>7, <1>8 DEF Turned, t, b

-----------------------------------------------------------------------------
(* The places.                                                             *)

(* The places up to n, in a text of width W, and of any width.             *)
Within(f, n, W) ==
  \A i \in 0 .. n : \E r \in Nat, c \in Nat : f[i] = <<r, c>> /\ r >= 1 /\ c < W
Pairs(f, n) == \A i \in 0 .. n : \E r \in Nat, c \in Nat : f[i] = <<r, c>>

(* Rows count from 1, and no column is beyond the width.                   *)
LEMMA PlaceType ==
  ASSUME NEW text, Len(text) \in Nat, NEW W \in Nat \ {0}, NEW f, Placed(f, text, W)
  PROVE  Within(f, Len(text), W)
<1> DEFINE n == Len(text)
           P(i) == \E r \in Nat, c \in Nat : f[i] = <<r, c>> /\ r >= 1 /\ c < W
           S == {i \in Nat : i <= n => P(i)}
<1>1. 0 \in S
  <2>1. f[0] = <<1, 0>>
    BY DEF Placed
  <2>2. QED
    BY <2>1
<1>2. ASSUME NEW i \in Nat, i \in S, i + 1 <= n
      PROVE  P(i + 1)
  <2>1. i <= n /\ i \in 0 .. n - 1
    BY <1>2
  <2>2. PICK r \in Nat, c \in Nat : f[i] = <<r, c>> /\ r >= 1 /\ c < W
    BY <1>2, <2>1
  <2>3. f[i + 1] = NextPlace(f[i], text[i + 1], W)
    BY <2>1 DEF Placed
  <2>4. \/ f[i + 1] = <<r + 1, 0>>
        \/ f[i + 1] = <<r, c + 1>> /\ c + 1 < W
    BY <2>2, <2>3 DEF NextPlace, RowEnds
  <2>5. QED
    BY <2>2, <2>4
<1>3. \A i \in Nat : i \in S => i + 1 \in S
  BY <1>2
<1> HIDE DEF S
<1>4. Nat \subseteq S
  BY <1>1, <1>3, Induction
<1>5. QED
  BY <1>4 DEF S, Within

(* Places are pairs of numbers, even if the width leaves room for nothing. *)
LEMMA PlaceNat ==
  ASSUME NEW text, Len(text) \in Nat, NEW W \in Int, NEW f, Placed(f, text, W)
  PROVE  Pairs(f, Len(text))
<1> DEFINE n == Len(text)
           P(i) == \E r \in Nat, c \in Nat : f[i] = <<r, c>>
           S == {i \in Nat : i <= n => P(i)}
<1>1. 0 \in S
  BY DEF Placed
<1>2. ASSUME NEW i \in Nat, i \in S, i + 1 <= n
      PROVE  P(i + 1)
  <2>1. i <= n /\ i \in 0 .. n - 1
    BY <1>2
  <2>2. PICK r \in Nat, c \in Nat : f[i] = <<r, c>>
    BY <1>2, <2>1
  <2>3. f[i + 1] = NextPlace(f[i], text[i + 1], W)
    BY <2>1 DEF Placed
  <2>4. f[i + 1] = <<r + 1, 0>> \/ f[i + 1] = <<r, c + 1>>
    BY <2>2, <2>3 DEF NextPlace
  <2>5. QED
    BY <2>2, <2>4
<1> HIDE DEF P
<1>3. \A i \in Nat : i \in S => i + 1 \in S
  BY <1>2
<1> HIDE DEF S
<1>4. Nat \subseteq S
  BY <1>1, <1>3, Induction
<1>5. \A i \in 0 .. n : P(i)
  BY <1>4 DEF S
<1>6. QED
  BY <1>5 DEF P, Pairs

(* What comes later in a text does not come in an earlier row.             *)
LEMMA RowsGrow ==
  ASSUME NEW text, Len(text) \in Nat, NEW W \in Nat \ {0}, NEW f, Placed(f, text, W),
         NEW i \in 0 .. Len(text), NEW j \in i .. Len(text)
  PROVE  f[i][1] <= f[j][1]
<1> DEFINE n == Len(text)
           Q(k) == f[i][1] <= f[i + k][1]
           S == {k \in Nat : i + k <= n => Q(k)}
<1>1. \A k \in 0 .. n : f[k][1] \in Nat
  BY PlaceType DEF Within
<1>2. 0 \in S
  BY <1>1
<1>3. ASSUME NEW k \in Nat, k \in S, i + (k + 1) <= n
      PROVE  Q(k + 1)
  <2> DEFINE m == i + k
  <2>1. m \in 0 .. n - 1 /\ m \in 0 .. n /\ m + 1 \in 0 .. n /\ i + (k + 1) = m + 1 /\ i + k <= n
    BY <1>3
  <2>2. f[i][1] <= f[m][1]
    BY <1>3, <2>1
  <2> HIDE DEF m
  <2>3. f[m + 1] = NextPlace(f[m], text[m + 1], W)
    BY <2>1 DEF Placed
  <2>4. f[m + 1][1] = f[m][1] + 1 \/ f[m + 1][1] = f[m][1]
    BY <2>3 DEF NextPlace
  <2>5. f[i][1] <= f[m + 1][1]
    BY <1>1, <2>1, <2>2, <2>4
  <2>6. QED
    BY <2>1, <2>5
<1> HIDE DEF Q
<1>4. \A k \in Nat : k \in S => k + 1 \in S
  BY <1>3
<1> HIDE DEF S
<1>5. j - i \in Nat /\ j - i \in S
  BY <1>2, <1>4, Induction
<1>6. i + (j - i) = j
  OBVIOUS
<1>7. QED
  BY <1>5, <1>6 DEF S, Q

Before(p, q) == p[1] < q[1] \/ (p[1] = q[1] /\ p[2] < q[2])

LEMMA BeforeNext ==
  ASSUME NEW p, NEW q, NEW r \in Nat, NEW c \in Nat, p[1] = r, p[2] = c,
         q[1] = r + 1 \/ (q[1] = r /\ q[2] = c + 1)
  PROVE  Before(p, q)
<1>1. r < r + 1 /\ c < c + 1
  OBVIOUS
<1>2. QED
  BY <1>1 DEF Before

LEMMA BeforeTransitive ==
  ASSUME NEW p, NEW q, NEW z, p[1] \in Nat, p[2] \in Nat, q[1] \in Nat, q[2] \in Nat,
         z[1] \in Nat, z[2] \in Nat, Before(p, q), Before(q, z)
  PROVE  Before(p, z)
<1> DEFINE p1 == p[1]
           p2 == p[2]
           q1 == q[1]
           q2 == q[2]
           z1 == z[1]
           z2 == z[2]
<1>1. /\ p1 \in Nat /\ p2 \in Nat /\ q1 \in Nat /\ q2 \in Nat /\ z1 \in Nat /\ z2 \in Nat
      /\ p1 < q1 \/ (p1 = q1 /\ p2 < q2)
      /\ q1 < z1 \/ (q1 = z1 /\ q2 < z2)
  BY DEF Before
<1> HIDE DEF p1, p2, q1, q2, z1, z2
<1>2. p1 < z1 \/ (p1 = z1 /\ p2 < z2)
  BY <1>1
<1>3. QED
  BY <1>2 DEF Before, p1, p2, z1, z2

(* What comes later in a text comes behind it, so in another place.        *)
LEMMA PlacesGrow ==
  ASSUME NEW text, Len(text) \in Nat, NEW W \in Nat \ {0}, NEW f, Placed(f, text, W),
         NEW i \in 0 .. Len(text), NEW j \in i + 1 .. Len(text)
  PROVE  Before(f[i], f[j])
<1> DEFINE n == Len(text)
           Q(k) == Before(f[i], f[i + 1 + k])
           S == {k \in Nat : i + 1 + k <= n => Q(k)}
<1>1. \A k \in 0 .. n : f[k][1] \in Nat /\ f[k][2] \in Nat
  BY PlaceType DEF Within
<1>2. ASSUME NEW m \in 0 .. n - 1
      PROVE  Before(f[m], f[m + 1])
  <2>1. f[m + 1] = <<f[m][1] + 1, 0>> \/ f[m + 1] = <<f[m][1], f[m][2] + 1>>
    BY DEF Placed, NextPlace
  <2>2. f[m][1] \in Nat /\ f[m][2] \in Nat
    BY <1>1
  <2>3. PICK r \in Nat, c \in Nat : r = f[m][1] /\ c = f[m][2]
    BY <2>2
  <2>4. f[m + 1] = <<r + 1, 0>> \/ f[m + 1] = <<r, c + 1>>
    BY <2>1, <2>3
  <2>5. \/ f[m + 1][1] = r + 1
        \/ f[m + 1][1] = r /\ f[m + 1][2] = c + 1
    BY <2>4
  <2>6. QED
    BY <2>3, <2>5, BeforeNext
<1>3. 0 \in S
  <2>1. i + 1 + 0 = i + 1 /\ i \in 0 .. n - 1
    OBVIOUS
  <2>2. QED
    BY <1>2, <2>1
<1>4. ASSUME NEW k \in Nat, k \in S, i + 1 + (k + 1) <= n
      PROVE  Q(k + 1)
  <2> DEFINE m == i + 1 + k
  <2>1. /\ m \in 0 .. n - 1 /\ m \in 0 .. n /\ m + 1 \in 0 .. n
        /\ i + 1 + (k + 1) = m + 1 /\ i + 1 + k <= n
    BY <1>4
  <2>2. Before(f[i], f[m])
    BY <1>4, <2>1
  <2> HIDE DEF m
  <2>3. Before(f[m], f[m + 1])
    BY <1>2, <2>1
  <2>4. /\ f[i][1] \in Nat /\ f[i][2] \in Nat /\ f[m][1] \in Nat /\ f[m][2] \in Nat
        /\ f[m + 1][1] \in Nat /\ f[m + 1][2] \in Nat
    BY <1>1, <2>1
  <2>5. Before(f[i], f[m + 1])
    BY <2>2, <2>3, <2>4, BeforeTransitive
  <2>6. QED
    BY <2>1, <2>5
<1> HIDE DEF Q
<1>5. \A k \in Nat : k \in S => k + 1 \in S
  BY <1>4
<1> HIDE DEF S
<1>6. j - (i + 1) \in Nat /\ j - (i + 1) \in S
  BY <1>3, <1>5, Induction
<1>7. i + 1 + (j - (i + 1)) = j
  OBVIOUS
<1>8. QED
  BY <1>6, <1>7 DEF S, Q

-----------------------------------------------------------------------------
(* The cells that should be filled.                                        *)

(* A view on the screen.                                                   *)
Fits(view) ==
  /\ view.win.rows \in Nat /\ view.win.cols \in Nat
  /\ view.abs_x \in Nat /\ view.abs_y \in Int /\ view.abs_y >= -1
  /\ view.max_width \in Nat \ {0} /\ view.max_rows \in Nat \ {0} /\ view.from_row \in Nat
  /\ view.abs_y + view.max_rows < view.win.rows
  /\ view.abs_x + view.max_width < view.win.cols

(* Character i of a text, or its terminator, the places of which are f: is *)
(* it written, and into which cell?  For a newline it is the filler.       *)
InView(view, f, i) ==
  view.from_row < f[i][1] /\ f[i][1] <= view.max_rows + view.from_row
Cell(view, f, i) ==
  [pos |-> i, char |-> i, row |-> view.abs_y + f[i][1] - view.from_row,
   col |-> view.abs_x + f[i][2]]

(* The cells of the first k of them.                                       *)
Drawn(view, f, k) ==
  {Cell(view, f, i) : i \in {j \in 0 .. k - 1 : InView(view, f, j)}}

(* One character more fills at most one cell more.                         *)
LEMMA DrawnNext ==
  ASSUME NEW view, NEW f, NEW k \in Nat
  PROVE  Drawn(view, f, k + 1)
           = Drawn(view, f, k)
               \cup (IF InView(view, f, k) THEN {Cell(view, f, k)} ELSE {})
<1>1. 0 .. (k + 1) - 1 = (0 .. k - 1) \cup {k}
  OBVIOUS
<1> DEFINE A == {j \in 0 .. k - 1 : InView(view, f, j)}
           B == {j \in 0 .. (k + 1) - 1 : InView(view, f, j)}
<1>2. B = A \cup (IF InView(view, f, k) THEN {k} ELSE {})
  BY <1>1
<1> HIDE DEF A, B
<1>3. {Cell(view, f, i) : i \in B}
        = {Cell(view, f, i) : i \in A}
            \cup (IF InView(view, f, k) THEN {Cell(view, f, k)} ELSE {})
  BY <1>2
<1>4. QED
  BY <1>3 DEF Drawn, A, B

(* Behind the last row of the view nothing more is drawn.                  *)
LEMMA DrawnAll ==
  ASSUME NEW view, Fits(view), NEW text, Len(text) \in Nat,
         NEW f, Placed(f, text, view.max_width),
         NEW k \in 0 .. Len(text), f[k][1] > view.max_rows + view.from_row
  PROVE  Drawn(view, f, k) = Drawn(view, f, Len(text) + 1)
<1> DEFINE n == Len(text)
           m == view.max_rows + view.from_row
           A == {j \in 0 .. k - 1 : InView(view, f, j)}
           B == {j \in 0 .. (n + 1) - 1 : InView(view, f, j)}
<1>1. m \in Nat /\ view.max_width \in Nat \ {0}
  BY DEF Fits
<1>2. \A i \in 0 .. n : f[i][1] \in Nat
  <2> DEFINE W == view.max_width
  <2>1. W \in Nat \ {0} /\ Placed(f, text, W)
    BY <1>1
  <2> HIDE DEF W
  <2>2. Within(f, n, W)
    BY <2>1, PlaceType
  <2>3. QED
    BY <2>2 DEF Within
<1>3. ASSUME NEW j \in 0 .. n, InView(view, f, j)
      PROVE  j \in 0 .. k - 1
  <2>1. SUFFICES ASSUME j >= k PROVE FALSE
    OBVIOUS
  <2>2. j \in k .. n
    BY <2>1
  <2>3. f[k][1] <= f[j][1]
    BY <1>1, <2>2, RowsGrow
  <2>4. f[j][1] <= m
    BY <1>3 DEF InView
  <2>5. f[k][1] \in Nat /\ f[j][1] \in Nat /\ f[k][1] > m
    BY <1>2
  <2> HIDE DEF m
  <2>6. QED
    BY <1>1, <2>3, <2>4, <2>5
<1>4. \A j \in 0 .. n : InView(view, f, j) => j \in 0 .. k - 1
  BY <1>3
<1>5. 0 .. k - 1 \subseteq 0 .. n /\ 0 .. (n + 1) - 1 = 0 .. n
  OBVIOUS
<1>6. A = B
  BY <1>4, <1>5
<1>7. QED
  BY <1>6 DEF Drawn

-----------------------------------------------------------------------------
(* The loop of display_wrapped.                                            *)

(* Its state while it goes on, and after it has ended.  (The Booleans have *)
(* names, for the provers read records of values better.)                  *)
GoesOn == FALSE
Ends == TRUE
Loop(r, c, y, x, k, cells) ==
  [row |-> r, col |-> c, scr_row |-> y, scr_col |-> x,
   char |-> k, cells |-> cells, done |-> GoesOn]
Ended(r, c, y, x, k, cells) ==
  [row |-> r, col |-> c, scr_row |-> y, scr_col |-> x,
   char |-> k, cells |-> cells, done |-> Ends]

(* The place on the screen that goes with row r and column c of the text.  *)
OnPlace(view, r, c, y, x) ==
  IF r <= view.from_row THEN y = 0 /\ x = 0
  ELSE y = view.abs_y + r - view.from_row /\ x = view.abs_x + c

(* Row r and column c are those of character k, but that a row that is     *)
(* full has not been left.                                                 *)
Counted(view, f, k, r, c) ==
  /\ f[k] = IF c < view.max_width THEN <<r, c>> ELSE <<r + 1, 0>>
  /\ c <= view.max_width

(* The loop before turn k: all characters before k are drawn.              *)
Going(view, text, f, k, s) ==
  /\ k <= Len(text)
  /\ \E r \in Nat, c \in Nat, y \in Int, x \in Int :
       /\ s = Loop(r, c, y, x, k, Drawn(view, f, k))
       /\ r <= view.max_rows + view.from_row
       /\ Counted(view, f, k, r, c)
       /\ OnPlace(view, r, c, y, x)

(* Where the filler behind the terminator comes.                           *)
AtEnd(view, text, f, r, c, y, x, k) ==
  /\ k = Len(text) /\ f[k] = <<r, c>> /\ c < view.max_width
  /\ r <= view.max_rows + view.from_row
  /\ OnPlace(view, r, c + 1, y, x)

(* All is drawn, and no turn draws any more.                               *)
Over(view, text, f, s) ==
  \E r \in Nat, c \in Nat, y \in Int, x \in Int, k \in Nat :
    LET all == Drawn(view, f, Len(text) + 1)
    IN  \/ s = Ended(r, c, y, x, k, all) /\ (c = 0 \/ AtEnd(view, text, f, r, c, y, x, k))
        \/ s = Loop(r, c, y, x, k, all) /\ r > view.max_rows + view.from_row /\ c = 0

(* Setting done, as Show does behind the last row, ends the loop.          *)
LEMMA LoopEnds ==
  ASSUME NEW r, NEW c, NEW y, NEW x, NEW k, NEW cells, NEW s, s = Loop(r, c, y, x, k, cells)
  PROVE  [s EXCEPT !.done = Ends] = Ended(r, c, y, x, k, cells)
BY DEF Loop, Ended

(* A newline that Show has read leaves all but the place in the text.      *)
LEMMA LoopReads ==
  ASSUME NEW r, NEW c, NEW y, NEW x, NEW k, NEW cells, NEW s, s = Loop(r, c, y, x, k, cells)
  PROVE  [s EXCEPT !.char = @ + 1] = Loop(r, c, y, x, k + 1, cells)
<1> DEFINE k1 == k + 1
<1>1. s.char = k
  BY DEF Loop
<1> HIDE DEF k1
<1>2. [s EXCEPT !.char = k1] = Loop(r, c, y, x, k1, cells)
  BY DEF Loop
<1>3. QED
  BY <1>1, <1>2 DEF k1

Read(s) == [s EXCEPT !.col = @ + 1, !.char = @ + 1]

(* Any other character moves the column as well.                           *)
LEMMA LoopDraws ==
  ASSUME NEW r, NEW c, NEW y, NEW x, NEW k, NEW cells, NEW s, s = Loop(r, c, y, x, k, cells)
  PROVE  Read(s) = Loop(r, c + 1, y, x, k + 1, cells)
<1> DEFINE c1 == c + 1
           k1 == k + 1
           q == [s EXCEPT !.col = c1]
<1>1. s.col = c /\ s.char = k
  BY DEF Loop
<1> HIDE DEF c1, k1
<1>2. [s EXCEPT !.col = c1, !.char = k1] = [q EXCEPT !.char = k1]
  BY DEF Loop
<1>3. q = Loop(r, c1, y, x, k, cells)
  BY DEF Loop
<1> HIDE DEF q
<1>4. [q EXCEPT !.char = k1] = Loop(r, c1, y, x, k1, cells)
  BY <1>3 DEF Loop
<1>5. QED
  BY <1>1, <1>2, <1>4 DEF Read, c1, k1

(* inc_rel_row goes to the next row, and on the screen as well unless that *)
(* row is above the view.                                                  *)
LEMMA IncIs ==
  ASSUME NEW view, NEW r, NEW c, NEW y, NEW x, NEW k, NEW cells
  PROVE  inc_rel_row(view, Loop(r, c, y, x, k, cells))
           = Loop(r + 1, 0,
                  IF r + 1 > view.from_row THEN view.abs_y + (r + 1) - view.from_row ELSE y,
                  IF r + 1 > view.from_row THEN view.abs_x ELSE x,
                  k, cells)
<1> DEFINE s == Loop(r, c, y, x, k, cells)
           from == view.from_row
           y1 == IF r + 1 > from THEN view.abs_y + (r + 1) - from ELSE y
           x1 == IF r + 1 > from THEN view.abs_x ELSE x
<1>1. s.row = r /\ s.scr_row = y /\ s.scr_col = x
  BY DEF Loop
<1>2. inc_rel_row(view, s) = [s EXCEPT !.row = r + 1, !.col = 0, !.scr_row = y1, !.scr_col = x1]
  BY <1>1 DEF inc_rel_row
<1> HIDE DEF y1, x1
<1>3. inc_rel_row(view, s) = Loop(r + 1, 0, y1, x1, k, cells)
  BY <1>2 DEF Loop
<1>4. QED
  BY <1>3 DEF y1, x1, s

(* Character k has been drawn, and the next comes to the next column.      *)
PutOn(view, f, k, r, c, y, s) ==
  \E x \in Int : /\ s = Loop(r, c, y, x, k, Drawn(view, f, k + 1))
                 /\ OnPlace(view, r, c + 1, y, x)

(* A character is drawn in the cell of its place.                          *)
LEMMA PutIs ==
  ASSUME NEW view, Fits(view), NEW f, NEW k \in Nat,
         NEW r \in Nat, NEW c \in Nat, NEW y \in Int, NEW x \in Int,
         r <= view.max_rows + view.from_row, c < view.max_width,
         OnPlace(view, r, c, y, x), f[k] = <<r, c>>
  PROVE  PutOn(view, f, k, r, c, y,
               Put(view, Loop(r, c, y, x, k, Drawn(view, f, k)), k))
<1> DEFINE D == Drawn(view, f, k)
           s == Loop(r, c, y, x, k, D)
           from == view.from_row
           ay == view.abs_y
           ax == view.abs_x
           W == view.max_width
           M == view.max_rows
           R == view.win.rows
           C == view.win.cols
<1>0. Drawn(view, f, k + 1)
        = D \cup (IF InView(view, f, k) THEN {Cell(view, f, k)} ELSE {})
  BY DrawnNext
<1> HIDE DEF D
<1>1. s.row = r /\ s.scr_row = y /\ s.scr_col = x /\ s.char = k /\ s.cells = D
  BY DEF Loop
<1>2. from \in Nat /\ f[k][1] = r /\ f[k][2] = c
  BY DEF Fits
<1> HIDE DEF W, M, R, C, ay, ax, from
<1>3. /\ ay \in Int /\ ay >= -1 /\ ax \in Nat /\ W \in Nat /\ M \in Nat
      /\ R \in Nat /\ C \in Nat /\ ay + M < R /\ ax + W < C
  BY DEF Fits, W, M, R, C, ay, ax
<1>4. r <= M + from /\ c < W
  BY DEF W, M, from
<1>5. CASE r <= from
  <2>1. ~InView(view, f, k)
    BY <1>2, <1>5 DEF InView, from
  <2>2. Put(view, s, k) = s
    BY <1>1, <1>5 DEF Put, from
  <2>3. OnPlace(view, r, c + 1, y, x)
    BY <1>5 DEF OnPlace, from
  <2>4. Put(view, s, k) = Loop(r, c, y, x, k, Drawn(view, f, k + 1))
    BY <1>0, <2>1, <2>2
  <2>5. QED
    BY <2>3, <2>4 DEF PutOn, D
<1>6. CASE ~(r <= from)
  <2>1. y = ay + r - from /\ x = ax + c
    BY <1>6 DEF OnPlace, ay, ax, from
  <2>2. OnScreen(view.win, s)
    <3>1. y \in 0 .. R - 1
      BY <1>2, <1>6, <1>3, <1>4, <2>1
    <3>2. x \in 0 .. C - 1
      BY <1>3, <1>4, <2>1
    <3>3. QED
      BY <1>1, <3>1, <3>2 DEF OnScreen, R, C
  <2> DEFINE cell == [pos |-> k, char |-> k, row |-> y, col |-> x]
  <2>3. cell = Cell(view, f, k)
    BY <1>2, <2>1 DEF Cell, ay, ax, from
  <2>4. InView(view, f, k)
    BY <1>2, <1>6, <1>3, <1>4 DEF InView, M, from
  <2>5. Put(view, s, k) = [s EXCEPT !.scr_col = x + 1, !.cells = D \cup {cell}]
    <3> HIDE DEF s
    <3>1. Put(view, s, k)
            = [s EXCEPT !.scr_col = @ + 1,
                        !.cells = @ \cup {[pos |-> k, char |-> s.char,
                                          row |-> s.scr_row, col |-> s.scr_col]}]
      BY <1>1, <1>6, <2>2 DEF Put, from
    <3>2. QED
      BY <1>1, <3>1
  <2> HIDE DEF cell
  <2>6. Put(view, s, k) = Loop(r, c, y, x + 1, k, D \cup {cell})
    BY <2>5 DEF Loop
  <2>7. D \cup {cell} = Drawn(view, f, k + 1)
    BY <1>0, <2>3, <2>4
  <2>8. x + 1 \in Int /\ OnPlace(view, r, c + 1, y, x + 1)
    <3>1. x + 1 = ax + (c + 1)
      BY <1>3, <2>1
    <3>2. QED
      BY <1>6, <2>1, <3>1 DEF OnPlace, ay, ax, from
  <2> HIDE DEF s
  <2>9. QED
    BY <2>6, <2>7, <2>8 DEF PutOn, D, s
<1>7. QED
  BY <1>5, <1>6

(* The row that is full is left, and row and column are those counted.     *)
Standing(view, f, k, cells, s) ==
  \E r \in Nat, c \in Nat, y \in Int, x \in Int :
    /\ s = Loop(r, c, y, x, k, cells)
    /\ f[k] = <<r, c>> /\ c < view.max_width
    /\ r <= view.max_rows + view.from_row \/ c = 0
    /\ OnPlace(view, r, c, y, x)

(* The turn of a state that is still going: first a row that is full is    *)
(* left, so that row and column are those of the place.                    *)
LEMMA RowLeft ==
  ASSUME NEW view, Fits(view), NEW f, NEW k, NEW cells,
         NEW r \in Nat, NEW c \in Nat, NEW y \in Int, NEW x \in Int,
         r <= view.max_rows + view.from_row,
         Counted(view, f, k, r, c), OnPlace(view, r, c, y, x),
         NEW s, s = Loop(r, c, y, x, k, cells)
  PROVE  Standing(view, f, k, cells, LeaveRow(view, s))
<1> DEFINE W == view.max_width
           from == view.from_row
           y1 == IF r + 1 > from THEN view.abs_y + (r + 1) - from ELSE y
           x1 == IF r + 1 > from THEN view.abs_x ELSE x
<1>1. s.col = c
  BY DEF Loop
<1>2. inc_rel_row(view, s) = Loop(r + 1, 0, y1, x1, k, cells)
  BY IncIs
<1>3. W \in Nat \ {0} /\ from \in Nat /\ y1 \in Int /\ x1 \in Int
  BY DEF Fits
<1>4. OnPlace(view, r + 1, 0, y1, x1)
  <2>1. view.abs_x \in Nat
    BY DEF Fits
  <2>2. r <= from => y = 0 /\ x = 0
    BY DEF OnPlace
  <2>3. view.abs_x = view.abs_x + 0
    BY <2>1
  <2> DEFINE ax == view.abs_x
             z == view.abs_y + (r + 1) - from
  <2>4. r + 1 \in Nat /\ (r + 1 > from <=> ~(r + 1 <= from)) /\ (r + 1 <= from => r <= from)
    BY <1>3
  <2>5. QED
    BY <2>2, <2>3, <2>4 DEF OnPlace
<1> HIDE DEF W, y1, x1
<1>5. CASE c < W
  <2>1. ~(s.col >= W)
    BY <1>1, <1>3, <1>5
  <2>2. f[k] = <<r, c>>
    BY <1>5 DEF W, Counted
  <2>3. QED
    BY <1>5, <2>1, <2>2 DEF W, LeaveRow, Standing
<1>6. CASE ~(c < W)
  <2>1. s.col >= W /\ 0 < W
    BY <1>1, <1>3, <1>6
  <2>2. f[k] = <<r + 1, 0>> /\ r + 1 \in Nat /\ 0 \in Nat
    BY <1>6 DEF W, Counted
  <2>3. QED
    BY <1>2, <1>3, <1>4, <2>1, <2>2 DEF W, LeaveRow, Standing
<1>7. QED
  BY <1>5, <1>6

(* Once the row is left, Show draws the character in the place that was    *)
(* counted for it, and the loop goes on or all is drawn.                   *)
LEMMA ShowKeeps ==
  ASSUME NEW view, Fits(view), NEW text, Len(text) \in Nat,
         NEW f, Placed(f, text, view.max_width), NEW k \in 0 .. Len(text),
         NEW r \in Nat, NEW c \in Nat, NEW y \in Int, NEW x \in Int,
         f[k] = <<r, c>>, c < view.max_width, OnPlace(view, r, c, y, x),
         r <= view.max_rows + view.from_row \/ c = 0
  PROVE  LET s == Show(view, text, Loop(r, c, y, x, k, Drawn(view, f, k)), k)
         IN  Going(view, text, f, k + 1, s) \/ Over(view, text, f, s)
<1> DEFINE n == Len(text)
           W == view.max_width
           last == view.max_rows + view.from_row
           D == Drawn(view, f, k)
           s0 == Loop(r, c, y, x, k, D)
           s == Show(view, text, s0, k)
           Goal == Going(view, text, f, k + 1, s) \/ Over(view, text, f, s)
<1>1. s0.row = r /\ s0.col = c /\ s0.char = k
  BY DEF Loop
<1>2. last \in Nat /\ W \in Nat \ {0} /\ k \in Nat
  BY SMTT(30) DEF Fits
<1>3. ASSUME ~(r > last)
      PROVE  PutOn(view, f, k, r, c, y, Put(view, s0, k))
  <2>1. r <= view.max_rows + view.from_row
    BY <1>2, <1>3
  <2> HIDE DEF Goal, s, last, n
  <2>2. QED
    BY <1>2, <2>1, PutIs
<1>4. ASSUME r > last
      PROVE  Goal
  <2>1. s = [s0 EXCEPT !.done = Ends]
    BY <1>1, <1>4 DEF Show, Ends
  <2>2. f[k][1] > view.max_rows + view.from_row
    BY <1>4
  <2>3. D = Drawn(view, f, n + 1)
    BY <2>2, DrawnAll
  <2> HIDE DEF D, last
  <2>4. s = Ended(r, c, y, x, k, D)
    <3>1. s0 = Loop(r, c, y, x, k, D)
      OBVIOUS
    <3> HIDE DEF s0, s
    <3>2. QED
      BY <2>1, <3>1, LoopEnds
  <2>5. r > view.max_rows + view.from_row
    BY <1>4 DEF last
  <2>6. c = 0
    <3>1. view.max_rows + view.from_row \in Nat
      BY <1>2 DEF last
    <3>2. ~(r <= view.max_rows + view.from_row)
      BY <2>5, <3>1
    <3>3. QED
      BY <3>2
  <2>7. QED
    BY <1>2, <2>3, <2>4, <2>6 DEF Over
<1>5. ASSUME ~(r > last), k = n
      PROVE  Goal
  <2>1. s = [Put(view, s0, k) EXCEPT !.done = Ends]
    BY <1>1, <1>5 DEF Show, Ends
  <2>2. r <= view.max_rows + view.from_row
    BY <1>2, <1>5
  <2>3. PICK x1 \in Int :
          /\ Put(view, s0, k) = Loop(r, c, y, x1, k, Drawn(view, f, k + 1))
          /\ OnPlace(view, r, c + 1, y, x1)
    BY <1>3, <1>5 DEF PutOn
  <2> DEFINE E == Drawn(view, f, k + 1)
  <2> HIDE DEF E, s0
  <2>4. s = Ended(r, c, y, x1, k, E)
    <3> DEFINE p == Put(view, s0, k)
    <3>1. p = Loop(r, c, y, x1, k, E) /\ s = [p EXCEPT !.done = Ends]
      BY <2>1, <2>3 DEF E
    <3> HIDE DEF p, s
    <3>2. QED
      BY <3>1, LoopEnds
  <2>5. E = Drawn(view, f, n + 1)
    BY <1>5 DEF E
  <2>6. AtEnd(view, text, f, r, c, y, x1, k)
    BY <1>5, <2>2, <2>3 DEF AtEnd
  <2>7. QED
    BY <1>2, <2>4, <2>5, <2>6 DEF Over
<1>6. ASSUME ~(r > last), k # n, text[k + 1] = Newline
      PROVE  Goal
  <2> DEFINE E == Drawn(view, f, k + 1)
  <2>1. PICK z \in Int : Put(view, s0, k) = Loop(r, c, y, z, k, E) /\ OnPlace(view, r, c + 1, y, z)
    BY <1>3, <1>6 DEF PutOn
  <2> DEFINE y1 == IF r + 1 > view.from_row THEN view.abs_y + (r + 1) - view.from_row ELSE y
             x1 == IF r + 1 > view.from_row THEN view.abs_x ELSE z
  <2>2. s = [inc_rel_row(view, fullfiller(view, s0, k)) EXCEPT !.char = @ + 1]
    BY <1>1, <1>6 DEF Show
  <2>3. fullfiller(view, s0, k) = Loop(r, c, y, z, k, E)
    <3>1. s0.col <= W
      BY <1>1, <1>2
    <3>2. QED
      BY <2>1, <3>1 DEF fullfiller
  <2>4. inc_rel_row(view, fullfiller(view, s0, k)) = Loop(r + 1, 0, y1, x1, k, E)
    BY <2>3, IncIs
  <2>5. y1 \in Int /\ x1 \in Int
    <3>1. view.abs_y \in Int /\ view.from_row \in Nat /\ view.abs_x \in Nat
      BY DEF Fits
    <3>2. QED
      BY <3>1
  <2>6. OnPlace(view, r + 1, 0, y1, x1)
    <3>1. view.abs_x \in Nat /\ view.from_row \in Nat
      BY DEF Fits
    <3>2. r <= view.from_row => y = 0 /\ z = 0
      BY <2>1 DEF OnPlace
    <3>3. view.abs_x = view.abs_x + 0
      BY <3>1
    <3>4. /\ r + 1 > view.from_row <=> ~(r + 1 <= view.from_row)
          /\ r + 1 <= view.from_row => r <= view.from_row
      BY <3>1
    <3>5. QED
      BY <3>2, <3>3, <3>4 DEF OnPlace
  <2>7. k \in 0 .. n - 1 /\ k + 1 \in 0 .. n
    BY <1>2, <1>6
  <2>8. f[k + 1] = <<r + 1, 0>>
    <3>1. f[k + 1] = NextPlace(f[k], text[k + 1], W)
      BY <2>7 DEF Placed
    <3>2. QED
      BY <1>6, <3>1 DEF NextPlace, RowEnds
  <2> HIDE DEF y1, x1, E
  <2>9. s = Loop(r + 1, 0, y1, x1, k + 1, E)
    <3> DEFINE p == inc_rel_row(view, fullfiller(view, s0, k))
    <3>1. p = Loop(r + 1, 0, y1, x1, k, E) /\ s = [p EXCEPT !.char = @ + 1]
      BY <2>2, <2>4
    <3> HIDE DEF p, s
    <3>2. QED
      BY <3>1, LoopReads
  <2>10. CASE r + 1 <= last
    <3>1. r + 1 \in Nat /\ 0 \in Nat /\ 0 < W /\ 0 <= W /\ k + 1 <= n
      BY <1>2, <2>7
    <3> HIDE DEF s
    <3>2. Going(view, text, f, k + 1, s)
      BY <2>5, <2>6, <2>8, <2>9, <2>10, <3>1 DEF Going, Counted, E
    <3>3. QED
      BY <3>2 DEF s
  <2>11. CASE r + 1 > last
    <3>1. f[k + 1][1] > view.max_rows + view.from_row
      BY <2>8, <2>11
    <3>2. E = Drawn(view, f, n + 1)
      BY <2>7, <3>1, DrawnAll DEF E
    <3>3. r + 1 \in Nat /\ 0 \in Nat /\ k + 1 \in Nat
      BY <1>2
    <3> HIDE DEF s
    <3>4. Over(view, text, f, s)
      BY <2>5, <2>9, <2>11, <3>2, <3>3 DEF Over
    <3>5. QED
      BY <3>4 DEF s
  <2> HIDE DEF Goal, last
  <2>12. QED
    BY <1>2, <2>10, <2>11
<1>7. ASSUME ~(r > last), k # n, text[k + 1] # Newline
      PROVE  Goal
  <2>1. s = [Put(view, s0, k) EXCEPT !.col = @ + 1, !.char = @ + 1]
    BY <1>1, <1>7 DEF Show
  <2>2. r <= view.max_rows + view.from_row
    BY <1>2, <1>7
  <2>3. PICK x1 \in Int :
          /\ Put(view, s0, k) = Loop(r, c, y, x1, k, Drawn(view, f, k + 1))
          /\ OnPlace(view, r, c + 1, y, x1)
    BY <1>3, <1>7 DEF PutOn
  <2> DEFINE E == Drawn(view, f, k + 1)
  <2>4. k \in 0 .. n - 1 /\ k + 1 <= n
    BY <1>2, <1>7
  <2>5. f[k + 1] = IF c + 1 < W THEN <<r, c + 1>> ELSE <<r + 1, 0>>
    <3>1. f[k + 1] = NextPlace(f[k], text[k + 1], W)
      BY <2>4 DEF Placed
    <3>2. c + 1 >= W <=> ~(c + 1 < W)
      BY <1>2
    <3>3. QED
      BY <1>7, <3>1, <3>2 DEF NextPlace, RowEnds
  <2>6. c + 1 \in Nat /\ c + 1 <= W
    BY <1>2
  <2> HIDE DEF E, s0
  <2>7. s = Loop(r, c + 1, y, x1, k + 1, E)
    <3> DEFINE p == Put(view, s0, k)
    <3>1. p = Loop(r, c, y, x1, k, E)
      BY <2>3 DEF E
    <3> HIDE DEF p
    <3>2. Read(p) = Loop(r, c + 1, y, x1, k + 1, E)
      BY <3>1, LoopDraws
    <3> HIDE DEF s
    <3>3. s = Read(p)
      BY <2>1 DEF Read, p
    <3>4. QED
      BY <3>2, <3>3
  <2> HIDE DEF s
  <2>8. Going(view, text, f, k + 1, s)
    BY <2>2, <2>3, <2>4, <2>5, <2>6, <2>7 DEF Going, Counted, E
  <2>9. QED
    BY <2>8 DEF s
<1>8. QED
  BY <1>4, <1>5, <1>6, <1>7

(* A turn of a loop that goes on draws what comes next, or nothing is left. *)
LEMMA TurnGoes ==
  ASSUME NEW view, Fits(view), NEW text, Len(text) \in Nat,
         NEW f, Placed(f, text, view.max_width), NEW k \in 0 .. Len(text),
         NEW s, Going(view, text, f, k, s)
  PROVE  \/ Going(view, text, f, k + 1, Turn(view, text, s, k))
         \/ Over(view, text, f, Turn(view, text, s, k))
<1> DEFINE D == Drawn(view, f, k)
           last == view.max_rows + view.from_row
           W == view.max_width
<1>1. PICK r \in Nat, c \in Nat, y \in Int, x \in Int :
        /\ s = Loop(r, c, y, x, k, D)
        /\ r <= last
        /\ f[k] = IF c < W THEN <<r, c>> ELSE <<r + 1, 0>>
        /\ c <= W
        /\ OnPlace(view, r, c, y, x)
  BY DEF Going, Counted
<1> HIDE DEF D
<1>2. s.done = GoesOn /\ s.scr_row = y /\ s.scr_col = x
  BY <1>1 DEF Loop
<1>3. y \in 0 .. view.win.rows - 1 /\ x \in 0 .. view.win.cols - 1
  <2> DEFINE ay == view.abs_y
             ax == view.abs_x
             from == view.from_row
             M == view.max_rows
             R == view.win.rows
             C == view.win.cols
  <2>1. r <= M + from /\ c <= W
    BY <1>1
  <2>2. IF r <= from THEN y = 0 /\ x = 0 ELSE y = ay + r - from /\ x = ax + c
    BY <1>1 DEF OnPlace
  <2> HIDE DEF ay, ax, from, M, R, C, W
  <2>3. /\ ay \in Int /\ ay >= -1 /\ ax \in Nat /\ W \in Nat \ {0} /\ M \in Nat \ {0}
        /\ R \in Nat /\ C \in Nat /\ ay + M < R /\ ax + W < C /\ from \in Nat
    BY DEF Fits, W, M, R, C, ay, ax, from
  <2>4. y \in 0 .. R - 1 /\ x \in 0 .. C - 1
    BY <2>1, <2>2, <2>3
  <2>5. QED
    BY <2>4 DEF R, C
<1>4. OnScreen(view.win, s)
  BY <1>2, <1>3 DEF OnScreen
<1> DEFINE s1 == LeaveRow(view, s)
<1> HIDE DEF s1
<1>5. PICK r1 \in Nat, c1 \in Nat, y1 \in Int, x1 \in Int :
        /\ s1 = Loop(r1, c1, y1, x1, k, D)
        /\ f[k] = <<r1, c1>> /\ c1 < W
        /\ r1 <= view.max_rows + view.from_row \/ c1 = 0
        /\ OnPlace(view, r1, c1, y1, x1)
  <2>1. Counted(view, f, k, r, c)
    BY <1>1 DEF Counted
  <2>2. Standing(view, f, k, D, LeaveRow(view, s))
    BY <1>1, <2>1, RowLeft
  <2> HIDE DEF W
  <2>3. QED
    BY <2>2 DEF Standing, s1, W
<1>6. Turn(view, text, s, k) = Show(view, text, s1, k)
  BY <1>2, <1>4 DEF Turn, GoesOn, s1, LeaveRow
<1> HIDE DEF W
<1>7. \/ Going(view, text, f, k + 1, Show(view, text, Loop(r1, c1, y1, x1, k, D), k))
      \/ Over(view, text, f, Show(view, text, Loop(r1, c1, y1, x1, k, D), k))
  BY <1>5, ShowKeeps DEF D, W
<1>8. QED
  BY <1>5, <1>6, <1>7

(* No turn draws any more when all is drawn.                               *)
LEMMA TurnStays ==
  ASSUME NEW view, Fits(view), NEW text, NEW f, NEW k, NEW s, Over(view, text, f, s)
  PROVE  Over(view, text, f, Turn(view, text, s, k))
<1> DEFINE all == Drawn(view, f, Len(text) + 1)
           last == view.max_rows + view.from_row
<1>1. PICK r \in Nat, c \in Nat, y \in Int, x \in Int, j \in Nat :
        \/ s = Ended(r, c, y, x, j, all)
        \/ s = Loop(r, c, y, x, j, all) /\ r > last /\ c = 0
  BY DEF Over
<1> HIDE DEF all
<1>2. CASE s.done \/ ~OnScreen(view.win, s)
  BY <1>2 DEF Turn
<1>3. CASE ~(s.done \/ ~OnScreen(view.win, s))
  <2>1. s # Ended(r, c, y, x, j, all)
    BY <1>3 DEF Ended, Ends
  <2>2. s = Loop(r, c, y, x, j, all) /\ r > last /\ c = 0
    BY <1>1, <2>1
  <2>3. s.row = r /\ s.col = 0
    BY <2>2 DEF Loop
  <2>4. LeaveRow(view, s) = s
    <3>1. view.max_width \in Nat \ {0}
      BY DEF Fits
    <3>2. QED
      BY <2>3, <3>1 DEF LeaveRow
  <2>5. Turn(view, text, s, k) = [s EXCEPT !.done = Ends]
    <3>1. Turn(view, text, s, k) = Show(view, text, LeaveRow(view, s), k)
      BY <1>3 DEF Turn
    <3>2. s.row > view.max_rows + view.from_row
      BY <2>2, <2>3
    <3>3. Show(view, text, s, k) = [s EXCEPT !.done = Ends]
      BY <3>2 DEF Show, Ends
    <3>4. QED
      BY <2>4, <3>1, <3>3
  <2>6. [s EXCEPT !.done = Ends] = Ended(r, c, y, x, j, all)
    BY <2>2, LoopEnds
  <2> DEFINE q == Turn(view, text, s, k)
  <2>7. q = Ended(r, c, y, x, j, all) /\ c = 0
    BY <2>2, <2>5, <2>6
  <2> HIDE DEF q
  <2>8. Over(view, text, f, q)
    BY <2>7 DEF Over, all
  <2>9. QED
    BY <2>8 DEF q
<1>4. QED
  BY <1>2, <1>3

(* The cell of the filler behind the terminator, if there is any.          *)
EndFiller(view, text, f) ==
  LET n == Len(text)
  IN {[pos |-> n + 1, char |-> n + 1, row |-> view.abs_y + f[n][1] - view.from_row,
       col |-> view.abs_x + f[n][2] + 1] : i \in {j \in {n} : InView(view, f, j)}}

(* The cells that display_wrapped fills are those that were counted, and   *)
(* one behind them.                                                        *)
THEOREM WrappedIs ==
  ASSUME NEW view, Fits(view), NEW text, Len(text) \in Nat,
         NEW f, Placed(f, text, view.max_width)
  PROVE  LET all == Drawn(view, f, Len(text) + 1)
         IN display_wrapped(view, text) \in {all, all \cup EndFiller(view, text, f)}
<1> DEFINE n == Len(text)
           t == Turns(view, text)
           Q(k) == Going(view, text, f, k, t[k]) \/ Over(view, text, f, t[k])
           S == {k \in Nat : k <= n + 1 => Q(k)}
<1> HIDE DEF t
<1>1. Turned(t, view, text)
  BY TurnsIs DEF t
<1>2. Q(0)
  <2> DEFINE y1 == IF 1 > view.from_row THEN view.abs_y + 1 - view.from_row ELSE 0
             x1 == IF 1 > view.from_row THEN view.abs_x ELSE 0
  <2>1. First = Loop(0, 0, 0, 0, 0, {})
    BY DEF First, Loop, GoesOn
  <2>2. t[0] = Loop(1, 0, y1, x1, 0, {})
    <3>1. 0 + 1 = 1
      OBVIOUS
    <3>2. inc_rel_row(view, Loop(0, 0, 0, 0, 0, {}))
            = Loop(0 + 1, 0, IF 0 + 1 > view.from_row
                             THEN view.abs_y + (0 + 1) - view.from_row ELSE 0,
                   IF 0 + 1 > view.from_row THEN view.abs_x ELSE 0, 0, {})
      BY IncIs
    <3>3. t[0] = inc_rel_row(view, Loop(0, 0, 0, 0, 0, {}))
      BY <1>1, <2>1 DEF Turned
    <3>4. QED
      BY <3>1, <3>2, <3>3
  <2>3. Drawn(view, f, 0) = {}
    BY DEF Drawn
  <2>4. /\ view.from_row \in Nat /\ view.abs_y \in Int /\ view.abs_x \in Nat
        /\ view.max_rows \in Nat \ {0} /\ view.max_width \in Nat \ {0}
    BY DEF Fits
  <2>5. y1 \in Int /\ x1 \in Int /\ OnPlace(view, 1, 0, y1, x1)
    BY <2>4 DEF OnPlace
  <2> HIDE DEF y1, x1
  <2>6. /\ 1 \in Nat /\ 0 \in Nat /\ 1 <= view.max_rows + view.from_row
        /\ 0 < view.max_width /\ 0 <= view.max_width /\ 0 <= n
    BY <2>4
  <2>7. f[0] = IF 0 < view.max_width THEN <<1, 0>> ELSE <<1 + 1, 0>>
    BY <2>6 DEF Placed
  <2>8. Going(view, text, f, 0, t[0])
    BY <2>2, <2>3, <2>5, <2>6, <2>7 DEF Going, Counted
  <2>9. QED
    BY <2>8
<1>3. ASSUME NEW k \in Nat, k \in S, k + 1 <= n + 1
      PROVE  Q(k + 1)
  <2>1. k \in 0 .. n /\ Q(k)
    BY <1>3
  <2>2. t[k + 1] = Turn(view, text, t[k], k)
    BY <1>1, <2>1 DEF Turned
  <2>3. CASE Going(view, text, f, k, t[k])
    BY <2>1, <2>2, <2>3, TurnGoes
  <2>4. CASE Over(view, text, f, t[k])
    BY <2>2, <2>4, TurnStays
  <2>5. QED
    BY <2>1, <2>3, <2>4
<1> HIDE DEF Q
<1>4. 0 \in S /\ \A k \in Nat : k \in S => k + 1 \in S
  BY <1>2, <1>3
<1> HIDE DEF S
<1>5. n + 1 \in S
  BY <1>4, Induction
<1>6. Q(n + 1)
  BY <1>5 DEF S
<1>7. ~Going(view, text, f, n + 1, t[n + 1])
  BY DEF Going
<1>8. Over(view, text, f, t[n + 1])
  BY <1>6, <1>7 DEF Q
<1> DEFINE s == t[n + 1]
           all == Drawn(view, f, n + 1)
           pos == n + 1
           s1 == [s EXCEPT !.char = pos]
           d == display_wrapped(view, text)
<1> HIDE DEF s, all, pos, s1, d
<1>9. d = IF s.col = 0 THEN s.cells ELSE fullfiller(view, s1, pos).cells
  BY DEF display_wrapped, t, s, pos, s1, d
<1>10. PICK r \in Nat, c \in Nat, y \in Int, x \in Int, j \in Nat :
        \/ s = Ended(r, c, y, x, j, all) /\ (c = 0 \/ AtEnd(view, text, f, r, c, y, x, j))
        \/ s = Loop(r, c, y, x, j, all) /\ c = 0
  BY <1>8 DEF Over, s, all
<1>11. s.cells = all /\ s.col = c
  BY <1>10 DEF Loop, Ended
<1>12. CASE c = 0
  BY <1>9, <1>11, <1>12 DEF all, d
<1>13. CASE c # 0
  <2>1. s = Ended(r, c, y, x, j, all) /\ AtEnd(view, text, f, r, c, y, x, j)
    BY <1>10, <1>13
  <2>2. /\ s1.row = r /\ s1.col = c /\ s1.scr_row = y /\ s1.scr_col = x
        /\ s1.char = pos /\ s1.cells = all
    BY <2>1 DEF s1, Ended
  <2>3. /\ f[n] = <<r, c>> /\ c < view.max_width /\ r <= view.max_rows + view.from_row
        /\ OnPlace(view, r, c + 1, y, x)
    BY <2>1 DEF AtEnd
  <2>4. d \in {s1.cells, s1.cells \cup {[pos |-> pos, char |-> pos, row |-> y, col |-> x]}}
        /\ (s1.row <= view.from_row => d = s1.cells)
    <3>1. d = fullfiller(view, s1, pos).cells
      BY <1>9, <1>11, <1>13
    <3>2. fullfiller(view, s1, pos) = s1 \/ fullfiller(view, s1, pos) = Put(view, s1, pos)
      BY DEF fullfiller
    <3>3. /\ Put(view, s1, pos).cells
               \in {s1.cells, s1.cells \cup {[pos |-> pos, char |-> pos, row |-> y, col |-> x]}}
          /\ s1.row <= view.from_row => Put(view, s1, pos) = s1
      BY <2>1, <2>2 DEF Put, s1, Ended
    <3>4. QED
      BY <3>1, <3>2, <3>3
  <2>5. CASE r <= view.from_row
    BY <2>2, <2>4, <2>5 DEF all, d
  <2>6. CASE ~(r <= view.from_row)
    <3>1. y = view.abs_y + r - view.from_row /\ x = view.abs_x + (c + 1)
      BY <2>3, <2>6 DEF OnPlace
    <3>2. view.abs_x \in Nat /\ view.from_row \in Nat
      BY DEF Fits
    <3>3. x = view.abs_x + c + 1 /\ view.from_row < r
      BY <2>6, <3>1, <3>2
    <3>4. InView(view, f, n)
      BY <2>3, <3>3 DEF InView
    <3>5. EndFiller(view, text, f) = {[pos |-> pos, char |-> pos, row |-> y, col |-> x]}
      BY <2>3, <3>1, <3>3, <3>4 DEF EndFiller, pos
    <3>6. QED
      BY <2>2, <2>4, <3>5 DEF all, d
  <2>7. QED
    BY <2>5, <2>6
<1>14. QED
  BY <1>12, <1>13

-----------------------------------------------------------------------------
(* The input line and the messages.                                        *)

(* calc_display_size: no place is below the rows that it finds needed.     *)
LEMMA SizeIs ==
  ASSUME NEW text, Len(text) \in Nat, NEW W \in Nat \ {0}, NEW pos,
         NEW f, f = Places(text, W)
  PROVE  LET size == calc_display_size(text, W, pos)
         IN  /\ size.need_rows \in Nat \ {0}
             /\ \A i \in 0 .. Len(text) : f[i][1] <= size.need_rows
             /\ size.row \in Nat
             /\ pos \in 0 .. Len(text) => size.row = f[pos][1] /\ size.col = f[pos][2]
<1> DEFINE n == Len(text)
           size == calc_display_size(text, W, pos)
<1>1. Placed(f, text, W)
  BY PlacesIs
<1>2. \A i \in 0 .. n : f[i][1] \in Nat /\ f[i][1] >= 1 /\ f[i][2] \in Nat
  <2>1. Within(f, n, W)
    BY <1>1, PlaceType
  <2>2. QED
    BY <2>1 DEF Within
<1>3. size.need_rows = IF RowEnds("", f[n][2], W) THEN f[n][1] + 1 ELSE f[n][1]
  BY DEF calc_display_size
<1>4. size.row = IF pos \in 0 .. n THEN f[pos][1] ELSE 0
  BY DEF calc_display_size
<1>5. pos \in 0 .. n => size.col = f[pos][2]
  BY DEF calc_display_size
<1> HIDE DEF size
<1>6. n \in 0 .. n
  OBVIOUS
<1>7. size.need_rows \in Nat /\ size.need_rows >= 1 /\ f[n][1] <= size.need_rows
  <2>1. f[n][1] \in Nat /\ f[n][1] >= 1
    BY <1>2, <1>6
  <2>2. size.need_rows = f[n][1] + 1 \/ size.need_rows = f[n][1]
    BY <1>3
  <2>3. QED
    BY <2>1, <2>2
<1>8. ASSUME NEW i \in 0 .. n
      PROVE  f[i][1] <= size.need_rows
  <2>1. n \in i .. n
    OBVIOUS
  <2>2. f[i][1] <= f[n][1]
    BY <1>1, <2>1, RowsGrow
  <2>3. QED
    BY <1>2, <1>6, <1>7, <2>2
<1>9. size.row \in Nat
  BY <1>2, <1>4
<1>10. QED
  BY <1>4, <1>5, <1>7, <1>8, <1>9 DEF size

(* The rows needed are counted, whatever the width.                        *)
LEMMA NeedNat ==
  ASSUME NEW text, Len(text) \in Nat, NEW W \in Int, NEW pos
  PROVE  calc_display_size(text, W, pos).need_rows \in Nat
<1> DEFINE n == Len(text)
           f == Places(text, W)
           need == calc_display_size(text, W, pos).need_rows
<1>1. need = IF RowEnds("", f[n][2], W) THEN f[n][1] + 1 ELSE f[n][1]
  BY DEF calc_display_size
<1>2. Placed(f, text, W)
  BY PlacesIs
<1> HIDE DEF f, need
<1>3. PICK r \in Nat, c \in Nat : f[n] = <<r, c>>
  <2>1. Pairs(f, n)
    BY <1>2, PlaceNat
  <2>2. n \in 0 .. n
    OBVIOUS
  <2>3. QED
    BY <2>1, <2>2 DEF Pairs
<1>4. f[n][1] = r
  BY <1>3
<1>5. need = r + 1 \/ need = r
  BY <1>1, <1>4
<1>6. QED
  BY <1>5 DEF need

(* The cells that are drawn are in the rows and the columns of the view.   *)
LEMMA DrawnInView ==
  ASSUME NEW view, Fits(view), NEW text, Len(text) \in Nat,
         NEW f, Placed(f, text, view.max_width),
         NEW d \in Drawn(view, f, Len(text) + 1)
  PROVE  /\ d.pos = d.char
         /\ d.row \in view.abs_y + 1 .. view.abs_y + view.max_rows
         /\ d.col \in view.abs_x .. view.abs_x + view.max_width - 1
<1> DEFINE n == Len(text)
           ay == view.abs_y
           ax == view.abs_x
           W == view.max_width
           M == view.max_rows
           from == view.from_row
<1>1. PICK i \in 0 .. n : d = Cell(view, f, i) /\ InView(view, f, i)
  BY DEF Drawn
<1>2. ay \in Int /\ ax \in Nat /\ W \in Nat \ {0} /\ M \in Nat /\ from \in Nat
  BY DEF Fits
<1>3. PICK r \in Nat, c \in Nat : f[i] = <<r, c>> /\ c < W
  <2>1. Placed(f, text, W)
    OBVIOUS
  <2> HIDE DEF W
  <2>2. Within(f, n, W)
    BY <1>2, <2>1, PlaceType
  <2>3. QED
    BY <1>1, <2>2 DEF Within
<1>4. f[i][1] = r /\ f[i][2] = c
  BY <1>3
<1>5. from < r /\ r <= M + from
  BY <1>1, <1>4 DEF InView
<1>6. d.pos = d.char /\ d.row = ay + r - from /\ d.col = ax + c
  BY <1>1, <1>4 DEF Cell
<1> HIDE DEF ay, ax, W, M, from
<1>7. d.row \in ay + 1 .. ay + M /\ d.col \in ax .. ax + W - 1
  BY <1>2, <1>3, <1>5, <1>6
<1>8. QED
  BY <1>6, <1>7 DEF ay, ax, W, M

(* What is in the view is drawn.                                           *)
LEMMA InViewDrawn ==
  ASSUME NEW view, NEW text, Len(text) \in Nat, NEW f,
         NEW i \in 0 .. Len(text), InView(view, f, i)
  PROVE  Cell(view, f, i) \in Drawn(view, f, Len(text) + 1)
<1>1. i \in 0 .. (Len(text) + 1) - 1
  OBVIOUS
<1>2. QED
  BY <1>1 DEF Drawn

(* So is the filler, in the column behind that of the terminator.          *)
LEMMA FillerInView ==
  ASSUME NEW view, Fits(view), NEW text, Len(text) \in Nat,
         NEW f, Placed(f, text, view.max_width), NEW d \in EndFiller(view, text, f)
  PROVE  /\ d.pos = d.char
         /\ d.row \in view.abs_y + 1 .. view.abs_y + view.max_rows
         /\ d.col \in view.abs_x .. view.abs_x + view.max_width
<1> DEFINE n == Len(text)
           e == Cell(view, f, n)
<1>1. /\ d.pos = d.char /\ d.row = view.abs_y + f[n][1] - view.from_row
      /\ d.col = view.abs_x + f[n][2] + 1 /\ InView(view, f, n)
  BY DEF EndFiller
<1>2. e.row = view.abs_y + f[n][1] - view.from_row /\ e.col = view.abs_x + f[n][2]
  BY DEF Cell
<1>3. e \in Drawn(view, f, n + 1)
  BY <1>1, InViewDrawn
<1>4. /\ e.row \in view.abs_y + 1 .. view.abs_y + view.max_rows
      /\ e.col \in view.abs_x .. view.abs_x + view.max_width - 1
  BY <1>3, DrawnInView
<1>5. view.abs_x \in Nat /\ view.max_width \in Nat
  BY DEF Fits
<1> HIDE DEF e
<1>6. d.col = e.col + 1
  BY <1>1, <1>2
<1>7. QED
  BY <1>1, <1>2, <1>4, <1>5, <1>6

(* The place of a cell in its text.                                        *)
Behind(view, text, f, d, r, c) ==
  /\ d.row = view.abs_y + r - view.from_row /\ d.col = view.abs_x + c
  /\ \/ d.char \in 0 .. Len(text) /\ f[d.char] = <<r, c>> /\ d = Cell(view, f, d.char)
     \/ d.char = Len(text) + 1 /\ f[Len(text)] = <<r, c - 1>> /\ d \in EndFiller(view, text, f)

(* No two of the cells are in one place.                                   *)
LEMMA CellsApart ==
  ASSUME NEW view, Fits(view), NEW text, Len(text) \in Nat,
         NEW f, Placed(f, text, view.max_width),
         NEW d \in Drawn(view, f, Len(text) + 1) \cup EndFiller(view, text, f),
         NEW e \in Drawn(view, f, Len(text) + 1) \cup EndFiller(view, text, f),
         d.row = e.row, d.col = e.col
  PROVE  d = e
<1> DEFINE n == Len(text)
           W == view.max_width
           both == Drawn(view, f, n + 1) \cup EndFiller(view, text, f)
<1>1. view.abs_y \in Int /\ view.from_row \in Nat /\ view.abs_x \in Nat /\ W \in Nat \ {0}
  BY DEF Fits
<1>2. Within(f, n, W)
  <2>1. Placed(f, text, W)
    OBVIOUS
  <2> HIDE DEF W
  <2>2. QED
    BY <1>1, <2>1, PlaceType
<1>3. ASSUME NEW g \in both
      PROVE  \E r \in Nat, c \in Nat : Behind(view, text, f, g, r, c)
  <2>1. CASE g \in Drawn(view, f, n + 1)
    <3>1. PICK i \in 0 .. n : g = Cell(view, f, i)
      BY <2>1 DEF Drawn
    <3>2. PICK r \in Nat, c \in Nat : f[i] = <<r, c>>
      BY <1>2 DEF Within
    <3>3. /\ g.char = i /\ g.row = view.abs_y + r - view.from_row
          /\ g.col = view.abs_x + c
      BY <3>1, <3>2 DEF Cell
    <3>4. QED
      BY <3>1, <3>2, <3>3 DEF Behind
  <2>2. CASE g \in EndFiller(view, text, f)
    <3>1. PICK r \in Nat, c \in Nat : f[n] = <<r, c>>
      BY <1>2 DEF Within
    <3>2. /\ g.char = n + 1 /\ g.row = view.abs_y + f[n][1] - view.from_row
          /\ g.col = view.abs_x + f[n][2] + 1
      BY <2>2 DEF EndFiller
    <3>3. c + 1 \in Nat /\ (c + 1) - 1 = c /\ view.abs_x + c + 1 = view.abs_x + (c + 1)
      <4> DEFINE ax == view.abs_x
      <4>1. ax \in Nat
        BY <1>1
      <4> HIDE DEF ax
      <4>2. ax + c + 1 = ax + (c + 1)
        BY <4>1
      <4>3. QED
        BY <4>2 DEF ax
    <3>4. g.row = view.abs_y + r - view.from_row /\ g.col = view.abs_x + (c + 1)
      BY <3>1, <3>2, <3>3
    <3>5. Behind(view, text, f, g, r, c + 1)
      BY <2>2, <3>1, <3>2, <3>3, <3>4 DEF Behind
    <3>6. QED
      BY <3>3, <3>5
  <2>3. QED
    BY <2>1, <2>2
<1>4. PICK r \in Nat, c \in Nat : Behind(view, text, f, d, r, c)
  BY <1>3
<1>5. PICK r1 \in Nat, c1 \in Nat : Behind(view, text, f, e, r1, c1)
  BY <1>3
<1>6. r = r1 /\ c = c1
  <2> DEFINE ay == view.abs_y
             from == view.from_row
             ax == view.abs_x
  <2>1. ay + r - from = ay + r1 - from /\ ax + c = ax + c1
    BY <1>4, <1>5 DEF Behind
  <2>2. ay \in Int /\ from \in Nat /\ ax \in Nat
    BY <1>1
  <2> HIDE DEF ay, from, ax
  <2>3. QED
    BY <2>1, <2>2
<1>7. \A i \in 0 .. n, j \in 0 .. n : i < j => Before(f[i], f[j])
  <2> SUFFICES ASSUME NEW i \in 0 .. n, NEW j \in 0 .. n, i < j
               PROVE  Before(f[i], f[j])
    OBVIOUS
  <2>1. j \in i + 1 .. n /\ Placed(f, text, W)
    OBVIOUS
  <2> HIDE DEF W
  <2>2. QED
    BY <1>1, <2>1, PlacesGrow
<1>8. ASSUME NEW i \in 0 .. n, f[i] = <<r, c>>, f[n] = <<r, c - 1>>
      PROVE  FALSE
  <2>1. i < n
    <3>1. c - 1 # c
      OBVIOUS
    <3>2. i # n
      BY <1>8, <3>1
    <3>3. QED
      BY <3>2
  <2>2. Before(f[i], f[n])
    BY <1>7, <2>1
  <2>3. QED
    BY <1>8, <2>2 DEF Before
<1>9. CASE d.char \in 0 .. n /\ e.char \in 0 .. n
  <2>1. f[d.char] = <<r, c>> /\ f[e.char] = <<r, c>>
    BY <1>4, <1>5, <1>6, <1>9 DEF Behind
  <2>2. ~Before(<<r, c>>, <<r, c>>)
    BY DEF Before
  <2>3. ~(d.char < e.char) /\ ~(e.char < d.char)
    BY <1>7, <1>9, <2>1, <2>2
  <2>4. d.char = e.char
    BY <1>9, <2>3
  <2>5. d = Cell(view, f, d.char) /\ e = Cell(view, f, e.char)
    BY <1>4, <1>5, <1>9 DEF Behind
  <2>6. QED
    BY <2>4, <2>5
<1>10. CASE d.char \notin 0 .. n /\ e.char \notin 0 .. n
  BY <1>4, <1>5, <1>10 DEF Behind, EndFiller
<1>11. CASE d.char \in 0 .. n /\ e.char \notin 0 .. n
  BY <1>4, <1>5, <1>6, <1>8, <1>11 DEF Behind
<1>12. CASE d.char \notin 0 .. n /\ e.char \in 0 .. n
  BY <1>4, <1>5, <1>6, <1>8, <1>12 DEF Behind
<1>13. QED
  BY <1>9, <1>10, <1>11, <1>12

(* What is known of cells that are drawn in a view.                        *)
Tidy(view, text, f, cells) ==
  /\ Drawn(view, f, Len(text) + 1) \subseteq cells
  /\ \A d \in cells : /\ d.pos = d.char
                      /\ d.row \in view.abs_y + 1 .. view.abs_y + view.max_rows
                      /\ d.col \in view.abs_x .. view.abs_x + view.max_width
  /\ \A d \in cells, e \in cells : d.row = e.row /\ d.col = e.col => d = e

LEMMA WrappedTidy ==
  ASSUME NEW view, Fits(view), NEW text, Len(text) \in Nat,
         NEW f, Placed(f, text, view.max_width)
  PROVE  Tidy(view, text, f, display_wrapped(view, text))
<1> DEFINE all == Drawn(view, f, Len(text) + 1)
           cells == display_wrapped(view, text)
<1>1. cells \in {all, all \cup EndFiller(view, text, f)}
  BY WrappedIs
<1>2. all \subseteq cells /\ cells \subseteq all \cup EndFiller(view, text, f)
  BY <1>1
<1> HIDE DEF cells
<1>3. ASSUME NEW d \in cells
      PROVE  /\ d.pos = d.char
             /\ d.row \in view.abs_y + 1 .. view.abs_y + view.max_rows
             /\ d.col \in view.abs_x .. view.abs_x + view.max_width
  <2>1. CASE d \in all
    <3>1. /\ d.pos = d.char
          /\ d.row \in view.abs_y + 1 .. view.abs_y + view.max_rows
          /\ d.col \in view.abs_x .. view.abs_x + view.max_width - 1
      BY <2>1, DrawnInView
    <3>2. view.abs_x \in Nat /\ view.max_width \in Nat
      BY DEF Fits
    <3>3. QED
      BY <3>1, <3>2
  <2>2. CASE d \in EndFiller(view, text, f)
    BY <2>2, FillerInView
  <2>3. QED
    BY <1>2, <2>1, <2>2
<1>4. ASSUME NEW d \in cells, NEW e \in cells, d.row = e.row, d.col = e.col
      PROVE  d = e
  BY <1>2, <1>4, CellsApart
<1>5. QED
  BY <1>2, <1>3, <1>4 DEF Tidy, cells

(* A view above the screen is left at once.                                *)
LEMMA OffScreen ==
  ASSUME NEW view, NEW text, Len(text) \in Nat,
         view.from_row = 0, view.abs_y \in Int, view.abs_y < -1, view.win.rows \in Nat
  PROVE  display_wrapped(view, text) = {}
<1> DEFINE n == Len(text)
           t == Turns(view, text)
           y == view.abs_y + (0 + 1) - 0
           s == Loop(0 + 1, 0, y, view.abs_x, 0, {})
           S == {k \in Nat : k <= n + 1 => t[k] = s}
<1> HIDE DEF t
<1>1. Turned(t, view, text)
  BY TurnsIs DEF t
<1>2. t[0] = s
  <2>1. First = Loop(0, 0, 0, 0, 0, {})
    BY DEF First, Loop, GoesOn
  <2>2. inc_rel_row(view, Loop(0, 0, 0, 0, 0, {})) = s
    BY IncIs
  <2>3. QED
    BY <1>1, <2>1, <2>2 DEF Turned
<1>3. s.scr_row < 0 /\ s.scr_row \in Int /\ s.col = 0 /\ s.cells = {}
  <2> HIDE DEF y
  <2>1. s.scr_row = y /\ s.col = 0 /\ s.cells = {}
    BY DEF Loop
  <2>2. y \in Int /\ y < 0
    BY DEF y
  <2>3. QED
    BY <2>1, <2>2
<1> HIDE DEF s
<1>4. \A k : Turn(view, text, s, k) = s
  BY <1>3 DEF Turn, OnScreen
<1>5. ASSUME NEW k \in Nat, k \in S, k + 1 <= n + 1
      PROVE  t[k + 1] = s
  <2>1. k \in 0 .. n /\ t[k] = s
    BY <1>5
  <2>2. QED
    BY <1>1, <1>4, <2>1 DEF Turned
<1>6. 0 \in S /\ \A k \in Nat : k \in S => k + 1 \in S
  BY <1>2, <1>5
<1> HIDE DEF S
<1>7. n + 1 \in S
  BY <1>6, Induction
<1>8. t[n + 1] = s
  BY <1>7 DEF S
<1>9. QED
  BY <1>3, <1>8 DEF display_wrapped, t

(* What InputInPlace says of the input line, its condition and the frames  *)
(* apart.                                                                  *)
InputSeen(w, line, i) ==
  LET rows == i.up + 1 .. i.up + i.rows
  IN  /\ \A c \in i.cells : c.pos = c.char /\ c.row \in rows /\ c.col < w.cols
      /\ line.cursor_pos \in 0 .. Len(line.text) =>
           \E c \in i.cells : /\ c.char = line.cursor_pos
                              /\ c.row = i.up + i.cursor.row - i.from_row
                              /\ c.col = vert + 3 + i.cursor.col
      /\ Seen(i.cells, InputLines(w, i.up, i.rows))
      /\ i.up \in Int /\ i.up <= w.rows

(* The input line has room for its rows, and the rows from which it is     *)
(* drawn are chosen so that the cursor's is one of them.                   *)
LEMMA InputDrawn ==
  ASSUME NEW w \in [rows : Nat, cols : Nat],
         NEW line \in [text : Seq(Characters), cursor_pos : Int], NEW mb \in Nat,
         InputWidth(w) > 0, InputBottom(w, mb) >= 2
  PROVE  InputSeen(w, line, Input(w, line, mb))
<1> DEFINE text == line.text
           pos == line.cursor_pos
           W == InputWidth(w)
           f == Places(text, W)
           size == calc_display_size(text, W, pos)
           bottom == InputBottom(w, mb)
           half == Half(bottom)
           tooLong == size.need_rows > half
           rows == IF tooLong THEN half ELSE size.need_rows
           from == IF tooLong /\ size.row > half THEN size.row - half ELSE 0
           up == bottom - rows
           view == [win |-> w, abs_x |-> vert + 3, abs_y |-> up, from_row |-> from,
                    max_width |-> W, max_rows |-> rows]
           i == Input(w, line, mb)
           all == Drawn(view, f, Len(text) + 1)
<1>1. i.up = up /\ i.rows = rows /\ i.from_row = from /\ i.cursor = size
  BY DEF Input
<1>2. i.cells = display_wrapped(view, text)
  BY DEF Input
<1>3. vert \in Nat /\ w.rows \in Nat /\ w.cols \in Nat
  BY LayoutAssumption
<1>4. Len(text) \in Nat
  OBVIOUS
<1>5. W \in Nat \ {0}
  BY <1>3 DEF InputWidth
<1>6. W = w.cols - vert - 5
  BY DEF InputWidth
<1>7. bottom \in Nat /\ bottom >= 2 /\ bottom = w.rows - mb - 2
  BY <1>3 DEF InputBottom
<1>8. half \in Nat /\ half >= 1 /\ half <= bottom
  BY <1>7 DEF Half
<1> HIDE DEF i, f, size, W, bottom, half, text
<1>9. /\ size.need_rows \in Nat \ {0} /\ size.row \in Nat
      /\ \A j \in 0 .. Len(text) : f[j][1] <= size.need_rows
      /\ pos \in 0 .. Len(text) => size.row = f[pos][1] /\ size.col = f[pos][2]
  <2>1. f = Places(text, W)
    BY DEF f
  <2> HIDE DEF pos
  <2>2. QED
    BY <1>4, <1>5, <2>1, SizeIs DEF size
<1>10. rows \in Nat \ {0} /\ rows <= bottom /\ from \in Nat
  <2>1. tooLong \/ (~tooLong /\ size.need_rows <= half)
    BY <1>8, <1>9
  <2> HIDE DEF tooLong
  <2>2. rows \in Nat \ {0} /\ rows <= bottom
    BY <1>7, <1>8, <1>9, <2>1
  <2>3. from \in Nat
    BY <1>8, <1>9
  <2>4. QED
    BY <2>2, <2>3
<1>11. up \in Nat /\ up + rows = bottom
  BY <1>7, <1>10
<1> HIDE DEF rows, from, up
<1>12. /\ view.win = w /\ view.abs_x = vert + 3 /\ view.abs_y = up /\ view.from_row = from
       /\ view.max_width = W /\ view.max_rows = rows
  OBVIOUS
<1> HIDE DEF view
<1>13. Fits(view)
  <2>1. up \in Int /\ up >= -1 /\ up + rows < w.rows
    BY <1>3, <1>7, <1>11
  <2>2. vert + 3 \in Nat /\ vert + 3 + W < w.cols
    BY <1>3, <1>6
  <2>3. QED
    BY <1>3, <1>5, <1>10, <1>12, <2>1, <2>2 DEF Fits
<1>14. Placed(f, text, view.max_width)
  BY <1>4, <1>12, PlacesIs DEF f
<1>15. Tidy(view, text, f, i.cells)
  BY <1>2, <1>4, <1>13, <1>14, WrappedTidy
<1>16. ASSUME NEW c \in i.cells
       PROVE  /\ c.pos = c.char /\ c.row \in up + 1 .. up + rows
              /\ c.col \in Int /\ c.col > vert /\ c.col < w.cols
  <2>1. /\ c.pos = c.char
        /\ c.row \in view.abs_y + 1 .. view.abs_y + view.max_rows
        /\ c.col \in view.abs_x .. view.abs_x + view.max_width
    BY <1>15 DEF Tidy
  <2>2. c.col \in vert + 3 .. vert + 3 + W
    BY <1>12, <2>1
  <2> HIDE DEF view, W, i
  <2>3. c.col \in Int /\ c.col > vert /\ c.col < w.cols
    BY <1>3, <1>5, <1>6, <2>2, SMTT(30)
  <2>4. QED
    BY <1>12, <2>1, <2>3
<1>17. ASSUME pos \in 0 .. Len(text)
       PROVE  \E c \in i.cells : /\ c.char = pos
                                 /\ c.row = up + size.row - from
                                 /\ c.col = vert + 3 + size.col
  <2>1. size.row = f[pos][1] /\ size.col = f[pos][2] /\ f[pos][1] <= size.need_rows
    BY <1>9, <1>17
  <2>2. size.row >= 1
    <3>1. Placed(f, text, W)
      BY <1>12, <1>14
    <3>2. Within(f, Len(text), W)
      BY <1>4, <1>5, <3>1, PlaceType
    <3> HIDE DEF pos
    <3>3. PICK r \in Nat, c \in Nat : f[pos] = <<r, c>> /\ r >= 1
      BY <1>17, <3>2 DEF Within
    <3>4. QED
      BY <2>1, <3>3
  <2>3. from < size.row /\ size.row <= rows + from
    BY <1>8, <1>9, <2>1, <2>2 DEF rows, from
  <2>4. pos = Len(text) \/ text[pos + 1] # Newline
    <3>1. CASE pos # Len(text)
      <4>1. pos + 1 \in 1 .. Len(text)
        BY <1>4, <1>17, <3>1
      <4>2. text[pos + 1] \in Characters
        <5>1. text \in Seq(Characters)
          BY DEF text
        <5> HIDE DEF pos
        <5>2. QED
          BY <4>1, <5>1
      <4>3. QED
        BY <4>2, LayoutAssumption
    <3>2. QED
      BY <3>1
  <2>5. InView(view, f, pos)
    BY <1>12, <2>1, <2>3, <2>4 DEF InView
  <2>6. Cell(view, f, pos) \in i.cells
    <3>1. Cell(view, f, pos) \in all
      BY <1>4, <1>17, <2>5, InViewDrawn
    <3>2. QED
      BY <1>15, <3>1 DEF Tidy
  <2>7. /\ Cell(view, f, pos).char = pos
        /\ Cell(view, f, pos).row = up + size.row - from
        /\ Cell(view, f, pos).col = vert + 3 + size.col
    BY <1>12, <2>1 DEF Cell
  <2>8. QED
    BY <2>6, <2>7
<1>18. Seen(i.cells, InputLines(w, up, rows))
  <2>1. ASSUME NEW c \in i.cells, <<c.row, c.col>> \in InputLines(w, up, rows)
        PROVE  FALSE
    <3>1. c.row = up - 1 \/ c.col = vert
      BY <2>1 DEF InputLines, drawHorizontalLine, drawVerticalLine
    <3>2. c.row \in up + 1 .. up + rows /\ c.col \in Int /\ c.col > vert
      BY <1>16
    <3>3. QED
      BY <1>3, <1>10, <1>11, <3>1, <3>2
  <2>2. \A c \in i.cells, d \in i.cells : d.row = c.row /\ d.col = c.col => d = c
    BY <1>15 DEF Tidy
  <2>3. QED
    BY <2>1, <2>2 DEF Seen
<1>19. up \in Int /\ up <= w.rows
  BY <1>3, <1>7, <1>10, <1>11
<1>20. QED
  BY <1>1, <1>16, <1>17, <1>18, <1>19 DEF InputSeen, i, text

(* What MessagesInPlace says of a frame, the other frames apart.           *)
Complete(w, f) ==
  f.width > 0 /\ f.y >= -1 /\ f.y + f.rows < w.rows =>
    /\ \A c \in f.cells : c.row \in f.y + 1 .. f.y + f.rows /\ c.col \in f.x .. f.x + f.width
    /\ 0 .. Len(f.text) - 1 \subseteq {c.char : c \in f.cells}
    /\ \A c \in f.cells, d \in f.cells : d.row = c.row /\ d.col = c.col => d = c

(* A frame that is on the screen has room for its message.                 *)
LEMMA FrameComplete ==
  ASSUME NEW w \in [rows : Nat, cols : Nat], NEW text, Len(text) \in Nat,
         NEW x \in Nat, NEW y \in Int, NEW width \in Int, x + width <= w.cols
  PROVE  Complete(w, display_message_with_frame(w, text, x, y, width))
<1> DEFINE W == width - 4
           g == display_message_with_frame(w, text, x, y, width)
           f == Places(text, W)
           need == calc_display_size(text, W, 0).need_rows
           view == [win |-> w, abs_x |-> x + 2, abs_y |-> y, from_row |-> 0,
                    max_width |-> W, max_rows |-> need]
<1>1. /\ g.text = text /\ g.x = x + 2 /\ g.y = y /\ g.width = W
      /\ g.rows = IF W <= 0 THEN 0 ELSE need
      /\ g.cells = IF W <= 0 THEN {} ELSE display_wrapped(view, text)
  BY DEF display_message_with_frame
<1> HIDE DEF g, need
<1>2. SUFFICES ASSUME W > 0, y >= -1, y + g.rows < w.rows
      PROVE  /\ \A c \in g.cells : c.row \in y + 1 .. y + g.rows /\ c.col \in x + 2 .. x + 2 + W
             /\ \A i \in 0 .. Len(text) - 1 : \E c \in g.cells : c.char = i
             /\ \A c \in g.cells, d \in g.cells : d.row = c.row /\ d.col = c.col => d = c
  BY <1>1 DEF Complete, g
<1>3. W \in Nat \ {0} /\ ~(W <= 0) /\ w.rows \in Nat /\ w.cols \in Nat
  BY <1>2
<1>4. g.rows = need /\ g.cells = display_wrapped(view, text)
  BY <1>1, <1>3
<1>5. need \in Nat \ {0} /\ \A i \in 0 .. Len(text) : f[i][1] <= need
  <2> HIDE DEF W, f
  <2>1. QED
    BY <1>3, SizeIs DEF need, f
<1>6. x + 2 + W < w.cols
  BY <1>3
<1> HIDE DEF W, f
<1>7. /\ view.win = w /\ view.abs_x = x + 2 /\ view.abs_y = y /\ view.from_row = 0
      /\ view.max_width = W /\ view.max_rows = need
  OBVIOUS
<1> HIDE DEF view
<1>8. Fits(view)
  <2>1. x + 2 \in Nat /\ 0 \in Nat
    OBVIOUS
  <2>2. QED
    BY <1>2, <1>3, <1>4, <1>5, <1>6, <1>7, <2>1 DEF Fits
<1>9. Placed(f, text, W) /\ Placed(f, text, view.max_width)
  BY <1>7, PlacesIs DEF f
<1>10. Tidy(view, text, f, g.cells)
  BY <1>4, <1>8, <1>9, WrappedTidy
<1>11. ASSUME NEW c \in g.cells
       PROVE  c.row \in y + 1 .. y + g.rows /\ c.col \in x + 2 .. x + 2 + W
  <2>1. /\ c.row \in view.abs_y + 1 .. view.abs_y + view.max_rows
        /\ c.col \in view.abs_x .. view.abs_x + view.max_width
    BY <1>10 DEF Tidy
  <2>2. QED
    BY <1>4, <1>7, <2>1
<1>12. ASSUME NEW i \in 0 .. Len(text) - 1
       PROVE  \E c \in g.cells : c.char = i
  <2>1. i \in 0 .. Len(text)
    OBVIOUS
  <2>2. f[i][1] <= need
    BY <1>5, <2>1
  <2>3. PICK r \in Nat, c \in Nat : f[i] = <<r, c>> /\ r >= 1
    <3>1. Within(f, Len(text), W)
      BY <1>3, <1>9, PlaceType
    <3>2. QED
      BY <2>1, <3>1 DEF Within
  <2>4. 0 < f[i][1] /\ f[i][1] <= need + 0
    BY <1>5, <2>2, <2>3
  <2>5. InView(view, f, i)
    BY <1>7, <2>4 DEF InView
  <2>6. Cell(view, f, i) \in Drawn(view, f, Len(text) + 1)
    BY <2>1, <2>5, InViewDrawn
  <2>7. Cell(view, f, i) \in g.cells
    BY <1>10, <2>6 DEF Tidy
  <2>8. QED
    BY <2>7 DEF Cell
<1>13. \A c \in g.cells, d \in g.cells : d.row = c.row /\ d.col = c.col => d = c
  BY <1>10 DEF Tidy
<1>14. QED
  BY <1>11, <1>12, <1>13

(* Where a frame is written, as a part of Framed.                          *)
Written(g) == g.border \cup {<<c.row, c.col>> : c \in g.cells}

(* A frame that ends on the screen is written no lower than its lower      *)
(* line.                                                                   *)
LEMMA FrameRows ==
  ASSUME NEW w \in [rows : Nat, cols : Nat], NEW text, Len(text) \in Nat,
         NEW x \in Nat, NEW y \in Int, NEW width \in Int, x + width <= w.cols,
         NEW g, g = display_message_with_frame(w, text, x, y, width), y + g.rows < w.rows
  PROVE  \A p \in Written(g) : p[1] \in Int /\ p[1] <= y + g.rows + 1
<1> DEFINE W == width - 4
           need == calc_display_size(text, W, 0).need_rows
           view == [win |-> w, abs_x |-> x + 2, abs_y |-> y, from_row |-> 0,
                    max_width |-> W, max_rows |-> need]
           border ==
             (UNION {drawHorizontalLine(w, x, row, width) : row \in {y, y + need + 1}})
               \cup (UNION {drawVerticalLine(w, col, y + 1, need) : col \in {x, x + width - 1}})
<1>1. /\ g.x = x + 2 /\ g.y = y /\ g.width = W
      /\ g.rows = IF W <= 0 THEN 0 ELSE need
      /\ g.border = IF W <= 0 THEN {} ELSE border
      /\ g.cells = IF W <= 0 THEN {} ELSE display_wrapped(view, text)
  BY DEF display_message_with_frame
<1>2. CASE W <= 0
  <2> HIDE DEF W, border, need, view
  <2>1. g.border = {} /\ g.cells = {}
    BY <1>1, <1>2
  <2>2. QED
    BY <2>1 DEF Written
<1>3. CASE ~(W <= 0)
  <2>1. W \in Int /\ need \in Nat
    <3> HIDE DEF W
    <3>1. W \in Int
      BY DEF W
    <3>2. QED
      BY <3>1, NeedNat
  <2>2. \A p \in border : p[1] \in {y, y + need + 1} \cup (y + 1 .. (y + 1) + need - 1)
    <3> HIDE DEF need, W
    <3>1. \A row : \A p \in drawHorizontalLine(w, x, row, width) : p[1] = row
      BY DEF drawHorizontalLine
    <3>2. \A col : \A p \in drawVerticalLine(w, col, y + 1, need) :
            p[1] \in y + 1 .. (y + 1) + need - 1
      BY DEF drawVerticalLine
    <3>3. QED
      BY <3>1, <3>2
  <2>3. ASSUME NEW p \in border
        PROVE  p[1] \in Int /\ p[1] <= y + need + 1
    <3> DEFINE r == p[1]
    <3>1. r \in {y, y + need + 1} \cup (y + 1 .. (y + 1) + need - 1)
      BY <2>2, <2>3
    <3> HIDE DEF r, need, border
    <3>2. r \in Int /\ r <= y + need + 1
      BY <2>1, <3>1
    <3>3. QED
      BY <3>2 DEF r
  <2> HIDE DEF border, need, W
  <2>4. g.rows = need /\ g.border = border /\ g.cells = display_wrapped(view, text)
    BY <1>1, <1>3
  <2>5. ASSUME NEW c \in g.cells
        PROVE  c.row \in y + 1 .. y + need
    <3>1. CASE y >= -1
      <4>1. Complete(w, g)
        BY FrameComplete
      <4>2. g.width > 0 /\ g.y >= -1 /\ g.y + g.rows < w.rows
        BY <1>1, <1>3, <2>1, <3>1
      <4>3. c.row \in g.y + 1 .. g.y + g.rows
        BY <4>1, <4>2 DEF Complete
      <4>4. QED
        BY <1>1, <2>4, <4>3
    <3>2. CASE ~(y >= -1)
      <4>1. view.from_row = 0 /\ view.abs_y = y /\ view.win = w
        OBVIOUS
      <4> HIDE DEF view
      <4>2. y < -1 /\ w.rows \in Nat
        BY <3>2
      <4>3. display_wrapped(view, text) = {}
        BY <4>1, <4>2, OffScreen
      <4>4. QED
        BY <2>4, <4>3
    <3>3. QED
      BY <3>1, <3>2
  <2>6. ASSUME NEW p \in Written(g)
        PROVE  p[1] \in Int /\ p[1] <= y + need + 1
    <3>1. CASE p \in border
      BY <2>3, <3>1
    <3>2. CASE p \notin border
      <4>1. PICK c \in g.cells : p = <<c.row, c.col>>
        BY <2>4, <2>6, <3>2 DEF Written
      <4>2. p[1] \in y + 1 .. y + need
        BY <2>5, <4>1
      <4>3. QED
        BY <2>1, <4>2
    <3>3. QED
      BY <3>1, <3>2
  <2>7. QED
    BY <2>4, <2>6
<1>4. QED
  BY <1>2, <1>3

(* What is known of every frame: a roomy one ends before the row in which  *)
(* what is below it begins.                                                *)
InRoom(w, g) ==
  /\ g.y \in Int /\ g.rows \in Nat /\ NeedsRows(w, g.text) \in Nat
  /\ Complete(w, g)
  /\ \A top \in Int :
       /\ g.rows <= NeedsRows(w, g.text) + 2
       /\ g.y + NeedsRows(w, g.text) + 3 <= top
       /\ top <= w.rows
       => \A p \in Written(g) : p[1] \in Int /\ p[1] <= top

LEMMA FrameInRoom ==
  ASSUME NEW w \in [rows : Nat, cols : Nat], NEW text \in Texts, NEW bottom \in Int,
         NEW g, g = Frame(w, text, bottom)
  PROVE  InRoom(w, g) /\ g.text = text /\ g.y = bottom - NeedsRows(w, text)
<1> DEFINE need == NeedsRows(w, text)
           x == vert + 2
           y == bottom - need
           width == OutputWidth(w) - vert - 2
<1>1. vert \in Nat /\ margin \in Nat /\ w.cols \in Nat /\ w.rows \in Nat
  BY LayoutAssumption
<1>2. OutputWidth(w) \in Int /\ OutputWidth(w) <= w.cols
  BY <1>1 DEF OutputWidth
<1>3. Len(text) \in Nat
  BY LayoutAssumption
<1>4. need \in Nat
  BY <1>2, <1>3, NeedNat DEF NeedsRows
<1>5. x \in Nat /\ y \in Int /\ width \in Int /\ x + width <= w.cols
  <2> HIDE DEF need
  <2>1. QED
    BY <1>1, <1>2, <1>4
<1>6. g = display_message_with_frame(w, text, x, y, width)
  BY DEF Frame
<1>7. g.text = text /\ g.y = y
  BY <1>6 DEF display_message_with_frame
<1>8. g.rows \in Nat
  <2> DEFINE W == width - 4
             rows == calc_display_size(text, W, 0).need_rows
  <2>1. g.rows = IF W <= 0 THEN 0 ELSE rows
    BY <1>6 DEF display_message_with_frame
  <2>2. W \in Int
    BY <1>5
  <2> HIDE DEF W
  <2>3. rows \in Nat
    BY <1>3, <2>2, NeedNat
  <2> HIDE DEF rows
  <2>4. QED
    BY <2>1, <2>3
<1> HIDE DEF x, y, width
<1>9. Complete(w, g)
  BY <1>3, <1>5, <1>6, FrameComplete
<1>10. ASSUME NEW top \in Int, g.rows <= need + 2, y + need + 3 <= top, top <= w.rows,
              NEW p \in Written(g)
       PROVE  p[1] \in Int /\ p[1] <= top
  <2> HIDE DEF need
  <2>1. y + g.rows < w.rows /\ y + g.rows + 1 <= top
    BY <1>1, <1>4, <1>5, <1>8, <1>10
  <2>2. p[1] \in Int /\ p[1] <= y + g.rows + 1
    BY <1>3, <1>5, <1>6, <1>10, <2>1, FrameRows
  <2>3. y + g.rows + 1 \in Int
    BY <1>5, <1>8
  <2>4. QED
    BY <2>1, <2>2, <2>3
<1>11. InRoom(w, g)
  BY <1>4, <1>5, <1>7, <1>8, <1>9, <1>10 DEF InRoom
<1>12. QED
  BY <1>7, <1>11 DEF y

Added(d, w, up, msgs) ==
  /\ d[0] = [ob_bottom |-> up - 3, frames |-> <<>>]
  /\ \A i \in 0 .. Len(msgs) - 1 : d[i + 1] = AddFrame(w, d[i], msgs[i + 1])

(* The loop over the messages, one by one.                                 *)
LEMMA DrawnAboveIs ==
  ASSUME NEW w, NEW up, NEW msgs, Len(msgs) \in Nat
  PROVE  Added(DrawnAbove(w, up, msgs), w, up, msgs)
<1> DEFINE b == [ob_bottom |-> up - 3, frames |-> <<>>]
           Is(f, m) ==
             f = [i \in 0 .. m |-> IF i = 0 THEN b ELSE AddFrame(w, f[i - 1], msgs[i])]
           S == {m \in Nat : \E f : Is(f, m)}
           n == Len(msgs)
<1>0. DrawnAbove(w, up, msgs) = CHOOSE f : Is(f, n)
  BY DEF DrawnAbove
<1> HIDE DEF b
<1>1. 0 \in S
  <2>1. Is([i \in 0 .. 0 |-> b], 0)
    OBVIOUS
  <2>2. QED
    BY <2>1
<1>2. ASSUME NEW m \in Nat, m \in S
      PROVE  m + 1 \in S
  <2>1. PICK f : Is(f, m)
    BY <1>2
  <2> DEFINE g == [i \in 0 .. m + 1 |-> IF i = 0 THEN b ELSE AddFrame(w, f[i - 1], msgs[i])]
  <2>2. \A i \in 0 .. m : g[i] = f[i]
    BY <2>1
  <2>3. \A i \in 0 .. m + 1 : i # 0 => i - 1 \in 0 .. m
    OBVIOUS
  <2>4. Is(g, m + 1)
    BY <2>2, <2>3
  <2> HIDE DEF Is, g
  <2>5. QED
    BY <2>4
<1> HIDE DEF S
<1>3. n \in S
  BY <1>1, <1>2, Induction
<1>4. \E f : Is(f, n)
  BY <1>3 DEF S
<1> DEFINE d == DrawnAbove(w, up, msgs)
<1> HIDE DEF d
<1>5. Is(d, n)
  BY <1>0, <1>4 DEF d
<1>6. ASSUME NEW i \in 0 .. n - 1
      PROVE  d[i + 1] = AddFrame(w, d[i], msgs[i + 1])
  <2>1. i + 1 \in 0 .. n /\ i + 1 # 0 /\ (i + 1) - 1 = i
    OBVIOUS
  <2>2. QED
    BY <1>5, <2>1
<1>7. d[0] = b
  BY <1>5
<1>8. QED
  BY <1>6, <1>7 DEF Added, d, b

(* Frames are stacked, each with three rows to spare above the one before  *)
(* it, and the loop goes on above the last.                                *)
Stacked(w, up, frames) ==
  \A m \in 1 .. Len(frames) :
    /\ frames[m].y + NeedsRows(w, frames[m].text) + 3 <= up
    /\ \A n \in 1 .. m - 1 : frames[m].y + NeedsRows(w, frames[m].text) + 3 <= frames[n].y
GoesOnAbove(up, frames, ob_bottom) ==
  ob_bottom > 0 => /\ ob_bottom + 3 <= up
                   /\ \A m \in 1 .. Len(frames) : ob_bottom + 3 <= frames[m].y

LEMMA OneMore ==
  ASSUME NEW w, NEW up \in Int, NEW F, NEW frames \in Seq(F), NEW g \in F,
         \A h \in F : h.y \in Int /\ NeedsRows(w, h.text) \in Nat,
         NEW bottom \in Int, NEW next \in Int, bottom > 0,
         Stacked(w, up, frames), GoesOnAbove(up, frames, bottom),
         g.y = bottom - NeedsRows(w, g.text),
         next > 0 => next = g.y - 3
  PROVE  Stacked(w, up, Append(frames, g)) /\ GoesOnAbove(up, Append(frames, g), next)
<1> DEFINE k == Len(frames)
           more == Append(frames, g)
           need(h) == NeedsRows(w, h.text)
<1>1. /\ k \in Nat /\ Len(more) = k + 1 /\ more[k + 1] = g
      /\ \A m \in 1 .. k : more[m] = frames[m] /\ frames[m] \in F
  OBVIOUS
<1>2. /\ g.y \in Int /\ need(g) \in Nat
      /\ \A m \in 1 .. k : frames[m].y \in Int /\ need(frames[m]) \in Nat
  BY <1>1
<1>3. g.y + need(g) + 3 <= up /\ \A m \in 1 .. k : g.y + need(g) + 3 <= frames[m].y
  <2>1. g.y + need(g) + 3 = bottom + 3
    BY <1>2
  <2>2. QED
    BY <2>1 DEF GoesOnAbove
<1> HIDE DEF more
<1>4. ASSUME NEW m \in 1 .. k + 1
      PROVE  /\ more[m].y + need(more[m]) + 3 <= up
             /\ \A n \in 1 .. m - 1 : more[m].y + need(more[m]) + 3 <= more[n].y
  <2>1. CASE m = k + 1
    <3>1. m - 1 = k /\ more[m] = g
      BY <1>1, <2>1
    <3> HIDE DEF need
    <3>2. QED
      BY <1>1, <1>3, <3>1
  <2>2. CASE m # k + 1
    <3>1. m \in 1 .. k /\ \A n \in 1 .. m - 1 : n \in 1 .. k
      BY <1>1, <2>2
    <3>2. more[m] = frames[m] /\ \A n \in 1 .. m - 1 : more[n] = frames[n]
      BY <1>1, <3>1
    <3>3. QED
      BY <3>1, <3>2 DEF Stacked
  <2>3. QED
    BY <2>1, <2>2
<1>5. Stacked(w, up, more)
  BY <1>1, <1>4 DEF Stacked
<1>6. ASSUME next > 0
      PROVE  next + 3 <= up /\ \A m \in 1 .. k + 1 : next + 3 <= more[m].y
  <2>1. next + 3 = g.y
    BY <1>2, <1>6
  <2> HIDE DEF need
  <2>2. ASSUME NEW z \in Int, g.y + need(g) + 3 <= z
        PROVE  g.y <= z
    <3> DEFINE gy == g.y
               gn == need(g)
    <3>1. gy \in Int /\ gn \in Nat /\ gy + gn + 3 <= z
      BY <1>2, <2>2
    <3> HIDE DEF gy, gn
    <3>2. gy <= z
      BY <3>1
    <3>3. QED
      BY <3>2 DEF gy
  <2>3. g.y <= up
    BY <1>3, <2>2
  <2>4. ASSUME NEW m \in 1 .. k + 1
        PROVE  g.y <= more[m].y
    <3>1. CASE m = k + 1
      BY <1>1, <1>2, <3>1
    <3>2. CASE m # k + 1
      <4>1. m \in 1 .. k
        BY <1>1, <3>2
      <4>2. more[m] = frames[m]
        BY <1>1, <4>1
      <4>3. frames[m].y \in Int /\ g.y + need(g) + 3 <= frames[m].y
        BY <1>2, <1>3, <4>1
      <4>4. QED
        BY <2>2, <4>2, <4>3
    <3>3. QED
      BY <3>1, <3>2
  <2>5. QED
    BY <2>1, <2>3, <2>4
<1>7. GoesOnAbove(up, more, next)
  BY <1>1, <1>6 DEF GoesOnAbove
<1>8. QED
  BY <1>5, <1>7 DEF more

(* All frames have their room, and are stacked above the input line.       *)
LEMMA OutputStacked ==
  ASSUME NEW w \in [rows : Nat, cols : Nat], NEW up \in Int, NEW msgs \in Seq(Texts)
  PROVE  LET frames == Output(w, up, msgs)
         IN  /\ Len(frames) \in Nat
             /\ \A n \in 1 .. Len(frames) : InRoom(w, frames[n])
             /\ Stacked(w, up, frames)
<1> DEFINE F == {Frame(w, text, bottom) : text \in Texts, bottom \in Int}
           k == Len(msgs)
           d == DrawnAbove(w, up, msgs)
           P(e) == /\ e.ob_bottom \in Int /\ e.frames \in Seq(F)
                   /\ Stacked(w, up, e.frames) /\ GoesOnAbove(up, e.frames, e.ob_bottom)
           S == {i \in Nat : i <= k => P(d[i])}
<1>1. k \in Nat
  OBVIOUS
<1>2. Added(d, w, up, msgs)
  BY <1>1, DrawnAboveIs
<1> HIDE DEF d
<1>3. \A g \in F : InRoom(w, g)
  BY FrameInRoom
<1>4. \A g \in F : g.y \in Int /\ NeedsRows(w, g.text) \in Nat
  BY <1>3 DEF InRoom
<1>5. P(d[0])
  <2>1. d[0].ob_bottom = up - 3 /\ d[0].frames = <<>>
    BY <1>2 DEF Added
  <2> HIDE DEF F
  <2>2. <<>> \in Seq(F) /\ Len(<<>>) = 0 /\ 1 .. 0 = {}
    OBVIOUS
  <2>3. up - 3 \in Int /\ (up - 3) + 3 <= up
    OBVIOUS
  <2>4. Stacked(w, up, <<>>) /\ GoesOnAbove(up, <<>>, up - 3)
    BY <2>2, <2>3 DEF Stacked, GoesOnAbove
  <2>5. QED
    BY <2>1, <2>2, <2>3, <2>4
<1>6. ASSUME NEW i \in Nat, i \in S, i + 1 <= k
      PROVE  P(d[i + 1])
  <2>1. i \in 0 .. k - 1 /\ i + 1 \in 1 .. k /\ P(d[i])
    BY <1>1, <1>6
  <2> DEFINE e == d[i]
             text == msgs[i + 1]
             rows == NeedsRows(w, text)
             g == Frame(w, text, e.ob_bottom)
             next == IF rows <= e.ob_bottom THEN e.ob_bottom - rows - 3 ELSE 0
             more == Append(e.frames, g)
  <2>2. d[i + 1] = IF e.ob_bottom <= 0 THEN e ELSE [ob_bottom |-> next, frames |-> more]
    BY <1>2, <2>1 DEF Added, AddFrame
  <2>3. text \in Texts
    BY <2>1
  <2>4. e.ob_bottom \in Int /\ e.frames \in Seq(F) /\ P(e)
    BY <2>1
  <2> HIDE DEF e, text
  <2>5. /\ g \in F /\ g.text = text /\ g.y = e.ob_bottom - rows
        /\ NeedsRows(w, g.text) = rows
    BY <2>3, <2>4, FrameInRoom
  <2>6. rows \in Nat
    BY <1>4, <2>5
  <2> HIDE DEF rows, g, F
  <2>7. next \in Int /\ more \in Seq(F) /\ (next > 0 => next = g.y - 3)
    BY <2>4, <2>5, <2>6
  <2> HIDE DEF next
  <2>8. CASE e.ob_bottom <= 0
    BY <2>2, <2>4, <2>8
  <2>9. CASE ~(e.ob_bottom <= 0)
    <3>1. e.ob_bottom > 0
      BY <2>4, <2>9
    <3>2. Stacked(w, up, more) /\ GoesOnAbove(up, more, next)
      BY <1>4, <2>4, <2>5, <2>7, <3>1, OneMore
    <3> HIDE DEF more
    <3>3. d[i + 1].ob_bottom = next /\ d[i + 1].frames = more
      BY <2>2, <2>9
    <3>4. QED
      BY <2>7, <3>2, <3>3
  <2>10. QED
    BY <2>8, <2>9
<1> HIDE DEF P
<1>7. 0 \in S /\ \A i \in Nat : i \in S => i + 1 \in S
  BY <1>5, <1>6
<1> HIDE DEF S
<1>8. k \in S
  BY <1>1, <1>7, Induction
<1>9. P(d[k])
  BY <1>1, <1>8 DEF S
<1> DEFINE frames == Output(w, up, msgs)
<1>10. frames = d[k].frames
  BY DEF Output, d
<1> HIDE DEF frames, F
<1>11. frames \in Seq(F) /\ Stacked(w, up, frames)
  BY <1>9, <1>10 DEF P
<1>12. QED
  BY <1>3, <1>11 DEF frames

-----------------------------------------------------------------------------
(* The invariant: nothing has changed since everything was drawn.          *)

Redrawn ==
  /\ win \in [rows : Nat, cols : Nat]
  /\ curr \in [text : Seq(Characters), cursor_pos : Int]
  /\ messages \in Seq(Texts)
  /\ mb_need_rows \in Nat
  /\ screen = reDraw(win, curr, mb_need_rows, messages)

(* Roomy frames from the n-th one on end before the row top.               *)
LEMMA FramedAbove ==
  ASSUME win \in [rows : Nat, cols : Nat], Len(screen.frames) \in Nat,
         NEW n \in Nat \ {0}, NEW top \in Int, top <= win.rows,
         \A m \in n .. Len(screen.frames) :
           LET g == screen.frames[m]
           IN InRoom(win, g) /\ Roomy(g) /\ g.y + NeedsRows(win, g.text) + 3 <= top
  PROVE  \A p \in Framed(n) : p[1] \in Int /\ p[1] <= top
<1> SUFFICES ASSUME NEW p \in Framed(n)
             PROVE  p[1] \in Int /\ p[1] <= top
  OBVIOUS
<1>1. PICK m \in n .. Len(screen.frames) : p \in Written(screen.frames[m])
  BY DEF Framed, Written
<1>2. QED
  BY <1>1 DEF InRoom, Roomy

(* What reDraw draws is in place.                                          *)
LEMMA RedrawnInPlace ==
  ASSUME Redrawn
  PROVE  DrawnInPlace
<1> DEFINE i == Input(win, curr, mb_need_rows)
           frames == screen.frames
<1>1. /\ screen.input = i /\ frames = Output(win, i.up, messages)
      /\ screen.lines = InputLines(win, i.up, i.rows)
  BY DEF Redrawn, reDraw
<1>2. /\ win \in [rows : Nat, cols : Nat] /\ win.rows \in Nat
      /\ curr \in [text : Seq(Characters), cursor_pos : Int]
      /\ messages \in Seq(Texts) /\ mb_need_rows \in Nat
  BY DEF Redrawn
<1>3. i.up \in Int
  <2> DEFINE need == calc_display_size(curr.text, InputWidth(win), curr.cursor_pos).need_rows
             bottom == InputBottom(win, mb_need_rows)
             half == Half(bottom)
  <2>1. i.up = bottom - (IF need > half THEN half ELSE need)
    BY DEF Input
  <2>2. InputWidth(win) \in Int /\ bottom \in Int
    BY <1>2, LayoutAssumption DEF InputWidth, InputBottom
  <2> HIDE DEF bottom, i
  <2>3. half \in Int
    BY <2>2 DEF Half
  <2>4. Len(curr.text) \in Nat
    BY <1>2
  <2>5. need \in Nat
    BY <2>2, <2>4, NeedNat
  <2> HIDE DEF need, half
  <2>6. QED
    BY <2>1, <2>2, <2>3, <2>5
<1> HIDE DEF i
<1>4. /\ Len(frames) \in Nat
      /\ \A n \in 1 .. Len(frames) : InRoom(win, frames[n])
      /\ Stacked(win, i.up, frames)
  BY <1>1, <1>2, <1>3, OutputStacked
<1>5. InputInPlace
  <2>1. SUFFICES ASSUME InputWidth(win) > 0, InputBottom(win, mb_need_rows) >= 2
        PROVE  /\ InputSeen(win, curr, i)
               /\ (\A n \in 1 .. Len(frames) : Roomy(frames[n])) => Seen(i.cells, Framed(1))
    BY <1>1 DEF InputInPlace, InputSeen
  <2>2. InputSeen(win, curr, i)
    BY <1>2, <2>1, InputDrawn DEF i
  <2>3. ASSUME \A n \in 1 .. Len(frames) : Roomy(frames[n])
        PROVE  Seen(i.cells, Framed(1))
    <3>1. i.up <= win.rows
      BY <2>2 DEF InputSeen
    <3>2. \A m \in 1 .. Len(frames) :
            LET g == frames[m]
            IN InRoom(win, g) /\ Roomy(g) /\ g.y + NeedsRows(win, g.text) + 3 <= i.up
      BY <1>4, <2>3 DEF Stacked
    <3>3. \A p \in Framed(1) : p[1] \in Int /\ p[1] <= i.up
      <4> DEFINE top == i.up
                 one == 1
      <4>1. one \in Nat \ {0} /\ top \in Int /\ top <= win.rows
        BY <1>3, <3>1
      <4>2. \A m \in one .. Len(screen.frames) :
              LET g == screen.frames[m]
              IN InRoom(win, g) /\ Roomy(g) /\ g.y + NeedsRows(win, g.text) + 3 <= top
        BY <3>2
      <4> HIDE DEF top, one
      <4>3. \A p \in Framed(one) : p[1] \in Int /\ p[1] <= top
        BY <1>2, <1>4, <4>1, <4>2, FramedAbove
      <4>4. QED
        BY <4>3 DEF top, one
    <3>4. ASSUME NEW c \in i.cells, <<c.row, c.col>> \in Framed(1)
          PROVE  FALSE
      <4>1. c.row \in i.up + 1 .. i.up + i.rows
        BY <2>2 DEF InputSeen
      <4>2. c.row \in Int /\ c.row <= i.up
        BY <3>3, <3>4
      <4>3. QED
        BY <1>3, <4>1, <4>2
    <3>5. \A c \in i.cells, d \in i.cells : d.row = c.row /\ d.col = c.col => d = c
      BY <2>2 DEF InputSeen, Seen
    <3>6. QED
      BY <3>4, <3>5 DEF Seen
  <2>4. QED
    BY <2>2, <2>3
<1>6. ASSUME NEW n \in 1 .. Len(frames),
             frames[n].width > 0, frames[n].y >= -1, frames[n].y + frames[n].rows < win.rows
      PROVE  LET f == frames[n]
             IN  /\ \A c \in f.cells : c.row \in f.y + 1 .. f.y + f.rows
                                       /\ c.col \in f.x .. f.x + f.width
                 /\ 0 .. Len(f.text) - 1 \subseteq {c.char : c \in f.cells}
                 /\ (\A m \in n + 1 .. Len(frames) : Roomy(frames[m])) =>
                      Seen(f.cells, Framed(n + 1))
  <2> DEFINE f == frames[n]
  <2>1. /\ \A c \in f.cells : c.row \in f.y + 1 .. f.y + f.rows /\ c.col \in f.x .. f.x + f.width
        /\ 0 .. Len(f.text) - 1 \subseteq {c.char : c \in f.cells}
        /\ \A c \in f.cells, d \in f.cells : d.row = c.row /\ d.col = c.col => d = c
    BY <1>4, <1>6 DEF InRoom, Complete
  <2>2. f.y \in Int /\ f.rows \in Nat
    BY <1>4 DEF InRoom
  <2>3. ASSUME \A m \in n + 1 .. Len(frames) : Roomy(frames[m])
        PROVE  Seen(f.cells, Framed(n + 1))
    <3>1. f.y <= win.rows
      <4>1. f.y + f.rows < win.rows
        BY <1>6
      <4> HIDE DEF f
      <4>2. QED
        BY <1>2, <2>2, <4>1
    <3>2. \A m \in n + 1 .. Len(frames) :
            /\ m \in 1 .. Len(frames)
            /\ frames[m].y + NeedsRows(win, frames[m].text) + 3 <= f.y
      <4> SUFFICES ASSUME NEW m \in n + 1 .. Len(frames)
                   PROVE  /\ m \in 1 .. Len(frames)
                          /\ frames[m].y + NeedsRows(win, frames[m].text) + 3 <= f.y
        OBVIOUS
      <4>1. m \in 1 .. Len(frames) /\ n \in 1 .. m - 1
        BY <1>4
      <4>2. QED
        BY <1>4, <4>1 DEF Stacked
    <3>3. n + 1 \in Nat \ {0}
      BY <1>4
    <3>4. \A p \in Framed(n + 1) : p[1] \in Int /\ p[1] <= f.y
      BY <1>2, <1>4, <2>2, <2>3, <3>1, <3>2, <3>3, FramedAbove
    <3> HIDE DEF f
    <3>5. ASSUME NEW c \in f.cells, <<c.row, c.col>> \in Framed(n + 1)
          PROVE  FALSE
      <4>1. c.row \in f.y + 1 .. f.y + f.rows
        BY <2>1
      <4>2. c.row \in Int /\ c.row <= f.y
        BY <3>4, <3>5
      <4>3. QED
        BY <2>2, <4>1, <4>2
    <3>6. QED
      BY <2>1, <3>5 DEF Seen
  <2>4. QED
    BY <2>1, <2>3
<1>7. MessagesInPlace
  BY <1>6 DEF MessagesInPlace
<1>8. QED
  BY <1>5, <1>7 DEF DrawnInPlace

(* Whatever the window, the text of the line, its cursor, the messages and *)
(* the minibuffer: the input line and the messages are drawn in the room   *)
(* that was calculated for them, the cursor with them, and no frame is     *)
(* drawn over them as long as none has three rows more than it is given.   *)
THEOREM DrawnCorrect == Spec => []DrawnInPlace
<1>1. Init => Redrawn
  <2>1. <<>> \in Seq(Characters) /\ <<>> \in Seq(Texts) /\ 0 \in Int
    OBVIOUS
  <2>2. [text |-> <<>>, cursor_pos |-> 0] \in [text : Seq(Characters), cursor_pos : Int]
    BY <2>1
  <2>3. SUFFICES ASSUME Init
        PROVE  Redrawn
    OBVIOUS
  <2>4. win \in [rows : Nat, cols : Nat] /\ mb_need_rows \in Nat
    BY <2>3, LayoutAssumption DEF Init
  <2>5. QED
    BY <2>1, <2>2, <2>3, <2>4 DEF Init, Redrawn
<1>2. Redrawn /\ [Next]_vars => Redrawn'
  <2>1. SUFFICES ASSUME Redrawn, [Next]_vars
        PROVE  Redrawn'
    OBVIOUS
  <2>2. CASE Edit
    BY <2>1, <2>2, LayoutAssumption DEF Edit, Draw, Redrawn
  <2>3. CASE pushMessage
    BY <2>1, <2>3, LayoutAssumption DEF pushMessage, Draw, Redrawn
  <2>4. CASE upd_win_size
    BY <2>1, <2>4, LayoutAssumption DEF upd_win_size, Draw, Redrawn
  <2>5. CASE UNCHANGED vars
    BY <2>1, <2>5 DEF vars, Redrawn
  <2>6. QED
    BY <2>1, <2>2, <2>3, <2>4, <2>5 DEF Next
<1>3. Redrawn => DrawnInPlace
  BY RedrawnInPlace
<1>4. QED
  BY <1>1, <1>2, <1>3, PTL DEF Spec
=============================================================================
