------------------------------- MODULE AppProofs -------------------------------
(***************************************************************************)
(* Proofs about App for a field of any width, any number of characters and *)
(* a queue of any length: a figure goes on moving only by a key whose last *)
(* event went to the dialog, and the field holds what was typed.           *)
(***************************************************************************)
EXTENDS App, SequenceTheorems, WellFoundedInduction, TLAPS

-----------------------------------------------------------------------------
(* Induction over the natural numbers, with sets instead of predicates:    *)
(* the numbers that have a property are the members of a set.              *)

(* A set of natural numbers that is not empty has a least member.          *)
LEMMA LeastNumber ==
  ASSUME NEW T, T \subseteq Nat, T # {}
  PROVE  \E x \in T : \A y \in T : x <= y
<1> DEFINE R == OpToRel(<, Nat)
<1>1. IsWellFoundedOn(R, Nat)
  BY NatLessThanWellFounded
<1>2. \A x \in Nat, y \in Nat : x < y => <<x, y>> \in R
  BY DEF OpToRel
<1> HIDE DEF R
<1>3. PICK x \in T : \A y \in T : ~(<<y, x>> \in R)
  BY <1>1, WFMin
<1>4. ASSUME NEW y \in T
      PROVE  x <= y
  <2>1. x \in Nat /\ y \in Nat
    OBVIOUS
  <2>2. ~(y < x)
    BY <1>2, <1>3, <2>1
  <2>3. QED
    BY <2>1, <2>2
<1>5. QED
  BY <1>4

(* A set with 0 and the successor of each of its numbers has all of them.  *)
LEMMA Induction ==
  ASSUME NEW S, 0 \in S, \A n \in Nat : n \in S => n + 1 \in S
  PROVE  Nat \subseteq S
<1> DEFINE T == Nat \ S
<1>1. SUFFICES ASSUME T # {} PROVE FALSE
  OBVIOUS
<1>2. T \subseteq Nat
  OBVIOUS
<1> HIDE DEF T
<1>3. PICK x \in T : \A y \in T : x <= y
  BY <1>1, <1>2, LeastNumber
<1>4. x \in Nat /\ x \notin S
  BY <1>3 DEF T
<1>5. x - 1 \in Nat
  BY <1>4
<1>6. x - 1 \in S
  BY <1>3, <1>4, <1>5 DEF T
<1>7. QED
  BY <1>4, <1>5, <1>6

(* A bounded set of numbers that is not empty has a greatest member.       *)
LEMMA GreatestNumber ==
  ASSUME NEW m \in Nat, NEW T, T \subseteq 0 .. m, T # {}
  PROVE  \E x \in T : \A y \in T : x >= y
<1> DEFINE D == {m - y : y \in T}
<1>1. D \subseteq Nat /\ D # {}
  <2>1. \A y \in T : m - y \in Nat
    OBVIOUS
  <2>2. PICK t \in T : TRUE
    OBVIOUS
  <2>3. m - t \in D
    OBVIOUS
  <2>4. QED
    BY <2>1, <2>3
<1>2. PICK d \in D : \A e \in D : d <= e
  <2> HIDE DEF D
  <2>1. QED
    BY <1>1, LeastNumber
<1>3. PICK x \in T : d = m - x
  OBVIOUS
<1>4. ASSUME NEW y \in T
      PROVE  x >= y
  <2>1. m - y \in D
    OBVIOUS
  <2>2. d <= m - y
    BY <1>2, <2>1
  <2>3. QED
    BY <1>3, <2>2
<1>5. QED
  BY <1>4

-----------------------------------------------------------------------------
(* Folds.  FoldLeft takes the positions of a sequence from a set, the      *)
(* greatest last.                                                          *)

(* The greatest position of a set, and the set without it.                 *)
LEMMA MaxIs ==
  ASSUME NEW m \in Nat, NEW t, t \subseteq 1 .. m + 1, t # {}
  PROVE  Max(t) \in t /\ t \ {Max(t)} \subseteq 1 .. m
<1>1. t \subseteq 0 .. m + 1 /\ m + 1 \in Nat
  OBVIOUS
<1>2. Max(t) \in t /\ \A y \in t : Max(t) >= y
  BY <1>1, GreatestNumber DEF Max
<1>3. ASSUME NEW y \in t \ {Max(t)}
      PROVE  y \in 1 .. m
  <2> DEFINE x == Max(t)
  <2>1. x \in 1 .. m + 1 /\ y \in 1 .. m + 1 /\ y <= x /\ y # x
    BY <1>2, <1>3
  <2> HIDE DEF x
  <2>2. QED
    BY <2>1
<1>4. QED
  BY <1>2, <1>3

(* The greatest of the positions up to m + 1 is m + 1.                     *)
LEMMA MaxInitial == ASSUME NEW m \in Nat PROVE Max(1 .. m + 1) = m + 1
<1>1. 1 .. m + 1 \subseteq 0 .. m + 1 /\ 1 .. m + 1 # {} /\ m + 1 \in Nat
  OBVIOUS
<1>2. Max(1 .. m + 1) \in 1 .. m + 1 /\ \A y \in 1 .. m + 1 : Max(1 .. m + 1) >= y
  BY <1>1, GreatestNumber DEF Max
<1> DEFINE x == Max(1 .. m + 1)
<1> HIDE DEF x
<1>3. x \in 1 .. m + 1 /\ x >= m + 1
  BY <1>1, <1>2 DEF x
<1>4. QED
  BY <1>3 DEF x

(* The recursion over sets of positions has a solution, H being what is    *)
(* done to an accumulator of A at a position.                              *)
Solves(f, m, b, H) ==
  f = [t \in SUBSET (1 .. m) |-> IF t = {} THEN b ELSE H[f[t \ {Max(t)}]][Max(t)]]

(* Such a recursion has a solution, whose values are accumulators.         *)
LEMMA FoldExists ==
  ASSUME NEW n \in Nat, NEW A, NEW b \in A, NEW H \in [A -> [1 .. n -> A]]
  PROVE  \E f \in [SUBSET (1 .. n) -> A] : Solves(f, n, b, H)
<1> DEFINE Is(f, m) == f \in [SUBSET (1 .. m) -> A] /\ Solves(f, m, b, H)
           S == {m \in Nat : m <= n => \E f : Is(f, m)}
<1>1. 0 \in S
  <2> DEFINE f == [t \in SUBSET (1 .. 0) |-> b]
  <2>1. \A t \in SUBSET (1 .. 0) : t = {}
    OBVIOUS
  <2>2. f = [t \in SUBSET (1 .. 0) |-> IF t = {} THEN b ELSE H[f[t \ {Max(t)}]][Max(t)]]
    BY <2>1
  <2>3. Is(f, 0)
    BY <2>2 DEF Solves
  <2>4. QED
    BY <2>3
<1>2. ASSUME NEW m \in Nat, m \in S, m + 1 <= n
      PROVE  \E g : Is(g, m + 1)
  <2>1. m <= n /\ 1 .. m \subseteq 1 .. n /\ 1 .. m + 1 \subseteq 1 .. n
    BY <1>2
  <2>2. PICK f : Is(f, m)
    BY <1>2, <2>1
  <2>3. /\ f \in [SUBSET (1 .. m) -> A]
        /\ f = [t \in SUBSET (1 .. m) |-> IF t = {} THEN b ELSE H[f[t \ {Max(t)}]][Max(t)]]
    BY <2>2 DEF Solves
  <2> DEFINE g == [t \in SUBSET (1 .. m + 1) |->
                     IF t = {} THEN b ELSE H[f[t \ {Max(t)}]][Max(t)]]
  <2>4. ASSUME NEW t \in SUBSET (1 .. m + 1)
        PROVE  /\ g[t] \in A
               /\ t # {} => g[t \ {Max(t)}] = f[t \ {Max(t)}]
    <3>1. CASE t = {}
      BY <3>1
    <3>2. CASE t # {}
      <4> DEFINE x == Max(t)
                 r == t \ {x}
      <4>1. x \in t /\ r \subseteq 1 .. m
        BY <3>2, MaxIs
      <4> HIDE DEF x
      <4>2. x \in 1 .. n
        BY <2>1, <4>1
      <4>3. r \in SUBSET (1 .. m) /\ r \in SUBSET (1 .. m + 1)
        BY <4>1
      <4> HIDE DEF r
      <4>4. g[t] = H[f[r]][x]
        BY <3>2 DEF x, r
      <4>5. f[r] \in A
        BY <2>3, <4>3
      <4>6. g[t] \in A
        BY <4>2, <4>4, <4>5
      <4>7. g[r] = f[r]
        BY <2>3, <4>3
      <4> HIDE DEF g
      <4>8. QED
        BY <4>6, <4>7 DEF r, x
    <3>3. QED
      BY <3>1, <3>2
  <2>5. g \in [SUBSET (1 .. m + 1) -> A]
    BY <2>4
  <2>6. g = [t \in SUBSET (1 .. m + 1) |->
               IF t = {} THEN b ELSE H[g[t \ {Max(t)}]][Max(t)]]
    BY <2>4
  <2> HIDE DEF g
  <2>7. Is(g, m + 1)
    BY <2>5, <2>6 DEF Solves
  <2>8. QED
    BY <2>7
<1> HIDE DEF Is
<1>3. \A m \in Nat : m \in S => m + 1 \in S
  BY <1>2
<1> HIDE DEF S
<1>4. n \in S
  BY <1>1, <1>3, Induction
<1>5. \E f : Is(f, n)
  BY <1>4 DEF S
<1>6. QED
  BY <1>5 DEF Is

(* The greatest position, and the positions before it.                     *)
LEMMA MaxBelow ==
  ASSUME NEW n \in Nat, NEW t \in SUBSET (1 .. n), t # {}
  PROVE  Max(t) \in 1 .. n /\ t \ {Max(t)} \in SUBSET (1 .. n)
<1>1. PICK m \in Nat : n = m + 1
  <2>1. n # 0
    <3>1. PICK x : x \in t
      OBVIOUS
    <3>2. x \in 1 .. n
      BY <3>1
    <3>3. QED
      BY <3>2
  <2>2. n - 1 \in Nat /\ n = (n - 1) + 1
    BY <2>1
  <2>3. QED
    BY <2>2
<1>2. Max(t) \in t
  BY <1>1, MaxIs
<1>3. QED
  BY <1>2

(* A fold goes from one initial segment of the positions to the next one.  *)
LEMMA Segments ==
  ASSUME NEW n \in Nat, NEW i \in 0 .. n - 1
  PROVE  /\ 1 .. i + 1 \in SUBSET (1 .. n) /\ 1 .. i + 1 # {}
         /\ Max(1 .. i + 1) = i + 1 /\ (1 .. i + 1) \ {i + 1} = 1 .. i
         /\ i + 1 \in 0 .. n /\ i \in 0 .. n
<1>1. i \in Nat
  OBVIOUS
<1>2. Max(1 .. i + 1) = i + 1
  BY <1>1, MaxInitial
<1>3. (1 .. i + 1) \ {i + 1} = 1 .. i
  BY <1>1
<1>4. QED
  BY <1>1, <1>2, <1>3

-----------------------------------------------------------------------------
(* The queue without its TEXTINPUTs.                                       *)

KeepStep(kept, e) == IF e.type = "text" THEN kept ELSE Append(kept, e)

Keeps(g, s) ==
  /\ g[0] = <<>>
  /\ \A i \in 0 .. Len(s) - 1 : g[i + 1] = KeepStep(g[i], s[i + 1])
  /\ WithoutTexts(s) = g[Len(s)]

(* WithoutTexts goes through the queue from its head.                      *)
LEMMA KeepsInOrder ==
  ASSUME NEW E, NEW s \in Seq(E)
  PROVE  \E g : Keeps(g, s)
<1> DEFINE n == Len(s)
           A == Seq(E)
           H == [a \in A |-> [i \in 1 .. n |-> KeepStep(a, s[i])]]
           Is(f) == f = [t \in SUBSET (1 .. n) |->
                           IF t = {} THEN <<>> ELSE KeepStep(f[t \ {Max(t)}], s[Max(t)])]
<1>1. n \in Nat /\ DOMAIN s = 1 .. n /\ <<>> \in A
  OBVIOUS
<1>2. H \in [A -> [1 .. n -> A]]
  <2>1. ASSUME NEW a \in A, NEW i \in 1 .. n
        PROVE  KeepStep(a, s[i]) \in A
    BY <1>1 DEF KeepStep
  <2>2. QED
    BY <2>1
<1> HIDE DEF n, A
<1>3. PICK f \in [SUBSET (1 .. n) -> A] : Solves(f, n, <<>>, H)
  BY <1>1, <1>2, FoldExists
<1>4. Is(f)
  <2>1. f = [t \in SUBSET (1 .. n) |-> IF t = {} THEN <<>> ELSE H[f[t \ {Max(t)}]][Max(t)]]
    BY <1>3 DEF Solves
  <2>2. ASSUME NEW t \in SUBSET (1 .. n), t # {}
        PROVE  H[f[t \ {Max(t)}]][Max(t)] = KeepStep(f[t \ {Max(t)}], s[Max(t)])
    <3>1. Max(t) \in 1 .. n /\ t \ {Max(t)} \in SUBSET (1 .. n)
      BY <1>1, <2>2, MaxBelow
    <3>2. QED
      BY <3>1, <1>3
  <2> HIDE DEF H
  <2>3. QED
    BY <2>1, <2>2
<1> DEFINE iter == CHOOSE h : Is(h)
           g == [i \in 0 .. n |-> iter[1 .. i]]
<1>5. Is(iter)
  BY <1>4
<1>6. WithoutTexts(s) = iter[1 .. n]
  BY <1>1 DEF WithoutTexts, FoldLeft, MapThenFoldSet, KeepStep
<1> HIDE DEF iter
<1>7. ASSUME NEW i \in 0 .. n - 1
      PROVE  iter[1 .. i + 1] = KeepStep(iter[1 .. i], s[i + 1])
  <2> DEFINE t == 1 .. i + 1
  <2>1. t \in SUBSET (1 .. n) /\ t # {} /\ Max(t) = i + 1 /\ t \ {i + 1} = 1 .. i
    BY <1>1, Segments
  <2> HIDE DEF t
  <2>2. iter[t] = KeepStep(iter[t \ {Max(t)}], s[Max(t)])
    BY <1>5, <2>1
  <2>3. QED
    BY <2>1, <2>2 DEF t
<1>8. iter[1 .. 0] = <<>>
  BY <1>1, <1>5
<1>9. ASSUME NEW i \in 0 .. n - 1
      PROVE  g[i + 1] = KeepStep(g[i], s[i + 1])
  BY <1>1, <1>7, Segments
<1>10. Keeps(g, s)
  BY <1>1, <1>6, <1>8, <1>9 DEF Keeps, n
<1>11. QED
  BY <1>10

-----------------------------------------------------------------------------
(* Lines joined together.                                                  *)

Joined(f, s, m) ==
  f = [i \in 1 .. m |-> IF i = 1 THEN s[i] ELSE f[i - 1] \o s[i]]

(* What FlattenSeq recurs to exists.                                       *)
LEMMA JoinedExists ==
  ASSUME NEW s, NEW n \in Nat
  PROVE  \E f : Joined(f, s, n)
<1> DEFINE S == {m \in Nat : \E f : Joined(f, s, m)}
<1>1. 0 \in S
  <2> DEFINE f == [i \in 1 .. 0 |-> s[i]]
  <2>1. 1 .. 0 = {}
    OBVIOUS
  <2>2. Joined(f, s, 0)
    BY <2>1 DEF Joined
  <2>3. QED
    BY <2>2
<1>2. ASSUME NEW m \in Nat, NEW f, Joined(f, s, m)
      PROVE  \E g : Joined(g, s, m + 1)
  <2> DEFINE g == [i \in 1 .. m + 1 |-> IF i = 1 THEN s[i] ELSE f[i - 1] \o s[i]]
  <2>1. ASSUME NEW i \in 1 .. m + 1, i # 1
        PROVE  g[i - 1] = f[i - 1]
    <3> DEFINE j == i - 1
    <3>1. j \in 1 .. m /\ j \in 1 .. m + 1
      BY <2>1
    <3> HIDE DEF j
    <3>2. f[j] = IF j = 1 THEN s[j] ELSE f[j - 1] \o s[j]
      BY <1>2, <3>1 DEF Joined
    <3>3. g[j] = f[j]
      BY <3>1, <3>2
    <3>4. QED
      BY <3>3 DEF j
  <2>2. g = [i \in 1 .. m + 1 |-> IF i = 1 THEN s[i] ELSE g[i - 1] \o s[i]]
    BY <2>1
  <2> HIDE DEF g
  <2>3. QED
    BY <2>2 DEF Joined
<1>3. \A m \in Nat : m \in S => m + 1 \in S
  BY <1>2
<1> HIDE DEF S
<1>4. n \in S
  BY <1>1, <1>3, Induction
<1>5. QED
  BY <1>4 DEF S

Joins(g, s) ==
  /\ g[0] = <<>>
  /\ \A i \in 0 .. Len(s) - 1 : g[i + 1] = g[i] \o s[i + 1]
  /\ FlattenSeq(s) = g[Len(s)]

(* FlattenSeq joins from the first line on.                                *)
LEMMA JoinsInOrder ==
  ASSUME NEW C, NEW s \in Seq(Seq(C))
  PROVE  \E g : Joins(g, s)
<1> DEFINE n == Len(s)
           f == CHOOSE h : Joined(h, s, n)
           g == [i \in 0 .. n |-> IF i = 0 THEN <<>> ELSE f[i]]
<1>1. n \in Nat
  OBVIOUS
<1> HIDE DEF n
<1>2. Joined(f, s, n)
  BY <1>1, JoinedExists
<1>3. FlattenSeq(s) = IF n = 0 THEN s ELSE f[n]
  BY DEF FlattenSeq, Joined, n
<1> HIDE DEF f
<1>4. n = 0 => s = <<>>
  BY DEF n
<1>5. FlattenSeq(s) = g[n]
  BY <1>1, <1>3, <1>4
<1>6. ASSUME NEW i \in 0 .. n - 1
      PROVE  g[i + 1] = g[i] \o s[i + 1]
  <2>1. i + 1 \in 1 .. n /\ i + 1 \in 0 .. n /\ i \in 0 .. n /\ i + 1 # 0 /\ (i + 1) - 1 = i
    BY <1>1
  <2>2. f[i + 1] = IF i + 1 = 1 THEN s[i + 1] ELSE f[(i + 1) - 1] \o s[i + 1]
    BY <1>2, <2>1 DEF Joined
  <2>3. s[i + 1] \in Seq(C)
    BY <2>1 DEF n
  <2>4. CASE i = 0
    <3>1. g[i + 1] = s[i + 1] /\ g[i] = <<>>
      BY <2>1, <2>2, <2>4
    <3> HIDE DEF g
    <3>2. <<>> \o s[i + 1] = s[i + 1]
      BY <2>3, ConcatEmptySeq
    <3>3. QED
      BY <3>1, <3>2
  <2>5. CASE i # 0
    <3>1. g[i + 1] = f[i + 1] /\ g[i] = f[i] /\ i + 1 # 1
      BY <2>1, <2>5
    <3> HIDE DEF g
    <3>2. QED
      BY <2>1, <2>2, <3>1
  <2>6. QED
    BY <2>4, <2>5
<1>7. g[0] = <<>>
  BY <1>1
<1> HIDE DEF g
<1>8. Joins(g, s)
  BY <1>5, <1>6, <1>7 DEF Joins, n
<1>9. QED
  BY <1>8

(* Lines of characters, joined, are characters.                            *)
LEMMA JoinType ==
  ASSUME NEW C, NEW s \in Seq(Seq(C))
  PROVE  FlattenSeq(s) \in Seq(C)
<1>1. PICK g : Joins(g, s)
  BY JoinsInOrder
<1> DEFINE S == {i \in Nat : i <= Len(s) => g[i] \in Seq(C)}
<1>2. 0 \in S
  <2>1. g[0] = <<>> /\ <<>> \in Seq(C)
    BY <1>1 DEF Joins
  <2>2. QED
    BY <2>1
<1>3. ASSUME NEW i \in Nat, i \in S, i + 1 <= Len(s)
      PROVE  g[i + 1] \in Seq(C)
  <2>1. i \in 0 .. Len(s) - 1 /\ i <= Len(s) /\ i + 1 \in 1 .. Len(s)
    BY <1>3
  <2>2. g[i] \in Seq(C) /\ s[i + 1] \in Seq(C)
    BY <1>3, <2>1
  <2>3. g[i + 1] = g[i] \o s[i + 1]
    BY <1>1, <2>1 DEF Joins
  <2>4. QED
    BY <2>2, <2>3
<1>4. \A i \in Nat : i \in S => i + 1 \in S
  BY <1>3
<1> HIDE DEF S
<1>5. Len(s) \in Nat /\ Len(s) \in S
  BY <1>2, <1>4, Induction, SMTT(30)
<1>6. g[Len(s)] \in Seq(C)
  BY <1>5 DEF S
<1>7. QED
  BY <1>1, <1>6 DEF Joins

(* No line holds no character.                                             *)
LEMMA JoinNothing == FlattenSeq(<<>>) = <<>>
  BY DEF FlattenSeq

(* A line more holds the characters of that line more.                     *)
LEMMA JoinAppend ==
  ASSUME NEW C, NEW s \in Seq(Seq(C)), NEW x \in Seq(C)
  PROVE  FlattenSeq(Append(s, x)) = FlattenSeq(s) \o x
<1> DEFINE t == Append(s, x)
           n == Len(s)
<1>1. /\ t \in Seq(Seq(C)) /\ n \in Nat /\ Len(t) = n + 1 /\ t[n + 1] = x
      /\ \A i \in 1 .. n : t[i] = s[i]
  BY AppendProperties
<1> HIDE DEF t
<1>2. PICK g : Joins(g, s)
  BY JoinsInOrder
<1>3. PICK h : Joins(h, t)
  BY <1>1, JoinsInOrder
<1> HIDE DEF n
<1>4. /\ g[0] = <<>> /\ h[0] = <<>> /\ FlattenSeq(s) = g[n] /\ FlattenSeq(t) = h[n + 1]
      /\ \A i \in 0 .. n - 1 : g[i + 1] = g[i] \o s[i + 1]
      /\ \A i \in 0 .. n : h[i + 1] = h[i] \o t[i + 1]
  <2>1. Len(t) - 1 = n
    BY <1>1
  <2>2. \A i \in 0 .. Len(t) - 1 : h[i + 1] = h[i] \o t[i + 1]
    BY <1>3 DEF Joins
  <2>3. h[0] = <<>> /\ FlattenSeq(t) = h[n + 1]
    BY <1>1, <1>3 DEF Joins
  <2>4. QED
    BY <1>2, <2>1, <2>2, <2>3 DEF Joins, n
<1> DEFINE S == {i \in Nat : i <= n => g[i] = h[i]}
<1>5. 0 \in S
  BY <1>4
<1>6. ASSUME NEW i \in Nat, i \in S, i + 1 <= n
      PROVE  g[i + 1] = h[i + 1]
  <2>1. i \in 0 .. n - 1 /\ i \in 0 .. n /\ i <= n /\ i + 1 \in 1 .. n
    BY <1>1, <1>6
  <2>2. g[i] = h[i] /\ s[i + 1] = t[i + 1]
    BY <1>1, <1>6, <2>1
  <2>3. QED
    BY <1>4, <2>1, <2>2
<1>7. \A i \in Nat : i \in S => i + 1 \in S
  BY <1>6
<1> HIDE DEF S
<1>8. n \in S
  BY <1>1, <1>5, <1>7, Induction
<1>9. g[n] = h[n]
  BY <1>1, <1>8 DEF S
<1>10. h[n + 1] = h[n] \o x
  <2>1. n \in 0 .. n
    BY <1>1
  <2>2. h[n + 1] = h[n] \o t[n + 1]
    BY <1>4, <2>1
  <2>3. QED
    BY <1>1, <2>2
<1>11. QED
  BY <1>4, <1>9, <1>10 DEF t

NotEmptyLines(C) == Seq(C) \ {<<>>}

(* A line that is kept when it is not empty.                               *)
LEMMA JoinNotEmpty ==
  ASSUME NEW C, NEW s \in Seq(NotEmptyLines(C)), NEW x \in Seq(C)
  PROVE  /\ s \o NotEmpty(x) \in Seq(NotEmptyLines(C))
         /\ FlattenSeq(s \o NotEmpty(x)) = FlattenSeq(s) \o x
<1>1. NotEmptyLines(C) \subseteq Seq(C)
  BY DEF NotEmptyLines
<1>2. s \in Seq(Seq(C))
  BY <1>1, SeqMonotonic
<1>3. FlattenSeq(s) \in Seq(C)
  BY <1>2, JoinType
<1>4. CASE x = <<>>
  <2>1. NotEmpty(x) = <<>>
    BY <1>4 DEF NotEmpty
  <2>2. s \o <<>> = s
    BY ConcatEmptySeq
  <2>3. FlattenSeq(s) \o <<>> = FlattenSeq(s)
    BY <1>3, ConcatEmptySeq
  <2>4. QED
    BY <1>4, <2>1, <2>2, <2>3
<1>5. CASE x # <<>>
  <2>1. x \in NotEmptyLines(C)
    BY <1>5 DEF NotEmptyLines
  <2>2. s \o NotEmpty(x) = Append(s, x) /\ Append(s, x) \in Seq(NotEmptyLines(C))
    <3>1. NotEmpty(x) = <<x>>
      BY <1>5 DEF NotEmpty
    <3>2. s \o <<x>> = Append(s, x)
      BY <2>1, AppendIsConcat
    <3>3. Append(s, x) \in Seq(NotEmptyLines(C))
      BY <2>1, AppendProperties
    <3>4. QED
      BY <3>1, <3>2, <3>3
  <2>3. FlattenSeq(Append(s, x)) = FlattenSeq(s) \o x
    BY <1>2, JoinAppend
  <2>4. QED
    BY <2>2, <2>3
<1>6. QED
  BY <1>4, <1>5

-----------------------------------------------------------------------------
(* wrapSplitted.                                                           *)

Wrapping(C) == [result : Seq(NotEmptyLines(C)), curr : Seq(C)]

WrapStep(acc, element) ==
  IF Len(acc.curr \o element) < Width THEN [acc EXCEPT !.curr = @ \o element]
  ELSE [result |-> acc.result \o NotEmpty(acc.curr), curr |-> element]

(* The lines that are done, and the one in hand, of the wrapping; and what *)
(* they hold between them, to which a step adds its element.               *)
LEMMA WrapStepType ==
  ASSUME NEW C, NEW acc \in Wrapping(C), NEW x \in NotEmptyLines(C)
  PROVE  /\ WrapStep(acc, x) \in Wrapping(C)
         /\ FlattenSeq(WrapStep(acc, x).result) \o WrapStep(acc, x).curr
              = (FlattenSeq(acc.result) \o acc.curr) \o x
<1>0. PICK r \in Seq(NotEmptyLines(C)), c \in Seq(C) : acc = [result |-> r, curr |-> c]
  BY DEF Wrapping
<1>1. /\ r \in Seq(NotEmptyLines(C)) /\ c \in Seq(C) /\ x \in Seq(C)
      /\ acc.result = r /\ acc.curr = c
  BY <1>0 DEF NotEmptyLines
<1>2. FlattenSeq(r) \in Seq(C)
  <2>1. r \in Seq(Seq(C))
    BY <1>1, SeqMonotonic DEF NotEmptyLines
  <2>2. QED
    BY <2>1, JoinType
<1>3. WrapStep(acc, x) = IF Len(c \o x) < Width THEN [result |-> r, curr |-> c \o x]
                         ELSE [result |-> r \o NotEmpty(c), curr |-> x]
  <2> DEFINE a == [result |-> r, curr |-> c \o x]
             d == [result |-> r \o NotEmpty(c), curr |-> x]
  <2>1. [acc EXCEPT !.curr = acc.curr \o x] = a
    <3> DEFINE y == acc.curr \o x
    <3>1. y = c \o x
      BY <1>1
    <3> HIDE DEF y
    <3>2. [[result |-> r, curr |-> c] EXCEPT !.curr = y] = [result |-> r, curr |-> y]
      OBVIOUS
    <3>3. [acc EXCEPT !.curr = y] = a
      BY <1>0, <3>1, <3>2
    <3>4. QED
      BY <3>3 DEF y
  <2>2. WrapStep(acc, x) = IF Len(c \o x) < Width THEN [acc EXCEPT !.curr = acc.curr \o x] ELSE d
    BY <1>1 DEF WrapStep
  <2> HIDE DEF a, d
  <2>3. WrapStep(acc, x) = IF Len(c \o x) < Width THEN a ELSE d
    BY <2>1, <2>2
  <2>4. QED
    BY <2>3 DEF a, d
<1>4. CASE Len(c \o x) < Width
  <2>1. WrapStep(acc, x) = [result |-> r, curr |-> c \o x]
    BY <1>3, <1>4
  <2>2. c \o x \in Seq(C)
    BY <1>1, ConcatProperties
  <2>3. WrapStep(acc, x) \in Wrapping(C)
    <3>1. [result |-> r, curr |-> c \o x] \in Wrapping(C)
      BY <1>1, <2>2 DEF Wrapping
    <3>2. QED
      BY <2>1, <3>1
  <2>4. FlattenSeq(r) \o (c \o x) = (FlattenSeq(r) \o c) \o x
    BY <1>1, <1>2, ConcatAssociative
  <2>5. WrapStep(acc, x).result = r /\ WrapStep(acc, x).curr = c \o x
    BY <2>1
  <2>6. QED
    BY <1>1, <2>3, <2>4, <2>5
<1>5. CASE ~(Len(c \o x) < Width)
  <2>1. WrapStep(acc, x) = [result |-> r \o NotEmpty(c), curr |-> x]
    BY <1>3, <1>5
  <2>2. /\ r \o NotEmpty(c) \in Seq(NotEmptyLines(C))
        /\ FlattenSeq(r \o NotEmpty(c)) = FlattenSeq(r) \o c
    BY <1>1, JoinNotEmpty
  <2>3. WrapStep(acc, x) \in Wrapping(C)
    <3>1. [result |-> r \o NotEmpty(c), curr |-> x] \in Wrapping(C)
      BY <1>1, <2>2 DEF Wrapping
    <3>2. QED
      BY <2>1, <3>1
  <2>4. WrapStep(acc, x).result = r \o NotEmpty(c) /\ WrapStep(acc, x).curr = x
    BY <2>1
  <2>5. QED
    BY <1>1, <2>2, <2>3, <2>4
<1>6. QED
  BY <1>4, <1>5

Wraps(g, s) ==
  /\ g[0] = [result |-> <<>>, curr |-> <<>>]
  /\ \A i \in 0 .. Len(s) - 1 : g[i + 1] = WrapStep(g[i], s[i + 1])
  /\ wrapSplitted(s) = g[Len(s)].result \o NotEmpty(g[Len(s)].curr)

(* wrapSplitted goes through the elements in their order.                  *)
LEMMA WrapsInOrder ==
  ASSUME NEW C, NEW s \in Seq(NotEmptyLines(C))
  PROVE  \E g : Wraps(g, s)
<1> DEFINE n == Len(s)
           A == Wrapping(C)
           b == [result |-> <<>>, curr |-> <<>>]
           H == [a \in A |-> [i \in 1 .. n |-> WrapStep(a, s[i])]]
           Is(f) == f = [t \in SUBSET (1 .. n) |->
                           IF t = {} THEN b ELSE WrapStep(f[t \ {Max(t)}], s[Max(t)])]
<1>1. n \in Nat /\ DOMAIN s = 1 .. n /\ b \in A
  BY DEF Wrapping
<1>2. H \in [A -> [1 .. n -> A]]
  <2>1. ASSUME NEW a \in A, NEW i \in 1 .. n
        PROVE  WrapStep(a, s[i]) \in A
    <3>1. s[i] \in NotEmptyLines(C)
      BY <1>1
    <3>2. QED
      BY <3>1, WrapStepType
  <2>2. QED
    BY <2>1
<1> HIDE DEF n, A, b
<1>3. PICK f \in [SUBSET (1 .. n) -> A] : Solves(f, n, b, H)
  BY <1>1, <1>2, FoldExists
<1>4. Is(f)
  <2>1. f = [t \in SUBSET (1 .. n) |-> IF t = {} THEN b ELSE H[f[t \ {Max(t)}]][Max(t)]]
    BY <1>3 DEF Solves
  <2>2. ASSUME NEW t \in SUBSET (1 .. n), t # {}
        PROVE  H[f[t \ {Max(t)}]][Max(t)] = WrapStep(f[t \ {Max(t)}], s[Max(t)])
    <3>1. Max(t) \in 1 .. n /\ t \ {Max(t)} \in SUBSET (1 .. n)
      BY <1>1, <2>2, MaxBelow
    <3>2. QED
      BY <3>1, <1>3
  <2> HIDE DEF H
  <2>3. QED
    BY <2>1, <2>2
<1> DEFINE iter == CHOOSE h : Is(h)
           g == [i \in 0 .. n |-> iter[1 .. i]]
<1>5. Is(iter)
  BY <1>4
<1>6. wrapSplitted(s) = iter[1 .. n].result \o NotEmpty(iter[1 .. n].curr)
  BY <1>1 DEF wrapSplitted, FoldLeft, MapThenFoldSet, WrapStep, b
<1> HIDE DEF iter
<1>7. ASSUME NEW i \in 0 .. n - 1
      PROVE  iter[1 .. i + 1] = WrapStep(iter[1 .. i], s[i + 1])
  <2> DEFINE t == 1 .. i + 1
  <2>1. t \in SUBSET (1 .. n) /\ t # {} /\ Max(t) = i + 1 /\ t \ {i + 1} = 1 .. i
    BY <1>1, Segments
  <2> HIDE DEF t
  <2>2. iter[t] = WrapStep(iter[t \ {Max(t)}], s[Max(t)])
    BY <1>5, <2>1
  <2>3. QED
    BY <2>1, <2>2 DEF t
<1>8. iter[1 .. 0] = b
  BY <1>1, <1>5
<1>9. ASSUME NEW i \in 0 .. n - 1
      PROVE  g[i + 1] = WrapStep(g[i], s[i + 1])
  BY <1>1, <1>7, Segments
<1>10. g[0] = b /\ wrapSplitted(s) = g[n].result \o NotEmpty(g[n].curr)
  <2>1. 0 \in 0 .. n /\ n \in 0 .. n
    BY <1>1
  <2>2. g[0] = iter[1 .. 0] /\ g[n] = iter[1 .. n]
    BY <2>1
  <2>3. QED
    BY <1>6, <1>8, <2>2
<1> HIDE DEF g
<1>11. Wraps(g, s)
  BY <1>9, <1>10 DEF Wraps, n, b
<1>12. QED
  BY <1>11

(* Wrapping keeps the characters in their order, and makes no empty line.  *)
LEMMA WrappedKeeps ==
  ASSUME NEW C, NEW s \in Seq(NotEmptyLines(C))
  PROVE  /\ wrapSplitted(s) \in Seq(NotEmptyLines(C))
         /\ FlattenSeq(wrapSplitted(s)) = FlattenSeq(s)
<1> DEFINE n == Len(s)
<1>1. PICK g : Wraps(g, s)
  BY WrapsInOrder
<1>2. s \in Seq(Seq(C)) /\ n \in Nat
  BY SeqMonotonic DEF NotEmptyLines
<1>3. PICK h : Joins(h, s)
  BY <1>2, JoinsInOrder
<1>4. /\ g[0] = [result |-> <<>>, curr |-> <<>>] /\ h[0] = <<>>
      /\ \A i \in 0 .. n - 1 : g[i + 1] = WrapStep(g[i], s[i + 1]) /\ h[i + 1] = h[i] \o s[i + 1]
      /\ wrapSplitted(s) = g[n].result \o NotEmpty(g[n].curr) /\ FlattenSeq(s) = h[n]
  BY <1>1, <1>3 DEF Wraps, Joins
<1> DEFINE Held(a, x) == a \in Wrapping(C) /\ FlattenSeq(a.result) \o a.curr = x
           S == {i \in Nat : i <= n => Held(g[i], h[i])}
<1>5. 0 \in S
  <2> DEFINE b == [result |-> <<>>, curr |-> <<>>]
  <2>1. b \in Wrapping(C) /\ b.result = <<>> /\ b.curr = <<>>
    BY DEF Wrapping
  <2> HIDE DEF b
  <2>2. <<>> \in Seq(C) /\ <<>> \o <<>> = <<>>
    BY ConcatEmptySeq
  <2>3. Held(b, <<>>)
    BY <2>1, <2>2, JoinNothing
  <2> HIDE DEF Held
  <2>4. QED
    BY <1>4, <2>3 DEF b
<1>6. ASSUME NEW i \in Nat, i \in S, i + 1 <= n
      PROVE  Held(g[i + 1], h[i + 1])
  <2>1. i \in 0 .. n - 1 /\ i <= n /\ i + 1 \in 1 .. n
    BY <1>2, <1>6
  <2>2. g[i] \in Wrapping(C) /\ FlattenSeq(g[i].result) \o g[i].curr = h[i]
    BY <1>6, <2>1
  <2>3. s[i + 1] \in NotEmptyLines(C)
    BY <2>1
  <2>4. /\ WrapStep(g[i], s[i + 1]) \in Wrapping(C)
        /\ FlattenSeq(WrapStep(g[i], s[i + 1]).result) \o WrapStep(g[i], s[i + 1]).curr
             = (FlattenSeq(g[i].result) \o g[i].curr) \o s[i + 1]
    BY <2>2, <2>3, WrapStepType
  <2>5. QED
    BY <1>4, <2>1, <2>2, <2>4
<1> HIDE DEF Held
<1>7. \A i \in Nat : i \in S => i + 1 \in S
  BY <1>6
<1> HIDE DEF S, n
<1>8. n \in S
  BY <1>2, <1>5, <1>7, Induction
<1>9. Held(g[n], h[n])
  BY <1>2, <1>8 DEF S
<1>10. g[n].result \in Seq(NotEmptyLines(C)) /\ g[n].curr \in Seq(C)
  BY <1>9 DEF Held, Wrapping
<1>11. /\ wrapSplitted(s) \in Seq(NotEmptyLines(C))
       /\ FlattenSeq(wrapSplitted(s)) = FlattenSeq(g[n].result) \o g[n].curr
  BY <1>4, <1>10, JoinNotEmpty
<1>12. QED
  BY <1>4, <1>9, <1>11 DEF Held

-----------------------------------------------------------------------------
(* splitString.                                                            *)

Splitting(C) == [result : Seq(NotEmptyLines(C)), current : Seq(C)]

SplitStep(acc, ch) ==
  IF ch = Space THEN [result |-> acc.result \o NotEmpty(acc.current) \o <<<<ch>>>>,
                      current |-> <<>>]
  ELSE [acc EXCEPT !.current = Append(@, ch)]

(* The words that are done, and the one in hand, of the splitting; and     *)
(* what they hold between them, to which a step adds its character.        *)
LEMMA SplitStepType ==
  ASSUME NEW C, NEW acc \in Splitting(C), NEW x \in C
  PROVE  /\ SplitStep(acc, x) \in Splitting(C)
         /\ FlattenSeq(SplitStep(acc, x).result) \o SplitStep(acc, x).current
              = Append(FlattenSeq(acc.result) \o acc.current, x)
<1>0. PICK r \in Seq(NotEmptyLines(C)), c \in Seq(C) : acc = [result |-> r, current |-> c]
  BY DEF Splitting
<1>1. /\ r \in Seq(NotEmptyLines(C)) /\ c \in Seq(C) /\ <<x>> \in NotEmptyLines(C)
      /\ acc.result = r /\ acc.current = c
  BY <1>0 DEF NotEmptyLines
<1>2. FlattenSeq(r) \in Seq(C) /\ FlattenSeq(r) \o c \in Seq(C)
  <2>1. r \in Seq(Seq(C))
    BY <1>1, SeqMonotonic DEF NotEmptyLines
  <2>2. FlattenSeq(r) \in Seq(C)
    BY <2>1, JoinType
  <2>3. QED
    BY <1>1, <2>2, ConcatProperties
<1>3. CASE x = Space
  <2> DEFINE w == r \o NotEmpty(c)
             v == w \o <<<<x>>>>
  <2>1. w \in Seq(NotEmptyLines(C)) /\ FlattenSeq(w) = FlattenSeq(r) \o c
    BY <1>1, JoinNotEmpty
  <2>2. SplitStep(acc, x) = [result |-> v, current |-> <<>>]
    BY <1>1, <1>3 DEF SplitStep
  <2> HIDE DEF w
  <2>3. v = Append(w, <<x>>) /\ v \in Seq(NotEmptyLines(C)) /\ w \in Seq(Seq(C)) /\ <<x>> \in Seq(C)
    <3>1. v = Append(w, <<x>>)
      BY <1>1, <2>1, AppendIsConcat
    <3>2. Append(w, <<x>>) \in Seq(NotEmptyLines(C))
      BY <1>1, <2>1, AppendProperties
    <3>3. w \in Seq(Seq(C)) /\ <<x>> \in Seq(C)
      BY <1>1, <2>1, SeqMonotonic DEF NotEmptyLines
    <3>4. QED
      BY <3>1, <3>2, <3>3
  <2> HIDE DEF v
  <2>4. FlattenSeq(v) = FlattenSeq(w) \o <<x>>
    BY <2>3, JoinAppend
  <2>5. FlattenSeq(w) \o <<x>> = Append(FlattenSeq(r) \o c, x)
    BY <1>2, <2>1, AppendIsConcat
  <2>6. FlattenSeq(v) \in Seq(C) /\ FlattenSeq(v) \o <<>> = FlattenSeq(v)
    <3>1. v \in Seq(Seq(C))
      BY <2>3, SeqMonotonic DEF NotEmptyLines
    <3>2. FlattenSeq(v) \in Seq(C)
      BY <3>1, JoinType
    <3>3. QED
      BY <3>2, ConcatEmptySeq
  <2>7. [result |-> v, current |-> <<>>] \in Splitting(C)
    BY <2>3 DEF Splitting
  <2>8. SplitStep(acc, x).result = v /\ SplitStep(acc, x).current = <<>>
    BY <2>2
  <2>9. SplitStep(acc, x) \in Splitting(C)
    BY <2>2, <2>7
  <2>10. FlattenSeq(v) \o <<>> = Append(FlattenSeq(r) \o c, x)
    BY <2>4, <2>5, <2>6
  <2>11. QED
    BY <1>1, <2>8, <2>9, <2>10
<1>4. CASE x # Space
  <2> DEFINE y == Append(c, x)
  <2>1. y \in Seq(C) /\ y = c \o <<x>> /\ <<x>> \in Seq(C)
    BY <1>1, AppendProperties, AppendIsConcat
  <2>2. SplitStep(acc, x) = [acc EXCEPT !.current = Append(acc.current, x)]
    BY <1>4 DEF SplitStep
  <2>3. SplitStep(acc, x) = [acc EXCEPT !.current = y]
    BY <1>1, <2>2
  <2> HIDE DEF y
  <2>4. [[result |-> r, current |-> c] EXCEPT !.current = y] = [result |-> r, current |-> y]
    OBVIOUS
  <2>5. SplitStep(acc, x) = [result |-> r, current |-> y]
    BY <1>0, <2>3, <2>4
  <2>6. [result |-> r, current |-> y] \in Splitting(C)
    BY <1>1, <2>1 DEF Splitting
  <2>7. SplitStep(acc, x).result = r /\ SplitStep(acc, x).current = y
    BY <2>5
  <2>8. FlattenSeq(r) \o y = (FlattenSeq(r) \o c) \o <<x>>
    BY <1>1, <1>2, <2>1, ConcatAssociative
  <2>9. (FlattenSeq(r) \o c) \o <<x>> = Append(FlattenSeq(r) \o c, x)
    BY <1>2, AppendIsConcat
  <2>10. QED
    BY <1>1, <2>5, <2>6, <2>7, <2>8, <2>9
<1>5. QED
  BY <1>3, <1>4

Splits(g, s) ==
  /\ g[0] = [result |-> <<>>, current |-> <<>>]
  /\ \A i \in 0 .. Len(s) - 1 : g[i + 1] = SplitStep(g[i], s[i + 1])
  /\ splitString(s) = g[Len(s)].result \o NotEmpty(g[Len(s)].current)

(* splitString goes through the characters in their order.                 *)
LEMMA SplitsInOrder ==
  ASSUME NEW C, NEW s \in Seq(C)
  PROVE  \E g : Splits(g, s)
<1> DEFINE n == Len(s)
           A == Splitting(C)
           b == [result |-> <<>>, current |-> <<>>]
           H == [a \in A |-> [i \in 1 .. n |-> SplitStep(a, s[i])]]
           Is(f) == f = [t \in SUBSET (1 .. n) |->
                           IF t = {} THEN b ELSE SplitStep(f[t \ {Max(t)}], s[Max(t)])]
<1>1. n \in Nat /\ DOMAIN s = 1 .. n /\ b \in A
  BY DEF Splitting
<1>2. H \in [A -> [1 .. n -> A]]
  <2>1. ASSUME NEW a \in A, NEW i \in 1 .. n
        PROVE  SplitStep(a, s[i]) \in A
    <3>1. s[i] \in C
      BY <1>1
    <3>2. QED
      BY <3>1, SplitStepType
  <2>2. QED
    BY <2>1
<1> HIDE DEF n, A, b
<1>3. PICK f \in [SUBSET (1 .. n) -> A] : Solves(f, n, b, H)
  BY <1>1, <1>2, FoldExists
<1>4. Is(f)
  <2>1. f = [t \in SUBSET (1 .. n) |-> IF t = {} THEN b ELSE H[f[t \ {Max(t)}]][Max(t)]]
    BY <1>3 DEF Solves
  <2>2. ASSUME NEW t \in SUBSET (1 .. n), t # {}
        PROVE  H[f[t \ {Max(t)}]][Max(t)] = SplitStep(f[t \ {Max(t)}], s[Max(t)])
    <3>1. Max(t) \in 1 .. n /\ t \ {Max(t)} \in SUBSET (1 .. n)
      BY <1>1, <2>2, MaxBelow
    <3>2. QED
      BY <3>1, <1>3
  <2> HIDE DEF H
  <2>3. QED
    BY <2>1, <2>2
<1> DEFINE iter == CHOOSE h : Is(h)
           g == [i \in 0 .. n |-> iter[1 .. i]]
<1>5. Is(iter)
  BY <1>4
<1>6. splitString(s) = iter[1 .. n].result \o NotEmpty(iter[1 .. n].current)
  BY <1>1 DEF splitString, FoldLeft, MapThenFoldSet, SplitStep, b
<1> HIDE DEF iter
<1>7. ASSUME NEW i \in 0 .. n - 1
      PROVE  iter[1 .. i + 1] = SplitStep(iter[1 .. i], s[i + 1])
  <2> DEFINE t == 1 .. i + 1
  <2>1. t \in SUBSET (1 .. n) /\ t # {} /\ Max(t) = i + 1 /\ t \ {i + 1} = 1 .. i
    BY <1>1, Segments
  <2> HIDE DEF t
  <2>2. iter[t] = SplitStep(iter[t \ {Max(t)}], s[Max(t)])
    BY <1>5, <2>1
  <2>3. QED
    BY <2>1, <2>2 DEF t
<1>8. iter[1 .. 0] = b
  BY <1>1, <1>5
<1>9. ASSUME NEW i \in 0 .. n - 1
      PROVE  g[i + 1] = SplitStep(g[i], s[i + 1])
  BY <1>1, <1>7, Segments
<1>10. g[0] = b /\ splitString(s) = g[n].result \o NotEmpty(g[n].current)
  <2>1. 0 \in 0 .. n /\ n \in 0 .. n
    BY <1>1
  <2>2. g[0] = iter[1 .. 0] /\ g[n] = iter[1 .. n]
    BY <2>1
  <2>3. QED
    BY <1>6, <1>8, <2>2
<1> HIDE DEF g
<1>11. Splits(g, s)
  BY <1>9, <1>10 DEF Splits, n, b
<1>12. QED
  BY <1>11

(* The beginning of a sequence grows by one element at a time.             *)
LEMMA Beginnings ==
  ASSUME NEW S, NEW s \in Seq(S)
  PROVE  /\ SubSeq(s, 1, 0) = <<>> /\ SubSeq(s, 1, Len(s)) = s
         /\ \A i \in 0 .. Len(s) - 1 :
              /\ SubSeq(s, 1, i) \in Seq(S) /\ s[i + 1] \in S
              /\ SubSeq(s, 1, i + 1) = Append(SubSeq(s, 1, i), s[i + 1])
<1>1. SubSeq(s, 1, 0) = <<>> /\ SubSeq(s, 1, Len(s)) = s
  BY SubSeqEmpty, SubSeqFull
<1>2. ASSUME NEW i \in 0 .. Len(s) - 1
      PROVE  /\ SubSeq(s, 1, i) \in Seq(S) /\ s[i + 1] \in S
             /\ SubSeq(s, 1, i + 1) = Append(SubSeq(s, 1, i), s[i + 1])
  <2> DEFINE j == i + 1
  <2>1. /\ 1 \in 1 .. Len(s) /\ j \in 1 .. Len(s) /\ j - 1 = i /\ 1 \in Int /\ i \in Int
        /\ \A k \in 1 .. i : s[k] \in S
    OBVIOUS
  <2> HIDE DEF j
  <2>2. s[j] \in S /\ SubSeq(s, 1, i) \in Seq(S)
    BY <2>1, SubSeqProperties
  <2>3. SubSeq(s, 1, j) = SubSeq(s, 1, i) \o <<s[j]>>
    BY <2>1, SubSeqRecursiveSecond
  <2>4. Append(SubSeq(s, 1, i), s[j]) = SubSeq(s, 1, i) \o <<s[j]>>
    BY <2>2, AppendIsConcat
  <2>5. QED
    BY <2>2, <2>3, <2>4 DEF j
<1>3. QED
  BY <1>1, <1>2

(* Splitting keeps the characters in their order, and makes no empty word. *)
LEMMA SplitKeeps ==
  ASSUME NEW C, NEW s \in Seq(C)
  PROVE  /\ splitString(s) \in Seq(NotEmptyLines(C))
         /\ FlattenSeq(splitString(s)) = s
<1> DEFINE n == Len(s)
           Held(a, x) == a \in Splitting(C) /\ FlattenSeq(a.result) \o a.current = x
<1>1. PICK g : Splits(g, s)
  BY SplitsInOrder
<1>2. n \in Nat
  OBVIOUS
<1> DEFINE S == {i \in Nat : i <= n => Held(g[i], SubSeq(s, 1, i))}
<1>3. /\ g[0] = [result |-> <<>>, current |-> <<>>]
      /\ \A i \in 0 .. n - 1 : g[i + 1] = SplitStep(g[i], s[i + 1])
      /\ splitString(s) = g[n].result \o NotEmpty(g[n].current)
  BY <1>1 DEF Splits
<1>4. 0 \in S
  <2> DEFINE b == [result |-> <<>>, current |-> <<>>]
  <2>1. b \in Splitting(C) /\ b.result = <<>> /\ b.current = <<>>
    BY DEF Splitting
  <2> HIDE DEF b
  <2>2. <<>> \in Seq(C) /\ <<>> \o <<>> = <<>>
    BY ConcatEmptySeq
  <2>3. Held(b, <<>>)
    BY <2>1, <2>2, JoinNothing
  <2> HIDE DEF Held
  <2>4. QED
    BY <1>3, <2>3, Beginnings DEF b
<1>5. ASSUME NEW i \in Nat, i \in S, i + 1 <= n
      PROVE  Held(g[i + 1], SubSeq(s, 1, i + 1))
  <2>1. i \in 0 .. n - 1 /\ i <= n
    BY <1>2, <1>5
  <2>2. g[i] \in Splitting(C) /\ FlattenSeq(g[i].result) \o g[i].current = SubSeq(s, 1, i)
    BY <1>5, <2>1
  <2>3. s[i + 1] \in C /\ SubSeq(s, 1, i + 1) = Append(SubSeq(s, 1, i), s[i + 1])
    BY <2>1, Beginnings
  <2> DEFINE a == g[i]
             x == s[i + 1]
             d == SplitStep(a, x)
  <2> HIDE DEF a, x
  <2>4. a \in Splitting(C) /\ x \in C
    BY <2>2, <2>3 DEF a, x
  <2>5. /\ d \in Splitting(C)
        /\ FlattenSeq(d.result) \o d.current = Append(FlattenSeq(a.result) \o a.current, x)
    BY <2>4, SplitStepType
  <2> HIDE DEF d
  <2>6. Held(d, SubSeq(s, 1, i + 1))
    BY <2>2, <2>3, <2>5 DEF a, x
  <2>7. g[i + 1] = d
    BY <1>3, <2>1 DEF a, x, d
  <2> HIDE DEF Held
  <2>8. QED
    BY <2>6, <2>7
<1> HIDE DEF Held
<1>6. \A i \in Nat : i \in S => i + 1 \in S
  BY <1>5
<1> HIDE DEF S, n
<1>7. n \in S
  BY <1>2, <1>4, <1>6, Induction
<1>8. Held(g[n], SubSeq(s, 1, n))
  BY <1>2, <1>7 DEF S
<1>9. g[n].result \in Seq(NotEmptyLines(C)) /\ g[n].current \in Seq(C)
  BY <1>8 DEF Held, Splitting
<1>10. /\ splitString(s) \in Seq(NotEmptyLines(C))
       /\ FlattenSeq(splitString(s)) = FlattenSeq(g[n].result) \o g[n].current
  BY <1>3, <1>9, JoinNotEmpty
<1>11. SubSeq(s, 1, n) = s
  BY Beginnings DEF n
<1>12. QED
  BY <1>8, <1>10, <1>11 DEF Held

-----------------------------------------------------------------------------
(* What the field does to its lines.                                       *)

(* The lines of a field: none is empty but the only one.                   *)
FieldLines == Seq(NotEmptyLines(Bytes)) \cup {<<<<>>>>}

(* The lines of a field hold bytes.                                        *)
LEMMA FieldType ==
  ASSUME NEW lst \in FieldLines
  PROVE  lst \in Seq(Seq(Bytes)) /\ joinStrings(lst) \in Seq(Bytes)
<1>1. lst \in Seq(Seq(Bytes))
  <2>1. CASE lst \in Seq(NotEmptyLines(Bytes))
    BY <2>1, SeqMonotonic DEF NotEmptyLines
  <2>2. CASE lst = <<<<>>>>
    BY <2>2
  <2>3. QED
    BY <2>1, <2>2 DEF FieldLines
<1>2. QED
  BY <1>1, JoinType DEF joinStrings

(* What is typed comes behind what the lines hold.                         *)
LEMMA TypedLines ==
  ASSUME NEW lst \in FieldLines, NEW typed \in Seq(Bytes)
  PROVE  LET new == wrapSplitted(splitString(joinStrings(lst) \o typed))
         IN new \in FieldLines /\ joinStrings(new) = joinStrings(lst) \o typed
<1> DEFINE t == joinStrings(lst) \o typed
<1>1. t \in Seq(Bytes)
  BY FieldType, ConcatProperties
<1> HIDE DEF t
<1>2. splitString(t) \in Seq(NotEmptyLines(Bytes)) /\ FlattenSeq(splitString(t)) = t
  BY <1>1, SplitKeeps
<1>3. /\ wrapSplitted(splitString(t)) \in Seq(NotEmptyLines(Bytes))
      /\ FlattenSeq(wrapSplitted(splitString(t))) = FlattenSeq(splitString(t))
  BY <1>2, WrappedKeeps
<1>4. QED
  BY <1>2, <1>3 DEF t, FieldLines, joinStrings

(* A sequence that is not empty is its front and its last element.         *)
LEMMA FrontLast ==
  ASSUME NEW S, NEW s \in Seq(S), s # <<>>
  PROVE  Front(s) \in Seq(S) /\ Last(s) \in S /\ s = Append(Front(s), Last(s))
         /\ Len(s) = Len(Front(s)) + 1
<1>1. Len(s) \in Nat /\ Len(s) # 0
  OBVIOUS
<1> DEFINE i == Len(s) - 1
<1>2. i \in 0 .. Len(s) - 1 /\ i + 1 = Len(s)
  BY <1>1
<1> HIDE DEF i
<1>3. /\ SubSeq(s, 1, i) \in Seq(S) /\ s[i + 1] \in S
      /\ SubSeq(s, 1, i + 1) = Append(SubSeq(s, 1, i), s[i + 1])
  BY <1>2, Beginnings
<1>4. SubSeq(s, 1, Len(s)) = s
  BY Beginnings
<1>5. Front(s) = SubSeq(s, 1, i) /\ Last(s) = s[i + 1]
  BY <1>2 DEF Front, Last, i
<1>6. s = Append(Front(s), Last(s))
  BY <1>2, <1>3, <1>4, <1>5
<1>7. QED
  BY <1>3, <1>5, <1>6, AppendProperties

(* What was appended is the last element, and the rest the front.          *)
LEMMA FrontOfAppend ==
  ASSUME NEW S, NEW s \in Seq(S), NEW x \in S
  PROVE  Front(Append(s, x)) = s /\ Append(s, x) # <<>>
<1> DEFINE t == Append(s, x)
<1>1. t \in Seq(S) /\ t # <<>>
  BY AppendProperties
<1> HIDE DEF t
<1>2. Front(t) \in Seq(S) /\ Last(t) \in S /\ t = Append(Front(t), Last(t))
  BY <1>1, FrontLast
<1>3. Append(Front(t), Last(t)) = Append(s, x)
  BY <1>2 DEF t
<1>4. Front(t) = s
  BY <1>2, <1>3, AppendInjective
<1>5. QED
  BY <1>1, <1>4 DEF t

(* What is joined to an empty end is the rest; the front of what ends in a *)
(* character is without it.                                                *)
LEMMA FrontOfConcat ==
  ASSUME NEW C, NEW s \in Seq(C), NEW x \in Seq(C), x # <<>>
  PROVE  /\ s \o x \in Seq(C) /\ s \o x # <<>> /\ Front(s \o x) = s \o Front(x)
         /\ Len(x) = 1 => Front(x) = <<>>
<1> DEFINE f == Front(x)
           c == Last(x)
<1>1. f \in Seq(C) /\ c \in C /\ x = Append(f, c) /\ Len(x) = Len(f) + 1
  BY FrontLast
<1> HIDE DEF f, c
<1>2. x = f \o <<c>> /\ <<c>> \in Seq(C) /\ s \o f \in Seq(C)
  BY <1>1, AppendIsConcat, ConcatProperties
<1>3. s \o x = (s \o f) \o <<c>>
  BY <1>1, <1>2, ConcatAssociative
<1>4. (s \o f) \o <<c>> = Append(s \o f, c)
  BY <1>1, <1>2, AppendIsConcat
<1>5. Front(Append(s \o f, c)) = s \o f /\ Append(s \o f, c) # <<>> /\ Append(s \o f, c) \in Seq(C)
  <2> DEFINE sf == s \o f
  <2>1. sf \in Seq(C) /\ c \in C
    BY <1>1, <1>2
  <2> HIDE DEF sf
  <2>2. Front(Append(sf, c)) = sf /\ Append(sf, c) # <<>>
    BY <2>1, FrontOfAppend
  <2>3. Append(sf, c) \in Seq(C)
    BY <2>1, AppendProperties
  <2>4. QED
    BY <2>2, <2>3 DEF sf
<1>6. Len(x) = 1 => f = <<>>
  <2>1. Len(f) \in Nat /\ (Len(f) = 0 => f = <<>>)
    BY <1>1
  <2>2. QED
    BY <1>1, <2>1
<1>7. QED
  BY <1>3, <1>4, <1>5, <1>6 DEF f

(* A backspace takes the last byte of the lines, if there is one.          *)
LEMMA BackspacedKeeps ==
  ASSUME lines \in FieldLines
  PROVE  /\ Backspaced \in FieldLines
         /\ joinStrings(Backspaced) = IF joinStrings(lines) = <<>> THEN joinStrings(lines)
                                      ELSE Front(joinStrings(lines))
<1> DEFINE C == Bytes
           f == Front(lines)
           x == Last(lines)
<1>0. <<>> \in FieldLines /\ <<<<>>>> \in FieldLines /\ joinStrings(<<>>) = <<>>
  BY JoinNothing DEF FieldLines, joinStrings
<1>1. joinStrings(<<<<>>>>) = <<>>
  <2> DEFINE e == <<>>
  <2>1. e \in Seq(Seq(C)) /\ e \in Seq(C) /\ Append(e, e) = <<e>> /\ e \o e = e
    BY ConcatEmptySeq
  <2> HIDE DEF e
  <2>2. FlattenSeq(Append(e, e)) = FlattenSeq(e) \o e
    BY <2>1, JoinAppend
  <2>3. FlattenSeq(e) = e
    BY JoinNothing DEF e
  <2>4. FlattenSeq(<<e>>) = e
    BY <2>1, <2>2, <2>3
  <2>5. QED
    BY <2>4 DEF e, joinStrings
<1>2. CASE lines = <<>>
  BY <1>0, <1>2 DEF Backspaced
<1>3. CASE lines = <<<<>>>>
  <2>1. Last(lines) = <<>> /\ lines # <<>>
    BY <1>3 DEF Last
  <2>2. Backspaced = Front(lines)
    BY <2>1 DEF Backspaced
  <2>3. Front(lines) = <<>>
    BY <1>3 DEF Front
  <2>4. Backspaced = <<>>
    BY <2>2, <2>3
  <2>5. joinStrings(lines) = <<>>
    BY <1>1, <1>3
  <2>6. QED
    BY <1>0, <2>4, <2>5
<1>4. CASE lines # <<>> /\ lines # <<<<>>>>
  <2>1. lines \in Seq(NotEmptyLines(C)) /\ lines # <<>>
    BY <1>4 DEF FieldLines
  <2>2. /\ f \in Seq(NotEmptyLines(C)) /\ x \in NotEmptyLines(C)
        /\ lines = Append(f, x) /\ Len(lines) = Len(f) + 1
    BY <2>1, FrontLast
  <2>3. Backspaced = IF x = <<>> \/ (Len(x) = 1 /\ Len(lines) > 1) THEN f ELSE Append(f, Front(x))
    BY <1>4 DEF Backspaced
  <2> HIDE DEF f, x
  <2>4. f \in Seq(Seq(C)) /\ x \in Seq(C) /\ x # <<>>
    BY <2>2, SeqMonotonic DEF NotEmptyLines
  <2>5. joinStrings(lines) = FlattenSeq(f) \o x /\ FlattenSeq(f) \in Seq(C)
    BY <2>2, <2>4, JoinAppend, JoinType DEF joinStrings
  <2>6. /\ joinStrings(lines) # <<>> /\ Front(joinStrings(lines)) = FlattenSeq(f) \o Front(x)
        /\ Len(x) = 1 => Front(x) = <<>>
    BY <2>4, <2>5, FrontOfConcat
  <2>7. Front(x) \in Seq(C) /\ Len(x) = Len(Front(x)) + 1
    BY <2>4, FrontLast
  <2>8. CASE Len(x) = 1 /\ Len(lines) > 1
    <3>1. Backspaced = f
      BY <2>3, <2>8
    <3>2. FlattenSeq(f) \o Front(x) = FlattenSeq(f)
      BY <2>5, <2>6, <2>8, ConcatEmptySeq
    <3>3. QED
      BY <2>2, <2>6, <3>1, <3>2 DEF FieldLines, joinStrings
  <2>9. CASE ~(Len(x) = 1 /\ Len(lines) > 1)
    <3>1. Backspaced = Append(f, Front(x))
      BY <2>3, <2>4, <2>9
    <3>2. joinStrings(Backspaced) = FlattenSeq(f) \o Front(x)
      BY <2>4, <2>7, <3>1, JoinAppend DEF joinStrings
    <3>3. CASE Front(x) # <<>>
      <4>1. Front(x) \in NotEmptyLines(C)
        BY <2>7, <3>3 DEF NotEmptyLines
      <4>2. Append(f, Front(x)) \in Seq(NotEmptyLines(C))
        BY <2>2, <4>1, AppendProperties
      <4>3. QED
        BY <2>6, <3>1, <3>2, <4>2 DEF FieldLines
    <3>4. CASE Front(x) = <<>>
      <4>1. Len(x) = 1
        BY <2>7, <3>4
      <4>2. Len(f) \in Nat /\ (Len(f) = 0 => f = <<>>)
        BY <2>2
      <4>3. f = <<>>
        BY <2>2, <2>9, <4>1, <4>2
      <4>4. Append(f, Front(x)) = <<<<>>>>
        BY <3>4, <4>3
      <4>5. QED
        BY <1>0, <2>6, <3>1, <3>2, <4>4
    <3>5. QED
      BY <3>3, <3>4
  <2>10. QED
    BY <2>8, <2>9
<1>5. QED
  BY <1>2, <1>3, <1>4

-----------------------------------------------------------------------------
(* What the queue tells last of a key.                                     *)

UserKeys == Controls \cup {"g", "space", "ya", "backspace", "return", "escape"}
Events == {e \in [type : EventType, key : UserKeys \cup {"none"}] :
             e.type = "text" => e.key \in DOMAIN Typed}

OfKey(e, key) == e.key = key /\ e.type \in {"down", "up"}
Places(q, key) == {n \in 1 .. Len(q) : OfKey(q[n], key)}

(* "down" or "up" by the last event of the key, or "nothing".              *)
Told(q, key) == IF Places(q, key) = {} THEN "nothing" ELSE q[Max(Places(q, key))].type

(* The greatest place is the last one.                                     *)
LEMMA LastPlace ==
  ASSUME NEW q, NEW key, Len(q) \in Nat, NEW n \in Places(q, key),
         \A k \in Places(q, key) : k <= n
  PROVE  Told(q, key) = q[n].type
<1> DEFINE T == Places(q, key)
<1>1. T \subseteq 0 .. Len(q) /\ T # {}
  BY DEF Places
<1> HIDE DEF T
<1>2. Max(T) \in T /\ \A y \in T : Max(T) >= y
  BY <1>1, GreatestNumber DEF Max
<1>3. Max(T) = n
  <2> DEFINE m == Max(T)
  <2>1. m \in T /\ n \in T /\ m <= n /\ m >= n
    BY <1>2 DEF T
  <2> HIDE DEF m
  <2>2. m \in Int /\ n \in Int
    <3>1. m \in 0 .. Len(q) /\ n \in 0 .. Len(q)
      BY <1>1, <2>1
    <3>2. QED
      BY <3>1
  <2>3. m = n
    BY <2>1, <2>2
  <2>4. QED
    BY <2>3 DEF m
<1>4. QED
  BY <1>1, <1>3 DEF Told, T

(* A key of which anything is told has a last place.                       *)
LEMMA HasLastPlace ==
  ASSUME NEW q, NEW key, Len(q) \in Nat, Places(q, key) # {}
  PROVE  \E n \in Places(q, key) : \A k \in Places(q, key) : k <= n
<1>1. Places(q, key) \subseteq 0 .. Len(q)
  BY DEF Places
<1>2. PICK n \in Places(q, key) : \A k \in Places(q, key) : n >= k
  BY <1>1, GreatestNumber
<1>3. ASSUME NEW k \in Places(q, key)
      PROVE  k <= n
  <2>1. k \in Int /\ n \in Int /\ n >= k
    BY <1>1, <1>2
  <2>2. QED
    BY <2>1
<1>4. QED
  BY <1>3

(* An event behind the others tells of its key.                            *)
LEMMA ToldBehind ==
  ASSUME NEW E, NEW q \in Seq(E), NEW e \in E, NEW key
  PROVE  Told(Append(q, e), key) = IF OfKey(e, key) THEN e.type ELSE Told(q, key)
<1> DEFINE t == Append(q, e)
           n == Len(q)
<1>1. n \in Nat /\ Len(t) = n + 1 /\ t[n + 1] = e /\ \A i \in 1 .. n : t[i] = q[i]
  BY AppendProperties
<1> HIDE DEF t
<1>2. Places(t, key) = Places(q, key) \cup (IF OfKey(e, key) THEN {n + 1} ELSE {})
  BY <1>1 DEF Places
<1>3. Places(q, key) \subseteq 1 .. n
  BY DEF Places
<1> HIDE DEF n
<1>4. CASE OfKey(e, key)
  <2>1. n + 1 \in Places(t, key) /\ \A k \in Places(t, key) : k <= n + 1
    BY <1>1, <1>2, <1>3, <1>4
  <2>2. Len(t) \in Nat
    BY <1>1
  <2>3. Told(t, key) = t[n + 1].type
    BY <2>1, <2>2, LastPlace
  <2>4. QED
    BY <1>1, <1>4, <2>3 DEF t
<1>5. CASE ~OfKey(e, key)
  <2>1. Places(t, key) = Places(q, key)
    BY <1>2, <1>5
  <2>2. CASE Places(q, key) = {}
    BY <1>5, <2>1, <2>2 DEF Told, t
  <2>3. CASE Places(q, key) # {}
    <3>1. Len(q) \in Nat /\ Len(t) \in Nat
      BY <1>1 DEF n
    <3>2. PICK i \in Places(q, key) : \A k \in Places(q, key) : k <= i
      BY <2>3, <3>1, HasLastPlace
    <3>3. Told(q, key) = q[i].type
      BY <3>1, <3>2, LastPlace
    <3>4. i \in Places(t, key) /\ \A k \in Places(t, key) : k <= i
      BY <2>1, <3>2
    <3>5. Told(t, key) = t[i].type
      BY <3>1, <3>4, LastPlace
    <3>6. t[i] = q[i]
      BY <1>1, <1>3
    <3>7. QED
      BY <1>5, <3>3, <3>5, <3>6 DEF t
  <2>4. QED
    BY <2>2, <2>3
<1>6. QED
  BY <1>4, <1>5

(* What the rest of a queue tells of a key counts before its head.         *)
LEMMA ToldAhead ==
  ASSUME NEW E, NEW q \in Seq(E), q # <<>>, NEW key
  PROVE  /\ Places(Tail(q), key) # {} => Told(q, key) = Told(Tail(q), key)
         /\ Places(Tail(q), key) = {} =>
              Told(q, key) = IF OfKey(Head(q), key) THEN Head(q).type ELSE "nothing"
<1> DEFINE t == Tail(q)
           n == Len(t)
<1>1. /\ n \in Nat /\ Len(q) = n + 1 /\ q[1] = Head(q)
      /\ \A i \in 1 .. n : t[i] = q[i + 1]
  <2>1. Len(q) \in Nat /\ Len(q) # 0 /\ n = Len(q) - 1 /\ \A i \in 1 .. n : t[i] = q[i + 1]
    BY HeadTailProperties
  <2>2. q[1] = Head(q)
    OBVIOUS
  <2> HIDE DEF t
  <2>3. QED
    BY <2>1, <2>2
<1> HIDE DEF t
<1>2. \A i \in 1 .. n : i \in Places(t, key) <=> i + 1 \in Places(q, key)
  BY <1>1 DEF Places
<1>3. Places(t, key) \subseteq 1 .. n /\ Places(q, key) \subseteq 1 .. n + 1
  BY <1>1 DEF Places
<1>4. 1 \in Places(q, key) <=> OfKey(Head(q), key)
  BY <1>1 DEF Places
<1>5. Len(q) \in Nat /\ Len(t) \in Nat
  BY <1>1
<1>6. CASE Places(t, key) # {}
  <2>1. PICK i \in Places(t, key) : \A k \in Places(t, key) : k <= i
    BY <1>5, <1>6, HasLastPlace
  <2>2. i \in 1 .. n /\ i + 1 \in Places(q, key)
    BY <1>2, <1>3, <2>1
  <2>3. ASSUME NEW k \in Places(q, key)
        PROVE  k <= i + 1
    <3>1. k \in 1 .. n + 1
      BY <1>3
    <3>2. CASE k = 1
      BY <1>1, <2>2, <3>2
    <3>3. CASE k # 1
      <4> DEFINE j == k - 1
      <4>1. j \in 1 .. n /\ k = j + 1
        BY <1>1, <3>1, <3>3
      <4> HIDE DEF j
      <4>2. j <= i
        BY <1>2, <2>1, <4>1
      <4>3. QED
        BY <1>1, <2>2, <4>1, <4>2
    <3>4. QED
      BY <3>2, <3>3
  <2>4. Told(q, key) = q[i + 1].type
    BY <1>5, <2>2, <2>3, LastPlace
  <2>5. Told(t, key) = t[i].type
    BY <1>5, <2>1, LastPlace
  <2>6. QED
    BY <1>1, <1>6, <2>2, <2>4, <2>5 DEF t
<1>7. CASE Places(t, key) = {}
  <2>1. ASSUME NEW k \in Places(q, key)
        PROVE  k = 1
    <3>1. k \in 1 .. n + 1
      BY <1>3
    <3> DEFINE j == k - 1
    <3>2. k # 1 => j \in 1 .. n /\ k = j + 1
      BY <1>1, <3>1
    <3> HIDE DEF j
    <3>3. QED
      BY <1>2, <1>7, <3>2
  <2>2. CASE OfKey(Head(q), key)
    <3>1. 1 \in Places(q, key) /\ \A k \in Places(q, key) : k <= 1
      BY <1>4, <2>1, <2>2
    <3>2. Told(q, key) = q[1].type
      BY <1>5, <3>1, LastPlace
    <3>3. QED
      BY <1>1, <1>7, <2>2, <3>2 DEF t
  <2>3. CASE ~OfKey(Head(q), key)
    <3>1. Places(q, key) = {}
      BY <1>4, <2>1, <2>3
    <3>2. QED
      BY <1>7, <2>3, <3>1 DEF Told, t
  <2>4. QED
    BY <2>2, <2>3
<1>8. QED
  BY <1>6, <1>7 DEF t

(* Nothing is told of a key when no event is of it.                        *)
LEMMA ToldRange ==
  ASSUME NEW E, NEW q \in Seq(E), NEW key
  PROVE  /\ Told(q, key) \in {"nothing", "down", "up"}
         /\ Told(q, key) = "nothing" <=> Places(q, key) = {}
<1>1. CASE Places(q, key) # {}
  <2>1. Len(q) \in Nat
    OBVIOUS
  <2>2. PICK n \in Places(q, key) : \A k \in Places(q, key) : k <= n
    BY <1>1, <2>1, HasLastPlace
  <2>3. Told(q, key) = q[n].type
    BY <2>1, <2>2, LastPlace
  <2>4. q[n].type \in {"down", "up"}
    BY <2>2 DEF Places, OfKey
  <2>5. QED
    BY <1>1, <2>3, <2>4
<1>2. CASE Places(q, key) = {}
  BY <1>2 DEF Told
<1>3. QED
  BY <1>1, <1>2

(* What is told of a key when the head is taken.                           *)
LEMMA ToldTail ==
  ASSUME NEW E, NEW q \in Seq(E), q # <<>>, NEW key
  PROVE  /\ ~OfKey(Head(q), key) => Told(Tail(q), key) = Told(q, key)
         /\ Told(Tail(q), key) # "nothing" => Told(Tail(q), key) = Told(q, key)
         /\ Told(Tail(q), key) = "nothing" /\ OfKey(Head(q), key) => Told(q, key) = Head(q).type
<1> DEFINE t == Tail(q)
<1>1. t \in Seq(E)
  BY HeadTailProperties
<1>2. /\ Places(t, key) # {} => Told(q, key) = Told(t, key)
      /\ Places(t, key) = {} =>
              Told(q, key) = IF OfKey(Head(q), key) THEN Head(q).type ELSE "nothing"
  BY ToldAhead
<1> HIDE DEF t
<1>3. Told(t, key) = "nothing" <=> Places(t, key) = {}
  BY <1>1, ToldRange
<1>4. QED
  BY <1>2, <1>3 DEF t

(* The dropped TEXTINPUTs tell of no key.                                  *)
LEMMA ToldWithoutTexts ==
  ASSUME NEW s \in Seq(Events), NEW key
  PROVE  WithoutTexts(s) \in Seq(Events) /\ Told(WithoutTexts(s), key) = Told(s, key)
<1> DEFINE n == Len(s)
           Same(kept, x) == kept \in Seq(Events) /\ Told(kept, key) = Told(x, key)
<1>1. PICK g : Keeps(g, s)
  BY KeepsInOrder
<1>2. n \in Nat
  OBVIOUS
<1> DEFINE S == {i \in Nat : i <= n => Same(g[i], SubSeq(s, 1, i))}
<1>3. /\ g[0] = <<>> /\ WithoutTexts(s) = g[n]
      /\ \A i \in 0 .. n - 1 : g[i + 1] = KeepStep(g[i], s[i + 1])
  BY <1>1 DEF Keeps
<1>4. 0 \in S
  <2>1. SubSeq(s, 1, 0) = <<>>
    BY Beginnings
  <2>2. Same(<<>>, <<>>)
    OBVIOUS
  <2> HIDE DEF Same
  <2>3. QED
    BY <1>3, <2>1, <2>2
<1>5. ASSUME NEW i \in Nat, i \in S, i + 1 <= n
      PROVE  Same(g[i + 1], SubSeq(s, 1, i + 1))
  <2> DEFINE a == g[i]
             x == SubSeq(s, 1, i)
             e == s[i + 1]
  <2>1. i \in 0 .. n - 1 /\ i <= n
    BY <1>2, <1>5
  <2>2. Same(a, x)
    BY <1>5, <2>1
  <2>3. x \in Seq(Events) /\ e \in Events /\ SubSeq(s, 1, i + 1) = Append(x, e)
    BY <2>1, Beginnings
  <2>4. g[i + 1] = KeepStep(a, e)
    BY <1>3, <2>1
  <2> HIDE DEF a, x, e
  <2>5. Told(Append(x, e), key) = IF OfKey(e, key) THEN e.type ELSE Told(x, key)
    BY <2>3, ToldBehind
  <2>6. CASE e.type = "text"
    <3>1. ~OfKey(e, key)
      BY <2>6 DEF OfKey
    <3>2. g[i + 1] = a
      BY <2>4, <2>6 DEF KeepStep
    <3>3. QED
      BY <2>2, <2>3, <2>5, <3>1, <3>2
  <2>7. CASE e.type # "text"
    <3>1. g[i + 1] = Append(a, e)
      BY <2>4, <2>7 DEF KeepStep
    <3>2. a \in Seq(Events)
      BY <2>2
    <3>3. Told(Append(a, e), key) = IF OfKey(e, key) THEN e.type ELSE Told(a, key)
      BY <2>3, <3>2, ToldBehind
    <3>4. Append(a, e) \in Seq(Events)
      BY <2>3, <3>2, AppendProperties
    <3>5. Same(Append(a, e), Append(x, e))
      BY <2>2, <2>5, <3>3, <3>4
    <3> HIDE DEF Same
    <3>6. QED
      BY <2>3, <3>1, <3>5
  <2>8. QED
    BY <2>6, <2>7
<1> HIDE DEF Same
<1>6. \A i \in Nat : i \in S => i + 1 \in S
  BY <1>5
<1> HIDE DEF S, n
<1>7. n \in S
  BY <1>2, <1>4, <1>6, Induction
<1>8. Same(g[n], SubSeq(s, 1, n))
  BY <1>2, <1>7 DEF S
<1>9. SubSeq(s, 1, n) = s
  BY Beginnings DEF n
<1>10. QED
  BY <1>3, <1>8, <1>9 DEF Same

-----------------------------------------------------------------------------
(* The inductive invariant.                                                *)

Types ==
  /\ held \subseteq Controls /\ lost \subseteq Controls
  /\ {textInput, m_running, m_dialogActive, active, focused} \subseteq BOOLEAN
  /\ m_dialogActive => active /\ focused /\ textInput
  /\ \A p \in Players : activeKeys[p] \subseteq controlKeys[p]
  /\ direction \in [Players -> {"none"} \cup {Directions[n] : n \in 1 .. 4}]
  /\ pc \in {"events", "update", "draw", "stopped", "crashed"}

QueueInv == queue \in Seq(Events)

FieldInv == lines \in FieldLines /\ joinStrings(lines) = text

(* The last event of a key that is on its way says whether it is held; and *)
(* with none on its way its player knows, but if the dialog has seen it.   *)
Knows(p, key) ==
  /\ Told(queue, key) = "down" => key \in held
  /\ Told(queue, key) = "up" => key \notin held
  /\ Told(queue, key) = "nothing" => key \in lost \/ (key \in activeKeys[p] <=> key \in held)

KeysInv == \A p \in Players : \A key \in controlKeys[p] : Knows(p, key)

FigureInv ==
  pc = "draw" /\ ~m_dialogActive =>
    \A p \in Players : direction[p] # "none" => activeKeys[p] # {}

IInv == Types /\ QueueInv /\ FieldInv /\ KeysInv /\ FigureInv

(* The keys of the players are control keys, and no others are.            *)
LEMMA ControlKeys ==
  /\ \A p \in Players : controlKeys[p] \subseteq Controls
  /\ Controls \cap {"g", "space", "ya", "backspace", "return", "escape", "none"} = {}
<1>1. \A p \in Players : controlKeys[p] \subseteq Controls
  BY DEF Controls
<1>2. controlKeys["Player1"] = {"w"} /\ controlKeys["Player2"] = {"k"}
  BY DEF controlKeys
<1>3. Controls = {"w", "k"}
  BY <1>2 DEF Controls, Players
<1>4. QED
  BY <1>1, <1>3

(* The inductive invariant has the types.                                  *)
LEMMA TypesHold == IInv => TypeOK
<1>1. SUFFICES ASSUME IInv PROVE TypeOK
  OBVIOUS
<1>2. \A n \in 1 .. Len(queue) : queue[n].type \in EventType
  BY <1>1 DEF IInv, QueueInv, Events
<1>3. lines \in Seq(Seq(Bytes)) /\ text \in Seq(Bytes)
  BY <1>1, FieldType DEF IInv, FieldInv
<1>4. QED
  BY <1>1, <1>2, <1>3 DEF IInv, Types, TypeOK

(* It holds in the beginning.                                              *)
LEMMA InitIInv == Init => IInv
<1>1. SUFFICES ASSUME Init PROVE IInv
  OBVIOUS
<1>2. Types
  BY <1>1 DEF Init, Types
<1>3. QueueInv
  BY <1>1 DEF Init, QueueInv
<1>4. FieldInv
  BY <1>1, JoinNothing DEF Init, FieldInv, FieldLines, joinStrings
<1>5. KeysInv
  <2>1. ASSUME NEW p \in Players, NEW key
        PROVE  Knows(p, key)
    <3>1. queue \in Seq(Events) /\ Places(queue, key) = {}
      BY <1>1 DEF Init, Places
    <3>2. Told(queue, key) = "nothing"
      BY <3>1 DEF Told
    <3>3. key \notin activeKeys[p] /\ key \notin held
      BY <1>1 DEF Init
    <3>4. QED
      BY <3>2, <3>3 DEF Knows
  <2>2. QED
    BY <2>1 DEF KeysInv
<1>6. FigureInv
  BY <1>1 DEF Init, FigureInv
<1>7. QED
  BY <1>2, <1>3, <1>4, <1>5, <1>6 DEF IInv

-----------------------------------------------------------------------------
(* The steps, conjunct by conjunct.                                        *)

(* The head of a queue, and the rest of it.                                *)
LEMMA Dequeuing ==
  ASSUME QueueInv, queue # <<>>, Dequeued
  PROVE  QueueInv' /\ Head(queue) \in Events
  BY HeadTailProperties DEF QueueInv, Dequeued

(* Players stay right about their keys when the queue tells the same.      *)
LEMMA SameTold ==
  ASSUME KeysInv, UNCHANGED <<held, activeKeys, lost>>,
         \A key \in Controls : Told(queue', key) = Told(queue, key)
  PROVE  KeysInv'
<1>1. ASSUME NEW p \in Players, NEW key \in controlKeys[p]
      PROVE  Knows(p, key)'
  <2>1. Knows(p, key) /\ Told(queue', key) = Told(queue, key)
    BY ControlKeys DEF KeysInv
  <2>2. QED
    BY <2>1 DEF Knows
<1>2. QED
  BY <1>1 DEF KeysInv

(* An event of no control key is taken from the queue.                     *)
LEMMA OtherHead ==
  ASSUME QueueInv, KeysInv, queue # <<>>, Dequeued, UNCHANGED <<held, activeKeys, lost>>,
         \A key \in Controls : ~OfKey(Head(queue), key)
  PROVE  QueueInv' /\ KeysInv'
<1>1. queue \in Seq(Events)
  BY DEF QueueInv
<1>2. \A key \in Controls : Told(Tail(queue), key) = Told(queue, key)
  BY <1>1, ToldTail
<1>3. QED
  BY <1>2, Dequeuing, SameTold DEF Dequeued

(* The figures are looked at before they are drawn.                        *)
LEMMA NotDrawn == pc' # "draw" => FigureInv'
  BY DEF FigureInv

(* The closing of the window is taken from the queue.                      *)
LEMMA QuitKeeps == IInv /\ Quit => IInv'
<1>1. SUFFICES ASSUME IInv, Quit PROVE IInv'
  OBVIOUS
<1>2. Types'
  BY <1>1 DEF IInv, Types, Quit, dialogVars, playerVars
<1>3. \A key \in Controls : ~OfKey(Head(queue), key)
  BY <1>1 DEF Quit, Polled, OfKey
<1>4. QueueInv' /\ KeysInv'
  BY <1>1, <1>3, OtherHead DEF IInv, Quit, Polled, playerVars
<1>5. FieldInv'
  BY <1>1 DEF IInv, FieldInv, Quit, dialogVars
<1>6. FigureInv'
  BY <1>1, NotDrawn DEF Quit, Polled
<1>7. QED
  BY <1>2, <1>4, <1>5, <1>6 DEF IInv

(* A player learns of its key from the last event of it on its way, which  *)
(* says whether the key is held; of a key whose last event is still on its *)
(* way the queue goes on telling.                                          *)
LEMMA KeyToPlayersKeeps == IInv /\ KeyToPlayers => IInv'
<1>1. SUFFICES ASSUME IInv, KeyToPlayers PROVE IInv'
  OBVIOUS
<1> DEFINE pressed == Head(queue).type = "down"
<1>2. /\ queue # <<>> /\ Head(queue).type \in {"down", "up"} /\ pc = "events"
      /\ activeKeys' = [p \in Players |->
                   IF Key \notin controlKeys[p] THEN activeKeys[p]
                   ELSE IF pressed THEN activeKeys[p] \cup {Key} ELSE activeKeys[p] \ {Key}]
      /\ lost' = lost \ {Key} /\ Dequeued
      /\ UNCHANGED <<held, m_running, pc, dialogVars, direction>>
  BY <1>1 DEF KeyToPlayers, Polled, Seen, sendEvent
<1>3. Types'
  <2>1. \A p \in Players : activeKeys'[p] \subseteq controlKeys[p]
    BY <1>1, <1>2 DEF IInv, Types
  <2>2. lost' \subseteq Controls
    BY <1>1, <1>2 DEF IInv, Types
  <2>3. QED
    BY <1>1, <1>2, <2>1, <2>2 DEF IInv, Types, dialogVars
<1>4. QueueInv' /\ queue' = Tail(queue) /\ queue \in Seq(Events)
  BY <1>1, <1>2, Dequeuing DEF IInv, Dequeued, QueueInv
<1>5. KeysInv'
  <2>1. ASSUME NEW p \in Players, NEW key \in controlKeys[p]
        PROVE  Knows(p, key)'
    <3>1. Knows(p, key)
      BY <1>1 DEF IInv, KeysInv
    <3>2. /\ ~OfKey(Head(queue), key) => Told(queue', key) = Told(queue, key)
          /\ Told(queue', key) # "nothing" => Told(queue', key) = Told(queue, key)
          /\ Told(queue', key) = "nothing" /\ OfKey(Head(queue), key) =>
               Told(queue, key) = Head(queue).type
      BY <1>2, <1>4, ToldTail
    <3>3. CASE key # Key
      <4>1. ~OfKey(Head(queue), key)
        BY <3>3 DEF OfKey, Key
      <4>2. (key \in lost' <=> key \in lost) /\ (key \in activeKeys'[p] <=> key \in activeKeys[p])
        BY <1>2, <3>3
      <4>3. QED
        BY <1>2, <3>1, <3>2, <4>1, <4>2 DEF Knows
    <3>4. CASE key = Key
      <4>1. OfKey(Head(queue), key)
        BY <1>2, <3>4 DEF OfKey, Key
      <4>2. key \in activeKeys'[p] <=> Head(queue).type = "down"
        BY <1>2, <3>4
      <4>3. CASE Told(queue', key) # "nothing"
        BY <1>2, <3>1, <3>2, <4>3 DEF Knows
      <4>4. CASE Told(queue', key) = "nothing"
        <5>1. Told(queue, key) = Head(queue).type
          BY <3>2, <4>1, <4>4
        <5>2. key \in held <=> Head(queue).type = "down"
          BY <1>2, <3>1, <5>1 DEF Knows
        <5>3. QED
          BY <1>2, <4>2, <4>4, <5>2 DEF Knows
      <4>5. QED
        BY <4>3, <4>4
    <3>5. QED
      BY <3>3, <3>4
  <2>2. QED
    BY <2>1 DEF KeysInv
<1>6. FieldInv'
  BY <1>1, <1>2 DEF IInv, FieldInv, dialogVars
<1>7. FigureInv'
  BY <1>2, NotDrawn
<1>8. QED
  BY <1>3, <1>4, <1>5, <1>6, <1>7 DEF IInv

(* What the dialog sees of a control key counts as lost.                   *)
LEMMA KeyToDialogKeeps == IInv /\ KeyToDialog => IInv'
<1>1. SUFFICES ASSUME IInv, KeyToDialog PROVE IInv'
  OBVIOUS
<1>2. /\ queue # <<>> /\ Head(queue).type \in {"down", "up"} /\ pc = "events"
      /\ lost' = lost \cup ({Key} \cap Controls) /\ Dequeued
      /\ UNCHANGED <<held, m_running, pc, dialogVars, playerVars>>
  BY <1>1 DEF KeyToDialog, Polled, SeenByDialog
<1>3. Types'
  BY <1>1, <1>2 DEF IInv, Types, dialogVars, playerVars
<1>4. QueueInv' /\ queue' = Tail(queue) /\ queue \in Seq(Events)
  BY <1>1, <1>2, Dequeuing DEF IInv, Dequeued, QueueInv
<1>5. KeysInv'
  <2>1. ASSUME NEW p \in Players, NEW key \in controlKeys[p]
        PROVE  Knows(p, key)'
    <3>1. Knows(p, key) /\ key \in Controls
      BY <1>1, ControlKeys DEF IInv, KeysInv
    <3>2. /\ ~OfKey(Head(queue), key) => Told(queue', key) = Told(queue, key)
          /\ Told(queue', key) # "nothing" => Told(queue', key) = Told(queue, key)
      BY <1>2, <1>4, ToldTail
    <3>3. CASE key # Key
      <4>1. ~OfKey(Head(queue), key)
        BY <3>3 DEF OfKey, Key
      <4>2. key \in lost' <=> key \in lost
        BY <1>2, <3>3
      <4>3. QED
        BY <1>2, <3>1, <3>2, <4>1, <4>2 DEF Knows, playerVars
    <3>4. CASE key = Key
      <4>1. key \in lost'
        BY <1>2, <3>1, <3>4
      <4>2. QED
        BY <1>2, <3>1, <3>2, <4>1 DEF Knows
    <3>5. QED
      BY <3>3, <3>4
  <2>2. QED
    BY <2>1 DEF KeysInv
<1>6. FieldInv'
  BY <1>1, <1>2 DEF IInv, FieldInv, dialogVars
<1>7. FigureInv'
  BY <1>2, NotDrawn
<1>8. QED
  BY <1>3, <1>4, <1>5, <1>6, <1>7 DEF IInv

(* The dialog opens with the focus and the text input.                     *)
LEMMA OpenDialogKeeps == IInv /\ OpenDialog => IInv'
<1>1. SUFFICES ASSUME IInv, OpenDialog PROVE IInv'
  OBVIOUS
<1>2. Types'
  BY <1>1 DEF IInv, Types, OpenDialog, playerVars
<1>3. \A key \in Controls : ~OfKey(Head(queue), key)
  BY <1>1, ControlKeys DEF OpenDialog, OfKey, Key
<1>4. QueueInv' /\ KeysInv'
  BY <1>1, <1>3, OtherHead DEF IInv, OpenDialog, Polled, playerVars
<1>5. FieldInv'
  BY <1>1 DEF IInv, FieldInv, OpenDialog
<1>6. FigureInv'
  BY <1>1, NotDrawn DEF OpenDialog, Polled
<1>7. QED
  BY <1>2, <1>4, <1>5, <1>6 DEF IInv

(* A TEXTINPUT that nobody asks for tells of no control key.               *)
LEMMA TextToNobodyKeeps == IInv /\ TextToNobody => IInv'
<1>1. SUFFICES ASSUME IInv, TextToNobody PROVE IInv'
  OBVIOUS
<1>2. Types'
  BY <1>1 DEF IInv, Types, TextToNobody, dialogVars, playerVars
<1>3. \A key \in Controls : ~OfKey(Head(queue), key)
  BY <1>1 DEF TextToNobody, Polled, OfKey
<1>4. QueueInv' /\ KeysInv'
  BY <1>1, <1>3, OtherHead DEF IInv, TextToNobody, Polled, playerVars
<1>5. FieldInv'
  BY <1>1 DEF IInv, FieldInv, TextToNobody, dialogVars
<1>6. FigureInv'
  BY <1>1, NotDrawn DEF TextToNobody, Polled
<1>7. QED
  BY <1>2, <1>4, <1>5, <1>6 DEF IInv

(* A mouse button tells of no control key.                                 *)
LEMMA OtherButtonKeeps == IInv /\ OtherButton => IInv'
<1>1. SUFFICES ASSUME IInv, OtherButton PROVE IInv'
  OBVIOUS
<1>2. Types'
  BY <1>1 DEF IInv, Types, OtherButton, dialogVars, playerVars
<1>3. \A key \in Controls : ~OfKey(Head(queue), key)
  BY <1>1 DEF OtherButton, Polled, OfKey
<1>4. QueueInv' /\ KeysInv'
  BY <1>1, <1>3, OtherHead DEF IInv, OtherButton, Polled, playerVars
<1>5. FieldInv'
  BY <1>1 DEF IInv, FieldInv, OtherButton, dialogVars
<1>6. FigureInv'
  BY <1>1, NotDrawn DEF OtherButton, Polled
<1>7. QED
  BY <1>2, <1>4, <1>5, <1>6 DEF IInv

(* What is typed comes behind the text, in the lines and outside.          *)
LEMMA TextToFieldKeeps == IInv /\ TextToField => IInv'
<1>1. SUFFICES ASSUME IInv, TextToField PROVE IInv'
  OBVIOUS
<1>2. Types'
  BY <1>1 DEF IInv, Types, TextToField, playerVars
<1>3. \A key \in Controls : ~OfKey(Head(queue), key)
  BY <1>1 DEF TextToField, Polled, OfKey
<1>4. QueueInv' /\ KeysInv'
  BY <1>1, <1>3, OtherHead DEF IInv, TextToField, Polled, playerVars
<1>5. FieldInv'
  <2> DEFINE typed == Typed[Key]
  <2>1. typed \in Seq(Bytes)
    <3>1. Key \in DOMAIN Typed
      BY <1>1, Dequeuing DEF IInv, TextToField, Polled, Events, Key
    <3>2. {<<Letter>>, <<Space>>, <<Lead, Trail>>} \subseteq Seq(Bytes)
      BY DEF Bytes
    <3>3. typed \in {<<Letter>>, <<Space>>, <<Lead, Trail>>}
      BY <3>1 DEF Typed
    <3>4. QED
      BY <3>2, <3>3
  <2>2. /\ lines' = wrapSplitted(splitString(joinStrings(lines) \o typed))
        /\ text' = text \o typed /\ lines \in FieldLines /\ joinStrings(lines) = text
    BY <1>1 DEF TextToField, IInv, FieldInv
  <2> HIDE DEF typed
  <2>3. lines' \in FieldLines /\ joinStrings(lines') = joinStrings(lines) \o typed
    BY <2>1, <2>2, TypedLines
  <2>4. QED
    BY <2>2, <2>3 DEF FieldInv
<1>6. FigureInv'
  BY <1>1, NotDrawn DEF TextToField, Polled
<1>7. QED
  BY <1>2, <1>4, <1>5, <1>6 DEF IInv

(* A backspace takes the last byte, of the lines and of the text.          *)
LEMMA BackspaceToFieldKeeps == IInv /\ BackspaceToField => IInv'
<1>1. SUFFICES ASSUME IInv, BackspaceToField PROVE IInv'
  OBVIOUS
<1>2. Types'
  BY <1>1 DEF IInv, Types, BackspaceToField, playerVars
<1>3. \A key \in Controls : ~OfKey(Head(queue), key)
  BY <1>1, ControlKeys DEF BackspaceToField, OfKey, Key
<1>4. QueueInv' /\ KeysInv'
  BY <1>1, <1>3, OtherHead DEF IInv, BackspaceToField, Polled, playerVars
<1>5. FieldInv'
  <2>1. /\ lines' = Backspaced /\ text' = (IF text = <<>> THEN text ELSE Front(text))
        /\ lines \in FieldLines /\ joinStrings(lines) = text
    BY <1>1 DEF BackspaceToField, IInv, FieldInv
  <2>2. /\ Backspaced \in FieldLines
        /\ joinStrings(Backspaced) = IF text = <<>> THEN text ELSE Front(text)
    BY <2>1, BackspacedKeeps
  <2>3. QED
    BY <2>1, <2>2 DEF FieldInv
<1>6. FigureInv'
  BY <1>1, NotDrawn DEF BackspaceToField, Polled
<1>7. QED
  BY <1>2, <1>4, <1>5, <1>6 DEF IInv

(* Closing the dialog may drop TEXTINPUTs, and no event of a key.          *)
LEMMA CloseDialogKeeps == IInv /\ CloseDialog => IInv'
<1>1. SUFFICES ASSUME IInv, CloseDialog PROVE IInv'
  OBVIOUS
<1>2. Types'
  BY <1>1 DEF IInv, Types, CloseDialog, playerVars
<1>3. \A key \in Controls : ~OfKey(Head(queue), key)
  BY <1>1, ControlKeys DEF CloseDialog, OfKey, Key
<1>4. queue # <<>> /\ queue \in Seq(Events) /\ Tail(queue) \in Seq(Events)
  BY <1>1, HeadTailProperties DEF IInv, QueueInv, CloseDialog, Polled
<1>5. /\ queue' \in Seq(Events)
      /\ \A key \in Controls : Told(queue', key) = Told(Tail(queue), key)
  <2>1. queue' = Tail(queue) \/ queue' = WithoutTexts(Tail(queue))
    BY <1>1 DEF CloseDialog, Dequeued
  <2>2. WithoutTexts(Tail(queue)) \in Seq(Events)
    BY <1>4, ToldWithoutTexts
  <2>3. \A key \in Controls : Told(WithoutTexts(Tail(queue)), key) = Told(Tail(queue), key)
    BY <1>4, ToldWithoutTexts
  <2>4. QED
    BY <1>4, <2>1, <2>2, <2>3
<1>6. \A key \in Controls : Told(Tail(queue), key) = Told(queue, key)
  BY <1>3, <1>4, ToldTail
<1>7. QueueInv' /\ KeysInv'
  BY <1>1, <1>5, <1>6, SameTold DEF IInv, CloseDialog, playerVars, QueueInv
<1>8. FieldInv'
  BY <1>1 DEF IInv, FieldInv, CloseDialog
<1>9. FigureInv'
  BY <1>1, NotDrawn DEF CloseDialog, Polled
<1>10. QED
  BY <1>2, <1>7, <1>8, <1>9 DEF IInv

(* Nothing of what the queue and the players know changes.                 *)
LEMMA SameKeys ==
  ASSUME QueueInv, KeysInv, UNCHANGED <<queue, held, activeKeys, lost>>
  PROVE  QueueInv' /\ KeysInv'
<1>1. \A key \in Controls : Told(queue', key) = Told(queue, key)
  OBVIOUS
<1>2. QED
  BY <1>1, SameTold DEF QueueInv

(* The end of the polling changes none of it.                              *)
LEMMA EndPollKeeps == IInv /\ EndPoll => IInv'
<1>1. SUFFICES ASSUME IInv, EndPoll PROVE IInv'
  OBVIOUS
<1>2. Types'
  BY <1>1 DEF IInv, Types, EndPoll, dialogVars, playerVars
<1>3. QueueInv' /\ KeysInv'
  BY <1>1, SameKeys DEF IInv, EndPoll, playerVars
<1>4. FieldInv'
  BY <1>1 DEF IInv, FieldInv, EndPoll, dialogVars
<1>5. FigureInv'
  BY <1>1, NotDrawn DEF EndPoll
<1>6. QED
  BY <1>2, <1>3, <1>4, <1>5 DEF IInv

(* A player goes where one of its keys means, or stands.                   *)
LEMMA MovesIs ==
  ASSUME NEW p \in Players
  PROVE  /\ Moves(p) \in {"none"} \cup {Directions[n] : n \in 1 .. 4}
         /\ Moves(p) # "none" => activeKeys[p] # {}
<1> DEFINE wanted == {n \in 1 .. 4 : \E key \in activeKeys[p] : Means[key] = Directions[n]}
           n == CHOOSE i \in wanted : \A other \in wanted : other <= i
<1>1. Moves(p) = IF wanted = {} THEN "none" ELSE Directions[n]
  BY DEF Moves
<1>2. wanted # {} => activeKeys[p] # {}
  OBVIOUS
<1>3. wanted \subseteq 1 .. 4
  OBVIOUS
<1> HIDE DEF wanted
<1>4. ASSUME wanted # {}
      PROVE  n \in 1 .. 4
  <2>1. wanted \subseteq 0 .. 4 /\ 4 \in Nat
    BY <1>3
  <2>2. PICK i \in wanted : \A other \in wanted : i >= other
    BY <1>4, <2>1, GreatestNumber
  <2>3. \A other \in wanted : other <= i
    BY <1>3, <2>2
  <2>4. n \in wanted
    BY <2>3
  <2>5. QED
    BY <1>3, <2>4
<1> HIDE DEF n
<1>5. QED
  BY <1>1, <1>2, <1>4

(* A figure that is moved has a key that its player counts as pressed.     *)
LEMMA updateKeeps == IInv /\ update => IInv'
<1>1. SUFFICES ASSUME IInv, update PROVE IInv'
  OBVIOUS
<1>2. Types'
  <2>1. direction' \in [Players -> {"none"} \cup {Directions[n] : n \in 1 .. 4}]
    BY <1>1, MovesIs DEF IInv, Types, update
  <2>2. QED
    BY <1>1, <2>1 DEF IInv, Types, update, dialogVars
<1>3. QueueInv' /\ KeysInv'
  BY <1>1, SameKeys DEF IInv, update
<1>4. FieldInv'
  BY <1>1 DEF IInv, FieldInv, update, dialogVars
<1>5. FigureInv'
  <2>1. ASSUME ~m_dialogActive', NEW p \in Players, direction'[p] # "none"
        PROVE  activeKeys'[p] # {}
    <3>1. direction'[p] = Moves(p) /\ activeKeys' = activeKeys
      BY <1>1, <2>1 DEF update, dialogVars
    <3>2. QED
      BY <2>1, <3>1, MovesIs
  <2>2. QED
    BY <2>1 DEF FigureInv
<1>6. QED
  BY <1>2, <1>3, <1>4, <1>5 DEF IInv

(* The drawing changes none of it.                                         *)
LEMMA drawKeeps == IInv /\ draw => IInv'
<1>1. SUFFICES ASSUME IInv, draw PROVE IInv'
  OBVIOUS
<1>2. pc' \in {"crashed", "events", "stopped"}
  BY <1>1 DEF draw
<1>3. Types'
  BY <1>1, <1>2 DEF IInv, Types, draw, dialogVars, playerVars
<1>4. QueueInv' /\ KeysInv'
  BY <1>1, SameKeys DEF IInv, draw, playerVars
<1>5. FieldInv'
  BY <1>1 DEF IInv, FieldInv, draw, dialogVars
<1>6. FigureInv'
  BY <1>2, NotDrawn
<1>7. QED
  BY <1>3, <1>4, <1>5, <1>6 DEF IInv

(* What the user does comes behind the rest of the queue.                  *)
LEMMA Queued ==
  ASSUME IInv, NEW e \in Events, NEW events,
         events = <<e>> \/ \E d \in Events : d.type = "text" /\ events = <<e>> \o <<d>>,
         Queue(events), held' \subseteq Controls,
         \A key \in Controls : IF OfKey(e, key) THEN key \in held' <=> e.type = "down"
                                                ELSE key \in held' <=> key \in held
  PROVE  IInv'
<1>1. /\ pc = "events" /\ queue' = queue \o events /\ queue \in Seq(Events)
      /\ UNCHANGED <<m_running, pc, lost, dialogVars, playerVars>>
  BY DEF Queue, IInv, QueueInv
<1>2. /\ queue' \in Seq(Events)
      /\ \A key : Told(queue', key) = IF OfKey(e, key) THEN e.type ELSE Told(queue, key)
  <2>1. /\ queue \o <<e>> = Append(queue, e) /\ Append(queue, e) \in Seq(Events)
        /\ \A key : Told(Append(queue, e), key) = IF OfKey(e, key) THEN e.type ELSE Told(queue, key)
    BY <1>1, AppendIsConcat, AppendProperties, ToldBehind
  <2>2. CASE events = <<e>>
    BY <1>1, <2>1, <2>2
  <2>3. CASE \E d \in Events : d.type = "text" /\ events = <<e>> \o <<d>>
    <3>1. PICK d \in Events : d.type = "text" /\ events = <<e>> \o <<d>>
      BY <2>3
    <3> DEFINE t == Append(queue, e)
    <3>2. t \in Seq(Events) /\ t = queue \o <<e>> /\ <<e>> \in Seq(Events) /\ <<d>> \in Seq(Events)
      BY <2>1
    <3>3. queue' = t \o <<d>>
      BY <1>1, <3>1, <3>2, ConcatAssociative
    <3> HIDE DEF t
    <3>4. t \o <<d>> = Append(t, d) /\ Append(t, d) \in Seq(Events)
      BY <3>2, AppendIsConcat, AppendProperties
    <3>5. \A key : ~OfKey(d, key)
      BY <3>1 DEF OfKey
    <3>6. \A key : Told(Append(t, d), key) = Told(t, key)
      BY <3>2, <3>5, ToldBehind
    <3>7. QED
      BY <2>1, <3>3, <3>4, <3>6 DEF t
  <2>4. QED
    BY <2>2, <2>3
<1>3. Types'
  BY <1>1 DEF IInv, Types, dialogVars, playerVars
<1>4. QueueInv'
  BY <1>2 DEF QueueInv
<1>5. KeysInv'
  <2>1. ASSUME NEW p \in Players, NEW key \in controlKeys[p]
        PROVE  Knows(p, key)'
    <3>1. Knows(p, key) /\ key \in Controls
      BY ControlKeys DEF IInv, KeysInv
    <3>2. CASE OfKey(e, key)
      <4>1. Told(queue', key) = e.type /\ e.type \in {"down", "up"}
        BY <1>2, <3>2 DEF OfKey
      <4>2. key \in held' <=> e.type = "down"
        BY <3>1, <3>2
      <4>3. QED
        BY <4>1, <4>2 DEF Knows
    <3>3. CASE ~OfKey(e, key)
      <4>1. Told(queue', key) = Told(queue, key) /\ (key \in held' <=> key \in held)
        BY <1>2, <3>1, <3>3
      <4>2. QED
        BY <1>1, <3>1, <4>1 DEF Knows, playerVars
    <3>4. QED
      BY <3>2, <3>3
  <2>2. QED
    BY <2>1 DEF KeysInv
<1>6. FieldInv'
  BY <1>1 DEF IInv, FieldInv, dialogVars
<1>7. FigureInv'
  BY <1>1, NotDrawn
<1>8. QED
  BY <1>3, <1>4, <1>5, <1>6, <1>7 DEF IInv

(* A press comes behind the queue, perhaps with a TEXTINPUT.               *)
LEMMA PressKeeps ==
  ASSUME IInv, NEW key \in UserKeys, Press(key)
  PROVE  IInv'
<1> DEFINE e == Event("down", key)
           d == Event("text", key)
           events == <<e>> \o Typing(key)
<1>1. Queue(events) /\ held' = held \cup ({key} \cap Controls)
  BY DEF Press
<1>2. e \in Events /\ e.type = "down" /\ e.key = key
  BY DEF Event, Events, EventType
<1>3. key \in DOMAIN Typed => d \in Events /\ d.type = "text"
  BY DEF Event, Events, EventType
<1>4. events = <<e>> \/ (key \in DOMAIN Typed /\ events = <<e>> \o <<d>>)
  <2>1. Typing(key) = <<>> \/ (key \in DOMAIN Typed /\ Typing(key) = <<d>>)
    BY DEF Typing
  <2> HIDE DEF d
  <2>2. <<e>> \o <<>> = <<e>>
    BY <1>2, ConcatEmptySeq
  <2>3. QED
    BY <2>1, <2>2
<1> HIDE DEF e, d, events
<1>5. events = <<e>> \/ \E x \in Events : x.type = "text" /\ events = <<e>> \o <<x>>
  BY <1>3, <1>4
<1>6. held' \subseteq Controls
  BY <1>1 DEF IInv, Types
<1>7. \A k \in Controls : IF OfKey(e, k) THEN k \in held' <=> e.type = "down"
                                         ELSE k \in held' <=> k \in held
  BY <1>1, <1>2 DEF OfKey
<1>8. QED
  BY <1>1, <1>2, <1>5, <1>6, <1>7, Queued

(* A release comes behind the queue.                                       *)
LEMMA ReleaseKeeps ==
  ASSUME IInv, NEW key \in Controls, Release(key)
  PROVE  IInv'
<1> DEFINE e == Event("up", key)
           events == <<e>>
<1>1. Queue(events) /\ held' = held \ {key} /\ events = <<e>>
  BY DEF Release
<1>2. e \in Events /\ e.type = "up" /\ e.key = key
  BY DEF Event, Events, EventType, UserKeys
<1> HIDE DEF e, events
<1>3. held' \subseteq Controls
  BY <1>1 DEF IInv, Types
<1>4. \A k \in Controls : IF OfKey(e, k) THEN k \in held' <=> e.type = "down"
                                         ELSE k \in held' <=> k \in held
  BY <1>1, <1>2 DEF OfKey
<1>5. QED
  BY <1>1, <1>2, <1>3, <1>4, Queued

(* A mouse button and the closing of the window are of no key.             *)
LEMMA OtherKeeps ==
  ASSUME IInv, NEW type \in {"button", "quit"}, held' = held, Queue(<<Event(type, "none")>>)
  PROVE  IInv'
<1> DEFINE e == Event(type, "none")
           events == <<e>>
<1>1. Queue(events) /\ events = <<e>>
  OBVIOUS
<1>2. e \in Events /\ e.type \notin {"down", "up"}
  BY DEF Event, Events, EventType
<1> HIDE DEF e, events
<1>3. held' \subseteq Controls
  BY DEF IInv, Types
<1>4. \A k \in Controls : IF OfKey(e, k) THEN k \in held' <=> e.type = "down"
                                         ELSE k \in held' <=> k \in held
  BY <1>2 DEF OfKey
<1>5. QED
  BY <1>1, <1>2, <1>3, <1>4, Queued

(* All that the user does.                                                 *)
LEMMA UserKeeps == IInv /\ User => IInv'
<1>1. SUFFICES ASSUME IInv, User PROVE IInv'
  OBVIOUS
<1>2. CASE \E key \in UserKeys : Press(key)
  BY <1>1, <1>2, PressKeeps
<1>3. CASE \E key \in Controls : Release(key)
  BY <1>1, <1>3, ReleaseKeeps
<1>4. CASE Mouse
  BY <1>1, <1>4, OtherKeeps DEF Mouse
<1>5. CASE CloseWindow
  BY <1>1, <1>5, OtherKeeps DEF CloseWindow
<1>6. QED
  BY <1>1, <1>2, <1>3, <1>4, <1>5 DEF User, UserKeys

(* Steps that change nothing.                                              *)
LEMMA StutterKeeps == IInv /\ UNCHANGED vars => IInv'
<1>1. SUFFICES ASSUME IInv, UNCHANGED vars PROVE IInv'
  OBVIOUS
<1>2. Types'
  BY <1>1 DEF IInv, Types, vars, dialogVars, playerVars
<1>3. QueueInv' /\ KeysInv'
  BY <1>1, SameKeys DEF IInv, vars, playerVars
<1>4. FieldInv' /\ FigureInv'
  BY <1>1 DEF IInv, FieldInv, FigureInv, vars, dialogVars, playerVars
<1>5. QED
  BY <1>2, <1>3, <1>4 DEF IInv

-----------------------------------------------------------------------------
(* The theorems.                                                           *)

(* The inductive invariant holds in every state.                           *)
THEOREM Invariance == Spec => []IInv
<1>1. IInv /\ [Next]_vars => IInv'
  BY QuitKeeps, KeyToPlayersKeeps, OpenDialogKeeps, TextToNobodyKeeps, OtherButtonKeeps,
     TextToFieldKeeps, BackspaceToFieldKeeps, CloseDialogKeeps, KeyToDialogKeeps,
     EndPollKeeps, updateKeeps, drawKeeps, UserKeeps, StutterKeeps DEF Next
<1>2. QED
  BY InitIInv, <1>1, PTL DEF Spec

(* The variables have their types; an open dialog has the focus and the    *)
(* text input.                                                             *)
THEOREM TypeCorrect == Spec => []TypeOK
  BY Invariance, TypesHold, PTL

(* A figure that goes on moving with none of its keys pressed goes by a    *)
(* key whose last event went to the dialog.                                *)
THEOREM StuckCorrect == Spec => []StuckOnlyByDialog
<1>1. IInv => StuckOnlyByDialog
  <2>1. SUFFICES
          ASSUME IInv, NEW p \in Players
          PROVE  /\ \A key \in controlKeys[p] :
                      Pending(key) \/ key \in lost \/ (key \in activeKeys[p] <=> key \in held)
                 /\ pc = "draw" /\ ~m_dialogActive /\ direction[p] # "none" =>
                      \E key \in controlKeys[p] : key \in held \/ Pending(key) \/ key \in lost
    BY DEF StuckOnlyByDialog
  <2>2. ASSUME NEW key \in controlKeys[p]
        PROVE  Pending(key) \/ key \in lost \/ (key \in activeKeys[p] <=> key \in held)
    <3>1. Told(queue, key) = "nothing" <=> Places(queue, key) = {}
      BY <2>1, ToldRange DEF IInv, QueueInv
    <3>2. Pending(key) <=> Places(queue, key) # {}
      BY DEF Pending, Places, OfKey
    <3>3. QED
      BY <2>1, <3>1, <3>2 DEF IInv, KeysInv, Knows
  <2>3. ASSUME pc = "draw", ~m_dialogActive, direction[p] # "none"
        PROVE  \E key \in controlKeys[p] : key \in held \/ Pending(key) \/ key \in lost
    <3>1. PICK key \in activeKeys[p] : TRUE
      BY <2>1, <2>3 DEF IInv, FigureInv
    <3>2. key \in controlKeys[p]
      BY <2>1 DEF IInv, Types
    <3>3. QED
      BY <2>2, <3>2
  <2>4. QED
    BY <2>2, <2>3
<1>2. QED
  BY Invariance, <1>1, PTL

(* The lines of the field, joined, are the bytes typed, less the last one  *)
(* for every backspace: no wrapping of TextField drops or repeats a byte.  *)
THEOREM TextCorrect == Spec => []TextIsTyped
<1>1. IInv => TextIsTyped
  BY DEF IInv, FieldInv, TextIsTyped
<1>2. QED
  BY Invariance, <1>1, PTL
=============================================================================
