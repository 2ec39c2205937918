--------------------------- MODULE SequenceLemmas ---------------------------
(***************************************************************************)
(* Facts about sequences and numbers that the proofs about the streams of  *)
(* a connection and about the paths of a file request rest on.             *)
(*                                                                         *)
(* FlattenSeq is defined with a function over the indices.  The induction  *)
(* it needs is that over the elements of a set, from the theorem that the  *)
(* numbers are well-founded.                                               *)
(***************************************************************************)
EXTENDS SequencesExt, SequenceTheorems, WellFoundedInduction, TLAPS

(* Numbers in their order.                                                 *)
Less == {p \in Nat \X Nat : p[1] < p[2]}

(* Every set of numbers that is not empty has a least element.             *)
LEMMA LeastElement ==
    ASSUME NEW T, T \subseteq Nat, T # {}
    PROVE  \E x \in T : \A y \in T : x <= y
<1>1. OpToRel(<, Nat) = Less
  BY DEF OpToRel, Less
<1>2. PICK x \in T : \A y \in T : ~ (<<y, x>> \in Less)
  BY <1>1, NatLessThanWellFounded, WFMin
<1>3. ASSUME NEW y \in T PROVE x <= y
  <2>1. <<y, x>> \in Nat \X Nat
    OBVIOUS
  <2>2. ~(y < x)
    BY <1>2, <2>1 DEF Less
  <2> QED
    BY <2>1, <2>2
<1> QED
  BY <1>3

(* A set that holds 0 and every successor holds every number.              *)
LEMMA Induction ==
    ASSUME NEW T, 0 \in T, \A n \in Nat : n \in T => n + 1 \in T
    PROVE  Nat \subseteq T
<1> DEFINE U == Nat \ T
<1> SUFFICES ASSUME U # {} PROVE FALSE
  OBVIOUS
<1>1. PICK x \in U : \A y \in U : x <= y
  BY LeastElement
<1>2. x # 0 /\ x - 1 \in Nat /\ x - 1 \notin U
  BY <1>1
<1> QED
  BY <1>1, <1>2

Associative(S) == \A a, b, c \in Seq(S) : (a \o b) \o c = a \o (b \o c)

(* Concatenation may be regrouped.                                         *)
LEMMA ConcatIsAssociative == ASSUME NEW S PROVE Associative(S)
<1>1. ASSUME NEW a \in Seq(S), NEW b \in Seq(S), NEW c \in Seq(S)
      PROVE  (a \o b) \o c = a \o (b \o c)
  BY ConcatAssociative
<1> QED
  BY <1>1, Zenon DEF Associative

(* The same for the indices of a sequence.                                 *)
LEMMA IndexInduction ==
    ASSUME NEW n \in Nat, NEW T, 1 \in T,
           \A i \in 2..n : i - 1 \in T => i \in T
    PROVE  1..n \subseteq T
<1> DEFINE U == (1..n) \ T
<1> SUFFICES ASSUME U # {} PROVE FALSE
  OBVIOUS
<1>0. U \subseteq Nat
  OBVIOUS
<1>1. PICK x \in U : \A y \in U : x <= y
  <2> HIDE DEF U
  <2> QED
    BY <1>0, LeastElement
<1>2. x \in 2..n /\ x - 1 \in 1..n /\ x - 1 \notin U
  BY <1>1
<1> QED
  BY <1>1, <1>2

(* f holds the flattened beginnings of p. *)
Flattens(f, p, n) ==
    f = [i \in 1..n |-> IF i = 1 THEN p[i] ELSE f[i - 1] \o p[i]]

(* There is such a function: by induction on n, the next one extends it.   *)
LEMMA FlattensExists ==
    ASSUME NEW p, NEW n \in Nat
    PROVE  \E f : Flattens(f, p, n)
<1> DEFINE T == {m \in Nat : \E f : Flattens(f, p, m)}
<1>1. 0 \in T
  <2>1. Flattens([i \in 1..0 |-> 0], p, 0)
    BY DEF Flattens
  <2> QED
    BY <2>1
<1>2. ASSUME NEW m \in Nat, m \in T PROVE m + 1 \in T
  <2>1. PICK g : Flattens(g, p, m)
    BY <1>2
  <2> DEFINE h == [i \in 1..(m + 1) |->
                     IF i = m + 1 THEN IF i = 1 THEN p[i] ELSE g[m] \o p[i]
                     ELSE g[i]]
  <2>2. \A i \in 1..m : g[i] = IF i = 1 THEN p[i] ELSE g[i - 1] \o p[i]
    BY <2>1 DEF Flattens
  <2>3. \A i \in 1..(m + 1) : h[i] = IF i = 1 THEN p[i] ELSE h[i - 1] \o p[i]
    BY <2>2
  <2>4. Flattens(h, p, m + 1)
    <3> HIDE DEF h
    <3>1. h = [i \in 1..(m + 1) |-> h[i]]
      BY DEF h
    <3> QED
      BY <2>3, <3>1 DEF Flattens
  <2> QED
    BY <2>4
<1> HIDE DEF T
<1>3. n \in T
  BY <1>1, <1>2, Induction
<1> QED
  BY <1>3 DEF T

(* So FlattenSeq is the last value of one.                                 *)
LEMMA FlattenUnfolds ==
    ASSUME NEW p, Len(p) \in Nat \ {0}
    PROVE  \E f : Flattens(f, p, Len(p)) /\ FlattenSeq(p) = f[Len(p)]
<1> DEFINE F == CHOOSE f : Flattens(f, p, Len(p))
<1>1. Flattens(F, p, Len(p))
  BY FlattensExists
<1>2. FlattenSeq(p) = F[Len(p)]
  BY DEF FlattenSeq, Flattens
<1> QED
  BY <1>1, <1>2

(* Its values, without the case distinction.                               *)
LEMMA FlattenValues ==
    ASSUME NEW S, NEW p \in Seq(Seq(S)), p # <<>>,
           NEW f, Flattens(f, p, Len(p))
    PROVE  /\ f[1] = p[1]
           /\ \A i \in 2..Len(p) : f[i] = f[i - 1] \o p[i]
           /\ \A i \in 1..Len(p) : f[i] \in Seq(S)
<1> DEFINE T == {i \in 1..Len(p) : f[i] \in Seq(S)}
<1>1. Len(p) \in Nat \ {0} /\ \A i \in 1..Len(p) : p[i] \in Seq(S)
  BY EmptySeq, ElementOfSeq
<1>2. \A i \in 1..Len(p) : f[i] = IF i = 1 THEN p[i] ELSE f[i - 1] \o p[i]
  BY DEF Flattens
<1>3. f[1] = p[1]
  BY <1>1, <1>2
<1>4. ASSUME NEW i \in 2..Len(p) PROVE f[i] = f[i - 1] \o p[i]
  <2>1. i \in 1..Len(p) /\ i # 1
    BY <1>1
  <2> QED
    BY <1>2, <2>1
<1>5. 1 \in T
  BY <1>1, <1>3
<1>6. ASSUME NEW i \in 2..Len(p), i - 1 \in T PROVE i \in T
  <2>1. f[i - 1] \in Seq(S) /\ i \in 1..Len(p) /\ p[i] \in Seq(S)
    BY <1>1, <1>6
  <2>2. f[i - 1] \o p[i] \in Seq(S)
    BY <2>1, ConcatProperties
  <2> QED
    BY <1>4, <2>1, <2>2
<1> HIDE DEF T
<1>7. 1..Len(p) \subseteq T
  BY <1>1, <1>5, <1>6, IndexInduction
<1> QED
  BY <1>3, <1>4, <1>7 DEF T

(* What is flattened is a sequence of what the parts are sequences of.     *)
LEMMA FlattenType ==
    ASSUME NEW S, NEW p \in Seq(Seq(S))
    PROVE  FlattenSeq(p) \in Seq(S)
<1>1. CASE p = <<>>
  <2>1. FlattenSeq(<<>>) = <<>>
    BY DEF FlattenSeq
  <2> QED
    BY <1>1, <2>1, EmptySeq
<1>2. CASE p # <<>>
  <2>1. Len(p) \in Nat \ {0}
    BY <1>2, EmptySeq
  <2>2. PICK f : Flattens(f, p, Len(p)) /\ FlattenSeq(p) = f[Len(p)]
    BY <2>1, FlattenUnfolds
  <2>3. \A i \in 1..Len(p) : f[i] \in Seq(S)
    BY <1>2, <2>2, FlattenValues
  <2> QED
    BY <2>1, <2>2, <2>3
<1> QED
  BY <1>1, <1>2

(* The first part comes first, then the others flattened.                  *)
LEMMA FlattenFirst ==
    ASSUME NEW S, NEW p \in Seq(Seq(S)), p # <<>>
    PROVE  FlattenSeq(p) = p[1] \o FlattenSeq(Tail(p))
<1> DEFINE n == Len(p)
           q == Tail(p)
<1>0. Associative(S)
  BY ConcatIsAssociative
<1>1. /\ n \in Nat \ {0} /\ q \in Seq(Seq(S)) /\ Len(q) = n - 1
      /\ \A i \in 1..(n - 1) : q[i] = p[i + 1]
      /\ \A i \in 1..n : p[i] \in Seq(S)
  BY EmptySeq, HeadTailProperties, ElementOfSeq
<1>2. PICK f : Flattens(f, p, n) /\ FlattenSeq(p) = f[n]
  BY <1>1, FlattenUnfolds
<1>3. /\ f[1] = p[1]
      /\ \A i \in 2..Len(p) : f[i] = f[i - 1] \o p[i]
      /\ \A i \in 1..Len(p) : f[i] \in Seq(S)
  BY <1>2, FlattenValues
<1> HIDE DEF n, q
<1>4. CASE n = 1
  <2>1. q = <<>>
    <3>1. q \in Seq(Seq(S)) /\ Len(q) = 0
      BY <1>1, <1>4
    <3> QED
      BY <3>1, EmptySeq
  <2>2. FlattenSeq(q) = <<>>
    BY <2>1 DEF FlattenSeq
  <2>3. p[1] \o <<>> = p[1]
    BY <1>1, ConcatEmptySeq
  <2> QED
    BY <1>2, <1>3, <1>4, <2>2, <2>3 DEF q
<1>5. CASE n # 1
  <2>1. Len(q) \in Nat \ {0} /\ q # <<>>
    <3>1. Len(q) \in Nat \ {0}
      BY <1>1, <1>5
    <3> QED
      BY <3>1, EmptySeq
  <2>2. PICK g : Flattens(g, q, Len(q)) /\ FlattenSeq(q) = g[Len(q)]
    BY <2>1, FlattenUnfolds
  <2>3. /\ g[1] = q[1]
        /\ \A i \in 2..Len(q) : g[i] = g[i - 1] \o q[i]
        /\ \A i \in 1..Len(q) : g[i] \in Seq(S)
    BY <1>1, <2>1, <2>2, FlattenValues
  <2> DEFINE T == {i \in 1..(n - 1) : f[i + 1] = p[1] \o g[i]}
  <2>4. 1 \in T
    <3>1. 2 \in 2..n /\ 1 \in 1..(n - 1) /\ 2 - 1 = 1 /\ 1 + 1 = 2
      BY <1>1, <1>5
    <3>2. f[2] = f[1] \o p[2] /\ q[1] = p[2]
      BY <1>1, <1>3, <3>1 DEF n
    <3> QED
      BY <1>3, <2>3, <3>1, <3>2
  <2>5. ASSUME NEW i \in 2..(n - 1), i - 1 \in T PROVE i \in T
    <3>1. /\ i + 1 \in 2..n /\ (i + 1) - 1 = i /\ (i - 1) + 1 = i /\ 1 \in 1..n
          /\ i \in 1..(n - 1) /\ i - 1 \in 1..(n - 1) /\ i + 1 \in 1..n
      BY <1>1
    <3>2. f[i + 1] = f[i] \o p[i + 1]
      BY <1>3, <3>1 DEF n
    <3>3. f[i] = p[1] \o g[i - 1]
      BY <2>5, <3>1
    <3>4. g[i] = g[i - 1] \o p[i + 1]
      BY <1>1, <2>3, <3>1
    <3>5. p[1] \in Seq(S) /\ g[i - 1] \in Seq(S) /\ p[i + 1] \in Seq(S)
      BY <1>1, <2>3, <3>1
    <3>6. (p[1] \o g[i - 1]) \o p[i + 1] = p[1] \o (g[i - 1] \o p[i + 1])
      BY <1>0, <3>5, Zenon DEF Associative
    <3> QED
      BY <3>1, <3>2, <3>3, <3>4, <3>6
  <2> HIDE DEF T
  <2>6. n - 1 \in T /\ (n - 1) + 1 = n
    <3>1. n - 1 \in Nat /\ n - 1 \in 1..(n - 1) /\ (n - 1) + 1 = n
      BY <1>1, <1>5
    <3>2. 1..(n - 1) \subseteq T
      BY <2>4, <2>5, <3>1, IndexInduction
    <3> QED
      BY <3>1, <3>2
  <2>7. f[n] = p[1] \o g[n - 1]
    BY <2>6 DEF T
  <2> QED
    BY <1>1, <1>2, <2>2, <2>7 DEF q
<1> QED
  BY <1>4, <1>5

(* A last part comes last.                                                 *)
LEMMA FlattenLast ==
    ASSUME NEW S, NEW p \in Seq(Seq(S)), NEW x \in Seq(S)
    PROVE  FlattenSeq(Append(p, x)) = FlattenSeq(p) \o x
<1> DEFINE n == Len(p)
           q == Append(p, x)
<1>1. /\ n \in Nat /\ q \in Seq(Seq(S)) /\ Len(q) = n + 1 /\ q # <<>>
      /\ \A i \in 1..n : q[i] = p[i]
      /\ q[n + 1] = x
  BY LenProperties, AppendProperties
<1> HIDE DEF q
<1>2. PICK g : Flattens(g, q, n + 1) /\ FlattenSeq(q) = g[n + 1]
  BY <1>1, FlattenUnfolds
<1>3. /\ g[1] = q[1]
      /\ \A i \in 2..(n + 1) : g[i] = g[i - 1] \o q[i]
      /\ \A i \in 1..(n + 1) : g[i] \in Seq(S)
  <2>1. Flattens(g, q, Len(q))
    BY <1>1, <1>2
  <2>2. /\ g[1] = q[1]
        /\ \A i \in 2..Len(q) : g[i] = g[i - 1] \o q[i]
        /\ \A i \in 1..Len(q) : g[i] \in Seq(S)
    BY <1>1, <2>1, FlattenValues
  <2> QED
    BY <1>1, <2>2
<1>4. CASE p = <<>>
  <2>1. n = 0 /\ FlattenSeq(p) = <<>>
    BY <1>4 DEF FlattenSeq
  <2>2. FlattenSeq(q) = x
    BY <1>1, <1>2, <1>3, <2>1
  <2>3. <<>> \o x = x
    BY ConcatEmptySeq
  <2> QED
    BY <2>1, <2>2, <2>3 DEF q
<1>5. CASE p # <<>>
  <2>1. n \in Nat \ {0}
    BY <1>5, EmptySeq
  <2>2. PICK f : Flattens(f, p, n) /\ FlattenSeq(p) = f[n]
    BY <2>1, FlattenUnfolds
  <2>3. /\ f[1] = p[1]
        /\ \A i \in 2..n : f[i] = f[i - 1] \o p[i]
    <3>1. Flattens(f, p, Len(p))
      BY <2>2
    <3>2. /\ f[1] = p[1]
          /\ \A i \in 2..Len(p) : f[i] = f[i - 1] \o p[i]
          /\ \A i \in 1..Len(p) : f[i] \in Seq(S)
      <4> HIDE DEF n
      <4> QED
        BY <1>5, <3>1, FlattenValues
    <3> QED
      BY <3>2
  <2> HIDE DEF n
  <2> DEFINE T == {i \in 1..n : g[i] = f[i]}
  <2>4. 1 \in T
    <3>1. 1 \in 1..n
      BY <2>1
    <3> QED
      BY <1>1, <1>3, <2>3, <3>1
  <2>5. ASSUME NEW i \in 2..n, i - 1 \in T PROVE i \in T
    <3>1. i \in 1..n /\ i \in 2..(n + 1)
      BY <2>1
    <3>2. g[i] = g[i - 1] \o q[i] /\ f[i] = f[i - 1] \o p[i] /\ q[i] = p[i]
      BY <1>1, <1>3, <2>3, <3>1
    <3> QED
      BY <2>5, <3>1, <3>2
  <2> HIDE DEF T
  <2>6. n \in T
    <3>1. n \in 1..n /\ n \in Nat
      BY <2>1
    <3> QED
      BY <2>4, <2>5, <3>1, IndexInduction
  <2>7. g[n + 1] = g[n] \o q[n + 1]
    <3>1. n + 1 \in 2..(n + 1) /\ (n + 1) - 1 = n
      BY <2>1
    <3> QED
      BY <1>3, <3>1
  <2> QED
    BY <1>1, <1>2, <2>2, <2>6, <2>7 DEF q, T
<1> QED
  BY <1>4, <1>5

Regrouped4(a, b, c, d) == ((a \o b) \o c) \o d = a \o (b \o (c \o d))

(* What a request is made of, from the left and from the right.            *)
LEMMA Regroup4 ==
    ASSUME NEW S, NEW a \in Seq(S), NEW b \in Seq(S), NEW c \in Seq(S),
           NEW d \in Seq(S)
    PROVE  Regrouped4(a, b, c, d)
<1> DEFINE x == a \o b
           z == c \o d
<1>1. x \in Seq(S) /\ z \in Seq(S)
  OBVIOUS
<1>2. x \o z = a \o (b \o z)
  <2> HIDE DEF z
  <2> QED
    BY <1>1
<1>3. (x \o c) \o d = x \o z
  <2> HIDE DEF x
  <2> QED
    BY <1>1
<1> QED
  BY <1>2, <1>3, Zenon DEF Regrouped4

Regrouped5(a, b, c, d, e) ==
    (((a \o b) \o c) \o d) \o e = a \o (b \o (c \o (d \o e)))
(* The same for five.                                                    *)
LEMMA Regroup5 ==
    ASSUME NEW S, NEW a \in Seq(S), NEW b \in Seq(S), NEW c \in Seq(S),
           NEW d \in Seq(S), NEW e \in Seq(S)
    PROVE  Regrouped5(a, b, c, d, e)
<1> DEFINE x == a \o b
           y == x \o c
           z == d \o e
           w == c \o z
<1>1. x \in Seq(S) /\ z \in Seq(S)
  OBVIOUS
<1>2. x \o w = a \o (b \o w)
  <2> HIDE DEF w, z
  <2>1. w \in Seq(S)
    BY <1>1 DEF w
  <2> QED
    BY <2>1 DEF x
<1>3. y \o z = x \o w
  <2> HIDE DEF x, z
  <2> QED
    BY <1>1
<1>4. (y \o d) \o e = y \o z
  <2> HIDE DEF x
  <2>1. y \in Seq(S)
    BY <1>1
  <2> HIDE DEF y
  <2> QED
    BY <2>1
<1> QED
  BY <1>2, <1>3, <1>4, Zenon DEF Regrouped5
-----------------------------------------------------------------------------
(* Greatest elements, pieces and prefixes.                                 *)

(* The greatest element of a set, if it has one.                         *)
LEMMA MaxIs ==
    ASSUME NEW S, S \subseteq Nat, NEW m \in S, \A y \in S : y <= m
    PROVE  Max(S) = m
<1>1. \E x \in S : \A y \in S : x >= y
  OBVIOUS
<1>2. Max(S) \in S /\ \A y \in S : Max(S) >= y
  BY <1>1 DEF Max
<1>3. Max(S) \in Nat /\ m \in Nat /\ Max(S) >= m /\ Max(S) <= m
  BY <1>2
<1> QED
  BY <1>3

(* A set of numbers up to a bound has a greatest one.                      *)
LEMMA MaxExists ==
    ASSUME NEW n \in Nat, NEW S, S \subseteq 0..n, S # {}
    PROVE  Max(S) \in S /\ \A y \in S : y <= Max(S)
<1> DEFINE T == {n - y : y \in S}
<1>1. T \subseteq Nat /\ T # {}
  <2>1. ASSUME NEW y \in S PROVE n - y \in Nat
    BY y \in 0..n
  <2>2. PICK y : y \in S
    OBVIOUS
  <2> QED
    BY <2>1, <2>2
<1>2. PICK x \in T : \A y \in T : x <= y
  <2> HIDE DEF T
  <2> QED
    BY <1>1, LeastElement
<1>3. PICK m \in S : x = n - m
  OBVIOUS
<1>4. m \in Nat /\ \A y \in S : y <= m /\ y \in Nat
  <2> SUFFICES ASSUME NEW y \in S PROVE y <= m /\ y \in Nat /\ m \in Nat
    OBVIOUS
  <2>1. x <= n - y
    BY <1>2
  <2> QED
    BY <1>3, <2>1
<1> QED
  BY <1>4, MaxIs

(* A sequence that is not empty is its front and its last element.       *)
LEMMA SplitLast ==
    ASSUME NEW S, NEW segs \in Seq(S), segs # <<>>
    PROVE  /\ Front(segs) \in Seq(S) /\ Last(segs) \in S
           /\ segs = Append(Front(segs), Last(segs))
<1>1. PICK n : n = Len(segs)
  OBVIOUS
<1>2. n \in Nat \ {0} /\ segs \in [1..n -> S]
  BY <1>1, EmptySeq
<1>3. Front(segs) = [i \in 1..(n - 1) |-> segs[i]]
  <2>1. Front(segs) = SubSeq(segs, 1, n - 1)
    BY <1>1 DEF Front
  <2>2. SubSeq(segs, 1, n - 1) = [i \in 1..(n - 1) |-> segs[i]]
    BY <1>1, <1>2
  <2> QED
    BY <2>1, <2>2
<1>4. Front(segs) \in Seq(S) /\ Len(Front(segs)) = n - 1
  BY <1>2, <1>3
<1>5. Last(segs) = segs[n] /\ segs[n] \in S
  BY <1>1, <1>2 DEF Last
<1> DEFINE f == Front(segs)
           a == Append(f, segs[n])
<1> HIDE DEF f
<1>6. a \in Seq(S) /\ Len(a) = n /\ a[n] = segs[n] /\ \A i \in 1..(n - 1) : a[i] = f[i]
  <2>1. f \in Seq(S) /\ Len(f) = n - 1 /\ (n - 1) + 1 = n /\ segs[n] \in S
    BY <1>2, <1>4, <1>5 DEF f
  <2> QED
    BY <2>1, AppendProperties
<1>7. ASSUME NEW i \in 1..n PROVE a[i] = segs[i]
  <2>1. i = n \/ i \in 1..(n - 1)
    BY <1>2
  <2>2. i \in 1..(n - 1) => f[i] = segs[i]
    BY <1>3 DEF f
  <2> HIDE DEF a
  <2> QED
    BY <1>6, <2>1, <2>2
<1> HIDE DEF a
<1>8. a = segs
  BY <1>1, <1>6, <1>7, SeqEqual
<1> QED
  BY <1>4, <1>5, <1>8 DEF a, f

(* The front of a sequence lacks only the last element.                  *)
LEMMA FrontIs ==
    ASSUME NEW S, NEW s \in Seq(S), s # <<>>
    PROVE  /\ Front(s) \in Seq(S) /\ Len(Front(s)) = Len(s) - 1
           /\ \A k \in 1..(Len(s) - 1) : Front(s)[k] = s[k]
<1>1. PICK n \in Nat \ {0} : n = Len(s)
  BY EmptySeq
<1>2. PICK f : f = Front(s)
  OBVIOUS
<1>3. f = [k \in 1..(n - 1) |-> s[k]]
  <2>1. f = SubSeq(s, 1, n - 1)
    BY <1>1, <1>2 DEF Front
  <2> QED
    BY <1>1, <2>1
<1>4. \A k \in 1..(n - 1) : s[k] \in S
  BY <1>1
<1>5. f \in Seq(S) /\ Len(f) = n - 1 /\ \A k \in 1..(n - 1) : f[k] = s[k]
  <2>1. n - 1 \in Nat
    BY <1>1
  <2> QED
    BY <1>3, <1>4, <2>1
<1> QED
  BY <1>1, <1>2, <1>5

(* A piece of one element.                                               *)
LEMMA SubSeqOne ==
    ASSUME NEW S, NEW path \in Seq(S), NEW b \in 1..Len(path)
    PROVE  SubSeq(path, b, b) = <<path[b]>>
<1>1. PICK n \in Nat : n = Len(path)
  OBVIOUS
<1>2. b \in b..n /\ b > b - 1
  BY <1>1
<1>3. SubSeq(path, b, b) = SubSeq(path, b, b - 1) \o <<path[b]>>
  BY <1>1, <1>2, SubSeqRecursiveSecond
<1>4. SubSeq(path, b, b - 1) = <<>>
  BY <1>2
<1>5. <<>> \o <<path[b]>> = <<path[b]>>
  <2>1. <<path[b]>> \in Seq(S)
    BY <1>1
  <2> QED
    BY <2>1, ConcatEmptySeq
<1> QED
  BY <1>3, <1>4, <1>5

(* A piece and the element behind it.                                    *)
LEMMA SubSeqMore ==
    ASSUME NEW S, NEW path \in Seq(S), NEW i \in Nat, i + 1 \in 1..Len(path),
           NEW b \in 1..i
    PROVE  SubSeq(path, b, i + 1) = Append(SubSeq(path, b, i), path[i + 1])
<1>1. PICK k : k = i + 1
  OBVIOUS
<1>2. PICK n \in Nat : n = Len(path)
  OBVIOUS
<1>3. i \in Nat /\ k \in 1..n /\ b \in 1..n /\ k \in b..n /\ k - 1 = i
  BY <1>1, <1>2
<1>4. SubSeq(path, b, k) = SubSeq(path, b, k - 1) \o <<path[k]>>
  BY <1>2, <1>3, SubSeqRecursiveSecond
<1>5. SubSeq(path, b, i) \in Seq(S) /\ path[k] \in S
  <2>1. \A j \in b..i : j \in 1..n
    BY <1>3
  <2> QED
    BY <1>2, <1>3, <2>1, SubSeqProperties
<1>6. Append(SubSeq(path, b, i), path[k]) = SubSeq(path, b, i) \o <<path[k]>>
  BY <1>5, AppendIsConcat
<1> QED
  BY <1>1, <1>3, <1>4, <1>6

(* A prefix, element by element.                                         *)
LEMMA PrefixIff ==
    ASSUME NEW S, NEW s \in Seq(S), NEW t \in Seq(S)
    PROVE  IsPrefix(s, t) <=> Len(s) <= Len(t) /\ \A i \in 1..Len(s) : s[i] = t[i]
<1>1. PICK n \in Nat : n = Len(s)
  OBVIOUS
<1>2. PICK m \in Nat : m = Len(t)
  OBVIOUS
<1>3. SubSeq(s, 1, n) = [i \in 1..n |-> s[i]]
  BY <1>1
<1>4. n <= m => SubSeq(t, 1, n) = [i \in 1..n |-> t[i]]
  BY <1>1, <1>2
<1>5. n <= m => (SubSeq(s, 1, n) = SubSeq(t, 1, n) <=> \A i \in 1..n : s[i] = t[i])
  BY <1>3, <1>4
<1> QED
  BY <1>1, <1>2, <1>5 DEF IsPrefix

(* What is prepended is a prefix.                                        *)
LEMMA PrefixOfConcat ==
    ASSUME NEW S, NEW a \in Seq(S), NEW b \in Seq(S)
    PROVE  IsPrefix(a, a \o b)
<1>1. a \o b \in Seq(S) /\ Len(a \o b) = Len(a) + Len(b)
  BY ConcatProperties
<1>2. Len(a) \in Nat /\ Len(b) \in Nat
  OBVIOUS
<1>3. ASSUME NEW i \in 1..Len(a) PROVE (a \o b)[i] = a[i]
  <2>1. i \in 1..(Len(a) + Len(b)) /\ i <= Len(a)
    BY <1>2
  <2> QED
    BY <2>1, ConcatProperties
<1>4. PICK c \in Seq(S) : c = a \o b
  BY <1>1
<1>5. Len(a) <= Len(c) /\ \A i \in 1..Len(a) : a[i] = c[i]
  BY <1>1, <1>2, <1>3, <1>4
<1>6. IsPrefix(a, c)
  BY <1>5, PrefixIff
<1> QED
  BY <1>4, <1>6

(* A prefix of a prefix.                                                 *)
LEMMA PrefixTransitive ==
    ASSUME NEW S, NEW a \in Seq(S), NEW b \in Seq(S), NEW c \in Seq(S),
           IsPrefix(a, b), IsPrefix(b, c)
    PROVE  IsPrefix(a, c)
<1>1. Len(a) <= Len(b) /\ \A i \in 1..Len(a) : a[i] = b[i]
  BY PrefixIff
<1>2. Len(b) <= Len(c) /\ \A i \in 1..Len(b) : b[i] = c[i]
  BY PrefixIff
<1>3. Len(a) <= Len(c) /\ \A i \in 1..Len(a) : a[i] = c[i]
  BY <1>1, <1>2
<1> QED
  BY <1>3, PrefixIff
=============================================================================
