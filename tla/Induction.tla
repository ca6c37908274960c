------------------------------ MODULE Induction ------------------------------
(***************************************************************************)
(* Induction, stated about sets so that it can be cited: over the natural  *)
(* numbers, over sequences that grow at their end, and the existence of    *)
(* functions defined by recursion on an interval.  On it rest the laws of  *)
(* concatenation and of what the community modules fold from sequences.    *)
(***************************************************************************)
EXTENDS Integers, SequencesExt, SequenceTheorems, TLAPS, WellFoundedInduction

(* Every set of naturals that is not empty has a least element. *)
THEOREM LeastNat ==
    ASSUME NEW T \in SUBSET Nat, T # {}
    PROVE  \E x \in T : \A y \in T : x <= y
<1>. DEFINE R == {ss \in Nat \X Nat : ss[1] < ss[2]}
<1>1. IsWellFoundedOn(R, Nat)
  BY NatLessThanWellFounded DEF OpToRel
<1>2. PICK x \in T : \A y \in T : ~ (<<y, x>> \in R)
  <2>. HIDE DEF R
  <2>. QED BY <1>1, WFMin
<1>3. ASSUME NEW y \in T PROVE x <= y
  <2>1. x \in Nat /\ y \in Nat
    OBVIOUS
  <2>2. ~(y < x)
    <3>1. y < x => <<y, x>> \in R
      BY <2>1
    <3>. QED BY <3>1, <1>2
  <2>. HIDE DEF R
  <2>. QED BY <2>1, <2>2
<1>. QED BY <1>3

(* A set that holds 0 and is closed under successor holds every natural. *)
THEOREM NatInd ==
    ASSUME NEW S \in SUBSET Nat, 0 \in S, \A m \in S : m + 1 \in S
    PROVE  S = Nat
<1>. SUFFICES ASSUME Nat \ S # {} PROVE FALSE
  OBVIOUS
<1>1. PICK x \in Nat \ S : \A y \in Nat \ S : x <= y
  BY LeastNat
<1>2. x # 0 /\ x - 1 \in Nat
  BY <1>1
<1>3. x - 1 \in S
  BY <1>1, <1>2
<1>. QED BY <1>1, <1>2, <1>3

(* Induction on an interval. *)
THEOREM IntervalInd ==
    ASSUME NEW N \in Nat, NEW S, N >= 1 => 1 \in S,
           \A p \in 1..N : p \in S /\ p + 1 <= N => p + 1 \in S
    PROVE  1..N \subseteq S
<1>. DEFINE T == {k \in Nat : 1 <= k /\ k <= N => k \in S}
<1>1. 0 \in T
  OBVIOUS
<1>2. ASSUME NEW k \in T PROVE k + 1 \in T
  <2>1. CASE k = 0
    BY <2>1
  <2>2. CASE k # 0 /\ k + 1 <= N
    BY <1>2, <2>2
  <2>3. CASE k + 1 > N
    BY <2>3
  <2>. QED BY <2>1, <2>2, <2>3
<1>3. T = Nat
  <2>. HIDE DEF T
  <2>1. T \in SUBSET Nat
    BY DEF T
  <2>. QED BY <1>1, <1>2, <2>1, NatInd
<1>. QED BY <1>3

(* `f` has the first value and each next one is a step from the last. *)
IsRecursive(f, N, first, step) ==
    \A p \in 1..N : f[p] = IF p = 1 THEN first ELSE step[<<f[p - 1], p>>]
HasRecursive(N, D, first, step) == \E f \in [1..N -> D] : IsRecursive(f, N, first, step)

(* A function on an interval is defined by its first value and a step.     *)
LEMMA RecursionExists ==
    ASSUME NEW N \in Nat, NEW D, NEW first \in D, NEW step \in [D \X (1..N) -> D]
    PROVE  HasRecursive(N, D, first, step)
<1>. USE DEF IsRecursive
<1>. DEFINE S == {k \in Nat : k <= N => HasRecursive(k, D, first, step)}
<1>1. 0 \in S
  <2>1. [p \in 1..0 |-> first] \in [1..0 -> D] /\ IsRecursive([p \in 1..0 |-> first], 0, first, step)
    OBVIOUS
  <2>. QED BY <2>1 DEF HasRecursive
<1>2. ASSUME NEW k \in S PROVE k + 1 \in S
  <2>. SUFFICES ASSUME k + 1 <= N PROVE HasRecursive(k + 1, D, first, step)
    BY <1>2
  <2>1. PICK f \in [1..k -> D] : IsRecursive(f, k, first, step)
    BY <1>2 DEF HasRecursive
  <2>. DEFINE last == IF k = 0 THEN first ELSE step[<<f[k], k + 1>>]
              g == [p \in 1..(k + 1) |-> IF p = k + 1 THEN last ELSE f[p]]
  <2>2. last \in D
    <3>1. CASE k = 0
      BY <3>1
    <3>2. CASE k # 0
      <4>1. f[k] \in D /\ k + 1 \in 1..N
        BY <3>2
      <4>. QED BY <3>2, <4>1
    <3>. QED BY <3>1, <3>2
  <2>3. g \in [1..(k + 1) -> D]
    <3>. HIDE DEF last
    <3>. QED BY <2>2
  <2>4. ASSUME NEW p \in 1..(k + 1)
        PROVE  g[p] = IF p = 1 THEN first ELSE step[<<g[p - 1], p>>]
    <3>1. CASE p = k + 1
      <4>1. k # 0 => g[p - 1] = f[k]
        <5>. HIDE DEF last
        <5>. QED BY <3>1
      <4>2. g[p] = last
        <5>. HIDE DEF last
        <5>. QED BY <3>1
      <4>3. p = 1 <=> k = 0
        BY <3>1
      <4>. HIDE DEF g
      <4>4. CASE k = 0
        BY <4>2, <4>3, <4>4
      <4>5. CASE k # 0
        <5>1. <<g[p - 1], p>> = <<f[k], k + 1>>
          BY <4>1, <4>5, <3>1
        <5>. QED BY <4>2, <4>3, <4>5, <5>1
      <4>. QED BY <4>4, <4>5
    <3>2. CASE p # k + 1
      <4>1. p \in 1..k /\ g[p] = f[p] /\ (p # 1 => g[p - 1] = f[p - 1])
        <5>. HIDE DEF last
        <5>. QED BY <3>2
      <4>2. f[p] = IF p = 1 THEN first ELSE step[<<f[p - 1], p>>]
        BY <4>1, <2>1
      <4>. HIDE DEF g
      <4>. QED BY <4>1, <4>2
    <3>. QED BY <3>1, <3>2
  <2>. HIDE DEF g
  <2>. QED BY <2>3, <2>4 DEF HasRecursive
<1>3. S = Nat
  <2>. HIDE DEF S
  <2>1. S \in SUBSET Nat
    BY DEF S
  <2>. QED BY <1>1, <1>2, <2>1, NatInd
<1>. QED
  <2>. HIDE DEF S
  <2>1. N \in S
    BY <1>3
  <2>. QED BY <2>1 DEF S
-----------------------------------------------------------------------------
(* Sequences.                                                               *)

(* A stack that is not empty is its rest with its top on it. *)
LEMMA FrontLast ==
    ASSUME NEW X, NEW s \in Seq(X), s # <<>>
    PROVE  /\ Front(s) \in Seq(X) /\ Last(s) \in X /\ Len(Front(s)) = Len(s) - 1
           /\ s = Append(Front(s), Last(s)) /\ Len(s) >= 1
           /\ \A i \in 1..Len(Front(s)) : Front(s)[i] = s[i]
<1>1. Len(s) \in Nat /\ Len(s) >= 1
  BY EmptySeq
<1>2. s[Len(s)] \in X
  BY <1>1
<1>3. Front(s) \in Seq(X) /\ Len(Front(s)) = Len(s) - 1
      /\ \A i \in 1..Len(Front(s)) : Front(s)[i] = s[i]
  <2>. DEFINE m == Len(s) - 1
  <2>1. m \in Nat /\ \A i \in 1..m : s[i] \in X
    BY <1>1
  <2>2. Front(s) = SubSeq(s, 1, m)
    BY DEF Front
  <2>. HIDE DEF m
  <2>3. SubSeq(s, 1, m) \in Seq(X) /\ Len(SubSeq(s, 1, m)) = m
        /\ \A i \in 1..m : SubSeq(s, 1, m)[i] = s[i]
    BY <2>1, SubSeqProperties
  <2>. QED BY <2>2, <2>3 DEF m
<1>4. s = Append(Front(s), Last(s))
  <2>1. Append(Front(s), Last(s)) \in Seq(X) /\ Len(Append(Front(s), Last(s))) = Len(s)
        /\ \A i \in 1..Len(s) : Append(Front(s), Last(s))[i] = s[i]
    BY <1>1, <1>2, <1>3, AppendProperties DEF Last
  <2>. QED BY <2>1, SeqEqual
<1>. QED BY <1>1, <1>2, <1>3, <1>4 DEF Last

(* The front and the top of an appended stack. *)
LEMMA FrontAppend ==
    ASSUME NEW X, NEW s \in Seq(X), NEW x \in X
    PROVE  /\ Append(s, x) \in Seq(X) /\ Append(s, x) # <<>>
           /\ Front(Append(s, x)) = s /\ Last(Append(s, x)) = x
           /\ Len(Append(s, x)) = Len(s) + 1
           /\ \A i \in 1..Len(s) : Append(s, x)[i] = s[i]
           /\ Append(s, x)[Len(s) + 1] = x
<1>1. /\ Append(s, x) \in Seq(X) /\ Append(s, x) # <<>>
      /\ Len(Append(s, x)) = Len(s) + 1 /\ Len(s) \in Nat
      /\ \A i \in 1..Len(s) : Append(s, x)[i] = s[i]
      /\ Append(s, x)[Len(s) + 1] = x
  BY AppendProperties
<1>2. Front(Append(s, x)) \in Seq(X) /\ Len(Front(Append(s, x))) = Len(s)
      /\ \A i \in 1..Len(s) : Front(Append(s, x))[i] = s[i]
  <2>. DEFINE t == Append(s, x)
  <2>1. t \in Seq(X) /\ t # <<>> /\ Len(t) = Len(s) + 1 /\ Len(s) \in Nat
        /\ \A i \in 1..Len(s) : t[i] = s[i]
    BY <1>1
  <2>. HIDE DEF t
  <2>2. Front(t) \in Seq(X) /\ Len(Front(t)) = Len(t) - 1
        /\ \A i \in 1..Len(Front(t)) : Front(t)[i] = t[i]
    BY <2>1, FrontLast
  <2>3. Front(t) \in Seq(X) /\ Len(Front(t)) = Len(s) /\ \A i \in 1..Len(s) : Front(t)[i] = s[i]
    BY <2>1, <2>2
  <2>. QED BY <2>3 DEF t
<1>3. Front(Append(s, x)) = s
  BY <1>2, SeqEqual
<1>. QED BY <1>1, <1>3 DEF Last

(* Flattening adds the pieces up from the first to the last. *)
Sums(f, seqs, n) == \A p \in 1..n : f[p] = IF p = 1 THEN seqs[p] ELSE f[p - 1] \o seqs[p]

LEMMA FlattenSums ==
    ASSUME NEW X, NEW seqs \in Seq(Seq(X)), NEW n, n = Len(seqs), n >= 1
    PROVE  \E f \in [1..n -> Seq(X)] : Sums(f, seqs, n) /\ FlattenSeq(seqs) = f[n]
<1>. DEFINE step == [x \in Seq(X) \X (1..n) |-> x[1] \o seqs[x[2]]]
            Rec(f) == f = [i \in 1..n |-> IF i = 1 THEN seqs[i] ELSE f[i - 1] \o seqs[i]]
<1>0. n \in Nat /\ n >= 1 /\ n # 0 /\ \A i \in 1..n : seqs[i] \in Seq(X)
  OBVIOUS
<1>1. step \in [Seq(X) \X (1..n) -> Seq(X)]
  <2>1. \A x \in Seq(X) \X (1..n) : x[1] \o seqs[x[2]] \in Seq(X)
    BY <1>0
  <2>. QED BY <2>1
<1>2. PICK f \in [1..n -> Seq(X)] : IsRecursive(f, n, seqs[1], step)
  <2>. HIDE DEF step
  <2>0. seqs[1] \in Seq(X)
    BY <1>0
  <2>1. HasRecursive(n, Seq(X), seqs[1], step)
    BY <1>0, <1>1, <2>0, RecursionExists
  <2>. QED BY <2>1 DEF HasRecursive
<1>3. Rec(f)
  <2>1. ASSUME NEW p \in 1..n, p # 1 PROVE step[<<f[p - 1], p>>] = f[p - 1] \o seqs[p]
    <3>1. p - 1 \in 1..n
      BY <1>0, <2>1
    <3>2. f[p - 1] \in Seq(X)
      BY <3>1
    <3>. QED BY <3>2
  <2>2. \A p \in 1..n : f[p] = IF p = 1 THEN seqs[p] ELSE f[p - 1] \o seqs[p]
    <3>. HIDE DEF step
    <3>. QED BY <1>2, <2>1 DEF IsRecursive
  <2>. HIDE DEF step
  <2>. QED BY <2>2
<1>. DEFINE g == CHOOSE h : Rec(h)
<1>4. Rec(g)
  <2>. HIDE DEF Rec
  <2>. QED BY <1>3
<1>5. FlattenSeq(seqs) = g[n]
  <2>1. FlattenSeq(seqs) = (CHOOSE h : Rec(h))[n]
    BY <1>0 DEF FlattenSeq
  <2>. QED BY <2>1
<1>6. \A p \in 1..n : g[p] = IF p = 1 THEN seqs[p] ELSE g[p - 1] \o seqs[p]
  <2>. HIDE DEF g
  <2>. QED BY <1>4
<1>7. 1..n \subseteq {p \in 1..n : g[p] \in Seq(X)}
  <2>. HIDE DEF g
  <2>. DEFINE S == {p \in 1..n : g[p] \in Seq(X)}
  <2>1. 1 \in S
    <3>1. 1 \in 1..n /\ g[1] = seqs[1] /\ seqs[1] \in Seq(X)
      BY <1>0, <1>6
    <3>. QED BY <3>1
  <2>2. \A p \in 1..n : p \in S /\ p + 1 <= n => p + 1 \in S
    <3>. SUFFICES ASSUME NEW p \in 1..n, p \in S, p + 1 <= n PROVE p + 1 \in S
      OBVIOUS
    <3>1. p + 1 \in 1..n /\ p + 1 # 1 /\ (p + 1) - 1 = p
      BY <1>0
    <3>2. g[p + 1] = g[p] \o seqs[p + 1]
      BY <1>6, <3>1
    <3>3. g[p] \in Seq(X) /\ seqs[p + 1] \in Seq(X)
      BY <1>0, <3>1
    <3>4. g[p] \o seqs[p + 1] \in Seq(X)
      BY <3>3, ConcatProperties
    <3>. QED BY <3>1, <3>2, <3>4
  <2>. HIDE DEF S
  <2>3. 1..n \subseteq S
    BY <1>0, <2>1, <2>2, IntervalInd
  <2>. QED BY <2>3 DEF S
<1>8. g \in [1..n -> Seq(X)]
  <2>. HIDE DEF g
  <2>1. g = [i \in 1..n |-> IF i = 1 THEN seqs[i] ELSE g[i - 1] \o seqs[i]]
    BY <1>4
  <2>. QED BY <1>6, <1>7, <2>1
<1>. QED
  <2>. HIDE DEF g
  <2>. QED BY <1>5, <1>6, <1>8 DEF Sums

(* Flattening: nothing, and one piece more. *)
LEMMA FlattenEmpty == FlattenSeq(<<>>) = <<>>
  BY DEF FlattenSeq

LEMMA FlattenAppend ==
    ASSUME NEW X, NEW seqs \in Seq(Seq(X)), NEW s \in Seq(X)
    PROVE  FlattenSeq(seqs) \in Seq(X) /\ FlattenSeq(Append(seqs, s)) = FlattenSeq(seqs) \o s
<1>. DEFINE n == Len(seqs)
            more == Append(seqs, s)
<1>0. n \in Nat /\ \A i \in 1..n : seqs[i] \in Seq(X)
  OBVIOUS
<1>1. more \in Seq(Seq(X)) /\ Len(more) = n + 1 /\ more[n + 1] = s
      /\ \A i \in 1..n : more[i] = seqs[i]
  OBVIOUS
<1>. HIDE DEF more
<1>2. PICK f \in [1..(n + 1) -> Seq(X)] : Sums(f, more, n + 1) /\ FlattenSeq(more) = f[n + 1]
  BY <1>0, <1>1, FlattenSums
<1>3. CASE n = 0
  <2>1. seqs = <<>>
    BY <1>3
  <2>2. FlattenSeq(more) = s
    BY <1>1, <1>2, <1>3 DEF Sums
  <2>3. FlattenSeq(seqs) = <<>>
    BY <2>1, FlattenEmpty
  <2>. QED BY <2>2, <2>3 DEF more
<1>4. CASE n # 0
  <2>1. PICK g \in [1..n -> Seq(X)] : Sums(g, seqs, n) /\ FlattenSeq(seqs) = g[n]
    BY <1>0, <1>4, FlattenSums
  <2>2. 1..n \subseteq {p \in 1..n : g[p] = f[p]}
    <3>. HIDE DEF n
    <3>. DEFINE S == {p \in 1..n : g[p] = f[p]}
    <3>1. 1 \in S
      <4>1. 1 \in 1..n /\ 1 \in 1..(n + 1)
        BY <1>0, <1>4
      <4>2. g[1] = seqs[1] /\ f[1] = more[1]
        BY <1>2, <2>1, <4>1 DEF Sums
      <4>. QED BY <1>1, <4>1, <4>2
    <3>2. \A p \in 1..n : p \in S /\ p + 1 <= n => p + 1 \in S
      <4>. SUFFICES ASSUME NEW p \in 1..n, p \in S, p + 1 <= n PROVE p + 1 \in S
        OBVIOUS
      <4>1. p + 1 \in 1..n /\ p + 1 \in 1..(n + 1) /\ p + 1 # 1 /\ (p + 1) - 1 = p
        BY <1>0
      <4>2. g[p + 1] = g[p] \o seqs[p + 1] /\ f[p + 1] = f[p] \o more[p + 1]
        BY <1>2, <2>1, <4>1 DEF Sums
      <4>. QED BY <1>1, <4>1, <4>2
    <3>. HIDE DEF S
    <3>3. 1..n \subseteq S
      BY <1>0, <3>1, <3>2, IntervalInd
    <3>. QED BY <3>3 DEF S
  <2>3. f[n + 1] = f[n] \o s
    <3>1. n + 1 \in 1..(n + 1) /\ n + 1 # 1 /\ (n + 1) - 1 = n
      BY <1>0, <1>4
    <3>. QED BY <1>1, <1>2, <3>1 DEF Sums
  <2>4. n \in 1..n /\ g[n] = f[n]
    <3>1. n \in 1..n
      BY <1>0, <1>4
    <3>. QED BY <2>2, <3>1
  <2>5. FlattenSeq(seqs) \in Seq(X) /\ FlattenSeq(more) = FlattenSeq(seqs) \o s
    BY <1>2, <2>1, <2>3, <2>4
  <2>. QED BY <2>5 DEF more
<1>. QED BY <1>3, <1>4

(* A set of sequences that holds the empty one and each sequence of it with *)
(* one more at its end holds them all.                                      *)
LEMMA SeqInd ==
    ASSUME NEW X, NEW T, <<>> \in T, \A s \in Seq(X), x \in X : s \in T => Append(s, x) \in T
    PROVE  \A s \in Seq(X) : s \in T
<1>. DEFINE S == {n \in Nat : \A s \in Seq(X) : Len(s) = n => s \in T}
<1>1. 0 \in S
  BY EmptySeq
<1>2. ASSUME NEW n \in S PROVE n + 1 \in S
  <2>. SUFFICES ASSUME NEW s \in Seq(X), Len(s) = n + 1 PROVE s \in T
    OBVIOUS
  <2>1. s # <<>> /\ n \in Nat
    BY EmptySeq
  <2>2. /\ Front(s) \in Seq(X) /\ Last(s) \in X /\ Len(Front(s)) = Len(s) - 1
        /\ s = Append(Front(s), Last(s))
    BY <2>1, FrontLast
  <2>3. Front(s) \in T
    BY <2>1, <2>2
  <2>. QED BY <2>2, <2>3
<1>3. S = Nat
  <2>. HIDE DEF S
  <2>1. S \in SUBSET Nat
    BY DEF S
  <2>. QED BY <1>1, <1>2, <2>1, NatInd
<1>. HIDE DEF S
<1>4. ASSUME NEW s \in Seq(X) PROVE s \in T
  <2>1. Len(s) \in S
    BY <1>3, LenProperties
  <2>. QED BY <2>1 DEF S
<1>. QED BY <1>4

(* Laws of concatenation; as an operator a law is applied only where it is   *)
(* asked for.                                                               *)
Associates(a, b, c) == (a \o b) \o c = a \o (b \o c)
CutsAt(s, m, n)     == SubSeq(s, m, n) \o SubSeq(s, n + 1, Len(s)) = SubSeq(s, m, Len(s))

LEMMA Associative ==
    ASSUME NEW X, NEW a \in Seq(X), NEW b \in Seq(X), NEW c \in Seq(X)
    PROVE  Associates(a, b, c)
  BY ConcatAssociative DEF Associates

LEMMA OneMore ==
    ASSUME NEW X, NEW s \in Seq(X), NEW x \in X
    PROVE  s \o <<x>> = Append(s, x) /\ <<x>> \in Seq(X) /\ Len(<<x>>) = 1 /\ <<x>>[1] = x
<1>1. <<x>> \in Seq(X) /\ Len(<<x>>) = 1 /\ <<x>>[1] = x
  OBVIOUS
<1>2. s \o <<x>> = Append(s, x)
  OBVIOUS
<1>. QED BY <1>1, <1>2

LEMMA TwoMore ==
    ASSUME NEW X, NEW s \in Seq(X), NEW a \in X, NEW b \in X
    PROVE  s \o <<a, b>> = Append(Append(s, a), b)
<1>1. <<a, b>> \in Seq(X) /\ Len(<<a, b>>) = 2 /\ <<a, b>>[1] = a /\ <<a, b>>[2] = b
  OBVIOUS
<1>. QED BY <1>1

LEMMA CutJoin ==
    ASSUME NEW X, NEW s \in Seq(X), NEW m \in 1..(Len(s) + 1), NEW n \in 0..Len(s), m <= n + 1
    PROVE  CutsAt(s, m, n)
<1>1. n \in (m - 1)..Len(s) /\ Len(s) \in n..Len(s)
  BY LenProperties
<1>. QED BY <1>1, ConcatAdjacentSubSeq DEF CutsAt

(* Folding a sequence from the left: the values before and behind each of   *)
(* its elements.                                                            *)
Folded(r, A, base, step, s) ==
    \E f \in [0..Len(s) -> A] :
        /\ f[0] = base
        /\ \A k \in 1..Len(s) : f[k] = step[<<f[k - 1], s[k]>>]
        /\ r = f[Len(s)]

(* FoldLeft of the community modules takes the last position of a set first. *)
LEMMA MaxOfInterval == ASSUME NEW k \in Nat PROVE Max(1..(k + 1)) = k + 1
<1>1. k + 1 \in 1..(k + 1) /\ \A y \in 1..(k + 1) : k + 1 >= y
  OBVIOUS
<1>2. ASSUME NEW x \in 1..(k + 1), \A y \in 1..(k + 1) : x >= y PROVE x = k + 1
  <2>1. x >= k + 1
    BY <1>1, <1>2
  <2>. QED BY <2>1
<1>. QED BY <1>1, <1>2 DEF Max

LEMMA MaxOfWith ==
    ASSUME NEW k \in Nat, NEW t \in SUBSET (1..(k + 1)), k + 1 \in t
    PROVE  Max(t) = k + 1
<1>1. \A y \in t : k + 1 >= y
  OBVIOUS
<1>2. ASSUME NEW x \in t, \A y \in t : x >= y PROVE x = k + 1
  <2>1. x >= k + 1 /\ x \in 1..(k + 1)
    BY <1>2
  <2>. QED BY <2>1
<1>. QED BY <1>1, <1>2 DEF Max

LEMMA MaxOfPart ==
    ASSUME NEW n \in Nat, NEW t \in SUBSET (1..n), t # {}
    PROVE  Max(t) \in t /\ Max(t) \in 1..n /\ \A j \in t : Max(t) >= j
<1>. DEFINE R == {n - k : k \in t}
<1>1. R \in SUBSET Nat /\ R # {}
  <2>1. \A k \in t : n - k \in Nat
    OBVIOUS
  <2>. QED BY <2>1
<1>2. PICK m \in R : \A y \in R : m <= y
  <2>. HIDE DEF R
  <2>. QED BY <1>1, LeastNat
<1>3. PICK k \in t : m = n - k
  BY <1>2
<1>4. ASSUME NEW j \in t PROVE k >= j
  <2>1. n - j \in R /\ j \in Nat /\ k \in Nat
    OBVIOUS
  <2>2. n - k <= n - j
    BY <1>2, <1>3, <2>1
  <2>. QED BY <2>1, <2>2
<1>. HIDE DEF R
<1>5. \E x \in t : \A y \in t : x >= y
  BY <1>4
<1>. QED BY <1>5 DEF Max

IsIteration(h, n, base, step, s) ==
    \A t \in SUBSET (1..n) :
        h[t] = IF t = {} THEN base ELSE step[<<h[t \ {Max(t)}], s[Max(t)]>>]

LEMMA IterationExists ==
    ASSUME NEW A, NEW X, NEW base \in A, NEW step \in [A \X X -> A], NEW s \in Seq(X)
    PROVE  \E h \in [SUBSET (1..Len(s)) -> A] : IsIteration(h, Len(s), base, step, s)
<1>. DEFINE Has(n) == \E h \in [SUBSET (1..n) -> A] : IsIteration(h, n, base, step, s)
            S == {n \in Nat : n <= Len(s) => Has(n)}
<1>0. Len(s) \in Nat
  OBVIOUS
<1>1. 0 \in S
  <2>. DEFINE h == [t \in SUBSET (1..0) |-> base]
  <2>1. \A t \in SUBSET (1..0) : t = {} /\ h[t] = base
    OBVIOUS
  <2>2. h \in [SUBSET (1..0) -> A]
    OBVIOUS
  <2>. HIDE DEF h
  <2>. QED BY <2>1, <2>2 DEF IsIteration
<1>2. ASSUME NEW n \in S PROVE n + 1 \in S
  <2>. HIDE DEF Has
  <2>. SUFFICES ASSUME n + 1 <= Len(s) PROVE Has(n + 1)
    BY <1>2
  <2>1. n \in Nat /\ s[n + 1] \in X
    BY <1>0
  <2>8. Has(n)
    BY <1>2, <1>0, <2>1
  <2>2. PICK h \in [SUBSET (1..n) -> A] : IsIteration(h, n, base, step, s)
    BY <2>8 DEF Has
  <2>. DEFINE rest(t) == t \ {n + 1}
              g == [t \in SUBSET (1..(n + 1)) |->
                      IF n + 1 \in t THEN step[<<h[rest(t)], s[n + 1]>>] ELSE h[t]]
  <2>3. \A t \in SUBSET (1..(n + 1)) : /\ rest(t) \in SUBSET (1..n)
                                       /\ n + 1 \notin t => t \in SUBSET (1..n)
    BY <2>1
  <2>4. ASSUME NEW t \in SUBSET (1..(n + 1)) PROVE g[t] \in A
    <3>. HIDE DEF rest
    <3>1. h[rest(t)] \in A /\ (n + 1 \notin t => h[t] \in A)
      BY <2>3
    <3>2. step[<<h[rest(t)], s[n + 1]>>] \in A
      BY <2>1, <3>1
    <3>. QED BY <3>1, <3>2
  <2>5. g \in [SUBSET (1..(n + 1)) -> A]
    <3>. HIDE DEF rest
    <3>1. \A t \in SUBSET (1..(n + 1)) : g[t] \in A
      BY <2>4
    <3>. QED BY <3>1
  <2>6. ASSUME NEW t \in SUBSET (1..(n + 1))
        PROVE  g[t] = IF t = {} THEN base ELSE step[<<g[t \ {Max(t)}], s[Max(t)]>>]
    <3>1. CASE n + 1 \in t
      <4>1. Max(t) = n + 1 /\ t # {}
        BY <2>1, <3>1, MaxOfWith
      <4>2. rest(t) \in SUBSET (1..(n + 1)) /\ n + 1 \notin rest(t)
        OBVIOUS
      <4>3. g[rest(t)] = h[rest(t)]
        BY <4>2
      <4>4. g[t] = step[<<h[rest(t)], s[n + 1]>>]
        BY <3>1
      <4>5. t \ {Max(t)} = rest(t)
        BY <4>1
      <4>. HIDE DEF g, rest
      <4>. QED BY <4>1, <4>3, <4>4, <4>5
    <3>2. CASE n + 1 \notin t
      <4>1. t \in SUBSET (1..n) /\ g[t] = h[t]
        BY <2>3, <3>2
      <4>2. h[t] = IF t = {} THEN base ELSE step[<<h[t \ {Max(t)}], s[Max(t)]>>]
        BY <2>2, <4>1 DEF IsIteration
      <4>3. t \ {Max(t)} \in SUBSET (1..(n + 1)) /\ n + 1 \notin t \ {Max(t)}
        BY <3>2
      <4>4. g[t \ {Max(t)}] = h[t \ {Max(t)}]
        BY <4>3
      <4>. HIDE DEF g
      <4>. QED BY <4>1, <4>2, <4>4
    <3>. QED BY <3>1, <3>2
  <2>. HIDE DEF g
  <2>7. IsIteration(g, n + 1, base, step, s)
    BY <2>6 DEF IsIteration
  <2>. QED BY <2>5, <2>7 DEF Has
<1>3. S = Nat
  <2>. HIDE DEF S
  <2>1. S \in SUBSET Nat
    BY DEF S
  <2>. QED BY <1>1, <1>2, <2>1, NatInd
<1>. QED
  <2>. HIDE DEF S, Has
  <2>1. Len(s) \in S
    BY <1>0, <1>3
  <2>2. Has(Len(s))
    BY <1>0, <2>1 DEF S
  <2>. QED BY <2>2 DEF Has

(* What such an iteration says of the intervals is a fold; where a value is  *)
(* not of the type nothing need be known of the step.                        *)
StepsWhereTyped(g, n, A, base, step, s) ==
    /\ g[{}] = base
    /\ \A t \in SUBSET (1..n) : t # {} /\ g[t \ {Max(t)}] \in A
                                  => g[t] = step[<<g[t \ {Max(t)}], s[Max(t)]>>]

LEMMA IterationFolds ==
    ASSUME NEW A, NEW X, NEW base \in A, NEW step \in [A \X X -> A], NEW s \in Seq(X),
           NEW g, StepsWhereTyped(g, Len(s), A, base, step, s)
    PROVE  Folded(g[1..Len(s)], A, base, step, s)
<1>0. Len(s) \in Nat /\ \A k \in 1..Len(s) : s[k] \in X
  OBVIOUS
<1>1. 1..0 = {} /\ g[1..0] = base
  <2>1. 1..0 = {}
    OBVIOUS
  <2>. QED BY <2>1 DEF StepsWhereTyped
<1>2. ASSUME NEW k \in Nat, k + 1 <= Len(s), g[1..k] \in A
      PROVE  g[1..(k + 1)] = step[<<g[1..k], s[k + 1]>>] /\ g[1..(k + 1)] \in A
  <2>1. Max(1..(k + 1)) = k + 1
    BY MaxOfInterval
  <2>2. 1..(k + 1) \in SUBSET (1..Len(s)) /\ 1..(k + 1) # {} /\ (1..(k + 1)) \ {k + 1} = 1..k
    <3>1. \A i \in 1..(k + 1) : i \in 1..Len(s)
      BY <1>0, <1>2
    <3>2. k + 1 \in 1..(k + 1)
      OBVIOUS
    <3>3. \A i \in 1..k : i \in 1..(k + 1) /\ i # k + 1
      OBVIOUS
    <3>4. \A i \in 1..(k + 1) : i # k + 1 => i \in 1..k
      OBVIOUS
    <3>. QED BY <3>1, <3>2, <3>3, <3>4
  <2>3. g[1..(k + 1)] = step[<<g[1..k], s[k + 1]>>]
    BY <1>2, <2>1, <2>2 DEF StepsWhereTyped
  <2>4. s[k + 1] \in X
    BY <1>0, <1>2
  <2>. QED BY <1>2, <2>3, <2>4
<1>. DEFINE S == {k \in Nat : k <= Len(s) => g[1..k] \in A}
<1>3. S = Nat
  <2>1. 0 \in S
    BY <1>1
  <2>2. ASSUME NEW k \in S PROVE k + 1 \in S
    <3>1. k \in Nat /\ (k <= Len(s) => g[1..k] \in A)
      OBVIOUS
    <3>2. k + 1 <= Len(s) => k <= Len(s)
      BY <1>0
    <3>. HIDE DEF S
    <3>3. k + 1 <= Len(s) => g[1..(k + 1)] \in A
      BY ONLY <1>2, <3>1, <3>2
    <3>. QED BY <3>1, <3>3 DEF S
  <2>. HIDE DEF S
  <2>3. S \in SUBSET Nat
    BY DEF S
  <2>. QED BY <2>1, <2>2, <2>3, NatInd
<1>4. \A k \in 0..Len(s) : g[1..k] \in A
  BY <1>0, <1>3
<1>. DEFINE f == [k \in 0..Len(s) |-> g[1..k]]
<1>5. f \in [0..Len(s) -> A] /\ f[0] = base /\ f[Len(s)] = g[1..Len(s)]
  BY <1>0, <1>1, <1>4
<1>6. ASSUME NEW k \in 1..Len(s) PROVE f[k] = step[<<f[k - 1], s[k]>>]
  <2>1. k - 1 \in Nat /\ (k - 1) + 1 = k /\ k - 1 \in 0..Len(s) /\ k \in 0..Len(s)
    BY <1>0
  <2>2. g[1..(k - 1)] \in A
    BY <1>4, <2>1
  <2>. DEFINE m == k - 1
  <2>3. m \in Nat /\ m + 1 = k /\ m + 1 <= Len(s) /\ g[1..m] \in A
    BY <1>0, <2>1, <2>2
  <2>. HIDE DEF m
  <2>4. g[1..(m + 1)] = step[<<g[1..m], s[m + 1]>>]
    BY <1>2, <2>3
  <2>5. f[k] = g[1..k] /\ f[k - 1] = g[1..(k - 1)]
    BY <2>1
  <2>. HIDE DEF f
  <2>. QED BY <2>3, <2>4, <2>5 DEF m
<1>. HIDE DEF f
<1>. QED BY <1>5, <1>6 DEF Folded

(* Folding nothing, and one element more. *)
LEMMA FoldedEmpty ==
    ASSUME NEW A, NEW base, NEW step, NEW r, Folded(r, A, base, step, <<>>)
    PROVE  r = base
  BY DEF Folded

LEMMA FoldedAppend ==
    ASSUME NEW A, NEW X, NEW base, NEW step, NEW s \in Seq(X), NEW x \in X,
           NEW r, Folded(r, A, base, step, s),
           NEW q, Folded(q, A, base, step, Append(s, x))
    PROVE  q = step[<<r, x>>] /\ r \in A
<1>. DEFINE n == Len(s)
            more == Append(s, x)
<1>0. n \in Nat /\ Len(more) = n + 1 /\ more[n + 1] = x /\ \A k \in 1..n : more[k] = s[k]
  OBVIOUS
<1>. HIDE DEF more
<1>1. PICK f \in [0..n -> A] : f[0] = base /\ (\A k \in 1..n : f[k] = step[<<f[k - 1], s[k]>>]) /\ r = f[n]
  BY DEF Folded
<1>2. PICK g \in [0..(n + 1) -> A] :
        g[0] = base /\ (\A k \in 1..(n + 1) : g[k] = step[<<g[k - 1], more[k]>>]) /\ q = g[n + 1]
  <2>1. Folded(q, A, base, step, more)
    BY DEF more
  <2>. QED BY <1>0, <2>1 DEF Folded
<1>. HIDE DEF n
<1>. DEFINE S == {k \in Nat : k <= n => f[k] = g[k]}
<1>3. S = Nat
  <2>1. 0 \in S
    BY <1>1, <1>2
  <2>2. ASSUME NEW k \in S, k + 1 <= n PROVE f[k + 1] = g[k + 1]
    <3>1. k + 1 \in 1..n /\ k + 1 \in 1..(n + 1) /\ (k + 1) - 1 = k /\ f[k] = g[k]
      BY <1>0, <2>2
    <3>. QED BY <1>0, <1>1, <1>2, <3>1
  <2>3. \A k \in S : k + 1 \in S
    BY <2>2
  <2>. HIDE DEF S
  <2>4. S \in SUBSET Nat
    BY DEF S
  <2>. QED BY <2>1, <2>3, <2>4, NatInd
<1>4. f[n] = g[n] /\ f[n] \in A
  <2>1. n \in S /\ n \in 0..n
    BY <1>0, <1>3
  <2>. QED BY <1>0, <2>1
<1>5. q = step[<<g[n], x>>]
  <2>1. n + 1 \in 1..(n + 1) /\ (n + 1) - 1 = n
    BY <1>0
  <2>. QED BY <1>0, <1>2, <2>1
<1>. QED BY <1>1, <1>4, <1>5

(* Flattening what is one piece longer, position by position.               *)
LEMMA FlattenGrown ==
    ASSUME NEW X, NEW n \in Nat, NEW old \in [1..n -> Seq(X)], NEW new \in [1..(n + 1) -> Seq(X)],
           \A i \in 1..n : new[i] = old[i]
    PROVE  FlattenSeq(old) \in Seq(X) /\ FlattenSeq(new) = FlattenSeq(old) \o new[n + 1]
<1>1. n + 1 \in 1..(n + 1) /\ n + 1 \in Nat /\ \A i \in 1..(n + 1) : i \in 1..n \/ i = n + 1
  OBVIOUS
<1>2. old \in Seq(Seq(X)) /\ Len(old) = n /\ new \in Seq(Seq(X)) /\ Len(new) = n + 1 /\ new[n + 1] \in Seq(X)
  BY <1>1
<1>. DEFINE last == new[n + 1]
<1>3. Append(old, last) \in Seq(Seq(X)) /\ Len(Append(old, last)) = n + 1
      /\ (\A i \in 1..n : Append(old, last)[i] = old[i]) /\ Append(old, last)[n + 1] = last
  <2>1. last \in Seq(X)
    BY <1>2
  <2>. HIDE DEF last
  <2>. QED BY <1>2, <2>1, AppendProperties
<1>4. \A i \in 1..(n + 1) : new[i] = Append(old, last)[i]
  <2>. HIDE DEF last
  <2>1. \A i \in 1..n : new[i] = Append(old, last)[i]
    BY <1>3
  <2>2. new[n + 1] = Append(old, last)[n + 1]
    BY <1>3 DEF last
  <2>. QED BY <1>1, <2>1, <2>2
<1>5. new = Append(old, last)
  <2>. HIDE DEF last
  <2>. QED BY <1>2, <1>3, <1>4, SeqEqual
<1>6. last \in Seq(X)
  BY <1>2
<1>. HIDE DEF last
<1>7. FlattenSeq(old) \in Seq(X) /\ FlattenSeq(Append(old, last)) = FlattenSeq(old) \o last
  BY <1>2, <1>6, FlattenAppend
<1>. QED BY <1>5, <1>7 DEF last

(* A sequence with each element replaced by a sequence of others.           *)
MapsInto(g, X, Y) == g \in [X -> Seq(Y)]
Mapped(g, s) == FlattenSeq([i \in DOMAIN s |-> g[s[i]]])

LEMMA MappedAppend ==
    ASSUME NEW X, NEW Y, NEW g, MapsInto(g, X, Y), NEW s \in Seq(X), NEW x \in X
    PROVE  /\ Mapped(g, s) \in Seq(Y) /\ g[x] \in Seq(Y)
           /\ Mapped(g, Append(s, x)) = Mapped(g, s) \o g[x]
<1>. DEFINE n == Len(s)
            more == Append(s, x)
            parts(t) == [i \in DOMAIN t |-> g[t[i]]]
<1>0. n \in Nat /\ DOMAIN s = 1..n /\ DOMAIN more = 1..(n + 1) /\ more[n + 1] = x
      /\ \A i \in 1..n : more[i] = s[i] /\ s[i] \in X
  OBVIOUS
<1>. HIDE DEF more, n
<1>. USE DEF MapsInto
<1>1. parts(s) \in Seq(Seq(Y)) /\ Len(parts(s)) = n /\ \A i \in 1..n : parts(s)[i] = g[s[i]]
  <2>1. \A i \in 1..n : g[s[i]] \in Seq(Y)
    BY <1>0
  <2>. QED BY <1>0, <2>1
<1>2. parts(more) \in Seq(Seq(Y)) /\ Len(parts(more)) = n + 1
      /\ \A i \in 1..(n + 1) : parts(more)[i] = g[more[i]]
  <2>1. \A i \in 1..(n + 1) : more[i] \in X
    BY <1>0
  <2>2. \A i \in 1..(n + 1) : g[more[i]] \in Seq(Y)
    BY <2>1
  <2>. QED BY <1>0, <2>2
<1>. HIDE DEF parts
<1>3. parts(more) = Append(parts(s), g[x])
  <2>. DEFINE p == parts(s)
              q == parts(more)
              y == g[x]
  <2>0. p \in Seq(Seq(Y)) /\ y \in Seq(Y) /\ Len(p) = n /\ q \in Seq(Seq(Y)) /\ Len(q) = n + 1
    BY <1>1, <1>2
  <2>1. \A i \in 1..n : q[i] = p[i]
    BY <1>0, <1>1, <1>2
  <2>2. q[n + 1] = y
    BY <1>0, <1>2
  <2>. HIDE DEF p, q, y
  <2>3. Append(p, y) \in Seq(Seq(Y)) /\ Len(Append(p, y)) = n + 1
        /\ (\A i \in 1..n : Append(p, y)[i] = p[i]) /\ Append(p, y)[n + 1] = y
    BY <2>0, AppendProperties
  <2>4. \A i \in 1..(n + 1) : q[i] = Append(p, y)[i]
    <3>1. \A i \in 1..(n + 1) : i \in 1..n \/ i = n + 1
      BY <1>0
    <3>. QED BY <2>1, <2>2, <2>3, <3>1
  <2>5. q = Append(p, y)
    BY <2>0, <2>3, <2>4, SeqEqual
  <2>. QED BY <2>5 DEF p, q, y
<1>4. FlattenSeq(parts(s)) \in Seq(Y)
      /\ FlattenSeq(Append(parts(s), g[x])) = FlattenSeq(parts(s)) \o g[x]
  BY <1>1, FlattenAppend
<1>5. Mapped(g, s) = FlattenSeq(parts(s)) /\ Mapped(g, more) = FlattenSeq(parts(more))
  BY DEF Mapped, parts
<1>. QED BY <1>3, <1>4, <1>5 DEF more

LEMMA MappedEmpty == ASSUME NEW g PROVE Mapped(g, <<>>) = <<>>
<1>1. [i \in DOMAIN <<>> |-> g[<<>>[i]]] = <<>>
  OBVIOUS
<1>. QED BY <1>1, FlattenEmpty DEF Mapped

LEMMA MappedType ==
    ASSUME NEW X, NEW Y, NEW g, MapsInto(g, X, Y), NEW s \in Seq(X)
    PROVE  Mapped(g, s) \in Seq(Y)
<1>. DEFINE T == {t \in Seq(X) : Mapped(g, t) \in Seq(Y)}
<1>1. <<>> \in T
  <2>1. <<>> \in Seq(X) /\ <<>> \in Seq(Y) /\ Mapped(g, <<>>) = <<>>
    BY MappedEmpty, EmptySeq
  <2>. QED BY <2>1
<1>2. ASSUME NEW t \in Seq(X), NEW x \in X, t \in T PROVE Append(t, x) \in T
  <2>1. Mapped(g, t) \in Seq(Y) /\ g[x] \in Seq(Y) /\ Mapped(g, Append(t, x)) = Mapped(g, t) \o g[x]
    BY ONLY MapsInto(g, X, Y), t \in Seq(X), x \in X, MappedAppend
  <2>2. Mapped(g, t) \o g[x] \in Seq(Y)
    <3>. HIDE DEF T
    <3>. QED BY <2>1, ConcatProperties
  <2>3. Append(t, x) \in Seq(X)
    OBVIOUS
  <2>. QED BY <2>1, <2>2, <2>3
<1>. HIDE DEF T
<1>3. \A t \in Seq(X) : t \in T
  BY <1>1, <1>2, SeqInd
<1>. QED BY <1>3 DEF T

(* It is mapped part by part. *)
LEMMA MappedConcat ==
    ASSUME NEW X, NEW Y, NEW g, MapsInto(g, X, Y), NEW a \in Seq(X), NEW b \in Seq(X)
    PROVE  Mapped(g, a \o b) = Mapped(g, a) \o Mapped(g, b)
<1>. DEFINE T == {t \in Seq(X) : Mapped(g, a \o t) = Mapped(g, a) \o Mapped(g, t)}
<1>0. Mapped(g, a) \in Seq(Y)
  BY MappedType
<1>1. <<>> \in T
  <2>. DEFINE e == <<>>
  <2>1. a \o e = a /\ Mapped(g, a) \o e = Mapped(g, a) /\ e \in Seq(X) /\ Mapped(g, e) = e
    BY <1>0, MappedEmpty, ConcatEmptySeq
  <2>. HIDE DEF e
  <2>2. e \in T
    BY <2>1
  <2>. QED BY <2>2 DEF e
<1>2. ASSUME NEW t \in Seq(X), NEW x \in X, t \in T PROVE Append(t, x) \in T
  <2>. DEFINE p == Mapped(g, a)
              q == Mapped(g, t)
              r == g[x]
  <2>1. p \in Seq(Y) /\ q \in Seq(Y) /\ r \in Seq(Y) /\ a \o t \in Seq(X) /\ Append(t, x) \in Seq(X)
    <3>. HIDE DEF T
    <3>1. a \o t \in Seq(X) /\ Append(t, x) \in Seq(X) /\ Mapped(g, t) \in Seq(Y)
      BY MappedType, ConcatProperties
    <3>. QED BY <1>0, <3>1, MappedAppend
  <2>2. a \o Append(t, x) = Append(a \o t, x)
    OBVIOUS
  <2>3. Mapped(g, Append(a \o t, x)) = Mapped(g, a \o t) \o r /\ Mapped(g, Append(t, x)) = q \o r
    <3>. HIDE DEF T
    <3>1. \A u \in Seq(X), y \in X : Mapped(g, Append(u, y)) = Mapped(g, u) \o g[y]
      BY MappedAppend
    <3>. QED BY <2>1, <3>1
  <2>4. Mapped(g, a \o t) = p \o q
    BY <1>2
  <2>. HIDE DEF p, q, r
  <2>5. Associates(p, q, r)
    BY <2>1, Associative
  <2>. QED BY <2>1, <2>2, <2>3, <2>4, <2>5 DEF p, Associates
<1>. HIDE DEF T
<1>3. \A t \in Seq(X) : t \in T
  BY <1>1, <1>2, SeqInd
<1>. QED BY <1>3 DEF T

=============================================================================
