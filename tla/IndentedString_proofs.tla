------------------------ MODULE IndentedString_proofs ------------------------
(***************************************************************************)
(* A string keeps its value and its printed form (IndentedString), for     *)
(* every string and every indentation.                                     *)
(***************************************************************************)
EXTENDS IndentedString, Induction, TLAPS

Char == STRING \cup {Blank, Apostrophe, Dollar, Backslash, DoubleQuote, Braces}
Str  == Seq(Char)

(* The characters are never expanded but here. *)
LEMMA Characters ==
    /\ Blank \in Char /\ Apostrophe \in Char /\ Dollar \in Char
    /\ Backslash \in Char /\ DoubleQuote \in Char /\ Braces \in Char
    /\ Blank # Apostrophe /\ Blank # Dollar /\ Blank # Backslash /\ Blank # DoubleQuote /\ Blank # Braces
    /\ Apostrophe # Dollar /\ Apostrophe # Backslash /\ Apostrophe # DoubleQuote /\ Apostrophe # Braces
    /\ Dollar # Backslash /\ Dollar # DoubleQuote /\ Dollar # Braces
    /\ Backslash # DoubleQuote /\ Backslash # Braces /\ DoubleQuote # Braces
<1>1. /\ Blank \in Char /\ Apostrophe \in Char /\ Dollar \in Char
      /\ Backslash \in Char /\ DoubleQuote \in Char /\ Braces \in Char
  BY Zenon DEF Char
<1>2. Blank # Apostrophe /\ Blank # Dollar /\ Blank # Backslash /\ Blank # DoubleQuote /\ Blank # Braces
  BY Zenon DEF Blank, Apostrophe, Dollar, Backslash, DoubleQuote, Braces
<1>3. Apostrophe # Dollar /\ Apostrophe # Backslash /\ Apostrophe # DoubleQuote /\ Apostrophe # Braces
  BY Zenon DEF Blank, Apostrophe, Dollar, Backslash, DoubleQuote, Braces
<1>4. Dollar # Backslash /\ Dollar # DoubleQuote /\ Dollar # Braces
  BY Zenon DEF Blank, Apostrophe, Dollar, Backslash, DoubleQuote, Braces
<1>5. Backslash # DoubleQuote /\ Backslash # Braces /\ DoubleQuote # Braces
  BY Zenon DEF Blank, Apostrophe, Dollar, Backslash, DoubleQuote, Braces
<1>. QED BY <1>1, <1>2, <1>3, <1>4, <1>5

-----------------------------------------------------------------------------
(* Beginnings and rests of sequences.                                      *)

Taken(s, n) == SubSeq(s, 1, n)

LEMMA Rests ==
    ASSUME NEW X, NEW s \in Seq(X), NEW n \in 0..Len(s)
    PROVE  /\ WithoutPrefix(s, n) \in Seq(X) /\ Len(WithoutPrefix(s, n)) = Len(s) - n
           /\ \A i \in 1..(Len(s) - n) : WithoutPrefix(s, n)[i] = s[n + i]
           /\ Taken(s, n) \in Seq(X) /\ Len(Taken(s, n)) = n
           /\ \A i \in 1..n : Taken(s, n)[i] = s[i]
  BY DEF WithoutPrefix, Taken

LEMMA SameSeq ==
    ASSUME NEW X, NEW Y, NEW s \in Seq(X), NEW t \in Seq(Y), Len(s) = Len(t),
           \A i \in 1..Len(s) : s[i] = t[i]
    PROVE  s = t
  BY SeqEqual

LEMMA RestOfRest ==
    ASSUME NEW X, NEW s \in Seq(X), NEW m \in 0..Len(s), NEW n \in 0..(Len(s) - m)
    PROVE  WithoutPrefix(WithoutPrefix(s, m), n) = WithoutPrefix(s, m + n)
<1>1. Len(s) \in Nat
  OBVIOUS
<1>. DEFINE r == WithoutPrefix(s, m)
            u == WithoutPrefix(s, m + n)
<1>2. r \in Seq(X) /\ Len(r) = Len(s) - m /\ \A i \in 1..(Len(s) - m) : r[i] = s[m + i]
  BY Rests
<1>3. m + n \in 0..Len(s)
  BY <1>1
<1>4. u \in Seq(X) /\ Len(u) = Len(s) - (m + n) /\ \A i \in 1..(Len(s) - (m + n)) : u[i] = s[(m + n) + i]
  BY <1>3, Rests
<1>. HIDE DEF r, u
<1>. DEFINE v == WithoutPrefix(r, n)
<1>5. v \in Seq(X) /\ Len(v) = Len(r) - n /\ \A i \in 1..(Len(r) - n) : v[i] = r[n + i]
  BY <1>2, Rests
<1>. HIDE DEF v
<1>6. Len(v) = Len(u) /\ \A i \in 1..Len(v) : v[i] = u[i]
  <2>1. Len(v) = Len(u)
    BY <1>1, <1>2, <1>4, <1>5
  <2>2. ASSUME NEW i \in 1..Len(v) PROVE v[i] = u[i]
    <3>1. n + i \in 1..(Len(s) - m) /\ i \in 1..(Len(r) - n) /\ i \in 1..(Len(s) - (m + n)) /\ m + (n + i) = (m + n) + i
      BY <1>1, <1>2, <1>5
    <3>. QED BY <1>2, <1>4, <1>5, <3>1
  <2>. QED BY <2>1, <2>2
<1>7. v = u
  BY <1>4, <1>5, <1>6, SameSeq
<1>. QED BY <1>7 DEF r, u, v

LEMMA CutInTwo ==
    ASSUME NEW X, NEW s \in Seq(X), NEW n \in 0..Len(s)
    PROVE  s = Taken(s, n) \o WithoutPrefix(s, n)
<1>1. n \in Nat /\ Len(s) \in Nat
  OBVIOUS
<1>2. CutsAt(s, 1, n)
  BY <1>1, CutJoin
<1>. QED BY <1>2, SubSeqFull DEF CutsAt, Taken, WithoutPrefix

LEMMA RestOfJoin ==
    ASSUME NEW X, NEW a \in Seq(X), NEW b \in Seq(X)
    PROVE  WithoutPrefix(a \o b, Len(a)) = b /\ Taken(a \o b, Len(a)) = a
<1>1. WithoutPrefix(a \o b, Len(a)) = b
  BY SubSeqOfConcat2, SubSeqFull, ConcatProperties DEF WithoutPrefix
<1>2. Taken(a \o b, Len(a)) = a
  BY SubSeqOfConcat1, SubSeqFull DEF Taken
<1>. QED BY <1>1, <1>2

LEMMA LengthInd ==
    ASSUME NEW X, NEW T,
           \A s \in Seq(X) : (\A u \in Seq(X) : Len(u) < Len(s) => u \in T) => s \in T
    PROVE  \A s \in Seq(X) : s \in T
<1>. DEFINE S == {n \in Nat : \A s \in Seq(X) : Len(s) < n => s \in T}
<1>1. 0 \in S
  <2>1. \A s \in Seq(X) : ~(Len(s) < 0)
    BY LenProperties
  <2>. QED BY <2>1
<1>2. ASSUME NEW n \in S PROVE n + 1 \in S
  <2>1. n \in Nat /\ \A u \in Seq(X) : Len(u) < n => u \in T
    BY <1>2
  <2>2. ASSUME NEW s \in Seq(X), Len(s) < n + 1 PROVE s \in T
    <3>1. Len(s) \in Nat /\ \A u \in Seq(X) : Len(u) \in Nat
      BY LenProperties
    <3>2. \A u \in Seq(X) : Len(u) < Len(s) => u \in T
      BY <2>1, <2>2, <3>1
    <3>. QED BY <3>2
  <2>. QED BY <2>1, <2>2
<1>3. S = Nat
  <2>. HIDE DEF S
  <2>1. S \in SUBSET Nat
    BY DEF S
  <2>. QED BY <1>1, <1>2, <2>1, NatInd
<1>4. ASSUME NEW s \in Seq(X) PROVE s \in T
  <2>1. Len(s) \in Nat /\ Len(s) + 1 \in Nat /\ Len(s) < Len(s) + 1
    BY LenProperties
  <2>. QED BY <1>3, <2>1
<1>. QED BY <1>4

-----------------------------------------------------------------------------
(* A scan from the front: what is made of the rest behind position i is what *)
(* is made of its first step, before what is made of the rest behind it.    *)

Scanned(f, s, step, piece) ==
    \A i \in 1..(Len(s) + 1) :
        f[i] = IF i > Len(s) THEN <<>>
               ELSE LET rest == WithoutPrefix(s, i - 1) IN piece[rest] \o f[i + step[rest]]

Stepping(step, X) == step \in [Seq(X) -> Nat] /\ \A u \in Seq(X) : u # <<>> => step[u] \in 1..Len(u)

LEMMA RestBehind ==
    ASSUME NEW X, NEW step, Stepping(step, X), NEW s \in Seq(X), NEW i \in 1..Len(s)
    PROVE  /\ WithoutPrefix(s, i - 1) \in Seq(X)
           /\ step[WithoutPrefix(s, i - 1)] \in 1..(Len(s) - (i - 1))
<1>. DEFINE r == WithoutPrefix(s, i - 1)
<1>1. i - 1 \in 0..Len(s) /\ Len(s) \in Nat /\ Len(s) - (i - 1) >= 1
  OBVIOUS
<1>2. r \in Seq(X) /\ Len(r) = Len(s) - (i - 1)
  BY <1>1, Rests
<1>. HIDE DEF r
<1>3. r # <<>>
  BY <1>1, <1>2
<1>4. step[r] \in 1..Len(r)
  BY <1>2, <1>3 DEF Stepping
<1>. QED BY <1>2, <1>4 DEF r

LEMMA RestWithin ==
    ASSUME NEW X, NEW s \in Seq(X), NEW m \in 0..Len(s), NEW i \in 1..(Len(s) - m)
    PROVE  /\ i - 1 \in 0..(Len(s) - m) /\ m + (i - 1) = (m + i) - 1 /\ m + i \in 1..Len(s)
           /\ WithoutPrefix(WithoutPrefix(s, m), i - 1) = WithoutPrefix(s, (m + i) - 1)
<1>1. i - 1 \in 0..(Len(s) - m) /\ m + (i - 1) = (m + i) - 1 /\ m + i \in 1..Len(s)
  <2>1. Len(s) \in Nat
    BY LenProperties
  <2>. QED BY <2>1
<1>2. WithoutPrefix(WithoutPrefix(s, m), i - 1) = WithoutPrefix(s, m + (i - 1))
  BY <1>1, RestOfRest
<1>. QED BY <1>1, <1>2

(* Two scans that come upon the same rest make the same of it. *)
LEMMA ScansAgree ==
    ASSUME NEW X, NEW Y, NEW step, Stepping(step, X), NEW piece \in [Seq(X) -> Seq(Y)],
           NEW s \in Seq(X), NEW f, Scanned(f, s, step, piece),
           NEW m \in 0..Len(s), NEW g, Scanned(g, WithoutPrefix(s, m), step, piece)
    PROVE  \A i \in 1..(Len(s) - m + 1) : g[i] = f[m + i] /\ f[m + i] \in Seq(Y)
<1>. DEFINE u == WithoutPrefix(s, m)
            n == Len(u)
            T == {k \in Nat : \A i \in 1..(n + 1) : i + k >= n + 1 => g[i] = f[m + i] /\ f[m + i] \in Seq(Y)}
<1>1. u \in Seq(X) /\ n = Len(s) - m /\ n \in Nat /\ m \in Nat /\ Len(s) \in Nat /\ Len(s) = m + n
  <2>1. u \in Seq(X) /\ n = Len(s) - m /\ Len(s) \in Nat
    BY Rests, LenProperties
  <2>. QED BY <2>1
<1>2. Scanned(g, u, step, piece)
  OBVIOUS
<1>. HIDE DEF u, n
<1>3. 0 \in T
  <2>1. ASSUME NEW i \in 1..(n + 1), i + 0 >= n + 1 PROVE g[i] = f[m + i] /\ f[m + i] \in Seq(Y)
    <3>1. i > n /\ m + i > Len(s) /\ m + i \in 1..(Len(s) + 1)
      BY <1>1, <2>1
    <3>2. g[i] = <<>>
      BY <1>2, <3>1 DEF Scanned, n
    <3>3. f[m + i] = <<>>
      BY <3>1 DEF Scanned
    <3>. QED BY <3>2, <3>3, EmptySeq
  <2>. QED BY <2>1
<1>4. ASSUME NEW k \in T PROVE k + 1 \in T
  <2>1. k \in Nat /\ \A i \in 1..(n + 1) : i + k >= n + 1 => g[i] = f[m + i] /\ f[m + i] \in Seq(Y)
    BY <1>4
  <2>2. ASSUME NEW i \in 1..(n + 1), i + (k + 1) >= n + 1 PROVE g[i] = f[m + i] /\ f[m + i] \in Seq(Y)
    <3>1. CASE i = n + 1
      <4>1. i + k >= n + 1
        BY <1>1, <2>1, <3>1
      <4>. QED BY <2>1, <4>1
    <3>2. CASE i # n + 1
      <4>. DEFINE r == WithoutPrefix(u, i - 1)
                  j == step[r]
      <4>0. i \in 1..n /\ ~(i > n)
        BY <1>1, <3>2
      <4>1. r \in Seq(X) /\ j \in 1..(n - (i - 1))
        BY <1>1, <4>0, RestBehind DEF n
      <4>2. m + i \in 1..Len(s) /\ r = WithoutPrefix(s, (m + i) - 1)
        BY <1>1, <4>0, RestWithin DEF u
      <4>3. g[i] = piece[r] \o g[i + j]
        BY <1>1, <1>2, <4>0 DEF Scanned, n
      <4>4. f[m + i] = piece[r] \o f[(m + i) + j]
        <5>1. m + i \in 1..(Len(s) + 1) /\ ~(m + i > Len(s))
          BY <1>1, <4>2
        <5>. QED BY <4>2, <5>1 DEF Scanned
      <4>. HIDE DEF r, j
      <4>5. i + j \in 1..(n + 1) /\ (i + j) + k >= n + 1 /\ m + (i + j) = (m + i) + j
        BY <1>1, <2>1, <2>2, <4>0, <4>1
      <4>6. g[i + j] = f[(m + i) + j] /\ f[(m + i) + j] \in Seq(Y)
        BY <2>1, <4>5
      <4>7. piece[r] \in Seq(Y)
        BY <4>1
      <4>8. piece[r] \o f[(m + i) + j] \in Seq(Y)
        BY <4>6, <4>7, ConcatProperties
      <4>. QED BY <4>3, <4>4, <4>6, <4>8
    <3>. QED BY <3>1, <3>2
  <2>. QED BY <2>1, <2>2
<1>5. T = Nat
  <2>. HIDE DEF T
  <2>1. T \in SUBSET Nat
    BY DEF T
  <2>. QED BY <1>3, <1>4, <2>1, NatInd
<1>6. n + 1 \in T
  BY <1>1, <1>5
<1>7. \A i \in 1..(n + 1) : g[i] = f[m + i] /\ f[m + i] \in Seq(Y)
  <2>1. \A i \in 1..(n + 1) : i + (n + 1) >= n + 1
    BY <1>1
  <2>. QED BY <1>6, <2>1
<1>. QED BY <1>1, <1>7

LEMMA ScanExists ==
    ASSUME NEW X, NEW Y, NEW step, Stepping(step, X), NEW piece \in [Seq(X) -> Seq(Y)]
    PROVE  \A s \in Seq(X) : \E f : f \in [1..(Len(s) + 1) -> Seq(Y)] /\ Scanned(f, s, step, piece)
<1>. DEFINE Has(s) == \E f : f \in [1..(Len(s) + 1) -> Seq(Y)] /\ Scanned(f, s, step, piece)
            T == {s \in Seq(X) : Has(s)}
<1>1. ASSUME NEW s \in Seq(X), \A u \in Seq(X) : Len(u) < Len(s) => u \in T
      PROVE  s \in T
  <2>1. CASE s = <<>>
    <3>. DEFINE f == [i \in 1..1 |-> <<>>]
    <3>1. Len(s) = 0 /\ 1..(Len(s) + 1) = 1..1
      BY <2>1
    <3>2. f \in [1..1 -> Seq(Y)] /\ f[1] = <<>>
      BY EmptySeq
    <3>. HIDE DEF f
    <3>3. Scanned(f, s, step, piece)
      BY <3>1, <3>2 DEF Scanned
    <3>. QED BY <3>1, <3>2, <3>3
  <2>2. CASE s # <<>>
    <3>. DEFINE n == Len(s)
                u == WithoutPrefix(s, 1)
    <3>1. n \in Nat /\ n >= 1
      BY <2>2
    <3>2. u \in Seq(X) /\ Len(u) = n - 1
      BY <3>1, Rests
    <3>3. u \in T
      <4>1. Len(u) < n
        BY <3>1, <3>2
      <4>. QED BY <1>1, <3>2, <4>1
    <3>. HIDE DEF u, n
    <3>4. PICK g : g \in [1..(Len(u) + 1) -> Seq(Y)] /\ Scanned(g, u, step, piece)
      BY <3>3
    <3>. DEFINE f == [i \in 1..(n + 1) |-> IF i = 1 THEN piece[s] \o g[step[s]] ELSE g[i - 1]]
    <3>5. step[s] \in 1..n
      BY <2>2 DEF Stepping, n
    <3>6. Len(u) + 1 = n /\ \A i \in 1..n : g[i] \in Seq(Y)
      BY <3>1, <3>2, <3>4
    <3>7. f \in [1..(n + 1) -> Seq(Y)]
      <4>1. piece[s] \o g[step[s]] \in Seq(Y)
        BY <3>5, <3>6, ConcatProperties
      <4>2. \A i \in 1..(n + 1) : i # 1 => i - 1 \in 1..n
        BY <3>1
      <4>. QED BY <3>6, <4>1, <4>2
    <3>8. f[1] = piece[s] \o g[step[s]] /\ \A i \in 2..(n + 1) : f[i] = g[i - 1]
      BY <3>1
    <3>. HIDE DEF f
    <3>9. ASSUME NEW i \in 1..(n + 1)
          PROVE  f[i] = IF i > n THEN <<>>
                        ELSE piece[WithoutPrefix(s, i - 1)] \o f[i + step[WithoutPrefix(s, i - 1)]]
      <4>1. CASE i = n + 1
        <5>1. i > n /\ i \in 2..(n + 1) /\ i - 1 \in 1..(Len(u) + 1) /\ i - 1 > Len(u)
          BY <3>1, <3>6, <4>1
        <5>2. f[i] = g[i - 1]
          BY <3>8, <5>1
        <5>3. g[i - 1] = <<>>
          BY <3>4, <5>1 DEF Scanned
        <5>. QED BY <5>1, <5>2, <5>3
      <4>2. CASE i = 1
        <5>1. WithoutPrefix(s, i - 1) = s
          <6>1. i - 1 = 0
            BY <4>2
          <6>. QED BY <6>1, SubSeqFull DEF WithoutPrefix
        <5>2. i + step[s] \in 2..(n + 1) /\ (i + step[s]) - 1 = step[s]
          BY <3>1, <3>5, <4>2
        <5>3. f[i + step[s]] = g[step[s]] /\ ~(i > n)
          BY <3>1, <3>8, <4>2, <5>2
        <5>. QED BY <3>8, <4>2, <5>1, <5>3
      <4>3. CASE i # n + 1 /\ i # 1
        <5>. DEFINE r == WithoutPrefix(u, (i - 1) - 1)
        <5>0. i \in 1..n /\ ~(i > n) /\ i - 1 \in 1..Len(u) /\ i \in 2..(n + 1) /\ 1 + (i - 1) = i
          BY <3>1, <3>2, <4>3
        <5>1. r = WithoutPrefix(s, i - 1)
          <6>1. 1 \in 0..Len(s) /\ i - 1 \in 1..(Len(s) - 1)
            BY <3>1, <3>2, <5>0 DEF n
          <6>. DEFINE j == i - 1
          <6>2. j \in 1..(Len(s) - 1) /\ 1 + j = i
            BY <5>0, <6>1
          <6>. HIDE DEF r, j
          <6>3. WithoutPrefix(WithoutPrefix(s, 1), j - 1) = WithoutPrefix(s, (1 + j) - 1)
            BY <6>1, <6>2, RestWithin
          <6>. QED BY <6>2, <6>3 DEF r, u, j
        <5>2. step[r] \in 1..(Len(u) - ((i - 1) - 1))
          BY <3>2, <5>0, RestBehind
        <5>3. g[i - 1] = piece[r] \o g[(i - 1) + step[r]]
          <6>1. i - 1 \in 1..(Len(u) + 1) /\ ~(i - 1 > Len(u))
            BY <3>2, <3>1, <5>0
          <6>. QED BY <3>4, <6>1 DEF Scanned
        <5>. HIDE DEF r
        <5>4. i + step[r] \in 2..(n + 1) /\ (i + step[r]) - 1 = (i - 1) + step[r]
          <6>. DEFINE k == step[r]
          <6>1. k \in 1..((n - 1) - ((i - 1) - 1))
            BY <3>2, <5>2
          <6>. HIDE DEF k
          <6>2. i + k \in 2..(n + 1) /\ (i + k) - 1 = (i - 1) + k
            BY <3>1, <5>0, <6>1
          <6>. QED BY <6>2 DEF k
        <5>5. f[i + step[r]] = g[(i - 1) + step[r]] /\ f[i] = g[i - 1]
          BY <3>8, <5>0, <5>4
        <5>6. f[i] = piece[r] \o f[i + step[r]]
          BY <5>3, <5>5
        <5>. QED BY <5>0, <5>1, <5>6
      <4>. QED BY <4>1, <4>2, <4>3
    <3>10. Scanned(f, s, step, piece)
      BY <3>9 DEF Scanned, n
    <3>11. Has(s)
      BY <3>7, <3>10 DEF n
    <3>. QED BY <3>11
  <2>. QED BY <2>1, <2>2
<1>2. \A s \in Seq(X) : s \in T
  <2>. HIDE DEF T
  <2>. QED BY <1>1, LengthInd
<1>. QED BY <1>2

Unfolds(f, g, u, piece, Y) == g[1] \in Seq(Y) /\ f[1] = piece[u] \o g[1]

LEMMA ScanUnfold ==
    ASSUME NEW X, NEW Y, NEW step, Stepping(step, X), NEW piece \in [Seq(X) -> Seq(Y)],
           NEW s \in Seq(X), s # <<>>, NEW f, Scanned(f, s, step, piece),
           NEW g, Scanned(g, WithoutPrefix(s, step[s]), step, piece)
    PROVE  Unfolds(f, g, s, piece, Y)
<1>. DEFINE n == Len(s)
            k == step[s]
<1>1. n \in Nat /\ n >= 1 /\ k \in 1..n /\ k \in Nat
  <2>1. n \in Nat /\ n >= 1
    OBVIOUS
  <2>2. k \in 1..n
    BY DEF Stepping
  <2>. QED BY <2>1, <2>2
<1>2. WithoutPrefix(s, 0) = s
  BY SubSeqFull DEF WithoutPrefix
<1>3. f[1] = piece[s] \o f[1 + k]
  <2>1. 1 \in 1..(n + 1) /\ ~(1 > n) /\ 1 - 1 = 0
    BY <1>1
  <2>2. f[1] = piece[WithoutPrefix(s, 1 - 1)] \o f[1 + step[WithoutPrefix(s, 1 - 1)]]
    BY <2>1 DEF Scanned
  <2>. QED BY <1>2, <2>1, <2>2
<1>4. k \in 0..Len(s) /\ 1 \in 1..(Len(s) - k + 1) /\ k + 1 = 1 + k
  BY <1>1
<1>5. Scanned(g, WithoutPrefix(s, k), step, piece)
  OBVIOUS
<1>. HIDE DEF n, k
<1>6. g[1] = f[k + 1] /\ f[k + 1] \in Seq(Y)
  BY <1>4, <1>5, ScansAgree
<1>. QED BY <1>3, <1>4, <1>6 DEF Unfolds

LEMMA ScanEmpty ==
    ASSUME NEW step, NEW piece, NEW f, Scanned(f, <<>>, step, piece)
    PROVE  f[1] = <<>>
  BY DEF Scanned

-----------------------------------------------------------------------------
(* The steps of the scanner.                                               *)

LEMMA PrefixIs ==
    ASSUME NEW X, NEW Y, NEW p \in Seq(Y), NEW s \in Seq(X)
    PROVE  IsPrefix(p, s) <=> Len(p) <= Len(s) /\ \A i \in 1..Len(p) : s[i] = p[i]
<1>1. SubSeq(p, 1, Len(p)) = p /\ Len(p) \in Nat /\ Len(s) \in Nat
  BY SubSeqFull, LenProperties
<1>2. CASE Len(p) <= Len(s)
  <2>. DEFINE n == Len(p)
              t == Taken(s, n)
  <2>1. n \in 0..Len(s)
    BY <1>1, <1>2
  <2>2. t \in Seq(X) /\ Len(t) = n /\ \A i \in 1..n : t[i] = s[i]
    BY <2>1, Rests
  <2>. HIDE DEF t
  <2>3. p = t <=> \A i \in 1..n : s[i] = p[i]
    <3>1. ASSUME \A i \in 1..n : s[i] = p[i] PROVE p = t
      <4>1. \A i \in 1..Len(p) : p[i] = t[i]
        BY <2>2, <3>1
      <4>. QED BY <2>2, <4>1, SameSeq
    <3>. QED BY <2>2, <3>1
  <2>. QED BY <1>1, <1>2, <2>3 DEF IsPrefix, t, Taken
<1>3. CASE ~(Len(p) <= Len(s))
  BY <1>3 DEF IsPrefix
<1>. QED BY <1>2, <1>3

LEMMA PrefixTwo ==
    ASSUME NEW X, NEW s \in Seq(X), NEW a, NEW b
    PROVE  IsPrefix(<<a, b>>, s) <=> Len(s) >= 2 /\ s[1] = a /\ s[2] = b
<1>. DEFINE p == <<a, b>>
<1>1. p \in Seq({a, b}) /\ Len(p) = 2 /\ p[1] = a /\ p[2] = b
  OBVIOUS
<1>2. Len(s) \in Nat
  BY LenProperties
<1>. HIDE DEF p
<1>3. IsPrefix(p, s) <=> Len(p) <= Len(s) /\ \A i \in 1..Len(p) : s[i] = p[i]
  BY <1>1, PrefixIs
<1>4. IsPrefix(p, s) <=> Len(s) >= 2 /\ s[1] = a /\ s[2] = b
  BY <1>1, <1>2, <1>3
<1>. QED BY <1>4 DEF p

LEMMA PrefixThree ==
    ASSUME NEW X, NEW s \in Seq(X), NEW a, NEW b, NEW c
    PROVE  IsPrefix(<<a, b, c>>, s) <=> Len(s) >= 3 /\ s[1] = a /\ s[2] = b /\ s[3] = c
<1>. DEFINE p == <<a, b, c>>
<1>1. p \in Seq({a, b, c}) /\ Len(p) = 3 /\ p[1] = a /\ p[2] = b /\ p[3] = c
  OBVIOUS
<1>2. Len(s) \in Nat
  BY LenProperties
<1>. HIDE DEF p
<1>3. IsPrefix(p, s) <=> Len(p) <= Len(s) /\ \A i \in 1..Len(p) : s[i] = p[i]
  BY <1>1, PrefixIs
<1>4. IsPrefix(p, s) <=> Len(s) >= 3 /\ s[1] = a /\ s[2] = b /\ s[3] = c
  BY <1>1, <1>2, <1>3
<1>. QED BY <1>4 DEF p

(* What two or three characters stand in front. *)
TwoAre(s, a, b)      == Len(s) >= 2 /\ s[1] = a /\ s[2] = b
ThreeAre(s, a, b, c) == Len(s) >= 3 /\ s[1] = a /\ s[2] = b /\ s[3] = c

LEMMA IndentedSteps ==
    ASSUME NEW X, NEW s \in Seq(X)
    PROVE  IndentedStep(s) =
               IF ThreeAre(s, Apostrophe, Apostrophe, Backslash) THEN Shorter(4, Len(s))
               ELSE IF ThreeAre(s, Apostrophe, Apostrophe, Dollar) \/ ThreeAre(s, Apostrophe, Apostrophe, Apostrophe) THEN 3
               ELSE IF TwoAre(s, Apostrophe, Apostrophe) \/ TwoAre(s, Dollar, Braces) \/ TwoAre(s, Dollar, Dollar) THEN 2
               ELSE 1
<1>1. IsPrefix(<<Apostrophe, Apostrophe, Backslash>>, s) <=> ThreeAre(s, Apostrophe, Apostrophe, Backslash)
  BY PrefixThree DEF ThreeAre
<1>2. (\E c \in {Dollar, Apostrophe} : IsPrefix(<<Apostrophe, Apostrophe, c>>, s))
      <=> ThreeAre(s, Apostrophe, Apostrophe, Dollar) \/ ThreeAre(s, Apostrophe, Apostrophe, Apostrophe)
  <2>1. \A c : IsPrefix(<<Apostrophe, Apostrophe, c>>, s) <=> ThreeAre(s, Apostrophe, Apostrophe, c)
    BY PrefixThree DEF ThreeAre
  <2>. QED BY <2>1
<1>3. (\E t \in {Close, Interpolation, <<Dollar, Dollar>>} : IsPrefix(t, s))
      <=> TwoAre(s, Apostrophe, Apostrophe) \/ TwoAre(s, Dollar, Braces) \/ TwoAre(s, Dollar, Dollar)
  <2>1. IsPrefix(Close, s) <=> TwoAre(s, Apostrophe, Apostrophe)
    BY PrefixTwo DEF TwoAre, Close
  <2>2. IsPrefix(Interpolation, s) <=> TwoAre(s, Dollar, Braces)
    BY PrefixTwo DEF TwoAre, Interpolation
  <2>3. IsPrefix(<<Dollar, Dollar>>, s) <=> TwoAre(s, Dollar, Dollar)
    BY PrefixTwo DEF TwoAre
  <2>. QED BY <2>1, <2>2, <2>3
<1>. QED BY <1>1, <1>2, <1>3 DEF IndentedStep

LEMMA SimpleSteps ==
    ASSUME NEW X, NEW s \in Seq(X)
    PROVE  SimpleStep(s) = IF s[1] = Backslash THEN Shorter(2, Len(s))
                           ELSE IF TwoAre(s, Dollar, Braces) \/ TwoAre(s, Dollar, Dollar) THEN 2
                           ELSE 1
<1>1. (\E t \in {Interpolation, <<Dollar, Dollar>>} : IsPrefix(t, s))
      <=> TwoAre(s, Dollar, Braces) \/ TwoAre(s, Dollar, Dollar)
  <2>2. IsPrefix(Interpolation, s) <=> TwoAre(s, Dollar, Braces)
    BY PrefixTwo DEF TwoAre, Interpolation
  <2>3. IsPrefix(<<Dollar, Dollar>>, s) <=> TwoAre(s, Dollar, Dollar)
    BY PrefixTwo DEF TwoAre
  <2>. QED BY <2>2, <2>3
<1>. QED BY <1>1 DEF SimpleStep

LEMMA StepBounds ==
    ASSUME NEW X, NEW s \in Seq(X), NEW kind
    PROVE  ScanStep(kind, s) \in Nat /\ (s # <<>> => ScanStep(kind, s) \in 1..Len(s))
<1>1. Len(s) \in Nat /\ (s # <<>> => Len(s) >= 1)
  OBVIOUS
<1>2. IndentedStep(s) \in Nat /\ (s # <<>> => IndentedStep(s) \in 1..Len(s))
  BY <1>1, IndentedSteps DEF TwoAre, ThreeAre, Shorter
<1>3. SimpleStep(s) \in Nat /\ (s # <<>> => SimpleStep(s) \in 1..Len(s))
  BY <1>1, SimpleSteps DEF TwoAre, Shorter
<1>. QED BY <1>2, <1>3 DEF ScanStep

TokenStep(kind)  == [u \in Str |-> ScanStep(kind, u)]
TokenPiece(kind) == [u \in Str |-> IF u = <<>> THEN <<>> ELSE <<Taken(u, ScanStep(kind, u))>>]

LEMMA TokenScan ==
    ASSUME NEW kind
    PROVE  Stepping(TokenStep(kind), Char) /\ TokenPiece(kind) \in [Seq(Char) -> Seq(Str)]
<1>1. Stepping(TokenStep(kind), Char)
  BY StepBounds DEF Stepping, TokenStep, Str
<1>2. ASSUME NEW u \in Str PROVE (IF u = <<>> THEN <<>> ELSE <<Taken(u, ScanStep(kind, u))>>) \in Seq(Str)
  <2>1. CASE u = <<>>
    BY <2>1, EmptySeq
  <2>2. CASE u # <<>>
    <3>. DEFINE t == Taken(u, ScanStep(kind, u))
    <3>1. t \in Str
      BY <2>2, StepBounds, Rests DEF Str
    <3>. HIDE DEF t
    <3>2. <<t>> \in Seq(Str)
      BY <3>1
    <3>. QED BY <2>2, <3>2 DEF t
  <2>. QED BY <2>1, <2>2
<1>. QED BY <1>1, <1>2 DEF TokenPiece, Str

LEMMA TokensScanned ==
    ASSUME NEW kind, NEW s \in Str
    PROVE  \E f : Scanned(f, s, TokenStep(kind), TokenPiece(kind)) /\ Tokens(kind, s) = f[1]
<1>. DEFINE Body(f, i) == IF i > Len(s) THEN <<>>
                          ELSE LET rest == WithoutPrefix(s, i - 1)
                                   n    == ScanStep(kind, rest)
                               IN  <<SubSeq(rest, 1, n)>> \o f[i + n]
            Rec(f) == f = [i \in 1..(Len(s) + 1) |-> Body(f, i)]
            step  == TokenStep(kind)
            piece == TokenPiece(kind)
<1>1. ASSUME NEW i \in 1..Len(s)
      PROVE  LET rest == WithoutPrefix(s, i - 1)
             IN  step[rest] = ScanStep(kind, rest) /\ piece[rest] = <<SubSeq(rest, 1, ScanStep(kind, rest))>>
  <2>. DEFINE r == WithoutPrefix(s, i - 1)
  <2>1. r \in Str /\ r # <<>>
    <3>1. i - 1 \in 0..Len(s) /\ Len(s) - (i - 1) >= 1
      BY DEF Str
    <3>2. r \in Str /\ Len(r) = Len(s) - (i - 1)
      BY <3>1, Rests DEF Str
    <3>. QED BY <3>1, <3>2
  <2>. HIDE DEF r
  <2>2. step[r] = ScanStep(kind, r) /\ piece[r] = <<SubSeq(r, 1, ScanStep(kind, r))>>
    BY <2>1 DEF TokenStep, TokenPiece, Taken
  <2>. QED BY <2>2 DEF r
<1>2. Stepping(step, Char) /\ piece \in [Seq(Char) -> Seq(Str)]
  BY TokenScan
<1>3. Len(s) \in Nat /\ \A i \in 1..(Len(s) + 1) : ~(i > Len(s)) => i \in 1..Len(s)
  BY DEF Str
<1>. HIDE DEF step, piece
<1>4. \E f : f \in [1..(Len(s) + 1) -> Seq(Str)] /\ Scanned(f, s, step, piece)
  BY <1>2, ScanExists DEF Str
<1>5. PICK f : f \in [1..(Len(s) + 1) -> Seq(Str)] /\ Scanned(f, s, step, piece)
  BY <1>4
<1>6. ASSUME NEW i \in 1..(Len(s) + 1) PROVE f[i] = Body(f, i)
  BY <1>1, <1>3, <1>5 DEF Scanned
<1>7. Rec(f)
  BY <1>5, <1>6
<1>. DEFINE g == CHOOSE h : Rec(h)
<1>8. Rec(g)
  <2>. HIDE DEF Rec
  <2>. QED BY <1>7
<1>9. Tokens(kind, s) = g[1]
  BY DEF Tokens
<1>. HIDE DEF g
<1>10. \A i \in 1..(Len(s) + 1) : g[i] = Body(g, i)
  BY <1>8
<1>11. Scanned(g, s, step, piece)
  <2>. HIDE DEF Rec
  <2>. QED BY <1>1, <1>3, <1>10 DEF Scanned
<1>. QED BY <1>9, <1>11 DEF step, piece

(* A line is its first token and the tokens of what is behind it. *)
FirstToken(kind, s) == Taken(s, ScanStep(kind, s))
Behind(kind, s)     == WithoutPrefix(s, ScanStep(kind, s))

LEMMA TokensEmpty == ASSUME NEW kind PROVE Tokens(kind, <<>>) = <<>>
<1>1. <<>> \in Str
  BY EmptySeq DEF Str
<1>2. \E f : Scanned(f, <<>>, TokenStep(kind), TokenPiece(kind)) /\ Tokens(kind, <<>>) = f[1]
  BY <1>1, TokensScanned
<1>. QED BY <1>2, ScanEmpty

LEMMA TokensUnfold ==
    ASSUME NEW kind, NEW s \in Str, s # <<>>
    PROVE  /\ FirstToken(kind, s) \in Str /\ FirstToken(kind, s) # <<>>
           /\ Behind(kind, s) \in Str /\ Len(Behind(kind, s)) < Len(s)
           /\ s = FirstToken(kind, s) \o Behind(kind, s)
           /\ Tokens(kind, Behind(kind, s)) \in Seq(Str)
           /\ Tokens(kind, s) = <<FirstToken(kind, s)>> \o Tokens(kind, Behind(kind, s))
<1>. DEFINE n == ScanStep(kind, s)
            u == Behind(kind, s)
<1>1. n \in 1..Len(s) /\ n \in 0..Len(s) /\ Len(s) \in Nat
  BY StepBounds, LenProperties DEF Str
<1>2. FirstToken(kind, s) \in Str /\ Len(FirstToken(kind, s)) = n /\ u \in Str /\ Len(u) = Len(s) - n
  BY <1>1, Rests DEF Str, FirstToken, Behind
<1>3. FirstToken(kind, s) # <<>> /\ Len(u) < Len(s)
  BY <1>1, <1>2
<1>4. s = FirstToken(kind, s) \o u
  BY <1>1, CutInTwo DEF Str, FirstToken, Behind
<1>. DEFINE step  == TokenStep(kind)
            piece == TokenPiece(kind)
<1>5. Stepping(step, Char) /\ piece \in [Seq(Char) -> Seq(Str)]
  BY TokenScan
<1>6. step[s] = n /\ piece[s] = <<FirstToken(kind, s)>>
  BY DEF TokenStep, TokenPiece, FirstToken
<1>7. (\E f : Scanned(f, s, step, piece) /\ Tokens(kind, s) = f[1])
      /\ (\E g : Scanned(g, u, step, piece) /\ Tokens(kind, u) = g[1])
  BY <1>2, TokensScanned
<1>8. u = WithoutPrefix(s, n)
  BY DEF Behind
<1>. HIDE DEF step, piece, n, u
<1>9. PICK f : Scanned(f, s, step, piece) /\ Tokens(kind, s) = f[1]
  BY <1>7
<1>10. PICK g : Scanned(g, u, step, piece) /\ Tokens(kind, u) = g[1]
  BY <1>7
<1>11. Scanned(g, WithoutPrefix(s, step[s]), step, piece)
  BY <1>6, <1>8, <1>10
<1>12. g[1] \in Seq(Str) /\ f[1] = piece[s] \o g[1]
  <2>1. s \in Seq(Char)
    BY DEF Str
  <2>2. Unfolds(f, g, s, piece, Str)
    BY ONLY <2>1, s # <<>>, <1>5, <1>9, <1>11, ScanUnfold
  <2>. QED BY <2>2 DEF Unfolds
<1>13. Tokens(kind, u) \in Seq(Str) /\ Tokens(kind, s) = <<FirstToken(kind, s)>> \o Tokens(kind, u)
  BY <1>6, <1>9, <1>10, <1>12
<1>. QED BY <1>2, <1>3, <1>4, <1>13 DEF u

LEMMA TokensType == ASSUME NEW kind, NEW s \in Str PROVE Tokens(kind, s) \in Seq(Str)
<1>1. CASE s = <<>>
  BY <1>1, TokensEmpty, EmptySeq
<1>2. CASE s # <<>>
  <2>. DEFINE t == FirstToken(kind, s)
              r == Tokens(kind, Behind(kind, s))
  <2>1. t \in Str /\ r \in Seq(Str) /\ Tokens(kind, s) = <<t>> \o r
    BY <1>2, TokensUnfold
  <2>. HIDE DEF t, r
  <2>2. <<t>> \o r \in Seq(Str)
    BY <2>1
  <2>. QED BY <2>1, <2>2
<1>. QED BY <1>1, <1>2

-----------------------------------------------------------------------------
(* Where the string ends.                                                  *)

EndsWell(toks, end) == Last(toks) = end /\ end \notin ToSet(Front(toks))
Clean(kind, s)  == Terminator(kind) \notin ToSet(Tokens(kind, s))
EndsIn(kind, s) == EndsWell(Tokens(kind, s \o Terminator(kind)), Terminator(kind))

LEMMA LegalIs ==
    ASSUME NEW kind, NEW lines
    PROVE  Legal(kind, lines) <=> (\A i \in DOMAIN lines : Clean(kind, lines[i])) /\ EndsIn(kind, Last(lines))
  BY DEF Legal, Clean, EndsIn, EndsWell

LEMMA ConsSet ==
    ASSUME NEW X, NEW x \in X, NEW toks \in Seq(X)
    PROVE  ToSet(<<x>> \o toks) = {x} \cup ToSet(toks)
<1>. DEFINE more == <<x>> \o toks
<1>1. /\ Len(more) = Len(toks) + 1 /\ DOMAIN more = 1..(Len(toks) + 1) /\ DOMAIN toks = 1..Len(toks)
      /\ more[1] = x /\ \A i \in 1..Len(toks) : more[i + 1] = toks[i]
  OBVIOUS
<1>2. Len(toks) \in Nat
  OBVIOUS
<1>. HIDE DEF more
<1>3. ASSUME NEW y \in ToSet(more) PROVE y \in {x} \cup ToSet(toks)
  <2>1. PICK i \in 1..(Len(toks) + 1) : y = more[i]
    BY <1>1, <1>3 DEF ToSet
  <2>2. CASE i = 1
    BY <1>1, <2>1, <2>2
  <2>3. CASE i # 1
    <3>1. i - 1 \in 1..Len(toks) /\ (i - 1) + 1 = i
      BY <1>2, <2>3
    <3>2. more[(i - 1) + 1] = toks[i - 1]
      BY <1>1, <3>1
    <3>3. y = toks[i - 1]
      BY <2>1, <3>1, <3>2
    <3>. QED BY <1>1, <3>1, <3>3 DEF ToSet
  <2>. QED BY <2>2, <2>3
<1>4. ASSUME NEW y \in {x} \cup ToSet(toks) PROVE y \in ToSet(more)
  <2>1. CASE y = x
    <3>1. 1 \in 1..(Len(toks) + 1)
      BY <1>2
    <3>. QED BY <1>1, <2>1, <3>1 DEF ToSet
  <2>2. CASE y \in ToSet(toks)
    <3>1. PICK i \in 1..Len(toks) : y = toks[i]
      BY <1>1, <2>2 DEF ToSet
    <3>2. i + 1 \in 1..(Len(toks) + 1) /\ more[i + 1] = y
      BY <1>1, <1>2, <3>1
    <3>. QED BY <1>1, <3>2 DEF ToSet
  <2>. QED BY <2>1, <2>2
<1>5. ToSet(more) = {x} \cup ToSet(toks)
  BY <1>3, <1>4
<1>. QED BY <1>5 DEF more

LEMMA ConsEnd ==
    ASSUME NEW X, NEW x \in X, NEW toks \in Seq(X), toks # <<>>
    PROVE  Last(<<x>> \o toks) = Last(toks) /\ Front(<<x>> \o toks) = <<x>> \o Front(toks)
<1>1. Front(toks) \in Seq(X) /\ Last(toks) \in X /\ toks = Append(Front(toks), Last(toks))
  BY FrontLast
<1>. DEFINE f == Front(toks)
            l == Last(toks)
            one == <<x>>
<1>2. one \in Seq(X)
  OBVIOUS
<1>. HIDE DEF f, l, one
<1>3. one \o Append(f, l) = Append(one \o f, l)
  BY <1>1, <1>2 DEF f, l
<1>4. one \o f \in Seq(X)
  BY <1>1, <1>2 DEF f
<1>5. Front(Append(one \o f, l)) = one \o f /\ Last(Append(one \o f, l)) = l
  BY <1>1, <1>4, FrontAppend DEF l
<1>6. toks = Append(f, l)
  BY <1>1 DEF f, l
<1>7. Last(one \o toks) = l /\ Front(one \o toks) = one \o f
  BY <1>3, <1>5, <1>6
<1>. QED BY <1>7 DEF f, l, one

LEMMA EndsBehind ==
    ASSUME NEW X, NEW x \in X, NEW toks \in Seq(X), toks # <<>>, NEW end, x # end
    PROVE  EndsWell(<<x>> \o toks, end) <=> EndsWell(toks, end)
<1>1. Front(toks) \in Seq(X)
  BY FrontLast
<1>2. Last(<<x>> \o toks) = Last(toks) /\ Front(<<x>> \o toks) = <<x>> \o Front(toks)
  BY ConsEnd
<1>3. ToSet(<<x>> \o Front(toks)) = {x} \cup ToSet(Front(toks))
  BY <1>1, ConsSet
<1>. QED BY <1>2, <1>3 DEF EndsWell

LEMMA EndsAlone == ASSUME NEW X, NEW x \in X PROVE EndsWell(<<x>>, x)
<1>. DEFINE e == <<>>
<1>1. e \in Seq(X) /\ <<x>> = Append(e, x)
  OBVIOUS
<1>. HIDE DEF e
<1>2. Front(Append(e, x)) = e /\ Last(Append(e, x)) = x
  BY <1>1, FrontAppend
<1>3. ToSet(e) = {}
  BY DEF e, ToSet
<1>. QED BY <1>1, <1>2, <1>3 DEF EndsWell

Token == Str \ {<<>>}

LEMMA TokensNonempty == ASSUME NEW kind, NEW s \in Str PROVE Tokens(kind, s) \in Seq(Token)
<1>. DEFINE T == {u \in Str : Tokens(kind, u) \in Seq(Token)}
<1>1. ASSUME NEW u \in Seq(Char), \A v \in Seq(Char) : Len(v) < Len(u) => v \in T
      PROVE  u \in T
  <2>1. CASE u = <<>>
    BY <2>1, TokensEmpty, EmptySeq DEF Str
  <2>2. CASE u # <<>>
    <3>. DEFINE t == FirstToken(kind, u)
                b == Behind(kind, u)
                r == Tokens(kind, b)
    <3>1. t \in Token /\ b \in Str /\ Len(b) < Len(u) /\ Tokens(kind, u) = <<t>> \o r
      BY <2>2, TokensUnfold DEF Token, Str
    <3>. HIDE DEF t, b
    <3>2. b \in T
      BY <1>1, <3>1 DEF Str
    <3>3. r \in Seq(Token)
      BY <3>2
    <3>. HIDE DEF r
    <3>4. <<t>> \o r \in Seq(Token)
      BY <3>1, <3>3
    <3>. QED BY <3>1, <3>4 DEF Str
  <2>. QED BY <2>1, <2>2
<1>2. \A u \in Seq(Char) : u \in T
  <2>. HIDE DEF T
  <2>. QED BY <1>1, LengthInd
<1>. QED BY <1>2 DEF Str

(* What is known of a line by its first token. *)
LEMMA CleanUnfold ==
    ASSUME NEW kind, NEW s \in Str, s # <<>>
    PROVE  Clean(kind, s) <=> FirstToken(kind, s) # Terminator(kind) /\ Clean(kind, Behind(kind, s))
<1>. DEFINE t == FirstToken(kind, s)
            r == Tokens(kind, Behind(kind, s))
<1>1. t \in Str /\ r \in Seq(Str) /\ Tokens(kind, s) = <<t>> \o r
  BY TokensUnfold
<1>2. Clean(kind, Behind(kind, s)) <=> Terminator(kind) \notin ToSet(r)
  BY DEF Clean
<1>. HIDE DEF t, r
<1>3. ToSet(<<t>> \o r) = {t} \cup ToSet(r)
  BY <1>1, ConsSet
<1>. QED BY <1>1, <1>2, <1>3 DEF Clean, t

LEMMA CleanEmpty == ASSUME NEW kind PROVE Clean(kind, <<>>)
  BY TokensEmpty DEF Clean, ToSet

-----------------------------------------------------------------------------
(* What a line says.                                                       *)

Heard == Char \cup {"interpolation"}
MeaningOf(kind) == [t \in Token |-> Meaning(kind, t)]
Said(kind, s)   == Mapped(MeaningOf(kind), Tokens(kind, s))

LEMMA MeaningTyped == ASSUME NEW kind PROVE MapsInto(MeaningOf(kind), Token, Heard)
<1>1. ASSUME NEW t \in Token PROVE Meaning(kind, t) \in Seq(Heard)
  <2>1. t \in Seq(Char) /\ t # <<>> /\ Len(t) \in Nat /\ Len(t) >= 1 /\ t \in Seq(Heard)
    BY DEF Token, Str, Heard
  <2>2. Tail(t) \in Seq(Heard)
    BY <2>1
  <2>3. <<"interpolation">> \in Seq(Heard)
    BY DEF Heard
  <2>4. Close \in Seq(Heard) /\ <<Dollar>> \in Seq(Heard)
    BY Characters DEF Close, Heard
  <2>5. SubSeq(t, 4, Len(t)) \in Seq(Heard)
    BY <2>1
  <2>. QED BY <2>1, <2>2, <2>3, <2>4, <2>5 DEF Meaning
<1>. QED BY <1>1 DEF MapsInto, MeaningOf

LEMMA SaidEmpty == ASSUME NEW kind PROVE Said(kind, <<>>) = <<>>
  BY TokensEmpty, MappedEmpty DEF Said

LEMMA SaidUnfold ==
    ASSUME NEW kind, NEW s \in Str, s # <<>>
    PROVE  /\ Said(kind, s) = Meaning(kind, FirstToken(kind, s)) \o Said(kind, Behind(kind, s))
           /\ Meaning(kind, FirstToken(kind, s)) \in Seq(Heard) /\ Said(kind, Behind(kind, s)) \in Seq(Heard)
<1>. DEFINE t == FirstToken(kind, s)
            one == <<t>>
            r == Tokens(kind, Behind(kind, s))
            g == MeaningOf(kind)
            e == <<>>
<1>1. t \in Token /\ Behind(kind, s) \in Str /\ Tokens(kind, s) = one \o r
  BY TokensUnfold DEF Token
<1>2. r \in Seq(Token)
  BY <1>1, TokensNonempty
<1>3. MapsInto(g, Token, Heard)
  BY MeaningTyped
<1>4. one \in Seq(Token) /\ one = Append(e, t) /\ e \in Seq(Token) /\ Mapped(g, e) = e
  BY <1>1, MappedEmpty
<1>5. g[t] = Meaning(kind, t) /\ g[t] \in Seq(Heard)
  BY <1>1, <1>3 DEF MapsInto, MeaningOf
<1>. HIDE DEF t, one, r, g, e
<1>6. Mapped(g, one \o r) = Mapped(g, one) \o Mapped(g, r) /\ Mapped(g, r) \in Seq(Heard)
  <2>1. one \in Seq(Token)
    BY <1>4
  <2>2. Mapped(g, one \o r) = Mapped(g, one) \o Mapped(g, r)
    BY ONLY <2>1, <1>2, <1>3, MappedConcat
  <2>3. Mapped(g, r) \in Seq(Heard)
    BY ONLY <1>2, <1>3, MappedType
  <2>. QED BY <2>2, <2>3
<1>7. Mapped(g, Append(e, t)) = Mapped(g, e) \o g[t]
  <2>1. t \in Token /\ e \in Seq(Token)
    BY <1>1, <1>4
  <2>. QED BY ONLY <2>1, <1>3, MappedAppend
<1>8. e \o g[t] = g[t]
  BY <1>5 DEF e
<1>9. Said(kind, s) = Mapped(g, one \o r) /\ Said(kind, Behind(kind, s)) = Mapped(g, r)
  BY <1>1 DEF Said, r, g
<1>. QED BY <1>4, <1>5, <1>6, <1>7, <1>8, <1>9 DEF t

-----------------------------------------------------------------------------
(* Spaces in front of a line.                                              *)

Shifted(n, s) == Spaces(n) \o s

LEMMA OnlySpacesIs ==
    ASSUME NEW X, NEW s \in Seq(X)
    PROVE  IsOnlySpaces(s) <=> \A i \in 1..Len(s) : s[i] = Blank
<1>1. DOMAIN s = 1..Len(s)
  OBVIOUS
<1>. QED BY <1>1 DEF IsOnlySpaces, ToSet

Leads(s, n) == /\ n \in 0..Len(s) /\ \A i \in 1..n : s[i] = Blank
               /\ n < Len(s) => s[n + 1] # Blank

LEMMA LeadingIs ==
    ASSUME NEW s \in Str
    PROVE  Leads(s, LeadingSpaces(s)) /\ \A n : Leads(s, n) => LeadingSpaces(s) = n
<1>. DEFINE P(n) == /\ IsOnlySpaces(SubSeq(s, 1, n))
                    /\ n < Len(s) => s[n + 1] # Blank
            T == {k \in 0..Len(s) : k < Len(s) => s[k + 1] # Blank}
<1>0. Len(s) \in Nat
  BY DEF Str
<1>1. ASSUME NEW n \in 0..Len(s) PROVE P(n) <=> Leads(s, n)
  <2>1. Taken(s, n) \in Str /\ Len(Taken(s, n)) = n /\ \A i \in 1..n : Taken(s, n)[i] = s[i]
    BY Rests DEF Str
  <2>2. IsOnlySpaces(Taken(s, n)) <=> \A i \in 1..n : s[i] = Blank
    BY <2>1, OnlySpacesIs DEF Str
  <2>. QED BY <2>2 DEF Leads, Taken
<1>2. PICK k \in T : \A j \in T : k <= j
  <2>1. T \in SUBSET Nat /\ Len(s) \in T
    BY <1>0
  <2>. HIDE DEF T
  <2>. QED BY <2>1, LeastNat
<1>3. Leads(s, k)
  <2>1. ASSUME NEW i \in 1..k PROVE s[i] = Blank
    <3>1. i - 1 \in 0..Len(s) /\ i - 1 < k /\ i - 1 < Len(s) /\ (i - 1) + 1 = i
      BY <1>0, <1>2
    <3>2. i - 1 \notin T
      BY <1>0, <1>2, <3>1
    <3>. QED BY <3>1, <3>2
  <2>. QED BY <1>2, <2>1 DEF Leads
<1>4. LeadingSpaces(s) \in 0..Len(s) /\ P(LeadingSpaces(s))
  <2>1. \E n \in 0..Len(s) : P(n)
    BY <1>1, <1>2, <1>3
  <2>2. LeadingSpaces(s) = CHOOSE n \in 0..Len(s) : P(n)
    BY DEF LeadingSpaces
  <2>. HIDE DEF P
  <2>. QED BY <2>1, <2>2
<1>5. Leads(s, LeadingSpaces(s))
  BY <1>1, <1>4
<1>6. ASSUME NEW m, NEW n, Leads(s, m), Leads(s, n) PROVE m = n
  <2>1. m \in Nat /\ n \in Nat /\ m <= Len(s) /\ n <= Len(s)
    BY <1>0, <1>6 DEF Leads
  <2>2. ~(m < n)
    <3>1. ASSUME m < n PROVE FALSE
      <4>1. m + 1 \in 1..n /\ m < Len(s)
        BY <1>0, <2>1, <3>1
      <4>. QED BY <1>6, <4>1 DEF Leads
    <3>. QED BY <3>1
  <2>3. ~(n < m)
    <3>1. ASSUME n < m PROVE FALSE
      <4>1. n + 1 \in 1..m /\ n < Len(s)
        BY <1>0, <2>1, <3>1
      <4>. QED BY <1>6, <4>1 DEF Leads
    <3>. QED BY <3>1
  <2>. QED BY <2>1, <2>2, <2>3
<1>. QED BY <1>5, <1>6

LEMMA SpacesTyped == ASSUME NEW n \in Nat
                     PROVE  Spaces(n) \in Str /\ Len(Spaces(n)) = n /\ \A i \in 1..n : Spaces(n)[i] = Blank
<1>1. Blank \in Char
  BY Characters
<1>. QED BY <1>1 DEF Spaces, Str

LEMMA ShiftedProps ==
    ASSUME NEW n \in Nat, NEW s \in Str
    PROVE  /\ Shifted(n, s) \in Str /\ Len(Shifted(n, s)) = n + Len(s) /\ Len(s) \in Nat
           /\ \A i \in 1..n : Shifted(n, s)[i] = Blank
           /\ \A i \in 1..Len(s) : Shifted(n, s)[n + i] = s[i]
<1>. DEFINE a == Spaces(n)
<1>1. a \in Seq(Char) /\ s \in Seq(Char) /\ Len(a) = n /\ \A i \in 1..n : a[i] = Blank
  BY SpacesTyped DEF Str
<1>. HIDE DEF a
<1>2. Len(s) \in Nat /\ a \o s \in Seq(Char) /\ Len(a \o s) = n + Len(s)
  BY <1>1
<1>3. \A i \in 1..n : (a \o s)[i] = Blank
  BY <1>1
<1>4. \A i \in 1..Len(s) : (a \o s)[n + i] = s[i]
  BY <1>1
<1>. QED BY <1>2, <1>3, <1>4 DEF Shifted, a, Str

LEMMA ShiftedSpaces ==
    ASSUME NEW n \in Nat, NEW s \in Str
    PROVE  /\ LeadingSpaces(Shifted(n, s)) = n + LeadingSpaces(s)
           /\ LeadingSpaces(s) \in 0..Len(s)
           /\ IsOnlySpaces(Shifted(n, s)) <=> IsOnlySpaces(s)
           /\ IsOnlySpaces(s) <=> LeadingSpaces(s) = Len(s)
<1>. DEFINE u == Shifted(n, s)
            k == LeadingSpaces(s)
<1>1. /\ u \in Str /\ Len(u) = n + Len(s) /\ Len(s) \in Nat
      /\ \A i \in 1..n : u[i] = Blank
      /\ \A i \in 1..Len(s) : u[n + i] = s[i]
  BY ShiftedProps
<1>2. Leads(s, k)
  BY LeadingIs
<1>. HIDE DEF u, k
<1>3. k \in 0..Len(s) /\ k \in Nat
  BY <1>2 DEF Leads
<1>4. Leads(u, n + k)
  <2>1. n + k \in 0..Len(u)
    BY <1>1, <1>3
  <2>2. ASSUME NEW i \in 1..(n + k) PROVE u[i] = Blank
    <3>1. CASE i <= n
      BY <1>1, <3>1
    <3>2. CASE i > n
      <4>1. i - n \in 1..k /\ i - n \in 1..Len(s) /\ n + (i - n) = i
        BY <1>1, <1>3, <3>2
      <4>2. s[i - n] = Blank /\ u[n + (i - n)] = s[i - n]
        BY <1>1, <1>2, <4>1 DEF Leads
      <4>. QED BY <4>1, <4>2
    <3>. QED BY <3>1, <3>2
  <2>3. ASSUME n + k < Len(u) PROVE u[(n + k) + 1] # Blank
    <3>1. k < Len(s) /\ k + 1 \in 1..Len(s) /\ n + (k + 1) = (n + k) + 1
      BY <1>1, <1>3, <2>3
    <3>2. s[k + 1] # Blank /\ u[n + (k + 1)] = s[k + 1]
      BY <1>1, <1>2, <3>1 DEF Leads
    <3>. QED BY <3>1, <3>2
  <2>. QED BY <2>1, <2>2, <2>3 DEF Leads
<1>5. LeadingSpaces(u) = n + k
  BY <1>1, <1>4, LeadingIs
<1>6. IsOnlySpaces(s) <=> k = Len(s)
  <2>1. IsOnlySpaces(s) <=> \A i \in 1..Len(s) : s[i] = Blank
    BY OnlySpacesIs DEF Str
  <2>2. k < Len(s) => k + 1 \in 1..Len(s)
    BY <1>1, <1>3
  <2>. QED BY <1>1, <1>2, <1>3, <2>1, <2>2 DEF Leads
<1>7. IsOnlySpaces(u) <=> IsOnlySpaces(s)
  <2>1. IsOnlySpaces(s) <=> \A i \in 1..Len(s) : s[i] = Blank
    BY OnlySpacesIs DEF Str
  <2>2. IsOnlySpaces(u) <=> \A i \in 1..Len(u) : u[i] = Blank
    BY <1>1, OnlySpacesIs DEF Str
  <2>3. ASSUME \A i \in 1..Len(u) : u[i] = Blank PROVE \A i \in 1..Len(s) : s[i] = Blank
    <3>1. \A i \in 1..Len(s) : n + i \in 1..Len(u)
      BY <1>1
    <3>. QED BY <1>1, <2>3, <3>1
  <2>4. ASSUME \A i \in 1..Len(s) : s[i] = Blank, NEW i \in 1..Len(u) PROVE u[i] = Blank
    <3>1. CASE i <= n
      BY <1>1, <3>1
    <3>2. CASE i > n
      <4>1. i - n \in 1..Len(s) /\ n + (i - n) = i
        BY <1>1, <3>2
      <4>2. s[i - n] = Blank /\ u[n + (i - n)] = s[i - n]
        BY <1>1, <2>4, <4>1
      <4>. QED BY <4>1, <4>2
    <3>. QED BY <3>1, <3>2
  <2>. QED BY <2>1, <2>2, <2>3, <2>4
<1>. QED BY <1>3, <1>5, <1>6, <1>7 DEF u, k

LEMMA ShiftedRest ==
    ASSUME NEW n \in Nat, NEW s \in Str, NEW m \in 0..n
    PROVE  WithoutPrefix(Shifted(n, s), m) = Shifted(n - m, s)
<1>. DEFINE u == Shifted(n, s)
            r == WithoutPrefix(u, m)
            v == Shifted(n - m, s)
<1>0. n - m \in Nat /\ m \in Nat
  OBVIOUS
<1>1. /\ u \in Str /\ Len(u) = n + Len(s) /\ Len(s) \in Nat
      /\ \A i \in 1..n : u[i] = Blank
      /\ \A i \in 1..Len(s) : u[n + i] = s[i]
  BY ShiftedProps
<1>2. /\ v \in Str /\ Len(v) = (n - m) + Len(s)
      /\ \A i \in 1..(n - m) : v[i] = Blank
      /\ \A i \in 1..Len(s) : v[(n - m) + i] = s[i]
  BY <1>0, ShiftedProps
<1>. HIDE DEF u, v
<1>3. r \in Str /\ Len(r) = Len(u) - m /\ \A i \in 1..(Len(u) - m) : r[i] = u[m + i]
  <2>1. m \in 0..Len(u)
    BY <1>0, <1>1
  <2>. QED BY <1>1, <2>1, Rests DEF Str
<1>. HIDE DEF r
<1>4. Len(r) = Len(v)
  BY <1>0, <1>1, <1>2, <1>3
<1>5. ASSUME NEW i \in 1..Len(r) PROVE r[i] = v[i]
  <2>1. r[i] = u[m + i]
    BY <1>3
  <2>2. CASE i <= n - m
    <3>1. m + i \in 1..n /\ i \in 1..(n - m)
      BY <1>0, <2>2
    <3>. QED BY <1>1, <1>2, <2>1, <3>1
  <2>3. CASE ~(i <= n - m)
    <3>. DEFINE j == i - (n - m)
    <3>1. j \in 1..Len(s) /\ m + i = n + j /\ i = (n - m) + j
      BY <1>0, <1>1, <1>2, <1>4, <2>3
    <3>. HIDE DEF j
    <3>. QED BY <1>1, <1>2, <2>1, <3>1
  <2>. QED BY <2>2, <2>3
<1>6. r = v
  BY <1>2, <1>3, <1>4, <1>5, SameSeq DEF Str
<1>. QED BY <1>6 DEF r, u, v

LEMMA Unshifted ==
    ASSUME NEW s \in Str, NEW n \in 0..LeadingSpaces(s)
    PROVE  WithoutPrefix(s, n) \in Str /\ n \in Nat /\ s = Shifted(n, WithoutPrefix(s, n))
<1>. DEFINE k == LeadingSpaces(s)
            r == WithoutPrefix(s, n)
            a == Spaces(n)
            t == Taken(s, n)
<1>1. Leads(s, k)
  BY LeadingIs
<1>. HIDE DEF k
<1>2. n \in Nat /\ n \in 0..Len(s) /\ \A i \in 1..n : s[i] = Blank
  BY <1>1 DEF Leads, k, Str
<1>3. r \in Str /\ t \in Seq(Char) /\ Len(t) = n /\ \A i \in 1..n : t[i] = s[i]
  BY <1>2, Rests DEF Str
<1>4. a \in Str /\ Len(a) = n /\ \A i \in 1..n : a[i] = Blank
  BY <1>2, SpacesTyped
<1>5. s = t \o r
  BY <1>2, CutInTwo DEF Str
<1>. HIDE DEF a, t, r
<1>6. t = a
  <2>1. Len(t) = Len(a) /\ \A i \in 1..Len(t) : t[i] = a[i]
    BY <1>2, <1>3, <1>4
  <2>. QED BY <1>3, <1>4, <2>1, SameSeq DEF Str
<1>. QED BY <1>2, <1>3, <1>5, <1>6 DEF Shifted, a, r

LEMMA ShiftedZero == ASSUME NEW s \in Str PROVE Shifted(0, s) = s
<1>1. WithoutPrefix(Shifted(0, s), 0) = Shifted(0 - 0, s)
  BY ShiftedRest
<1>. DEFINE u == Shifted(0, s)
<1>2. u \in Str /\ Len(u) = 0 + Len(s) /\ Len(s) \in Nat /\ \A i \in 1..Len(s) : u[0 + i] = s[i]
  BY ShiftedProps
<1>. HIDE DEF u
<1>3. Len(u) = Len(s) /\ \A i \in 1..Len(s) : u[i] = s[i]
  BY <1>2
<1>4. u = s
  BY <1>2, <1>3, SameSeq DEF Str
<1>. QED BY <1>4 DEF u

LEMMA ShiftedOne ==
    ASSUME NEW n \in Nat, NEW s \in Str
    PROVE  Shifted(n + 1, s) = <<Blank>> \o Shifted(n, s) /\ Shifted(n, s) \in Str
<1>. DEFINE u == Shifted(n + 1, s)
            v == Shifted(n, s)
            b == <<Blank>>
<1>1. n + 1 \in Nat /\ 1 \in 0..(n + 1) /\ (n + 1) - 1 = n
  OBVIOUS
<1>2. WithoutPrefix(u, 1) = v
  BY <1>1, ShiftedRest
<1>3. u \in Str /\ Len(u) = (n + 1) + Len(s) /\ Len(s) \in Nat /\ \A i \in 1..(n + 1) : u[i] = Blank
  BY <1>1, ShiftedProps
<1>4. v \in Str
  BY ShiftedProps
<1>5. b \in Str /\ Len(b) = 1 /\ b[1] = Blank
  BY Characters DEF Str
<1>. HIDE DEF u, v, b
<1>. DEFINE t == Taken(u, 1)
<1>6. 1 \in 0..Len(u) /\ 1 \in 1..(n + 1)
  BY <1>3
<1>7. t \in Str /\ Len(t) = 1 /\ t[1] = Blank
  <2>0. u \in Seq(Char)
    BY <1>3 DEF Str
  <2>1. t \in Seq(Char) /\ Len(t) = 1 /\ \A i \in 1..1 : t[i] = u[i]
    BY <1>6, <2>0, Rests
  <2>. HIDE DEF t
  <2>. QED BY <1>3, <1>6, <2>1 DEF Str
<1>8. u = t \o v
  BY <1>2, <1>3, <1>6, CutInTwo DEF Str
<1>. HIDE DEF t
<1>9. t = b
  <2>1. Len(t) = Len(b) /\ \A i \in 1..Len(t) : t[i] = b[i]
    BY <1>5, <1>7
  <2>. QED BY <1>5, <1>7, <2>1, SameSeq DEF Str
<1>. QED BY <1>4, <1>8, <1>9 DEF u, v, b

(* A space is a token of its own. *)
LEMMA TokensBlank ==
    ASSUME NEW s \in Str
    PROVE  /\ <<Blank>> \o s \in Str /\ <<Blank>> \o s # <<>>
           /\ FirstToken("indented", <<Blank>> \o s) = <<Blank>>
           /\ Behind("indented", <<Blank>> \o s) = s
<1>. DEFINE b == <<Blank>>
            u == b \o s
<1>1. b \in Seq(Char) /\ s \in Seq(Char) /\ Len(b) = 1 /\ b[1] = Blank
  BY Characters DEF Str
<1>2. u \in Seq(Char) /\ Len(u) = 1 + Len(s) /\ Len(s) \in Nat /\ u[1] = Blank
  <2>. HIDE DEF b
  <2>1. u \in Seq(Char) /\ Len(u) = Len(b) + Len(s) /\ Len(s) \in Nat /\ Len(b) \in Nat
    BY <1>1, ConcatProperties, LenProperties
  <2>2. \A i \in 1..(Len(b) + Len(s)) : u[i] = IF i <= Len(b) THEN b[i] ELSE s[i - Len(b)]
    BY <1>1, ConcatProperties
  <2>. HIDE DEF u
  <2>3. 1 \in 1..(Len(b) + Len(s)) /\ 1 <= Len(b)
    BY <1>1, <2>1
  <2>. QED BY <1>1, <2>1, <2>2, <2>3
<1>3. WithoutPrefix(u, 1) = s /\ Taken(u, 1) = b
  <2>. HIDE DEF b
  <2>1. WithoutPrefix(b \o s, Len(b)) = s /\ Taken(b \o s, Len(b)) = b
    BY <1>1, RestOfJoin
  <2>. QED BY <1>1, <2>1
<1>. HIDE DEF u
<1>4. ScanStep("indented", u) = 1
  <2>1. Blank # Apostrophe /\ Blank # Dollar
    BY Characters
  <2>2. IndentedStep(u) = 1
    BY <1>2, <2>1, IndentedSteps DEF TwoAre, ThreeAre
  <2>. QED BY <2>2 DEF ScanStep
<1>5. u # <<>>
  BY <1>2
<1>. QED BY <1>2, <1>3, <1>4, <1>5 DEF FirstToken, Behind, Str, u

LEMMA CloseIs == /\ Terminator("indented") = Close /\ Close \in Str /\ Len(Close) = 2 /\ Close # <<Blank>>
                 /\ Close[1] = Apostrophe /\ Close[2] = Apostrophe
<1>1. Close \in Str /\ Len(Close) = 2 /\ Close[1] = Apostrophe /\ Close[2] = Apostrophe
  BY Characters DEF Close, Str
<1>2. Len(<<Blank>>) = 1
  OBVIOUS
<1>. QED BY <1>1, <1>2 DEF Terminator

LEMMA SpaceInFront ==
    ASSUME NEW s \in Str
    PROVE  /\ Clean("indented", <<Blank>> \o s) <=> Clean("indented", s)
           /\ EndsIn("indented", <<Blank>> \o s) <=> EndsIn("indented", s)
<1>. DEFINE b == <<Blank>>
            u == b \o s
            w == s \o Close
            k == "indented"
<1>1. /\ u \in Str /\ u # <<>> /\ FirstToken(k, u) = b /\ Behind(k, u) = s
  BY TokensBlank
<1>2. Clean(k, u) <=> Clean(k, s)
  <2>1. Clean(k, u) <=> FirstToken(k, u) # Terminator(k) /\ Clean(k, Behind(k, u))
    BY <1>1, CleanUnfold
  <2>. QED BY <1>1, <2>1, CloseIs
<1>3. w \in Str /\ w # <<>> /\ b \in Str
  <2>1. s \in Seq(Char) /\ Close \in Seq(Char) /\ Len(Close) = 2
    BY CloseIs DEF Str
  <2>2. w \in Seq(Char) /\ Len(w) = Len(s) + 2 /\ Len(s) \in Nat
    BY ONLY <2>1, ConcatProperties, LenProperties
  <2>3. w # <<>>
    BY <2>2
  <2>. QED BY <2>2, <2>3, Characters DEF Str
<1>4. u \o Close = b \o w
  <2>1. b \in Str /\ Close \in Str
    BY <1>3, CloseIs
  <2>. HIDE DEF b
  <2>. QED BY <2>1, Associative DEF Associates, Str
<1>. HIDE DEF w
<1>5. b \o w \in Str /\ b \o w # <<>> /\ FirstToken(k, b \o w) = b /\ Behind(k, b \o w) = w
  BY <1>3, TokensBlank
<1>. DEFINE toks == Tokens(k, w)
<1>6. Tokens(k, b \o w) = <<b>> \o toks /\ toks \in Seq(Str)
  BY <1>5, TokensUnfold
<1>7. toks # <<>>
  <2>. DEFINE t == FirstToken(k, w)
              r == Tokens(k, Behind(k, w))
  <2>1. t \in Str /\ r \in Seq(Str) /\ toks = <<t>> \o r
    BY <1>3, TokensUnfold
  <2>. HIDE DEF t, r, toks
  <2>2. Len(<<t>> \o r) >= 1
    BY <2>1
  <2>3. <<t>> \o r # <<>>
    BY <2>2
  <2>. QED BY <2>1, <2>3
<1>. HIDE DEF toks, b
<1>8. b # Close
  BY CloseIs DEF b
<1>9. EndsWell(<<b>> \o toks, Close) <=> EndsWell(toks, Close)
  BY <1>3, <1>6, <1>7, <1>8, EndsBehind
<1>10. EndsIn(k, u) <=> EndsIn(k, s)
  BY <1>4, <1>6, <1>9, CloseIs DEF EndsIn, toks, w
<1>. QED BY <1>2, <1>10 DEF b

LEMMA SpacesInFront ==
    ASSUME NEW s \in Str, NEW n \in Nat
    PROVE  /\ Clean("indented", Shifted(n, s)) <=> Clean("indented", s)
           /\ EndsIn("indented", Shifted(n, s)) <=> EndsIn("indented", s)
<1>. DEFINE T == {m \in Nat : /\ Clean("indented", Shifted(m, s)) <=> Clean("indented", s)
                              /\ EndsIn("indented", Shifted(m, s)) <=> EndsIn("indented", s)}
<1>1. 0 \in T
  BY ShiftedZero
<1>2. ASSUME NEW m \in T PROVE m + 1 \in T
  <2>1. m \in Nat /\ m + 1 \in Nat
    BY <1>2
  <2>2. Shifted(m + 1, s) = <<Blank>> \o Shifted(m, s) /\ Shifted(m, s) \in Str
    BY <2>1, ShiftedOne
  <2>. DEFINE u == Shifted(m, s)
  <2>. HIDE DEF u
  <2>3. /\ Clean("indented", <<Blank>> \o u) <=> Clean("indented", u)
        /\ EndsIn("indented", <<Blank>> \o u) <=> EndsIn("indented", u)
    BY <2>2, SpaceInFront DEF u
  <2>. QED BY <1>2, <2>1, <2>2, <2>3 DEF u
<1>3. T = Nat
  <2>. HIDE DEF T
  <2>1. T \in SUBSET Nat
    BY DEF T
  <2>. QED BY <1>1, <1>2, <2>1, NatInd
<1>. QED BY <1>3

-----------------------------------------------------------------------------
(* The parts of a line.                                                    *)

PartSet == [interp : BOOLEAN, text : Str]

AddToken(acc, token) ==
    IF acc # <<>> /\ ~Last(acc).interp /\ token # Interpolation
    THEN Append(Front(acc), TextPart(Last(acc).text \o token)) ELSE Append(acc, Part(token))

PartsOf(toks) ==
    LET add(acc, token) ==
            IF acc # <<>> /\ ~Last(acc).interp /\ token # Interpolation
            THEN Append(Front(acc), TextPart(Last(acc).text \o token)) ELSE Append(acc, Part(token))
    IN FoldLeft(add, <<>>, toks)

(* A token in front: it is joined with the text that follows. *)
Prepend(t, parts) ==
    IF t = Interpolation \/ parts = <<>> \/ parts[1].interp THEN <<Part(t)>> \o parts
    ELSE <<TextPart(t \o parts[1].text)>> \o Tail(parts)

LEMMA PartTyped ==
    /\ \A t \in Str : Part(t) \in PartSet /\ Part(t).text = t /\ (Part(t).interp <=> t = Interpolation)
    /\ \A t \in Str : TextPart(t) \in PartSet /\ TextPart(t).text = t /\ ~TextPart(t).interp
    /\ \A t \in Str : t # Interpolation => Part(t) = TextPart(t)
    /\ \A p \in PartSet : p.text \in Str /\ (~p.interp => p = TextPart(p.text))
<1>1. \A t \in Str : Part(t) \in PartSet /\ Part(t).text = t /\ (Part(t).interp <=> t = Interpolation)
  BY DEF Part, PartSet
<1>2. \A t \in Str : TextPart(t) \in PartSet /\ TextPart(t).text = t /\ ~TextPart(t).interp
  BY DEF TextPart, PartSet
<1>3. \A t \in Str : t # Interpolation => Part(t) = TextPart(t)
  BY DEF Part, TextPart
<1>4. \A p \in PartSet : p.text \in Str /\ (~p.interp => p = TextPart(p.text))
  BY DEF TextPart, PartSet
<1>. QED BY <1>1, <1>2, <1>3, <1>4

LEMMA StrJoin == \A s, t \in Str : s \o t \in Str
  BY ConcatProperties DEF Str

LEMMA AddTyped ==
    ASSUME NEW acc \in Seq(PartSet), NEW t \in Str
    PROVE  AddToken(acc, t) \in Seq(PartSet) /\ AddToken(acc, t) # <<>>
<1>1. Part(t) \in PartSet
  BY PartTyped
<1>2. CASE acc # <<>> /\ ~Last(acc).interp /\ t # Interpolation
  <2>1. Front(acc) \in Seq(PartSet) /\ Last(acc) \in PartSet
    BY <1>2, FrontLast
  <2>2. Last(acc).text \o t \in Str
    BY <2>1, PartTyped, StrJoin
  <2>. DEFINE p == TextPart(Last(acc).text \o t)
  <2>3. p \in PartSet
    BY <2>2, PartTyped
  <2>. HIDE DEF p
  <2>4. Append(Front(acc), p) \in Seq(PartSet) /\ Append(Front(acc), p) # <<>>
    BY <2>1, <2>3, FrontAppend
  <2>. QED BY <1>2, <2>4 DEF AddToken, p
<1>3. CASE ~(acc # <<>> /\ ~Last(acc).interp /\ t # Interpolation)
  <2>1. Append(acc, Part(t)) \in Seq(PartSet) /\ Append(acc, Part(t)) # <<>>
    BY <1>1, FrontAppend
  <2>. QED BY <1>3, <2>1 DEF AddToken
<1>. QED BY <1>2, <1>3

PartStep == [p \in Seq(PartSet) \X Str |-> AddToken(p[1], p[2])]

LEMMA PartsFolded == ASSUME NEW s \in Seq(Str) PROVE Folded(PartsOf(s), Seq(PartSet), <<>>, PartStep, s)
<1>. DEFINE step == PartStep
            Rec(h) == h = [t \in SUBSET DOMAIN s |-> IF t = {} THEN <<>>
                                                     ELSE AddToken(h[t \ {Max(t)}], s[Max(t)])]
            n == Len(s)
            A == Seq(PartSet)
            e == <<>>
<1>0. DOMAIN s = 1..n /\ n \in Nat /\ \A k \in 1..n : s[k] \in Str
  OBVIOUS
<1>1. step \in [A \X Str -> A] /\ \A a \in A, x \in Str : step[<<a, x>>] = AddToken(a, x)
  BY AddTyped DEF PartStep
<1>2. e \in A
  BY EmptySeq
<1>. HIDE DEF step, A
<1>3. PICK h \in [SUBSET (1..n) -> A] : IsIteration(h, n, e, step, s)
  <2>. HIDE DEF e
  <2>. QED BY <1>1, <1>2, IterationExists
<1>4. \A t \in SUBSET (1..n) : t # {} => Max(t) \in 1..n
  BY <1>0, MaxOfPart
<1>5. Rec(h)
  <2>1. ASSUME NEW t \in SUBSET (1..n)
        PROVE  h[t] = IF t = {} THEN <<>> ELSE AddToken(h[t \ {Max(t)}], s[Max(t)])
    <3>1. CASE t = {}
      BY <1>3, <3>1 DEF IsIteration
    <3>2. CASE t # {}
      <4>1. h[t \ {Max(t)}] \in A /\ s[Max(t)] \in Str
        BY <1>0, <1>4, <3>2
      <4>2. h[t] = step[<<h[t \ {Max(t)}], s[Max(t)]>>]
        BY <1>3, <3>2 DEF IsIteration
      <4>. QED BY <1>1, <3>2, <4>1, <4>2
    <3>. QED BY <3>1, <3>2
  <2>. QED BY <1>0, <2>1
<1>. DEFINE g == CHOOSE h2 : Rec(h2)
<1>6. Rec(g)
  <2>. HIDE DEF Rec
  <2>. QED BY <1>5
<1>7. PartsOf(s) = g[1..n]
  <2>1. PartsOf(s) = (CHOOSE h2 : Rec(h2))[DOMAIN s]
    BY DEF PartsOf, FoldLeft, MapThenFoldSet, AddToken
  <2>. QED BY <1>0, <2>1
<1>. HIDE DEF g
<1>8. StepsWhereTyped(g, n, A, e, step, s)
  <2>1. \A t \in SUBSET (1..n) : g[t] = IF t = {} THEN <<>> ELSE AddToken(g[t \ {Max(t)}], s[Max(t)])
    BY <1>0, <1>6
  <2>. HIDE DEF Rec
  <2>2. g[{}] = <<>>
    BY <2>1
  <2>3. ASSUME NEW t \in SUBSET (1..n), t # {}, g[t \ {Max(t)}] \in A
        PROVE  g[t] = step[<<g[t \ {Max(t)}], s[Max(t)]>>]
    <3>1. s[Max(t)] \in Str
      BY <1>0, <1>4, <2>3
    <3>2. g[t] = AddToken(g[t \ {Max(t)}], s[Max(t)])
      BY <2>1, <2>3
    <3>. QED BY <1>1, <2>3, <3>1, <3>2
  <2>. QED BY <2>2, <2>3 DEF StepsWhereTyped
<1>9. Folded(g[1..n], A, e, step, s)
  <2>. HIDE DEF Rec, e
  <2>. QED BY <1>1, <1>2, <1>8, IterationFolds
<1>. QED BY <1>7, <1>9 DEF step, A

LEMMA PartsOfEmpty == PartsOf(<<>>) = <<>>
<1>. DEFINE e == <<>>
<1>1. e \in Seq(Str)
  BY EmptySeq
<1>2. Folded(PartsOf(e), Seq(PartSet), <<>>, PartStep, e)
  <2>. HIDE DEF e
  <2>. QED BY <1>1, PartsFolded
<1>. QED BY <1>2, FoldedEmpty

LEMMA PartsOfAppend ==
    ASSUME NEW toks \in Seq(Str), NEW t \in Str
    PROVE  PartsOf(toks) \in Seq(PartSet) /\ PartsOf(Append(toks, t)) = AddToken(PartsOf(toks), t)
<1>. DEFINE more == Append(toks, t)
            e == <<>>
<1>1. more \in Seq(Str)
  OBVIOUS
<1>2. Folded(PartsOf(toks), Seq(PartSet), e, PartStep, toks) /\ Folded(PartsOf(more), Seq(PartSet), e, PartStep, more)
  BY <1>1, PartsFolded
<1>. HIDE DEF e
<1>3. PartsOf(more) = PartStep[<<PartsOf(toks), t>>] /\ PartsOf(toks) \in Seq(PartSet)
  BY <1>2, FoldedAppend
<1>4. PartStep[<<PartsOf(toks), t>>] = AddToken(PartsOf(toks), t)
  BY <1>3 DEF PartStep
<1>. QED BY <1>3, <1>4

(* A sequence by its first element. *)
LEMMA ConsProps ==
    ASSUME NEW X, NEW x \in X, NEW s \in Seq(X)
    PROVE  /\ <<x>> \o s \in Seq(X) /\ <<x>> \o s # <<>> /\ (<<x>> \o s)[1] = x
           /\ Tail(<<x>> \o s) = s /\ Len(<<x>> \o s) = Len(s) + 1
           /\ \A i \in 1..Len(s) : (<<x>> \o s)[i + 1] = s[i]
  OBVIOUS

LEMMA HeadRest ==
    ASSUME NEW X, NEW s \in Seq(X), s # <<>>
    PROVE  s[1] \in X /\ Tail(s) \in Seq(X) /\ s = <<s[1]>> \o Tail(s)
  OBVIOUS

LEMMA AddBehind ==
    ASSUME NEW p \in PartSet, NEW rest \in Seq(PartSet), rest # <<>>, NEW x \in Str
    PROVE  AddToken(<<p>> \o rest, x) = <<p>> \o AddToken(rest, x)
<1>. DEFINE one == <<p>>
            all == one \o rest
            f == Front(rest)
            l == Last(rest)
            y == TextPart(l.text \o x)
            z == Part(x)
<1>1. all # <<>> /\ one \in Seq(PartSet)
  BY ConsProps
<1>2. Last(all) = l /\ Front(all) = one \o f
  BY ConsEnd
<1>3. f \in Seq(PartSet) /\ l \in PartSet
  BY FrontLast
<1>4. y \in PartSet /\ z \in PartSet
  BY <1>3, PartTyped, StrJoin
<1>. HIDE DEF one, all, f, l, y, z
<1>5. Append(one \o f, y) = one \o Append(f, y) /\ Append(one \o rest, z) = one \o Append(rest, z)
  <2>1. one \in Seq(PartSet) /\ rest \in Seq(PartSet) /\ f \in Seq(PartSet) /\ y \in PartSet /\ z \in PartSet
    BY <1>1, <1>3, <1>4
  <2>2. Append(one \o f, y) = one \o Append(f, y)
    BY ONLY <2>1
  <2>3. Append(one \o rest, z) = one \o Append(rest, z)
    BY ONLY <2>1
  <2>. QED BY <2>2, <2>3
<1>6. AddToken(all, x) = one \o AddToken(rest, x)
  <2>1. CASE ~l.interp /\ x # Interpolation
    <3>1. AddToken(all, x) = Append(one \o f, y)
      BY <1>1, <1>2, <2>1 DEF AddToken, y
    <3>2. AddToken(rest, x) = Append(f, y)
      BY <2>1 DEF AddToken, l, f, y
    <3>. QED BY <1>5, <3>1, <3>2
  <2>2. CASE ~(~l.interp /\ x # Interpolation)
    <3>1. AddToken(all, x) = Append(one \o rest, z)
      BY <1>1, <1>2, <2>2 DEF AddToken, z, all
    <3>2. AddToken(rest, x) = Append(rest, z)
      BY <2>2 DEF AddToken, l, z
    <3>. QED BY <1>5, <3>1, <3>2
  <2>. QED BY <2>1, <2>2
<1>. QED BY <1>6 DEF all, one

LEMMA AddToOne ==
    ASSUME NEW p \in PartSet, NEW x \in Str
    PROVE  AddToken(<<p>>, x) = IF ~p.interp /\ x # Interpolation THEN <<TextPart(p.text \o x)>>
                                ELSE <<p>> \o <<Part(x)>>
<1>. DEFINE one == <<p>>
            e == <<>>
            y == TextPart(p.text \o x)
            z == Part(x)
<1>1. one \in Seq(PartSet) /\ one # <<>> /\ e \in Seq(PartSet) /\ one = Append(e, p)
  OBVIOUS
<1>2. Append(e, y) = <<y>> /\ Append(<<p>>, z) = <<p>> \o <<z>>
  OBVIOUS
<1>. HIDE DEF one, e, y, z
<1>3. Front(Append(e, p)) = e /\ Last(Append(e, p)) = p
  BY <1>1, FrontAppend
<1>4. Front(one) = e /\ Last(one) = p
  BY <1>1, <1>3
<1>5. CASE ~p.interp /\ x # Interpolation
  <2>1. AddToken(one, x) = Append(e, y)
    BY <1>1, <1>4, <1>5 DEF AddToken, y
  <2>. QED BY <1>2, <1>5, <2>1 DEF one, y
<1>6. CASE ~(~p.interp /\ x # Interpolation)
  <2>1. AddToken(one, x) = Append(one, z)
    BY <1>1, <1>4, <1>6 DEF AddToken, z
  <2>. QED BY <1>2, <1>6, <2>1 DEF one, z
<1>. QED BY <1>5, <1>6

LEMMA AddToNone == ASSUME NEW x \in Str PROVE AddToken(<<>>, x) = <<Part(x)>>
<1>1. Append(<<>>, Part(x)) = <<Part(x)>>
  OBVIOUS
<1>. QED BY <1>1 DEF AddToken

LEMMA PrependTo ==
    ASSUME NEW t \in Str, NEW p \in PartSet, NEW rest \in Seq(PartSet)
    PROVE  Prepend(t, <<p>> \o rest) = IF t = Interpolation \/ p.interp THEN <<Part(t)>> \o (<<p>> \o rest)
                                       ELSE <<TextPart(t \o p.text)>> \o rest
<1>. DEFINE all == <<p>> \o rest
<1>1. all # <<>> /\ all[1] = p /\ Tail(all) = rest
  BY ConsProps
<1>. HIDE DEF all
<1>2. Prepend(t, all) = IF t = Interpolation \/ p.interp THEN <<Part(t)>> \o all
                        ELSE <<TextPart(t \o p.text)>> \o rest
  BY <1>1 DEF Prepend
<1>. QED BY <1>2 DEF all

LEMMA PrependNone == ASSUME NEW t PROVE Prepend(t, <<>>) = <<Part(t)>>
<1>1. <<Part(t)>> \o <<>> = <<Part(t)>>
  OBVIOUS
<1>. QED BY <1>1 DEF Prepend

LEMMA AddPrepend ==
    ASSUME NEW t \in Str, NEW parts \in Seq(PartSet), NEW x \in Str
    PROVE  AddToken(Prepend(t, parts), x) = Prepend(t, AddToken(parts, x))
<1>0. Part(t) \in PartSet /\ Part(x) \in PartSet /\ Part(t).text = t /\ Part(x).text = x
      /\ (Part(t).interp <=> t = Interpolation) /\ (Part(x).interp <=> x = Interpolation)
  BY PartTyped
<1>. DEFINE e == <<>>
<1>e. e \in Seq(PartSet)
  OBVIOUS
<1>1. CASE parts = <<>>
  <2>1. AddToken(Prepend(t, parts), x) = AddToken(<<Part(t)>>, x)
    BY <1>1, PrependNone
  <2>2. Prepend(t, AddToken(parts, x)) = Prepend(t, <<Part(x)>>)
    BY <1>1, AddToNone
  <2>. DEFINE a == Part(t)
              b == Part(x)
  <2>3. <<b>> \o e = <<b>> /\ <<TextPart(t \o b.text)>> \o e = <<TextPart(t \o b.text)>>
    OBVIOUS
  <2>. HIDE DEF a, b, e
  <2>4. AddToken(<<a>>, x) = IF ~a.interp /\ x # Interpolation THEN <<TextPart(a.text \o x)>>
                             ELSE <<a>> \o <<b>>
    BY <1>0, AddToOne DEF a, b
  <2>5. Prepend(t, <<b>> \o e) = IF t = Interpolation \/ b.interp THEN <<a>> \o (<<b>> \o e)
                                 ELSE <<TextPart(t \o b.text)>> \o e
    BY <1>0, <1>e, PrependTo DEF a, b
  <2>6. AddToken(<<a>>, x) = Prepend(t, <<b>>)
    BY <1>0, <2>3, <2>4, <2>5 DEF a, b
  <2>. QED BY <2>1, <2>2, <2>6 DEF a, b
<1>2. CASE parts # <<>>
  <2>. DEFINE p == parts[1]
              rest == Tail(parts)
              a == Part(t)
              q == TextPart(t \o p.text)
  <2>1. p \in PartSet /\ rest \in Seq(PartSet) /\ parts = <<p>> \o rest
    BY <1>2, HeadRest
  <2>2. p.text \in Str /\ t \o p.text \in Str /\ q \in PartSet /\ q.text = t \o p.text /\ ~q.interp
    BY <2>1, PartTyped, StrJoin
  <2>. HIDE DEF p, rest, q, a, e
  <2>3. Prepend(t, parts) = IF t = Interpolation \/ p.interp THEN <<a>> \o (<<p>> \o rest) ELSE <<q>> \o rest
    BY <2>1, PrependTo DEF q, a
  <2>4. a \in PartSet /\ <<p>> \o rest \in Seq(PartSet) /\ <<p>> \o rest # <<>>
    BY <1>0, <2>1, ConsProps DEF a
  <2>5. CASE rest # <<>>
    <3>. DEFINE more == AddToken(rest, x)
    <3>1. more \in Seq(PartSet)
      BY <2>1, AddTyped
    <3>2. AddToken(<<p>> \o rest, x) = <<p>> \o more
      BY <2>1, <2>5, AddBehind
    <3>. HIDE DEF more
    <3>3. Prepend(t, <<p>> \o more) = IF t = Interpolation \/ p.interp THEN <<a>> \o (<<p>> \o more) ELSE <<q>> \o more
      BY <2>1, <3>1, PrependTo DEF a, q
    <3>4. AddToken(<<a>> \o (<<p>> \o rest), x) = <<a>> \o (<<p>> \o more)
      BY <2>4, <3>2, AddBehind
    <3>5. AddToken(<<q>> \o rest, x) = <<q>> \o more
      BY <2>1, <2>2, <2>5, AddBehind DEF more
    <3>. QED BY <2>1, <2>3, <3>2, <3>3, <3>4, <3>5
  <2>6. CASE rest = <<>>
    <3>1. parts = <<p>>
      <4>1. <<p>> \o <<>> = <<p>>
        OBVIOUS
      <4>. QED BY <2>1, <2>6, <4>1
    <3>. DEFINE b == Part(x)
                y == TextPart(p.text \o x)
    <3>2. AddToken(<<p>>, x) = IF ~p.interp /\ x # Interpolation THEN <<y>> ELSE <<p>> \o <<b>>
      BY <2>1, AddToOne
    <3>3. AddToken(<<q>>, x) = IF x # Interpolation THEN <<TextPart(q.text \o x)>> ELSE <<q>> \o <<b>>
      BY <2>2, AddToOne
    <3>4. q.text \o x = t \o (p.text \o x)
      <4>. DEFINE u == p.text
      <4>1. t \in Seq(Char) /\ u \in Seq(Char) /\ x \in Seq(Char) /\ q.text = t \o u
        BY <2>2 DEF Str
      <4>. HIDE DEF u
      <4>2. Associates(t, u, x)
        BY <4>1, Associative
      <4>. QED BY <4>1, <4>2 DEF Associates, u
    <3>5. p.text \o x \in Str /\ y \in PartSet /\ y.text = p.text \o x /\ ~y.interp /\ b \in PartSet
      BY <1>0, <2>2, PartTyped, StrJoin
    <3>. HIDE DEF b, y
    <3>6. <<p>> \in Seq(PartSet) /\ <<p>> # <<>> /\ <<b>> \in Seq(PartSet)
      BY <2>1, <3>5
    <3>7. AddToken(<<a>> \o <<p>>, x) = <<a>> \o AddToken(<<p>>, x)
      BY <2>4, <3>6, AddBehind
    <3>8. Prepend(t, <<p>> \o <<b>>) = IF t = Interpolation \/ p.interp THEN <<a>> \o (<<p>> \o <<b>>)
                                       ELSE <<q>> \o <<b>>
      BY <2>1, <3>6, PrependTo DEF a, q
    <3>9. Prepend(t, <<y>>) = IF t = Interpolation THEN <<a>> \o <<y>> ELSE <<TextPart(t \o (p.text \o x))>>
      <4>. DEFINE z == TextPart(t \o y.text)
      <4>1. <<y>> \o e = <<y>> /\ <<z>> \o e = <<z>>
        BY DEF e
      <4>2. Prepend(t, <<y>> \o e) = IF t = Interpolation \/ y.interp THEN <<a>> \o (<<y>> \o e) ELSE <<z>> \o e
        BY <1>e, <3>5, PrependTo DEF a
      <4>. QED BY <3>5, <4>1, <4>2
    <3>10. Prepend(t, <<p>>) = IF t = Interpolation \/ p.interp THEN <<a>> \o <<p>> ELSE <<q>>
      <4>1. <<p>> \o rest = <<p>> /\ <<q>> \o rest = <<q>>
        BY <2>6
      <4>. QED BY <2>1, <2>3, <4>1
    <3>11. CASE t = Interpolation
      <4>1. AddToken(Prepend(t, <<p>>), x) = <<a>> \o AddToken(<<p>>, x)
        BY <3>7, <3>10, <3>11
      <4>2. Prepend(t, AddToken(<<p>>, x)) = <<a>> \o AddToken(<<p>>, x)
        BY <3>2, <3>8, <3>9, <3>11
      <4>. QED BY <3>1, <4>1, <4>2
    <3>12. CASE t # Interpolation /\ p.interp
      <4>1. AddToken(Prepend(t, <<p>>), x) = <<a>> \o AddToken(<<p>>, x)
        BY <3>7, <3>10, <3>12
      <4>2. Prepend(t, AddToken(<<p>>, x)) = <<a>> \o AddToken(<<p>>, x)
        BY <3>2, <3>8, <3>12
      <4>. QED BY <3>1, <4>1, <4>2
    <3>13. CASE t # Interpolation /\ ~p.interp
      <4>1. AddToken(Prepend(t, <<p>>), x) = IF x # Interpolation THEN <<TextPart(t \o (p.text \o x))>> ELSE <<q>> \o <<b>>
        BY <3>3, <3>4, <3>10, <3>13
      <4>2. Prepend(t, AddToken(<<p>>, x)) = IF x # Interpolation THEN <<TextPart(t \o (p.text \o x))>> ELSE <<q>> \o <<b>>
        BY <3>2, <3>8, <3>9, <3>13
      <4>. QED BY <3>1, <4>1, <4>2
    <3>. QED BY <3>11, <3>12, <3>13
  <2>. QED BY <2>5, <2>6
<1>. QED BY <1>1, <1>2

LEMMA PartsOfCons ==
    ASSUME NEW t \in Str, NEW toks \in Seq(Str)
    PROVE  PartsOf(<<t>> \o toks) = Prepend(t, PartsOf(toks)) /\ PartsOf(toks) \in Seq(PartSet)
<1>. DEFINE T == {s \in Seq(Str) : PartsOf(<<t>> \o s) = Prepend(t, PartsOf(s)) /\ PartsOf(s) \in Seq(PartSet)}
            e == <<>>
            one == <<t>>
<1>0. e \in Seq(Str) /\ one \in Seq(Str) /\ one \o e = Append(e, t)
  OBVIOUS
<1>1. <<>> \in T
  <2>1. PartsOf(e) = e /\ AddToken(e, t) = <<Part(t)>> /\ Prepend(t, e) = <<Part(t)>>
    BY PartsOfEmpty, AddToNone, PrependNone
  <2>. HIDE DEF e, one
  <2>2. PartsOf(Append(e, t)) = AddToken(PartsOf(e), t) /\ PartsOf(e) \in Seq(PartSet)
    BY <1>0, PartsOfAppend
  <2>3. PartsOf(one \o e) = Prepend(t, PartsOf(e)) /\ PartsOf(e) \in Seq(PartSet) /\ e \in Seq(Str)
    BY <1>0, <2>1, <2>2
  <2>. QED BY <2>3 DEF e, one
<1>2. ASSUME NEW s \in Seq(Str), NEW x \in Str, s \in T PROVE Append(s, x) \in T
  <2>1. PartsOf(one \o s) = Prepend(t, PartsOf(s)) /\ PartsOf(s) \in Seq(PartSet)
    BY <1>2
  <2>2. one \o Append(s, x) = Append(one \o s, x) /\ one \o s \in Seq(Str) /\ Append(s, x) \in Seq(Str)
    <3>. HIDE DEF one
    <3>. QED BY <1>0
  <2>. HIDE DEF T, one
  <2>3. PartsOf(Append(s, x)) = AddToken(PartsOf(s), x)
    BY PartsOfAppend
  <2>4. PartsOf(Append(one \o s, x)) = AddToken(PartsOf(one \o s), x)
    BY <2>2, PartsOfAppend
  <2>5. AddToken(Prepend(t, PartsOf(s)), x) = Prepend(t, AddToken(PartsOf(s), x))
    BY <2>1, AddPrepend
  <2>6. AddToken(PartsOf(s), x) \in Seq(PartSet)
    BY <2>1, AddTyped
  <2>7. PartsOf(one \o Append(s, x)) = Prepend(t, PartsOf(Append(s, x))) /\ PartsOf(Append(s, x)) \in Seq(PartSet)
    BY <2>1, <2>2, <2>3, <2>4, <2>5, <2>6
  <2>. QED BY <2>2, <2>7 DEF T, one
<1>3. \A s \in Seq(Str) : s \in T
  <2>. HIDE DEF T
  <2>. QED BY <1>1, <1>2, SeqInd
<1>. QED BY <1>3

LEMMA PartsEmpty == ASSUME NEW kind PROVE Parts(kind, <<>>) = <<>>
<1>1. Parts(kind, <<>>) = PartsOf(Tokens(kind, <<>>))
  BY DEF Parts, PartsOf
<1>. QED BY <1>1, TokensEmpty, PartsOfEmpty

LEMMA PartsUnfold ==
    ASSUME NEW kind, NEW s \in Str, s # <<>>
    PROVE  /\ Parts(kind, s) = Prepend(FirstToken(kind, s), Parts(kind, Behind(kind, s)))
           /\ Parts(kind, Behind(kind, s)) \in Seq(PartSet)
<1>. DEFINE t == FirstToken(kind, s)
            r == Tokens(kind, Behind(kind, s))
<1>1. t \in Str /\ r \in Seq(Str) /\ Tokens(kind, s) = <<t>> \o r
  BY TokensUnfold
<1>2. Parts(kind, s) = PartsOf(Tokens(kind, s)) /\ Parts(kind, Behind(kind, s)) = PartsOf(r)
  BY DEF Parts, PartsOf
<1>. HIDE DEF t, r
<1>3. PartsOf(<<t>> \o r) = Prepend(t, PartsOf(r)) /\ PartsOf(r) \in Seq(PartSet)
  BY <1>1, PartsOfCons
<1>. QED BY <1>1, <1>2, <1>3 DEF t

MappedHead(g, x, s) == Mapped(g, <<x>> \o s) = g[x] \o Mapped(g, s)

LEMMA MappedCons ==
    ASSUME NEW X, NEW Y, NEW g, MapsInto(g, X, Y), NEW x \in X, NEW s \in Seq(X)
    PROVE  MappedHead(g, x, s) /\ g[x] \in Seq(Y) /\ Mapped(g, s) \in Seq(Y)
<1>. DEFINE e == <<>>
            one == <<x>>
<1>1. one \in Seq(X) /\ one = Append(e, x) /\ e \in Seq(X) /\ Mapped(g, e) = e
  BY MappedEmpty
<1>2. g[x] \in Seq(Y)
  BY DEF MapsInto
<1>3. e \o g[x] = g[x]
  BY <1>2
<1>. HIDE DEF one, e
<1>4. Mapped(g, one \o s) = Mapped(g, one) \o Mapped(g, s)
  <2>1. one \in Seq(X)
    BY <1>1
  <2>. QED BY ONLY <2>1, MapsInto(g, X, Y), s \in Seq(X), MappedConcat
<1>5. Mapped(g, Append(e, x)) = Mapped(g, e) \o g[x]
  <2>1. e \in Seq(X)
    BY <1>1
  <2>. QED BY ONLY <2>1, MapsInto(g, X, Y), x \in X, MappedAppend
<1>6. Mapped(g, s) \in Seq(Y)
  BY ONLY MapsInto(g, X, Y), s \in Seq(X), MappedType
<1>. QED BY <1>1, <1>2, <1>3, <1>4, <1>5, <1>6 DEF one, MappedHead

-----------------------------------------------------------------------------
(* The characters of the parts are those of the line.                      *)

TextOf == [p \in PartSet |-> p.text]

LEMMA CharsMapped ==
    ASSUME NEW parts \in Seq(PartSet)
    PROVE  Chars(parts) = Mapped(TextOf, parts) /\ MapsInto(TextOf, PartSet, Char)
<1>1. MapsInto(TextOf, PartSet, Char)
  BY DEF MapsInto, TextOf, PartSet, Str
<1>2. [i \in DOMAIN parts |-> parts[i].text] = [i \in DOMAIN parts |-> TextOf[parts[i]]]
  BY DEF TextOf
<1>. QED BY <1>1, <1>2 DEF Chars, Mapped

LEMMA CharsCons ==
    ASSUME NEW p \in PartSet, NEW rest \in Seq(PartSet)
    PROVE  Chars(<<p>> \o rest) = p.text \o Chars(rest) /\ Chars(rest) \in Str /\ p.text \in Str
<1>1. <<p>> \o rest \in Seq(PartSet)
  BY ConsProps
<1>2. Chars(<<p>> \o rest) = Mapped(TextOf, <<p>> \o rest) /\ Chars(rest) = Mapped(TextOf, rest)
      /\ MapsInto(TextOf, PartSet, Char)
  BY <1>1, CharsMapped
<1>3. Mapped(TextOf, <<p>> \o rest) = TextOf[p] \o Mapped(TextOf, rest) /\ Mapped(TextOf, rest) \in Seq(Char)
  <2>. DEFINE g == TextOf
  <2>1. MapsInto(g, PartSet, Char)
    BY <1>2
  <2>. HIDE DEF g
  <2>2. MappedHead(g, p, rest)
    BY ONLY <2>1, p \in PartSet, rest \in Seq(PartSet), MappedCons
  <2>3. Mapped(g, rest) \in Seq(Char)
    BY ONLY <2>1, rest \in Seq(PartSet), MappedType
  <2>. QED BY <2>2, <2>3 DEF g, MappedHead
<1>4. TextOf[p] = p.text /\ p.text \in Str
  BY DEF TextOf, PartSet
<1>. QED BY <1>2, <1>3, <1>4 DEF Str

LEMMA CharsNone == Chars(<<>>) = <<>>
<1>. DEFINE e == <<>>
<1>1. e \in Seq(PartSet) /\ Mapped(TextOf, e) = e
  BY EmptySeq, MappedEmpty
<1>. HIDE DEF e
<1>2. Chars(e) = Mapped(TextOf, e)
  BY <1>1, CharsMapped
<1>. QED BY <1>1, <1>2 DEF e

GoodPart == {p \in PartSet : p.text # <<>>}

LEMMA GoodIs ==
    /\ \A s : s \in Seq(GoodPart) => s \in Seq(PartSet)
    /\ \A p \in GoodPart : p \in PartSet /\ p.text \in Str /\ p.text # <<>> /\ p.text \in Token
<1>1. GoodPart \subseteq PartSet
  BY DEF GoodPart
<1>2. \A s : s \in Seq(GoodPart) => s \in Seq(PartSet)
  BY <1>1, SeqMonotonic
<1>3. \A p \in PartSet : p.text \in Str
  BY DEF PartSet
<1>. QED BY <1>1, <1>2, <1>3 DEF GoodPart, Token

LEMMA JoinFull == \A s, t \in Str : s # <<>> => s \o t # <<>>
  BY ConcatProperties, LenProperties DEF Str

LEMMA PrependGood ==
    ASSUME NEW t \in Token, NEW parts \in Seq(GoodPart)
    PROVE  /\ Prepend(t, parts) \in Seq(GoodPart) /\ Prepend(t, parts) # <<>>
           /\ Chars(Prepend(t, parts)) = t \o Chars(parts) /\ Chars(parts) \in Str
<1>0. t \in Str /\ t # <<>>
  BY DEF Token
<1>1. Part(t) \in PartSet /\ Part(t).text = t
  BY <1>0, PartTyped
<1>2. Part(t) \in GoodPart
  BY <1>0, <1>1 DEF GoodPart
<1>3. parts \in Seq(PartSet)
  BY DEF GoodPart
<1>4. Chars(parts) \in Str
  BY <1>1, <1>3, CharsCons
<1>5. CASE t = Interpolation \/ parts = <<>> \/ parts[1].interp
  <2>. DEFINE a == Part(t)
  <2>1. Prepend(t, parts) = <<a>> \o parts
    BY <1>5 DEF Prepend
  <2>2. a \in GoodPart /\ a \in PartSet /\ a.text = t
    BY <1>1, <1>2
  <2>. HIDE DEF a
  <2>3. <<a>> \o parts \in Seq(GoodPart) /\ <<a>> \o parts # <<>>
    BY <2>2, ConsProps
  <2>4. Chars(<<a>> \o parts) = a.text \o Chars(parts)
    BY <1>3, <2>2, CharsCons
  <2>. QED BY <1>4, <2>1, <2>2, <2>3, <2>4
<1>6. CASE ~(t = Interpolation \/ parts = <<>> \/ parts[1].interp)
  <2>. DEFINE p == parts[1]
              rest == Tail(parts)
              u == p.text
              q == TextPart(t \o u)
  <2>1. parts # <<>> /\ p \in GoodPart /\ rest \in Seq(GoodPart) /\ parts = <<p>> \o rest
    BY <1>6, HeadRest
  <2>2. p \in PartSet /\ rest \in Seq(PartSet) /\ u \in Str /\ t \o u \in Str /\ t \o u # <<>>
    BY <1>0, <2>1, GoodIs, StrJoin, JoinFull
  <2>3. q \in PartSet /\ q.text = t \o u
    BY <2>2, PartTyped
  <2>4. q \in GoodPart
    BY <2>2, <2>3 DEF GoodPart
  <2>5. Prepend(t, parts) = <<q>> \o rest
    BY <1>6 DEF Prepend
  <2>. HIDE DEF q, rest, p
  <2>6. <<q>> \o rest \in Seq(GoodPart) /\ <<q>> \o rest # <<>>
    BY <2>1, <2>4, ConsProps
  <2>7. Chars(<<q>> \o rest) = q.text \o Chars(rest) /\ Chars(rest) \in Str
    BY <2>2, <2>3, CharsCons
  <2>8. Chars(<<p>> \o rest) = u \o Chars(rest)
    BY <2>2, CharsCons
  <2>. DEFINE c == Chars(rest)
  <2>. HIDE DEF u, c
  <2>9. (t \o u) \o c = t \o (u \o c)
    <3>1. t \in Seq(Char) /\ u \in Seq(Char) /\ c \in Seq(Char)
      BY <1>0, <2>2, <2>7 DEF Str, c
    <3>. QED BY <3>1, Associative DEF Associates
  <2>. QED BY <1>4, <2>1, <2>3, <2>5, <2>6, <2>7, <2>8, <2>9 DEF c
<1>. QED BY <1>5, <1>6

LEMMA PartsGood ==
    ASSUME NEW kind, NEW s \in Str
    PROVE  /\ Parts(kind, s) \in Seq(GoodPart) /\ Chars(Parts(kind, s)) = s
           /\ Parts(kind, s) = <<>> <=> s = <<>>
<1>. DEFINE T == {u \in Str : /\ Parts(kind, u) \in Seq(GoodPart) /\ Chars(Parts(kind, u)) = u
                              /\ Parts(kind, u) = <<>> <=> u = <<>>}
<1>1. ASSUME NEW u \in Seq(Char), \A v \in Seq(Char) : Len(v) < Len(u) => v \in T
      PROVE  u \in T
  <2>1. CASE u = <<>>
    BY <2>1, PartsEmpty, CharsNone, EmptySeq DEF Str
  <2>2. CASE u # <<>>
    <3>. DEFINE t == FirstToken(kind, u)
                b == Behind(kind, u)
                r == Parts(kind, b)
    <3>0. u \in Str
      BY DEF Str
    <3>1. t \in Token /\ b \in Str /\ Len(b) < Len(u) /\ u = t \o b
      BY <2>2, <3>0, TokensUnfold DEF Token
    <3>2. Parts(kind, u) = Prepend(t, r)
      BY <2>2, <3>0, PartsUnfold
    <3>. HIDE DEF t, b
    <3>3. b \in T
      BY <1>1, <3>1 DEF Str
    <3>4. r \in Seq(GoodPart) /\ Chars(r) = b
      BY <3>3
    <3>. HIDE DEF r, T
    <3>5. Prepend(t, r) \in Seq(GoodPart) /\ Prepend(t, r) # <<>> /\ Chars(Prepend(t, r)) = t \o Chars(r)
      BY <3>1, <3>4, PrependGood
    <3>. QED BY <2>2, <3>0, <3>1, <3>2, <3>4, <3>5 DEF T
  <2>. QED BY <2>1, <2>2
<1>2. \A u \in Seq(Char) : u \in T
  <2>. HIDE DEF T
  <2>. QED BY <1>1, LengthInd
<1>. QED BY <1>2 DEF Str

(* Spaces in front of a line are in front of its first text. *)
LEMMA PrependTwice ==
    ASSUME NEW t \in Str, NEW u \in Str, t # Interpolation, u # Interpolation, t \o u # Interpolation,
           NEW parts \in Seq(PartSet)
    PROVE  Prepend(t, Prepend(u, parts)) = Prepend(t \o u, parts)
<1>. DEFINE tu == t \o u
            e == <<>>
<1>1. tu \in Str /\ Part(tu) = TextPart(tu)
  BY PartTyped, StrJoin
<1>2. CASE parts = <<>> \/ parts[1].interp
  <2>. DEFINE a == Part(u)
  <2>1. Prepend(u, parts) = <<a>> \o parts /\ Prepend(tu, parts) = <<TextPart(tu)>> \o parts
    BY <1>1, <1>2 DEF Prepend
  <2>2. a \in PartSet /\ a.text = u /\ ~a.interp
    BY PartTyped
  <2>. HIDE DEF a, tu
  <2>3. Prepend(t, <<a>> \o parts) = IF t = Interpolation \/ a.interp THEN <<Part(t)>> \o (<<a>> \o parts)
                                     ELSE <<TextPart(t \o a.text)>> \o parts
    BY <2>2, PrependTo
  <2>. QED BY <2>1, <2>2, <2>3 DEF tu
<1>3. CASE ~(parts = <<>> \/ parts[1].interp)
  <2>. DEFINE p == parts[1]
              rest == Tail(parts)
              v == p.text
              q == TextPart(u \o v)
  <2>1. p \in PartSet /\ rest \in Seq(PartSet) /\ v \in Str /\ ~p.interp
    BY <1>3, HeadRest, PartTyped
  <2>2. Prepend(u, parts) = <<q>> \o rest /\ Prepend(tu, parts) = <<TextPart(tu \o v)>> \o rest
    BY <1>3 DEF Prepend
  <2>3. q \in PartSet /\ q.text = u \o v /\ ~q.interp
    BY <2>1, PartTyped, StrJoin
  <2>. HIDE DEF q, rest, p, v
  <2>4. Prepend(t, <<q>> \o rest) = IF t = Interpolation \/ q.interp THEN <<Part(t)>> \o (<<q>> \o rest)
                                     ELSE <<TextPart(t \o q.text)>> \o rest
    BY <2>1, <2>3, PrependTo
  <2>5. (t \o u) \o v = t \o (u \o v)
    <3>1. t \in Seq(Char) /\ u \in Seq(Char) /\ v \in Seq(Char)
      BY <2>1 DEF Str
    <3>. QED BY <3>1, Associative DEF Associates
  <2>. QED BY <2>2, <2>3, <2>4, <2>5
<1>. QED BY <1>2, <1>3

LEMMA NotInterpolation ==
    ASSUME NEW s \in Str, s # <<>>, s[1] = Blank
    PROVE  s # Interpolation
<1>1. Interpolation[1] = Dollar
  BY DEF Interpolation
<1>. QED BY <1>1, Characters

LEMMA SpacesNotInterpolation ==
    ASSUME NEW n \in Nat, n >= 1
    PROVE  Spaces(n) \in Token /\ Spaces(n) # Interpolation
<1>1. Spaces(n) \in Str /\ Len(Spaces(n)) = n /\ \A i \in 1..n : Spaces(n)[i] = Blank
  BY SpacesTyped
<1>2. Spaces(n) # <<>> /\ Spaces(n)[1] = Blank
  BY <1>1
<1>. QED BY <1>1, <1>2, NotInterpolation DEF Token

LEMMA PartsShifted ==
    ASSUME NEW s \in Str, NEW n \in Nat, n >= 1
    PROVE  Parts("indented", Shifted(n, s)) = Prepend(Spaces(n), Parts("indented", s))
<1>. DEFINE k == "indented"
            P == Parts(k, s)
            b == <<Blank>>
            T == {m \in Nat : Parts(k, Shifted(m + 1, s)) = Prepend(Spaces(m + 1), P)}
            e == <<>>
<1>1. P \in Seq(PartSet)
  BY PartsGood, GoodIs
<1>2. b \in Str /\ b # Interpolation /\ e \in Str
  <2>1. b \in Str /\ b # <<>> /\ b[1] = Blank
    BY Characters DEF Str
  <2>2. e \in Str
    BY EmptySeq DEF Str
  <2>. HIDE DEF b
  <2>. QED BY <2>1, <2>2, NotInterpolation
<1>3. ASSUME NEW u \in Str PROVE Parts(k, b \o u) = Prepend(b, Parts(k, u))
  <2>1. b \o u \in Str /\ b \o u # <<>> /\ FirstToken(k, b \o u) = b /\ Behind(k, b \o u) = u
    BY TokensBlank
  <2>. HIDE DEF b
  <2>. QED BY <2>1, PartsUnfold
<1>4. ASSUME NEW m \in Nat PROVE Spaces(m + 1) = b \o Spaces(m)
  <2>1. m + 1 \in Nat
    OBVIOUS
  <2>2. Shifted(m + 1, e) = b \o Shifted(m, e)
    BY <1>2, ShiftedOne
  <2>3. Spaces(m + 1) \in Seq(Char) /\ Spaces(m) \in Seq(Char)
    BY <2>1, SpacesTyped DEF Str
  <2>4. Spaces(m + 1) \o e = Spaces(m + 1) /\ Spaces(m) \o e = Spaces(m)
    BY <2>3
  <2>. QED BY <2>2, <2>4 DEF Shifted
<1>. HIDE DEF P, b
<1>5. 0 \in T
  <2>1. Spaces(0) = e
    <3>1. Spaces(0) \in Str /\ Len(Spaces(0)) = 0
      BY SpacesTyped
    <3>. QED BY <3>1 DEF Str
  <2>2. Spaces(0 + 1) = b
    <3>1. b \o e = b
      BY <1>2 DEF Str
    <3>. QED BY <1>4, <2>1, <3>1
  <2>3. Shifted(0 + 1, s) = b \o Shifted(0, s) /\ Shifted(0, s) = s
    BY ShiftedOne, ShiftedZero DEF b
  <2>. HIDE DEF e
  <2>. QED BY <1>3, <2>2, <2>3 DEF P
<1>6. ASSUME NEW m \in T PROVE m + 1 \in T
  <2>. DEFINE n1 == m + 1
  <2>1. n1 \in Nat /\ n1 >= 1 /\ n1 + 1 \in Nat /\ n1 + 1 >= 1
    OBVIOUS
  <2>2. Parts(k, Shifted(n1, s)) = Prepend(Spaces(n1), P)
    BY <1>6
  <2>. HIDE DEF n1
  <2>3. Shifted(n1 + 1, s) = b \o Shifted(n1, s) /\ Shifted(n1, s) \in Str
    BY <2>1, ShiftedOne DEF b
  <2>4. Parts(k, Shifted(n1 + 1, s)) = Prepend(b, Prepend(Spaces(n1), P))
    BY <1>3, <2>2, <2>3
  <2>5. Spaces(n1 + 1) = b \o Spaces(n1)
    BY <1>4, <2>1
  <2>6. Spaces(n1) \in Str /\ Spaces(n1) # Interpolation /\ b \o Spaces(n1) # Interpolation
    BY <2>1, <2>5, SpacesNotInterpolation DEF Token
  <2>7. Prepend(b, Prepend(Spaces(n1), P)) = Prepend(b \o Spaces(n1), P)
    BY <1>1, <1>2, <2>6, PrependTwice
  <2>8. Parts(k, Shifted(n1 + 1, s)) = Prepend(Spaces(n1 + 1), P)
    BY <2>4, <2>5, <2>7
  <2>. QED BY <2>1, <2>8 DEF n1
<1>7. T = Nat
  <2>. HIDE DEF T
  <2>1. T \in SUBSET Nat
    BY DEF T
  <2>. QED BY <1>5, <1>6, <2>1, NatInd
<1>8. n - 1 \in Nat /\ (n - 1) + 1 = n
  OBVIOUS
<1>9. Parts(k, Shifted((n - 1) + 1, s)) = Prepend(Spaces((n - 1) + 1), P)
  BY <1>7, <1>8
<1>. QED BY <1>8, <1>9 DEF P

-----------------------------------------------------------------------------
(* Indentation, on the parts and on the characters of a line.              *)

Kept == [p \in PartSet |-> IF p.text = <<>> THEN <<>> ELSE <<p>>]

LEMMA MergeMapped ==
    ASSUME NEW parts \in Seq(PartSet)
    PROVE  MergeAdjacentText(parts) = Mapped(Kept, parts) /\ MapsInto(Kept, PartSet, PartSet)
<1>1. MapsInto(Kept, PartSet, PartSet)
  <2>1. \A p \in PartSet : <<p>> \in Seq(PartSet) /\ <<>> \in Seq(PartSet)
    BY EmptySeq
  <2>. QED BY <2>1 DEF MapsInto, Kept
<1>2. [k \in DOMAIN parts |-> IF parts[k].text = <<>> THEN <<>> ELSE <<parts[k]>>]
      = [k \in DOMAIN parts |-> Kept[parts[k]]]
  BY DEF Kept
<1>. QED BY <1>1, <1>2 DEF MergeAdjacentText, Mapped

LEMMA MergeCons ==
    ASSUME NEW p \in PartSet, NEW rest \in Seq(PartSet)
    PROVE  MergeAdjacentText(<<p>> \o rest) = IF p.text = <<>> THEN MergeAdjacentText(rest)
                                              ELSE <<p>> \o MergeAdjacentText(rest)
<1>. DEFINE g == Kept
            m == Mapped(g, rest)
            e == <<>>
<1>1. <<p>> \o rest \in Seq(PartSet)
  BY ConsProps
<1>2. MergeAdjacentText(<<p>> \o rest) = Mapped(g, <<p>> \o rest) /\ MergeAdjacentText(rest) = m
  BY <1>1, MergeMapped
<1>3. MapsInto(g, PartSet, PartSet)
  BY MergeMapped
<1>4. g[p] = IF p.text = <<>> THEN <<>> ELSE <<p>>
  BY DEF Kept
<1>. HIDE DEF g
<1>5. MappedHead(g, p, rest) /\ m \in Seq(PartSet)
  BY ONLY <1>3, p \in PartSet, rest \in Seq(PartSet), MappedCons
<1>. HIDE DEF m
<1>6. e \o m = m
  BY <1>5
<1>7. Mapped(g, <<p>> \o rest) = g[p] \o m
  BY <1>5 DEF MappedHead, m
<1>. QED BY <1>2, <1>4, <1>6, <1>7

LEMMA MergeNone == MergeAdjacentText(<<>>) = <<>>
<1>. DEFINE e == <<>>
<1>1. e \in Seq(PartSet) /\ Mapped(Kept, e) = e
  BY EmptySeq, MappedEmpty
<1>. HIDE DEF e
<1>2. MergeAdjacentText(e) = Mapped(Kept, e)
  BY <1>1, MergeMapped
<1>. QED BY <1>1, <1>2 DEF e

LEMMA MergeWhole ==
    ASSUME NEW parts \in Seq(GoodPart)
    PROVE  MergeAdjacentText(parts) = parts
<1>. DEFINE T == {s \in Seq(GoodPart) : MergeAdjacentText(s) = s}
<1>1. ASSUME NEW s \in Seq(GoodPart), \A u \in Seq(GoodPart) : Len(u) < Len(s) => u \in T
      PROVE  s \in T
  <2>1. CASE s = <<>>
    BY <2>1, MergeNone
  <2>2. CASE s # <<>>
    <3>. DEFINE p == s[1]
                r == Tail(s)
    <3>1. p \in GoodPart /\ r \in Seq(GoodPart) /\ s = <<p>> \o r
      BY <2>2, HeadRest
    <3>2. Len(r) < Len(s)
      BY <2>2
    <3>3. p \in PartSet /\ r \in Seq(PartSet) /\ p.text # <<>>
      BY <3>1, GoodIs
    <3>4. r \in T
      BY <1>1, <3>1, <3>2
    <3>5. MergeAdjacentText(r) = r
      BY <3>4
    <3>. HIDE DEF p, r, T
    <3>6. MergeAdjacentText(<<p>> \o r) = <<p>> \o MergeAdjacentText(r)
      BY <3>3, MergeCons
    <3>. QED BY <3>1, <3>5, <3>6 DEF T
  <2>. QED BY <2>1, <2>2
<1>2. \A s \in Seq(GoodPart) : s \in T
  <2>. HIDE DEF T
  <2>. QED BY <1>1, LengthInd
<1>. QED BY <1>2

(* The first part begins with the first character. *)
LEMMA FirstCharacter ==
    ASSUME NEW kind, NEW s \in Str, s # <<>>
    PROVE  /\ Parts(kind, s) \in Seq(GoodPart) /\ Parts(kind, s) # <<>> /\ Parts(kind, s)[1] \in GoodPart
           /\ Parts(kind, s)[1].text[1] = s[1]
<1>. DEFINE P == Parts(kind, s)
            p == P[1]
            r == Tail(P)
            c == Chars(r)
            u == p.text
<1>1. P \in Seq(GoodPart) /\ Chars(P) = s /\ P # <<>>
  BY PartsGood
<1>2. p \in GoodPart /\ r \in Seq(GoodPart) /\ P = <<p>> \o r
  BY <1>1, HeadRest
<1>. HIDE DEF P, p, r
<1>3. s = u \o c /\ c \in Str /\ u \in Str
  <2>1. p \in PartSet /\ r \in Seq(PartSet)
    BY <1>2, GoodIs
  <2>. QED BY <1>1, <1>2, <2>1, CharsCons
<1>4. u # <<>>
  BY <1>2, GoodIs
<1>. HIDE DEF u, c
<1>5. (u \o c)[1] = u[1]
  <2>1. u \in Seq(Char) /\ c \in Seq(Char) /\ Len(u) >= 1
    BY <1>3, <1>4 DEF Str
  <2>. QED BY <2>1
<1>. QED BY <1>1, <1>2, <1>3, <1>5 DEF P, p, u

LEMMA LeadZero ==
    ASSUME NEW s \in Str, s # <<>>, s[1] # Blank
    PROVE  LeadingSpaces(s) = 0 /\ ~IsOnlySpaces(s)
<1>1. Len(s) \in Nat /\ Len(s) >= 1
  BY DEF Str
<1>2. Leads(s, 0)
  BY <1>1 DEF Leads
<1>3. LeadingSpaces(s) = 0
  BY <1>2, LeadingIs
<1>4. 0 \in Nat
  OBVIOUS
<1>5. IsOnlySpaces(s) <=> LeadingSpaces(s) = Len(s)
  BY <1>4, ShiftedSpaces
<1>. QED BY <1>1, <1>3, <1>5

(* The parts behind n spaces: the first is a text, its n spaces and what    *)
(* was there.                                                              *)
BehindSpaces(n, P, R) ==
    \E v \in Str, rest \in Seq(PartSet) :
        /\ Shifted(n, v) \in Str /\ P = <<TextPart(Shifted(n, v))>> \o rest
        /\ \/ v = <<>> /\ rest = R /\ (R = <<>> \/ R[1].interp)
           \/ R # <<>> /\ ~R[1].interp /\ v = R[1].text /\ v # <<>> /\ rest = Tail(R) /\ R = <<TextPart(v)>> \o rest

LEMMA PartsBehindSpaces ==
    ASSUME NEW n \in Nat, n >= 1, NEW R \in Seq(GoodPart)
    PROVE  BehindSpaces(n, Prepend(Spaces(n), R), R)
<1>. DEFINE t == Spaces(n)
            e == <<>>
<1>1. t \in Str /\ t # Interpolation /\ Part(t) = TextPart(t)
  BY SpacesNotInterpolation, PartTyped DEF Token
<1>2. R \in Seq(PartSet)
  BY GoodIs
<1>3. CASE R = <<>> \/ R[1].interp
  <2>1. Prepend(t, R) = <<TextPart(t)>> \o R
    BY <1>1, <1>3 DEF Prepend
  <2>2. e \in Str /\ Shifted(n, e) = t
    <3>1. t \in Seq(Char)
      BY <1>1 DEF Str
    <3>2. t \o e = t
      BY <3>1
    <3>. QED BY <3>2, EmptySeq DEF Str, Shifted
  <2>. HIDE DEF t
  <2>. QED BY <1>1, <1>2, <1>3, <2>1, <2>2 DEF BehindSpaces, t
<1>4. CASE ~(R = <<>> \/ R[1].interp)
  <2>. DEFINE p == R[1]
              rest == Tail(R)
              v == p.text
  <2>1. p \in GoodPart /\ rest \in Seq(GoodPart) /\ R = <<p>> \o rest
    BY <1>4, HeadRest
  <2>2. p \in PartSet /\ rest \in Seq(PartSet) /\ v \in Str /\ v # <<>> /\ p = TextPart(v)
    BY <1>4, <2>1, GoodIs, PartTyped
  <2>3. Prepend(t, R) = <<TextPart(Shifted(n, v))>> \o rest
    BY <1>1, <1>4 DEF Prepend, Shifted
  <2>4. Shifted(n, v) \in Str
    BY <2>2, ShiftedProps
  <2>5. R # <<>> /\ ~R[1].interp /\ v = R[1].text /\ rest = Tail(R)
    BY <1>4
  <2>. HIDE DEF t, p, rest, v
  <2>6. R = <<TextPart(v)>> \o rest
    BY <2>1, <2>2
  <2>. QED BY <2>2, <2>3, <2>4, <2>5, <2>6 DEF BehindSpaces, t
<1>. QED BY <1>3, <1>4

(* The part with the spaces is a text. *)
LEMMA TextInFront ==
    ASSUME NEW u \in Str, NEW rest \in Seq(PartSet)
    PROVE  LET P == <<TextPart(u)>> \o rest
           IN  /\ P \in Seq(PartSet) /\ P # <<>> /\ P[1] = TextPart(u) /\ P[1].text = u /\ ~P[1].interp
               /\ Tail(P) = rest /\ Len(P) = Len(rest) + 1
               /\ IsTextOnly(P) <=> rest = <<>>
               /\ IsBlank(P) <=> rest = <<>> /\ IsOnlySpaces(u)
<1>. DEFINE a == TextPart(u)
            P == <<a>> \o rest
<1>1. a \in PartSet /\ a.text = u /\ ~a.interp
  BY PartTyped
<1>. HIDE DEF a
<1>2. P \in Seq(PartSet) /\ P # <<>> /\ P[1] = a /\ Tail(P) = rest /\ Len(P) = Len(rest) + 1
  BY <1>1, ConsProps
<1>. HIDE DEF P
<1>3. Len(P) = 1 <=> rest = <<>>
  BY <1>2
<1>4. IsTextOnly(P) <=> rest = <<>>
  BY <1>1, <1>2, <1>3 DEF IsTextOnly
<1>5. IsBlank(P) <=> rest = <<>> /\ IsOnlySpaces(u)
  BY <1>1, <1>2, <1>4 DEF IsBlank
<1>. QED BY <1>1, <1>2, <1>4, <1>5 DEF P, a

LEMMA EmptyString == <<>> \in Str /\ IsOnlySpaces(<<>>) /\ LeadingSpaces(<<>>) = 0
<1>. DEFINE e == <<>>
<1>1. e \in Str /\ Len(e) = 0
  BY DEF Str
<1>2. Leads(e, 0)
  BY <1>1 DEF Leads
<1>3. IsOnlySpaces(e)
  BY DEF IsOnlySpaces, ToSet
<1>. HIDE DEF e
<1>4. LeadingSpaces(e) = 0
  BY <1>1, <1>2, LeadingIs
<1>. QED BY <1>1, <1>3, <1>4 DEF e

(* Whether a line is blank, and what it begins with. *)
LEMMA LineBlank ==
    ASSUME NEW line \in Str
    PROVE  LET P == Parts("indented", line)
           IN  /\ IsEmptyLine(P) <=> IsOnlySpaces(line)
               /\ HasPrefix(P) <=> ~IsOnlySpaces(line)
               /\ ~IsOnlySpaces(line) => PrefixLength(P) = LeadingSpaces(line)
<1>. DEFINE kd == "indented"
            P == Parts(kd, line)
            k == LeadingSpaces(line)
            s == WithoutPrefix(line, k)
            Q == Parts(kd, s)
            e == <<>>
<1>0. k \in Nat /\ k \in 0..k /\ k \in 0..Len(line)
  <2>1. Leads(line, k)
    BY LeadingIs
  <2>. HIDE DEF k
  <2>2. k \in 0..Len(line) /\ Len(line) \in Nat
    BY <2>1 DEF Leads, Str
  <2>. QED BY <2>2
<1>1. s \in Str /\ line = Shifted(k, s)
  BY <1>0, Unshifted
<1>2. k = k + LeadingSpaces(s) /\ LeadingSpaces(s) \in 0..Len(s)
      /\ (IsOnlySpaces(line) <=> IsOnlySpaces(s)) /\ (IsOnlySpaces(s) <=> LeadingSpaces(s) = Len(s))
  <2>. HIDE DEF s
  <2>1. LeadingSpaces(Shifted(k, s)) = k + LeadingSpaces(s) /\ LeadingSpaces(s) \in 0..Len(s)
        /\ (IsOnlySpaces(Shifted(k, s)) <=> IsOnlySpaces(s)) /\ (IsOnlySpaces(s) <=> LeadingSpaces(s) = Len(s))
    BY <1>0, <1>1, ShiftedSpaces
  <2>. QED BY <1>1, <2>1
<1>3. LeadingSpaces(s) = 0
  <2>. HIDE DEF k, s
  <2>1. LeadingSpaces(s) \in Nat
    BY <1>1, <1>2 DEF Str
  <2>. QED BY <1>0, <1>2, <2>1
<1>4. IsOnlySpaces(line) <=> s = <<>>
  <2>. HIDE DEF s, k
  <2>1. Len(s) = 0 <=> s = <<>>
    BY <1>1 DEF Str
  <2>. QED BY <1>2, <1>3, <2>1
<1>5. Q \in Seq(GoodPart) /\ (Q = <<>> <=> s = <<>>)
  BY <1>1, PartsGood
<1>6. s # <<>> => Q # <<>> /\ Q[1] \in GoodPart /\ Q[1].text \in Str /\ Q[1].text # <<>>
                  /\ LeadingSpaces(Q[1].text) = 0 /\ ~IsOnlySpaces(Q[1].text)
  <2>1. ASSUME s # <<>> PROVE s[1] # Blank
    <3>1. Leads(s, 0)
      BY <1>1, <1>3, LeadingIs
    <3>2. 0 < Len(s) /\ 0 + 1 = 1
      BY <1>1, <2>1 DEF Str
    <3>. QED BY <3>1, <3>2 DEF Leads
  <2>. HIDE DEF s
  <2>2. ASSUME s # <<>> PROVE Q # <<>> /\ Q[1] \in GoodPart /\ Q[1].text[1] = s[1]
    BY <1>1, <2>2, FirstCharacter
  <2>3. ASSUME s # <<>> PROVE Q[1].text \in Str /\ Q[1].text # <<>>
    BY <2>2, <2>3, GoodIs
  <2>. QED BY <2>1, <2>2, <2>3, LeadZero
<1>7. P = IF k = 0 THEN Q ELSE Prepend(Spaces(k), Q)
  <2>1. CASE k = 0
    <3>. HIDE DEF k, s
    <3>1. line = s
      BY <1>1, <2>1, ShiftedZero
    <3>. QED BY <2>1, <3>1
  <2>2. CASE k # 0
    <3>. HIDE DEF k, s
    <3>1. k >= 1
      BY <1>0, <2>2
    <3>. QED BY <1>0, <1>1, <2>2, <3>1, PartsShifted
  <2>. QED BY <2>1, <2>2
<1>8. HasPrefix(P) <=> ~IsEmptyLine(P)
  BY DEF HasPrefix, IsEmptyLine
<1>. HIDE DEF P, Q, s, k
<1>9. CASE k = 0
  <2>1. CASE s = <<>>
    <3>1. P = <<>>
      BY <1>5, <1>7, <1>9, <2>1
    <3>. QED BY <1>4, <1>8, <2>1, <3>1 DEF IsEmptyLine, P
  <2>2. CASE s # <<>>
    <3>1. P = Q /\ Q # <<>>
      BY <1>6, <1>7, <1>9, <2>2
    <3>2. ~IsEmptyLine(P)
      BY <1>6, <2>2, <3>1 DEF IsEmptyLine, IsBlank
    <3>3. PrefixLength(P) = k
      BY <1>6, <1>9, <2>2, <3>1 DEF PrefixLength
    <3>. QED BY <1>4, <1>8, <2>2, <3>2, <3>3 DEF P, k
  <2>. QED BY <2>1, <2>2
<1>10. CASE k # 0
  <2>1. k \in Nat /\ k >= 1 /\ P = Prepend(Spaces(k), Q)
    BY <1>0, <1>7, <1>10
  <2>2. BehindSpaces(k, Prepend(Spaces(k), Q), Q)
    BY <1>5, <2>1, PartsBehindSpaces
  <2>3. PICK v \in Str, rest \in Seq(PartSet) :
            /\ Shifted(k, v) \in Str /\ P = <<TextPart(Shifted(k, v))>> \o rest
            /\ \/ v = <<>> /\ rest = Q /\ (Q = <<>> \/ Q[1].interp)
               \/ Q # <<>> /\ ~Q[1].interp /\ v = Q[1].text /\ v # <<>> /\ rest = Tail(Q) /\ Q = <<TextPart(v)>> \o rest
    BY <2>1, <2>2 DEF BehindSpaces
  <2>. DEFINE u == Shifted(k, v)
  <2>4. /\ LeadingSpaces(u) = k + LeadingSpaces(v) /\ (IsOnlySpaces(u) <=> IsOnlySpaces(v))
    BY <2>1, ShiftedSpaces
  <2>. HIDE DEF u
  <2>5. /\ P # <<>> /\ P[1].text = u /\ ~P[1].interp /\ (IsBlank(P) <=> rest = <<>> /\ IsOnlySpaces(u))
    BY <2>3, TextInFront DEF u
  <2>6. PrefixLength(P) = LeadingSpaces(u) /\ (IsEmptyLine(P) <=> rest = <<>> /\ IsOnlySpaces(u))
    BY <2>5 DEF PrefixLength, IsEmptyLine
  <2>7. CASE s = <<>>
    <3>1. v = <<>> /\ rest = <<>>
      BY <1>5, <2>3, <2>7
    <3>. QED BY <1>4, <1>8, <2>4, <2>6, <2>7, <3>1, EmptyString DEF P
  <2>8. CASE s # <<>>
    <3>1. LeadingSpaces(v) = 0 /\ ~(rest = <<>> /\ IsOnlySpaces(v))
      BY <1>6, <2>3, <2>8, EmptyString
    <3>2. LeadingSpaces(u) = k
      BY <1>0, <2>4, <3>1
    <3>. QED BY <1>4, <1>8, <2>4, <2>6, <2>8, <3>1, <3>2 DEF P, k
  <2>. QED BY <2>7, <2>8
<1>. QED BY <1>9, <1>10

LEMMA TextReplaced ==
    ASSUME NEW u \in Str, NEW v \in Str
    PROVE  [TextPart(u) EXCEPT !.text = v] = TextPart(v)
<1>. DEFINE r == TextPart(u)
            a == TextPart(v)
<1>1. r \in PartSet /\ ~r.interp /\ a \in PartSet /\ ~a.interp /\ a.text = v
  BY PartTyped
<1>. HIDE DEF r, a
<1>. DEFINE q == [r EXCEPT !.text = v]
<1>2. q \in PartSet /\ q.text = v /\ q.interp = r.interp
  BY <1>1 DEF PartSet
<1>. HIDE DEF q
<1>3. \A x, y \in PartSet : (x.interp <=> y.interp) /\ x.text = y.text => x = y
  BY DEF PartSet
<1>4. q = a
  BY <1>1, <1>2, <1>3
<1>. QED BY <1>4 DEF q, r, a

(* Taking spaces off the parts is taking them off the line. *)
LEMMA StripLine ==
    ASSUME NEW line \in Str, NEW n \in Nat, n <= LeadingSpaces(line) \/ IsOnlySpaces(line)
    PROVE  MergeAdjacentText(StripPrefix(n, Parts("indented", line)))
           = Parts("indented", WithoutPrefix(line, Shorter(n, LeadingSpaces(line))))
<1>. DEFINE kd == "indented"
            P == Parts(kd, line)
            k == LeadingSpaces(line)
<1>0. k \in Nat /\ k \in 0..Len(line)
  <2>1. Leads(line, k)
    BY LeadingIs
  <2>. HIDE DEF k
  <2>2. k \in 0..Len(line) /\ Len(line) \in Nat
    BY <2>1 DEF Leads, Str
  <2>. QED BY <2>2
<1>1. P \in Seq(GoodPart) /\ (P = <<>> <=> line = <<>>)
  BY PartsGood
<1>2. CASE n = 0
  <2>1. StripPrefix(n, P) = P
    BY <1>2 DEF StripPrefix
  <2>2. Shorter(n, k) = 0
    <3>. HIDE DEF k
    <3>. QED BY <1>0, <1>2 DEF Shorter
  <2>3. WithoutPrefix(line, 0) = line
    BY SubSeqFull DEF WithoutPrefix, Str
  <2>4. MergeAdjacentText(P) = P
    <3>. HIDE DEF P
    <3>. QED BY <1>1, MergeWhole
  <2>. QED BY <2>1, <2>2, <2>3, <2>4
<1>3. CASE n # 0 /\ n <= k
  <2>. DEFINE r == WithoutPrefix(line, n)
              R == Parts(kd, r)
  <2>0. n >= 1 /\ n \in 0..k /\ Shorter(n, k) = n
    <3>. HIDE DEF k
    <3>. QED BY <1>0, <1>3 DEF Shorter
  <2>1. r \in Str /\ line = Shifted(n, r)
    BY <2>0, Unshifted
  <2>2. P = Prepend(Spaces(n), R)
    <3>. HIDE DEF r
    <3>. QED BY <2>0, <2>1, PartsShifted
  <2>3. R \in Seq(GoodPart)
    BY <2>1, PartsGood
  <2>. HIDE DEF R, r, P, k
  <2>4. BehindSpaces(n, Prepend(Spaces(n), R), R)
    BY <2>0, <2>3, PartsBehindSpaces
  <2>5. PICK v \in Str, rest \in Seq(PartSet) :
            /\ Shifted(n, v) \in Str /\ P = <<TextPart(Shifted(n, v))>> \o rest
            /\ \/ v = <<>> /\ rest = R /\ (R = <<>> \/ R[1].interp)
               \/ R # <<>> /\ ~R[1].interp /\ v = R[1].text /\ v # <<>> /\ rest = Tail(R) /\ R = <<TextPart(v)>> \o rest
    BY <2>2, <2>4 DEF BehindSpaces
  <2>. DEFINE u == Shifted(n, v)
              a == TextPart(v)
  <2>6. LeadingSpaces(u) = n + LeadingSpaces(v) /\ LeadingSpaces(v) \in Nat
    <3>1. LeadingSpaces(u) = n + LeadingSpaces(v) /\ LeadingSpaces(v) \in 0..Len(v)
      BY ShiftedSpaces
    <3>2. LeadingSpaces(v) \in Nat
      BY <3>1 DEF Str
    <3>. QED BY <3>1, <3>2
  <2>7. WithoutPrefix(u, n) = v
    <3>1. n \in 0..n /\ n - n = 0
      BY <2>0
    <3>2. WithoutPrefix(u, n) = Shifted(n - n, v)
      BY <3>1, ShiftedRest
    <3>. QED BY <3>1, <3>2, ShiftedZero
  <2>. HIDE DEF u, a
  <2>8. P \in Seq(PartSet) /\ P # <<>> /\ P[1] = TextPart(u) /\ P[1].text = u /\ ~P[1].interp /\ Tail(P) = rest
    BY <2>5, TextInFront DEF u
  <2>9. LeadingSpaces(P[1].text) >= n
    BY <2>6, <2>8
  <2>10. StripPrefix(n, P) = [P EXCEPT ![1].text = v]
    BY <1>3, <2>7, <2>8, <2>9 DEF StripPrefix
  <2>11. a \in PartSet /\ a.text = v
    BY PartTyped DEF a
  <2>12. [P EXCEPT ![1].text = v] = <<a>> \o rest
    <3>1. [TextPart(u) EXCEPT !.text = v] = a
      <4>1. u \in Str
        BY <2>5 DEF u
      <4>. QED BY <4>1, TextReplaced DEF a
    <3>2. [P EXCEPT ![1].text = v] = [P EXCEPT ![1] = a]
      BY <2>8, <3>1
    <3>3. 1 \in DOMAIN P
      BY <2>8
    <3>4. [P EXCEPT ![1] = a] = <<a>> \o Tail(P)
      BY <2>8, <2>11, <3>3
    <3>. QED BY <2>8, <3>2, <3>4
  <2>13. MergeAdjacentText(<<a>> \o rest) = IF v = <<>> THEN MergeAdjacentText(rest) ELSE <<a>> \o MergeAdjacentText(rest)
    BY <2>11, MergeCons
  <2>14. CASE v = <<>> /\ rest = R
    <3>1. MergeAdjacentText(R) = R
      BY <2>3, MergeWhole
    <3>. QED BY <2>0, <2>10, <2>12, <2>13, <2>14, <3>1 DEF R, r, P, k
  <2>15. CASE ~(v = <<>> /\ rest = R)
    <3>1. v # <<>> /\ R = <<a>> \o rest /\ rest = Tail(R) /\ R # <<>>
      BY <2>5, <2>15 DEF a
    <3>2. rest \in Seq(GoodPart)
      BY <2>3, <3>1, HeadRest
    <3>3. MergeAdjacentText(rest) = rest
      BY <3>2, MergeWhole
    <3>4. MergeAdjacentText(<<a>> \o rest) = R
      BY <2>13, <3>1, <3>3
    <3>. QED BY <2>0, <2>10, <2>12, <3>4 DEF R, r, P, k
  <2>. QED BY <2>14, <2>15
<1>4. CASE n # 0 /\ ~(n <= k)
  <2>1. IsOnlySpaces(line) /\ k = Len(line)
    <3>1. IsOnlySpaces(line)
      BY <1>4
    <3>2. 0 \in Nat
      OBVIOUS
    <3>. QED BY <3>1, <3>2, ShiftedSpaces
  <2>2. WithoutPrefix(line, Shorter(n, k)) = <<>>
    <3>1. Shorter(n, k) = k
      <4>. HIDE DEF k
      <4>. QED BY <1>0, <1>4 DEF Shorter
    <3>. DEFINE w == WithoutPrefix(line, k)
    <3>2. w \in Seq(Char) /\ Len(w) = Len(line) - k
      BY <1>0, Rests DEF Str
    <3>. HIDE DEF w, k
    <3>3. w = <<>>
      BY <1>0, <2>1, <3>2
    <3>. QED BY <3>1, <3>3 DEF w
  <2>3. Parts(kd, WithoutPrefix(line, Shorter(n, k))) = <<>>
    BY <2>2, PartsEmpty
  <2>4. StripPrefix(n, P) = <<>>
    <3>1. CASE line = <<>>
      BY <1>1, <3>1 DEF StripPrefix
    <3>2. CASE line # <<>>
      <4>1. P # <<>>
        BY <1>1, <3>2
      <4>2. IsEmptyLine(P)
        BY <2>1, LineBlank
      <4>3. IsBlank(P)
        BY <4>1, <4>2 DEF IsEmptyLine
      <4>4. ~P[1].interp /\ Len(P) = 1
        BY <4>3 DEF IsBlank, IsTextOnly
      <4>5. ~(LeadingSpaces(P[1].text) >= n)
        <5>. DEFINE p == P[1]
                    w == p.text
        <5>1. p \in PartSet /\ Tail(P) \in Seq(GoodPart) /\ P = <<p>> \o Tail(P) /\ Tail(P) = <<>>
          <6>1. p \in GoodPart /\ Tail(P) \in Seq(GoodPart) /\ P = <<p>> \o Tail(P)
            BY <1>1, <4>1, HeadRest
          <6>2. Tail(P) = <<>>
            <7>. DEFINE T == Tail(P)
            <7>. HIDE DEF p, P, T
            <7>1. p \in GoodPart /\ T \in Seq(GoodPart) /\ P = <<p>> \o T
              BY <6>1 DEF T
            <7>2. Len(P) = Len(T) + 1
              BY <7>1, ConsProps
            <7>3. T = <<>>
              BY <4>4, <7>1, <7>2
            <7>. QED BY <7>3 DEF T
          <6>. QED BY <6>1, <6>2, GoodIs
        <5>2. Chars(P) = line
          BY PartsGood
        <5>3. w \in Str /\ Chars(P) = w \o <<>>
          <6>1. <<>> \in Seq(PartSet)
            BY EmptySeq
          <6>. DEFINE e == <<>>
          <6>. HIDE DEF P, e
          <6>2. Chars(<<p>> \o e) = w \o Chars(e)
            <7>. HIDE DEF p
            <7>1. e \in Seq(PartSet)
              BY <6>1 DEF e
            <7>. QED BY <5>1, <7>1, CharsCons
          <6>. QED BY <5>1, <6>2, CharsNone, PartTyped DEF e
        <5>4. w = line
          <6>. HIDE DEF w, P
          <6>1. w \o <<>> = w
            BY <5>3 DEF Str
          <6>. QED BY <5>2, <5>3, <6>1
        <5>. HIDE DEF P, k
        <5>5. ~(k >= n)
          BY <1>0, <1>4
        <5>. QED BY <5>4, <5>5 DEF k
      <4>. HIDE DEF P
      <4>. QED BY <1>4, <4>1, <4>3, <4>4, <4>5 DEF StripPrefix
    <3>. QED BY <3>1, <3>2
  <2>. QED BY <2>3, <2>4, MergeNone
<1>. QED BY <1>2, <1>3, <1>4

-----------------------------------------------------------------------------
(* The lines of an indented string.                                        *)

KeptLines(lines) == IF Len(lines) > 1 /\ IsOnlySpaces(lines[1]) THEN Tail(lines) ELSE lines
Filled(kept)     == {i \in 1..Len(kept) : ~IsOnlySpaces(kept[i])}

(* The common indentation of the filled lines. *)
Common(kept, c) == /\ c \in Nat /\ \A i \in Filled(kept) : c <= LeadingSpaces(kept[i])
                   /\ \E i \in Filled(kept) : c = LeadingSpaces(kept[i])

StrippedBy(kept, c, i) == IF i = Len(kept) /\ i \notin Filled(kept) THEN <<>>
                          ELSE WithoutPrefix(kept[i], Shorter(c, LeadingSpaces(kept[i])))

StripsTo(kept, N) ==
    /\ N \in Seq(Str) /\ Len(N) = Len(kept)
    /\ \/ Filled(kept) = {} /\ \A i \in 1..Len(kept) : N[i] = <<>>
       \/ \E c : Common(kept, c) /\ \A i \in 1..Len(kept) : N[i] = StrippedBy(kept, c, i)

LEMMA LeadNat ==
    ASSUME NEW s \in Str
    PROVE  /\ LeadingSpaces(s) \in Nat /\ LeadingSpaces(s) \in 0..Len(s) /\ Len(s) \in Nat
           /\ IsOnlySpaces(s) <=> LeadingSpaces(s) = Len(s)
<1>1. 0 \in Nat /\ Len(s) \in Nat
  BY DEF Str
<1>2. LeadingSpaces(s) \in 0..Len(s) /\ (IsOnlySpaces(s) <=> LeadingSpaces(s) = Len(s))
  BY <1>1, ShiftedSpaces
<1>. QED BY <1>1, <1>2

LEMMA CommonExists ==
    ASSUME NEW kept \in Seq(Str), Filled(kept) # {}
    PROVE  \E c : Common(kept, c)
<1>. DEFINE T == {LeadingSpaces(kept[i]) : i \in Filled(kept)}
<1>1. \A i \in Filled(kept) : kept[i] \in Str
  BY DEF Filled
<1>2. T \in SUBSET Nat /\ T # {}
  BY <1>1, LeadNat
<1>3. PICK c \in T : \A y \in T : c <= y
  <2>. HIDE DEF T
  <2>. QED BY <1>2, LeastNat
<1>4. Common(kept, c)
  BY <1>2, <1>3 DEF Common
<1>. QED BY <1>4

LEMMA CommonUnique ==
    ASSUME NEW kept \in Seq(Str), NEW c, Common(kept, c), NEW d, Common(kept, d)
    PROVE  c = d
<1>1. c \in Nat /\ d \in Nat /\ c <= d /\ d <= c
  BY DEF Common
<1>. QED BY <1>1

LEMMA StripsUnique ==
    ASSUME NEW kept \in Seq(Str), NEW M, StripsTo(kept, M), NEW N, StripsTo(kept, N)
    PROVE  M = N
<1>1. M \in Seq(Str) /\ N \in Seq(Str) /\ Len(M) = Len(kept) /\ Len(N) = Len(kept)
  BY DEF StripsTo
<1>2. \A i \in 1..Len(kept) : M[i] = N[i]
  <2>1. CASE Filled(kept) = {}
    <3>1. ~\E c : Common(kept, c)
      BY <2>1 DEF Common
    <3>. QED BY <3>1 DEF StripsTo
  <2>2. CASE Filled(kept) # {}
    <3>1. PICK c : Common(kept, c) /\ \A i \in 1..Len(kept) : M[i] = StrippedBy(kept, c, i)
      BY <2>2 DEF StripsTo
    <3>2. PICK d : Common(kept, d) /\ \A i \in 1..Len(kept) : N[i] = StrippedBy(kept, d, i)
      BY <2>2 DEF StripsTo
    <3>3. c = d
      BY <3>1, <3>2, CommonUnique
    <3>. QED BY <3>1, <3>2, <3>3
  <2>. QED BY <2>1, <2>2
<1>. QED BY <1>1, <1>2, SameSeq

LEMMA KeptTyped ==
    ASSUME NEW lines \in Seq(Str), lines # <<>>
    PROVE  KeptLines(lines) \in Seq(Str) /\ KeptLines(lines) # <<>> /\ Len(KeptLines(lines)) >= 1
<1>1. CASE Len(lines) > 1 /\ IsOnlySpaces(lines[1])
  <2>1. Tail(lines) \in Seq(Str) /\ Len(Tail(lines)) = Len(lines) - 1 /\ Len(lines) \in Nat
    BY HeadTailProperties, LenProperties
  <2>2. KeptLines(lines) = Tail(lines)
    BY <1>1 DEF KeptLines
  <2>. QED BY <1>1, <2>1, <2>2
<1>2. CASE ~(Len(lines) > 1 /\ IsOnlySpaces(lines[1]))
  <2>1. KeptLines(lines) = lines
    BY <1>2 DEF KeptLines
  <2>. QED BY <2>1
<1>. QED BY <1>1, <1>2

LEMMA RestTyped ==
    ASSUME NEW s \in Str, NEW c \in Nat
    PROVE  /\ Shorter(c, LeadingSpaces(s)) \in 0..LeadingSpaces(s)
           /\ WithoutPrefix(s, Shorter(c, LeadingSpaces(s))) \in Str
<1>. DEFINE k == LeadingSpaces(s)
            m == Shorter(c, k)
<1>1. k \in Nat /\ k \in 0..Len(s) /\ Len(s) \in Nat
  BY LeadNat
<1>. HIDE DEF k
<1>2. m \in 0..k /\ m \in 0..Len(s)
  BY <1>1 DEF Shorter
<1>. HIDE DEF m
<1>3. WithoutPrefix(s, m) \in Str
  BY <1>2, Rests DEF Str
<1>. QED BY <1>2, <1>3 DEF k, m

LEMMA RestOfBlank ==
    ASSUME NEW s \in Str, IsOnlySpaces(s)
    PROVE  WithoutPrefix(s, LeadingSpaces(s)) = <<>>
<1>. DEFINE k == LeadingSpaces(s)
            w == WithoutPrefix(s, k)
<1>1. k \in 0..Len(s) /\ k = Len(s) /\ Len(s) \in Nat
  BY LeadNat
<1>. HIDE DEF k
<1>2. w \in Seq(Char) /\ Len(w) = Len(s) - k
  BY <1>1, Rests DEF Str
<1>. HIDE DEF w
<1>3. w = <<>>
  BY <1>1, <1>2
<1>. QED BY <1>3 DEF w, k

(* NixLines strips the kept lines. *)
LEMMA NixStrips ==
    ASSUME NEW lines \in Seq(Str), lines # <<>>
    PROVE  StripsTo(KeptLines(lines), NixLines(lines))
<1>. DEFINE kept == KeptLines(lines)
            n == Len(kept)
            filled == {i \in DOMAIN kept : ~IsOnlySpaces(kept[i])}
            strips(m) == \A i \in filled : LeadingSpaces(kept[i]) >= m
            Most(i, m) == strips(m) /\ \A j \in (m + 1)..LeadingSpaces(kept[i]) : ~strips(j)
            Cut(i) == CHOOSE m \in 0..LeadingSpaces(kept[i]) : Most(i, m)
            N == [i \in DOMAIN kept |-> IF i = Len(kept) /\ i \notin filled THEN <<>>
                                        ELSE WithoutPrefix(kept[i], Cut(i))]
<1>1. NixLines(lines) = N
  BY DEF NixLines, KeptLines
<1>2. kept \in Seq(Str) /\ DOMAIN kept = 1..n /\ n \in Nat /\ n >= 1 /\ \A i \in 1..n : kept[i] \in Str
  BY KeptTyped
<1>3. filled = Filled(kept)
  BY <1>2 DEF Filled
<1>. HIDE DEF kept, filled
<1>4. \A i \in 1..n : LeadingSpaces(kept[i]) \in Nat
  BY <1>2, LeadNat
<1>5. \A i \in 1..n : N[i] = IF i = n /\ i \notin filled THEN <<>> ELSE WithoutPrefix(kept[i], Cut(i))
  BY <1>2
<1>6. ASSUME NEW i \in 1..n, NEW w \in 0..LeadingSpaces(kept[i]),
             \A m \in 0..LeadingSpaces(kept[i]) : Most(i, m) <=> m = w
      PROVE  Cut(i) = w
  <2>. HIDE DEF Most
  <2>. QED BY <1>6
<1>. HIDE DEF N, Cut
<1>7. CASE filled = {}
  <2>1. ASSUME NEW i \in 1..n PROVE N[i] = <<>>
    <3>. DEFINE k == LeadingSpaces(kept[i])
    <3>1. k \in Nat /\ kept[i] \in Str /\ IsOnlySpaces(kept[i])
      BY <1>2, <1>3, <1>4, <1>7 DEF Filled
    <3>2. \A m \in 0..k : Most(i, m) <=> m = k
      <4>1. \A m : strips(m)
        BY <1>7
      <4>2. \A m \in 0..k : m # k => m + 1 \in (m + 1)..k
        <5>. HIDE DEF k
        <5>. QED BY <3>1
      <4>3. \A j : ~(j \in (k + 1)..k)
        <5>. HIDE DEF k
        <5>. QED BY <3>1
      <4>. QED BY <4>1, <4>2, <4>3
    <3>3. k \in 0..k
      BY <3>1
    <3>4. Cut(i) = k
      <4>. HIDE DEF Most
      <4>. QED BY <1>6, <3>2, <3>3
    <3>. QED BY <1>5, <3>1, <3>4, RestOfBlank
  <2>2. N \in Seq(Str) /\ Len(N) = n
    <3>1. N = [i \in 1..n |-> <<>>]
      <4>1. DOMAIN N = 1..n
        BY <1>2 DEF N
      <4>2. N = [i \in 1..n |-> N[i]]
        BY <4>1 DEF N
      <4>. QED BY <2>1, <4>2
    <3>. DEFINE e == <<>>
    <3>2. e \in Str
      BY EmptyString
    <3>. HIDE DEF e
    <3>3. [i \in 1..n |-> e] \in Seq(Str) /\ Len([i \in 1..n |-> e]) = n
      BY <1>2, <3>2
    <3>. QED BY <3>1, <3>3 DEF e
  <2>3. StripsTo(kept, N)
    BY <1>3, <1>7, <2>1, <2>2 DEF StripsTo
  <2>. QED BY <1>1, <2>3 DEF kept
<1>8. CASE filled # {}
  <2>1. PICK c : Common(kept, c)
    BY <1>2, <1>3, <1>8, CommonExists
  <2>2. c \in Nat
    BY <2>1 DEF Common
  <2>3. \A m \in Nat : strips(m) <=> m <= c
    <3>1. \A i \in filled : LeadingSpaces(kept[i]) \in Nat /\ c <= LeadingSpaces(kept[i])
      BY <1>3, <1>4, <2>1 DEF Common, Filled
    <3>2. \E i \in filled : c = LeadingSpaces(kept[i])
      BY <1>3, <2>1 DEF Common
    <3>. QED BY <2>2, <3>1, <3>2
  <2>4. ASSUME NEW i \in 1..n PROVE Cut(i) = Shorter(c, LeadingSpaces(kept[i]))
    <3>. DEFINE k == LeadingSpaces(kept[i])
                w == Shorter(c, k)
    <3>1. k \in Nat
      BY <1>4
    <3>2. w \in 0..k
      <4>. HIDE DEF k
      <4>. QED BY <2>2, <3>1 DEF Shorter
    <3>3. ASSUME NEW m \in 0..k PROVE Most(i, m) <=> m = w
      <4>1. Most(i, m) <=> m <= c /\ \A j \in (m + 1)..k : ~(j <= c)
        <5>1. m \in Nat /\ \A j \in (m + 1)..k : j \in Nat
          <6>. HIDE DEF k
          <6>. QED BY <3>1
        <5>2. strips(m) <=> m <= c
          BY <2>3, <5>1
        <5>3. \A j \in (m + 1)..k : strips(j) <=> j <= c
          BY <2>3, <5>1
        <5>. HIDE DEF strips
        <5>. QED BY <5>2, <5>3
      <4>. HIDE DEF Most, k
      <4>2. m <= c /\ (\A j \in (m + 1)..k : ~(j <= c)) <=> m = w
        <5>1. CASE c <= k
          <6>1. w = c
            BY <5>1 DEF Shorter
          <6>2. m < c => m + 1 \in (m + 1)..k /\ m + 1 <= c
            BY <2>2, <3>1, <5>1
          <6>3. \A j \in (c + 1)..k : ~(j <= c)
            BY <2>2, <3>1
          <6>4. m <= c => m < c \/ m = c
            BY <2>2, <3>1
          <6>5. c <= c
            BY <2>2
          <6>. QED BY <6>1, <6>2, <6>3, <6>4, <6>5
        <5>2. CASE ~(c <= k)
          <6>1. w = k
            BY <5>2 DEF Shorter
          <6>2. m < k => m + 1 \in (m + 1)..k /\ m + 1 <= c
            BY <2>2, <3>1, <5>2
          <6>3. \A j \in (k + 1)..k : ~(j <= c)
            BY <2>2, <3>1
          <6>4. (m < k \/ m = k) /\ m <= c
            BY <2>2, <3>1, <5>2
          <6>. QED BY <6>1, <6>2, <6>3, <6>4
        <5>. QED BY <5>1, <5>2
      <4>. QED BY <4>1, <4>2
    <3>. HIDE DEF Most
    <3>. QED BY <1>6, <3>2, <3>3
  <2>5. ASSUME NEW i \in 1..n PROVE N[i] = StrippedBy(kept, c, i) /\ N[i] \in Str
    <3>1. N[i] = StrippedBy(kept, c, i)
      BY <1>3, <1>5, <2>4 DEF StrippedBy
    <3>2. WithoutPrefix(kept[i], Shorter(c, LeadingSpaces(kept[i]))) \in Str
      BY <1>2, <2>2, RestTyped
    <3>. QED BY <3>1, <3>2, EmptyString DEF StrippedBy
  <2>6. N \in Seq(Str) /\ Len(N) = n
    <3>1. DOMAIN N = 1..n
      BY <1>2 DEF N
    <3>2. N = [i \in 1..n |-> N[i]]
      BY <3>1 DEF N
    <3>3. [i \in 1..n |-> N[i]] \in Seq(Str) /\ Len([i \in 1..n |-> N[i]]) = n
      BY <1>2, <2>5
    <3>. QED BY <3>2, <3>3
  <2>7. StripsTo(kept, N)
    BY <2>1, <2>5, <2>6 DEF StripsTo
  <2>. QED BY <1>1, <2>7 DEF kept
<1>. QED BY <1>7, <1>8

(* `process_indented` strips them too. *)
PartsList(kind, lines) == [i \in DOMAIN lines |-> Parts(kind, lines[i])]

LEMMA ListProps ==
    ASSUME NEW kind, NEW lines \in Seq(Str)
    PROVE  /\ PartsList(kind, lines) \in Seq(Seq(GoodPart)) /\ Len(PartsList(kind, lines)) = Len(lines)
           /\ DOMAIN PartsList(kind, lines) = 1..Len(lines) /\ Len(lines) \in Nat
           /\ \A i \in 1..Len(lines) : PartsList(kind, lines)[i] = Parts(kind, lines[i])
           /\ PartsList(kind, lines) = <<>> <=> lines = <<>>
<1>. DEFINE P == PartsList(kind, lines)
            n == Len(lines)
<1>1. DOMAIN lines = 1..n /\ n \in Nat /\ \A i \in 1..n : lines[i] \in Str
  OBVIOUS
<1>2. P = [i \in 1..n |-> Parts(kind, lines[i])] /\ \A i \in 1..n : Parts(kind, lines[i]) \in Seq(GoodPart)
  BY <1>1, PartsGood DEF PartsList
<1>3. P \in Seq(Seq(GoodPart)) /\ Len(P) = n /\ DOMAIN P = 1..n /\ \A i \in 1..n : P[i] = Parts(kind, lines[i])
  BY <1>1, <1>2
<1>. HIDE DEF P
<1>4. P = <<>> <=> lines = <<>>
  BY <1>3
<1>. QED BY <1>1, <1>3, <1>4 DEF P

LEMMA SameLists ==
    ASSUME NEW kind, NEW lines \in Seq(Str), NEW X, NEW parts \in Seq(X), Len(parts) = Len(lines),
           \A i \in 1..Len(lines) : parts[i] = Parts(kind, lines[i])
    PROVE  parts = PartsList(kind, lines)
<1>. DEFINE P == PartsList(kind, lines)
<1>1. P \in Seq(Seq(GoodPart)) /\ Len(P) = Len(lines) /\ \A i \in 1..Len(lines) : P[i] = Parts(kind, lines[i])
  BY ListProps
<1>. HIDE DEF P
<1>2. Len(parts) = Len(P) /\ \A i \in 1..Len(parts) : parts[i] = P[i]
  BY <1>1
<1>3. parts = P
  BY <1>1, <1>2, SameSeq
<1>. QED BY <1>3 DEF P

LEMMA FirstRemoved ==
    ASSUME NEW lines \in Seq(Str), lines # <<>>
    PROVE  RemoveEmptyFirstLine(PartsList("indented", lines)) = PartsList("indented", KeptLines(lines))
<1>. DEFINE kd == "indented"
            P == PartsList(kd, lines)
            n == Len(lines)
<1>1. P \in Seq(Seq(GoodPart)) /\ Len(P) = n /\ n \in Nat /\ n >= 1 /\ \A i \in 1..n : P[i] = Parts(kd, lines[i])
  <2>1. P \in Seq(Seq(GoodPart)) /\ Len(P) = n /\ n \in Nat /\ \A i \in 1..n : P[i] = Parts(kd, lines[i])
    BY ListProps
  <2>2. n >= 1
    OBVIOUS
  <2>. QED BY <2>1, <2>2
<1>2. IsEmptyLine(P[1]) <=> IsOnlySpaces(lines[1])
  <2>1. 1 \in 1..n /\ lines[1] \in Str
    BY <1>1
  <2>2. P[1] = Parts(kd, lines[1])
    BY <1>1, <2>1
  <2>. QED BY <2>1, <2>2, LineBlank
<1>. HIDE DEF P
<1>3. CASE n > 1 /\ IsOnlySpaces(lines[1])
  <2>. DEFINE t == Tail(lines)
              Q == Tail(P)
  <2>1. t \in Seq(Str) /\ Len(t) = n - 1 /\ \A i \in 1..(n - 1) : t[i] = lines[i + 1]
    BY <1>1
  <2>2. Q \in Seq(Seq(GoodPart)) /\ Len(Q) = n - 1 /\ \A i \in 1..(n - 1) : Q[i] = P[i + 1]
    BY <1>1
  <2>3. \A i \in 1..(n - 1) : i + 1 \in 1..n
    BY <1>1
  <2>. HIDE DEF t, Q
  <2>4. Len(Q) = Len(t) /\ \A i \in 1..Len(t) : Q[i] = Parts(kd, t[i])
    BY <1>1, <2>1, <2>2, <2>3
  <2>5. Q = PartsList(kd, t)
    BY <2>1, <2>2, <2>4, SameLists
  <2>6. RemoveEmptyFirstLine(P) = Q /\ KeptLines(lines) = t
    BY <1>1, <1>2, <1>3 DEF RemoveEmptyFirstLine, KeptLines, Q, t
  <2>. QED BY <2>5, <2>6 DEF P
<1>4. CASE ~(n > 1 /\ IsOnlySpaces(lines[1]))
  <2>1. RemoveEmptyFirstLine(P) = P /\ KeptLines(lines) = lines
    BY <1>1, <1>2, <1>4 DEF RemoveEmptyFirstLine, KeptLines
  <2>. QED BY <2>1 DEF P
<1>. QED BY <1>3, <1>4

(* The lines with the last one emptied if it is blank. *)
LastEmptied(kept) == [i \in 1..Len(kept) |-> IF i = Len(kept) /\ i \notin Filled(kept) THEN <<>> ELSE kept[i]]

LEMMA LastProps ==
    ASSUME NEW kept \in Seq(Str)
    PROVE  /\ LastEmptied(kept) \in Seq(Str) /\ Len(LastEmptied(kept)) = Len(kept)
           /\ \A i \in 1..Len(kept) :
                  LastEmptied(kept)[i] = IF i = Len(kept) /\ i \notin Filled(kept) THEN <<>> ELSE kept[i]
<1>1. Len(kept) \in Nat /\ \A i \in 1..Len(kept) : kept[i] \in Str
  OBVIOUS
<1>2. \A i \in 1..Len(kept) : (IF i = Len(kept) /\ i \notin Filled(kept) THEN <<>> ELSE kept[i]) \in Str
  BY <1>1, EmptyString
<1>. QED BY <1>1, <1>2 DEF LastEmptied

LEMMA LastRemoved ==
    ASSUME NEW kept \in Seq(Str), kept # <<>>
    PROVE  RemoveEmptyLastLine(PartsList("indented", kept)) = PartsList("indented", LastEmptied(kept))
<1>. DEFINE kd == "indented"
            P == PartsList(kd, kept)
            n == Len(kept)
            L == LastEmptied(kept)
            e == <<>>
<1>1. /\ P \in Seq(Seq(GoodPart)) /\ Len(P) = n /\ n \in Nat /\ n >= 1 /\ P # <<>>
      /\ \A i \in 1..n : P[i] = Parts(kd, kept[i])
  <2>1. P \in Seq(Seq(GoodPart)) /\ Len(P) = n /\ n \in Nat /\ (P = <<>> <=> kept = <<>>)
        /\ \A i \in 1..n : P[i] = Parts(kd, kept[i])
    BY ListProps
  <2>2. n >= 1
    OBVIOUS
  <2>. QED BY <2>1, <2>2
<1>2. L \in Seq(Str) /\ Len(L) = n /\ \A i \in 1..n : L[i] = IF i = n /\ i \notin Filled(kept) THEN <<>> ELSE kept[i]
  BY LastProps
<1>. HIDE DEF P, L
<1>3. n \in 1..n /\ kept[n] \in Str
  BY <1>1
<1>4. Last(P) = P[n] /\ (IsEmptyLine(Last(P)) <=> n \notin Filled(kept))
  <2>1. Last(P) = P[n] /\ P[n] = Parts(kd, kept[n])
    BY <1>1, <1>3 DEF Last
  <2>2. IsEmptyLine(Parts(kd, kept[n])) <=> IsOnlySpaces(kept[n])
    BY <1>3, LineBlank
  <2>. QED BY <1>3, <2>1, <2>2 DEF Filled
<1>5. CASE n \notin Filled(kept)
  <2>. DEFINE f == Front(P)
              Q == Append(f, e)
  <2>1. f \in Seq(Seq(GoodPart)) /\ Len(f) = n - 1 /\ \A i \in 1..(n - 1) : f[i] = P[i]
    <3>1. f \in Seq(Seq(GoodPart)) /\ Len(f) = Len(P) - 1 /\ \A i \in 1..Len(f) : f[i] = P[i]
      BY <1>1, FrontLast
    <3>. QED BY <1>1, <3>1
  <2>2. e \in Seq(GoodPart)
    BY EmptySeq
  <2>. HIDE DEF f, e
  <2>3. Q \in Seq(Seq(GoodPart)) /\ Len(Q) = n /\ Q[n] = e /\ \A i \in 1..(n - 1) : Q[i] = P[i]
    BY <1>1, <2>1, <2>2
  <2>. HIDE DEF Q
  <2>4. ASSUME NEW i \in 1..n PROVE Q[i] = Parts(kd, L[i])
    <3>1. CASE i = n
      BY <1>2, <1>5, <2>3, <3>1, PartsEmpty DEF e
    <3>2. CASE i # n
      <4>1. i \in 1..(n - 1)
        BY <1>1, <3>2
      <4>. QED BY <1>1, <1>2, <2>3, <3>2, <4>1
    <3>. QED BY <3>1, <3>2
  <2>5. Q = PartsList(kd, L)
    BY <1>2, <2>3, <2>4, SameLists
  <2>6. RemoveEmptyLastLine(P) = Q
    BY <1>1, <1>4, <1>5 DEF RemoveEmptyLastLine, Q, f, e
  <2>. QED BY <2>5, <2>6 DEF P, L
<1>6. CASE n \in Filled(kept)
  <2>1. RemoveEmptyLastLine(P) = P
    BY <1>4, <1>6 DEF RemoveEmptyLastLine
  <2>2. \A i \in 1..n : P[i] = Parts(kd, L[i])
    BY <1>1, <1>2, <1>6
  <2>3. P = PartsList(kd, L)
    BY <1>1, <1>2, <2>2, SameLists
  <2>. QED BY <2>1, <2>3 DEF P, L
<1>. QED BY <1>5, <1>6

LEMMA IndentationStripped ==
    ASSUME NEW kept \in Seq(Str), NEW N, StripsTo(kept, N)
    PROVE  LET stripped == StripCommonIndentation(PartsList("indented", LastEmptied(kept)))
           IN  [i \in DOMAIN stripped |-> MergeAdjacentText(stripped[i])] = PartsList("indented", N)
<1>. DEFINE kd == "indented"
            L == LastEmptied(kept)
            P == PartsList(kd, L)
            n == Len(kept)
            e == <<>>
            pref == {PrefixLength(P[i]) : i \in {j \in DOMAIN P : HasPrefix(P[j])}}
            common == CHOOSE m \in pref : \A l \in pref : m <= l
            S == StripCommonIndentation(P)
            M == [i \in DOMAIN S |-> MergeAdjacentText(S[i])]
<1>1. L \in Seq(Str) /\ Len(L) = n /\ n \in Nat
      /\ \A i \in 1..n : L[i] = IF i = n /\ i \notin Filled(kept) THEN <<>> ELSE kept[i]
  BY LastProps
<1>2. N \in Seq(Str) /\ Len(N) = n
  BY DEF StripsTo
<1>3. P \in Seq(Seq(GoodPart)) /\ DOMAIN P = 1..n /\ \A i \in 1..n : P[i] = Parts(kd, L[i])
  <2>. HIDE DEF L
  <2>. QED BY <1>1, ListProps
<1>4. S = [i \in DOMAIN P |-> IF pref = {} THEN <<>> ELSE StripPrefix(common, P[i])]
  BY DEF StripCommonIndentation
<1>. HIDE DEF L, P, S
<1>5. \A i \in 1..n : L[i] \in Str /\ kept[i] \in Str
  BY <1>1
<1>6. \A i \in 1..n : HasPrefix(P[i]) <=> i \in Filled(kept)
  <2>1. ASSUME NEW i \in 1..n PROVE HasPrefix(P[i]) <=> i \in Filled(kept)
    <3>1. HasPrefix(P[i]) <=> ~IsOnlySpaces(L[i])
      BY <1>3, <1>5, LineBlank
    <3>2. ~IsOnlySpaces(L[i]) <=> i \in Filled(kept)
      BY <1>1, EmptyString DEF Filled
    <3>. QED BY <3>1, <3>2
  <2>. QED BY <2>1
<1>7. \A i \in Filled(kept) : i \in 1..n /\ PrefixLength(P[i]) = LeadingSpaces(kept[i])
  <2>1. ASSUME NEW i \in Filled(kept) PROVE i \in 1..n /\ PrefixLength(P[i]) = LeadingSpaces(kept[i])
    <3>1. i \in 1..n /\ L[i] = kept[i] /\ ~IsOnlySpaces(L[i])
      BY <1>1 DEF Filled
    <3>2. PrefixLength(P[i]) = LeadingSpaces(L[i])
      BY <1>3, <1>5, <3>1, LineBlank
    <3>. QED BY <3>1, <3>2
  <2>. QED BY <2>1
<1>8. {j \in DOMAIN P : HasPrefix(P[j])} = Filled(kept)
  BY <1>3, <1>6 DEF Filled
<1>9. pref = {LeadingSpaces(kept[i]) : i \in Filled(kept)}
  BY <1>7, <1>8
<1>10. S = [i \in 1..n |-> IF pref = {} THEN <<>> ELSE StripPrefix(common, P[i])]
  BY <1>3, <1>4
<1>11. DOMAIN S = 1..n
  BY <1>10
<1>12. ASSUME \A i \in 1..n : MergeAdjacentText(S[i]) = Parts(kd, N[i])
       PROVE  M = PartsList(kd, N)
  <2>1. M = [i \in 1..n |-> Parts(kd, N[i])] /\ \A i \in 1..n : Parts(kd, N[i]) \in Seq(GoodPart)
    <3>1. \A i \in 1..n : N[i] \in Str
      BY <1>2
    <3>. QED BY <1>11, <1>12, <3>1, PartsGood
  <2>2. M \in Seq(Seq(GoodPart)) /\ Len(M) = n /\ \A i \in 1..n : M[i] = Parts(kd, N[i])
    <3>. HIDE DEF M
    <3>. QED BY <1>1, <2>1
  <2>. HIDE DEF M
  <2>. QED BY <1>2, <2>2, SameLists
<1>13. CASE Filled(kept) = {}
  <2>1. pref = {}
    BY <1>9, <1>13
  <2>2. \A i \in 1..n : S[i] = <<>>
    <3>. HIDE DEF pref, common
    <3>. QED BY <1>10, <2>1
  <2>3. ~\E c : Common(kept, c)
    BY <1>13 DEF Common
  <2>4. \A i \in 1..n : N[i] = <<>>
    BY <2>3 DEF StripsTo
  <2>5. \A i \in 1..n : MergeAdjacentText(S[i]) = Parts(kd, N[i])
    BY <2>2, <2>4, MergeNone, PartsEmpty
  <2>6. M = PartsList(kd, N)
    <3>. HIDE DEF M
    <3>. QED BY <1>12, <2>5
  <2>. QED BY <2>6 DEF S, P, L
<1>14. CASE Filled(kept) # {}
  <2>1. PICK c : Common(kept, c) /\ \A i \in 1..n : N[i] = StrippedBy(kept, c, i)
    BY <1>14 DEF StripsTo
  <2>2. c \in Nat /\ \A i \in Filled(kept) : c <= LeadingSpaces(kept[i])
    BY <2>1 DEF Common
  <2>3. pref # {} /\ c \in pref /\ \A l \in pref : c <= l /\ l \in Nat
    <3>1. c \in pref
      BY <1>9, <2>1 DEF Common
    <3>2. \A i \in Filled(kept) : LeadingSpaces(kept[i]) \in Nat
      BY <1>5, LeadNat DEF Filled
    <3>3. \A l \in pref : c <= l /\ l \in Nat
      BY <1>9, <2>2, <3>2
    <3>. HIDE DEF pref
    <3>. QED BY <3>1, <3>3
  <2>4. common = c
    <3>. HIDE DEF pref
    <3>1. \A m \in pref : (\A l \in pref : m <= l) => m = c
      BY <2>2, <2>3
    <3>. QED BY <2>3, <3>1
  <2>5. ASSUME NEW i \in 1..n PROVE S[i] = StripPrefix(c, Parts(kd, L[i]))
    <3>. HIDE DEF pref, common
    <3>. QED BY <1>3, <1>10, <2>3, <2>4
  <2>6. ASSUME NEW i \in 1..n PROVE MergeAdjacentText(S[i]) = Parts(kd, N[i])
    <3>0. L[i] \in Str /\ kept[i] \in Str
      BY <1>5
    <3>1. c <= LeadingSpaces(L[i]) \/ IsOnlySpaces(L[i])
      BY <1>1, <2>2, EmptyString DEF Filled
    <3>2. MergeAdjacentText(StripPrefix(c, Parts(kd, L[i])))
          = Parts(kd, WithoutPrefix(L[i], Shorter(c, LeadingSpaces(L[i]))))
      BY <2>2, <3>0, <3>1, StripLine
    <3>3. WithoutPrefix(L[i], Shorter(c, LeadingSpaces(L[i]))) = N[i]
      <4>1. CASE i = n /\ i \notin Filled(kept)
        <5>1. L[i] = <<>> /\ N[i] = <<>>
          BY <1>1, <2>1, <4>1 DEF StrippedBy
        <5>2. Shorter(c, 0) = 0
          BY <2>2 DEF Shorter
        <5>3. WithoutPrefix(e, 0) = e
          BY DEF WithoutPrefix
        <5>. QED BY <5>1, <5>2, <5>3, EmptyString
      <4>2. CASE ~(i = n /\ i \notin Filled(kept))
        BY <1>1, <2>1, <4>2 DEF StrippedBy
      <4>. QED BY <4>1, <4>2
    <3>. QED BY <2>5, <3>2, <3>3
  <2>7. M = PartsList(kd, N)
    <3>. HIDE DEF M
    <3>. QED BY <1>12, <2>6
  <2>. QED BY <2>7 DEF S, P, L
<1>. QED BY <1>13, <1>14

(* Both strip the same. *)
LEMMA ProcessIs ==
    ASSUME NEW lines \in Seq(Str), lines # <<>>
    PROVE  /\ ProcessIndented(PartsList("indented", lines)) = PartsList("indented", NixLines(lines))
           /\ NixLines(lines) \in Seq(Str) /\ Len(NixLines(lines)) = Len(KeptLines(lines))
<1>. DEFINE kept == KeptLines(lines)
            N == NixLines(lines)
<1>1. kept \in Seq(Str) /\ kept # <<>>
  BY KeptTyped
<1>2. StripsTo(kept, N)
  BY NixStrips
<1>3. N \in Seq(Str) /\ Len(N) = Len(kept)
  BY <1>2 DEF StripsTo
<1>4. RemoveEmptyFirstLine(PartsList("indented", lines)) = PartsList("indented", kept)
  BY FirstRemoved
<1>. HIDE DEF kept, N
<1>5. RemoveEmptyLastLine(PartsList("indented", kept)) = PartsList("indented", LastEmptied(kept))
  BY <1>1, LastRemoved
<1>. DEFINE S == StripCommonIndentation(PartsList("indented", LastEmptied(kept)))
<1>6. [i \in DOMAIN S |-> MergeAdjacentText(S[i])] = PartsList("indented", N)
  BY <1>1, <1>2, IndentationStripped
<1>7. ProcessIndented(PartsList("indented", lines)) = [i \in DOMAIN S |-> MergeAdjacentText(S[i])]
  BY <1>4, <1>5 DEF ProcessIndented
<1>. QED BY <1>3, <1>6, <1>7 DEF kept, N

-----------------------------------------------------------------------------
(* Lines that are stripped stay as they are when they are printed and      *)
(* stripped again.                                                         *)

Settled(N) ==
    /\ N \in Seq(Str) /\ N # <<>>
    /\ \/ \A i \in 1..Len(N) : N[i] = <<>>
       \/ (\E i \in Filled(N) : LeadingSpaces(N[i]) = 0) /\ (Len(N) \notin Filled(N) => N[Len(N)] = <<>>)

(* What is stripped of a line are spaces in front. *)
LEMMA StrippedLine ==
    ASSUME NEW s \in Str, NEW c \in Nat
    PROVE  LET m == Shorter(c, LeadingSpaces(s))
               r == WithoutPrefix(s, m)
           IN  /\ m \in Nat /\ r \in Str /\ s = Shifted(m, r)
               /\ IsOnlySpaces(s) <=> IsOnlySpaces(r)
               /\ LeadingSpaces(s) = m + LeadingSpaces(r)
<1>. DEFINE m == Shorter(c, LeadingSpaces(s))
            r == WithoutPrefix(s, m)
<1>1. m \in 0..LeadingSpaces(s) /\ r \in Str
  BY RestTyped
<1>. HIDE DEF m
<1>2. m \in Nat /\ s = Shifted(m, r)
  BY <1>1, Unshifted
<1>. HIDE DEF r
<1>3. LeadingSpaces(Shifted(m, r)) = m + LeadingSpaces(r) /\ (IsOnlySpaces(Shifted(m, r)) <=> IsOnlySpaces(r))
  BY <1>1, <1>2, ShiftedSpaces
<1>4. LeadingSpaces(s) = m + LeadingSpaces(r) /\ (IsOnlySpaces(s) <=> IsOnlySpaces(r))
  BY <1>2, <1>3
<1>. QED BY <1>1, <1>2, <1>4 DEF r, m

LEMMA StrippedSettled ==
    ASSUME NEW kept \in Seq(Str), kept # <<>>, NEW N, StripsTo(kept, N)
    PROVE  Settled(N)
<1>. DEFINE n == Len(kept)
<1>1. N \in Seq(Str) /\ Len(N) = n /\ n \in Nat /\ n >= 1 /\ N # <<>> /\ \A i \in 1..n : kept[i] \in Str
  <2>1. N \in Seq(Str) /\ Len(N) = n
    BY DEF StripsTo
  <2>2. n \in Nat /\ n >= 1 /\ \A i \in 1..n : kept[i] \in Str
    OBVIOUS
  <2>3. N # <<>>
    BY <2>1, <2>2
  <2>. QED BY <2>1, <2>2, <2>3
<1>2. CASE \A i \in 1..n : N[i] = <<>>
  BY <1>1, <1>2 DEF Settled
<1>3. CASE ~\A i \in 1..n : N[i] = <<>>
  <2>1. PICK c : Common(kept, c) /\ \A i \in 1..n : N[i] = StrippedBy(kept, c, i)
    BY <1>3 DEF StripsTo
  <2>2. c \in Nat
    BY <2>1 DEF Common
  <2>3. ASSUME NEW i \in 1..n, i \in Filled(kept)
        PROVE  i \in Filled(N) /\ LeadingSpaces(kept[i]) = Shorter(c, LeadingSpaces(kept[i])) + LeadingSpaces(N[i])
               /\ LeadingSpaces(N[i]) \in Nat
    <3>1. N[i] = WithoutPrefix(kept[i], Shorter(c, LeadingSpaces(kept[i])))
      BY <2>1, <2>3 DEF StrippedBy
    <3>2. kept[i] \in Str /\ ~IsOnlySpaces(kept[i])
      BY <1>1, <2>3 DEF Filled
    <3>3. N[i] \in Str /\ (IsOnlySpaces(kept[i]) <=> IsOnlySpaces(N[i]))
          /\ LeadingSpaces(kept[i]) = Shorter(c, LeadingSpaces(kept[i])) + LeadingSpaces(N[i])
      <4>. DEFINE s == kept[i]
                  m == Shorter(c, LeadingSpaces(s))
                  r == WithoutPrefix(s, m)
      <4>1. s \in Str /\ N[i] = r
        BY <3>1, <3>2
      <4>. HIDE DEF s
      <4>2. r \in Str /\ (IsOnlySpaces(s) <=> IsOnlySpaces(r)) /\ LeadingSpaces(s) = m + LeadingSpaces(r)
        BY <2>2, <4>1, StrippedLine
      <4>. HIDE DEF m, r
      <4>. QED BY <4>1, <4>2 DEF s, m
    <3>. QED BY <1>1, <3>2, <3>3, LeadNat DEF Filled
  <2>4. PICK i \in Filled(kept) : c = LeadingSpaces(kept[i])
    BY <2>1 DEF Common
  <2>5. i \in 1..n
    BY <2>4 DEF Filled
  <2>6. LeadingSpaces(N[i]) = 0
    <3>. DEFINE l == LeadingSpaces(N[i])
    <3>1. c = Shorter(c, c) + l /\ l \in Nat
      BY <2>3, <2>4, <2>5
    <3>2. Shorter(c, c) = c
      BY DEF Shorter
    <3>. HIDE DEF l
    <3>3. l = 0
      BY <2>2, <3>1, <3>2
    <3>. QED BY <3>3 DEF l
  <2>7. n \notin Filled(N) => N[n] = <<>>
    <3>1. n \in 1..n
      BY <1>1
    <3>2. n \notin Filled(N) => n \notin Filled(kept)
      BY <2>3, <3>1
    <3>. QED BY <2>1, <3>1, <3>2 DEF StrippedBy
  <2>. QED BY <1>1, <2>3, <2>4, <2>5, <2>6, <2>7 DEF Settled
<1>. QED BY <1>2, <1>3

(* What PrintIndented makes of the parts of such lines. *)
PrintedLine(N, i) == IF N[i] # <<>> THEN Shifted(Outer + Width, N[i])
                     ELSE IF i = Len(N) THEN Spaces(Outer) ELSE <<>>
NestedLines(N)  == [i \in 1..Len(N) |-> PrintedLine(N, i)]
PrintedLines(N) == IF Len(N) = 1 THEN N ELSE <<<<>>>> \o NestedLines(N)

LEMMA NestedProps ==
    ASSUME NEW N \in Seq(Str)
    PROVE  /\ NestedLines(N) \in Seq(Str) /\ Len(NestedLines(N)) = Len(N) /\ Len(N) \in Nat
           /\ \A i \in 1..Len(N) : NestedLines(N)[i] = PrintedLine(N, i) /\ N[i] \in Str
<1>1. Outer \in Nat /\ Outer + Width \in Nat
  BY StringAssumption
<1>2. Len(N) \in Nat /\ \A i \in 1..Len(N) : N[i] \in Str
  OBVIOUS
<1>3. \A i \in 1..Len(N) : PrintedLine(N, i) \in Str
  BY <1>1, <1>2, ShiftedProps, SpacesTyped, EmptyString DEF PrintedLine
<1>. QED BY <1>2, <1>3 DEF NestedLines

LEMMA SingleIs == ASSUME NEW X, NEW s \in Seq(X), Len(s) = 1 PROVE s = <<s[1]>> /\ s[1] \in X
<1>. DEFINE x == s[1]
            t == <<x>>
<1>1. x \in X
  OBVIOUS
<1>. HIDE DEF x
<1>2. t \in Seq(X) /\ Len(t) = 1 /\ t[1] = x
  BY <1>1
<1>. HIDE DEF t
<1>3. \A i \in 1..Len(s) : s[i] = t[i]
  BY <1>2 DEF x
<1>4. s = t
  BY <1>2, <1>3, SameSeq
<1>. QED BY <1>1, <1>4 DEF t, x

LEMMA PrintIs ==
    ASSUME NEW N \in Seq(Str), N # <<>>
    PROVE  PrintIndented(PartsList("indented", N)) = PrintedLines(N)
<1>. DEFINE P == PartsList("indented", N)
            n == Len(N)
            e == <<>>
<1>1. /\ P \in Seq(Seq(GoodPart)) /\ Len(P) = n /\ DOMAIN P = 1..n /\ n \in Nat /\ P # <<>>
      /\ \A i \in 1..n : P[i] = Parts("indented", N[i])
  BY ListProps
<1>2. n >= 1
  OBVIOUS
<1>. HIDE DEF P
<1>3. \A i \in 1..n : N[i] \in Str /\ Chars(P[i]) = N[i] /\ (P[i] = <<>> <=> N[i] = <<>>)
  <2>1. \A i \in 1..n : N[i] \in Str
    OBVIOUS
  <2>. QED BY <1>1, <2>1, PartsGood
<1>4. CASE n = 1
  <2>1. PrintIndented(P) = <<Chars(P[1])>>
    BY <1>1, <1>4 DEF PrintIndented
  <2>2. Chars(P[1]) = N[1]
    BY <1>3, <1>4
  <2>3. N = <<N[1]>>
    BY <1>4, SingleIs
  <2>4. PrintedLines(N) = N
    BY <1>4 DEF PrintedLines
  <2>. QED BY <2>1, <2>2, <2>3, <2>4 DEF P
<1>5. CASE n # 1
  <2>. DEFINE Q == [i \in DOMAIN P |-> IndentedLine(P[i])]
              R == IF Last(P) = <<>> THEN Append(Front(Q), Spaces(Outer)) ELSE Q
              M == NestedLines(N)
  <2>1. PrintIndented(P) = <<<<>>>> \o R
    BY <1>1, <1>5 DEF PrintIndented
  <2>2. \A i \in 1..n : IndentedLine(P[i]) = IF N[i] = <<>> THEN <<>> ELSE Shifted(Outer + Width, N[i])
    BY <1>3 DEF IndentedLine, Shifted
  <2>3. \A i \in 1..n : IndentedLine(P[i]) \in Str
    <3>1. Outer + Width \in Nat
      BY StringAssumption
    <3>. QED BY <1>3, <2>2, <3>1, ShiftedProps, EmptyString
  <2>4. Q \in Seq(Str) /\ Len(Q) = n /\ \A i \in 1..n : Q[i] = IF N[i] = <<>> THEN <<>> ELSE Shifted(Outer + Width, N[i])
    <3>1. Q = [i \in 1..n |-> IndentedLine(P[i])]
      BY <1>1
    <3>2. Q \in Seq(Str) /\ Len(Q) = n /\ \A i \in 1..n : Q[i] = IndentedLine(P[i])
      <4>. HIDE DEF Q
      <4>. QED BY <1>1, <2>3, <3>1
    <3>. HIDE DEF Q
    <3>. QED BY <2>2, <3>2
  <2>5. M \in Seq(Str) /\ Len(M) = n /\ \A i \in 1..n : M[i] = PrintedLine(N, i)
    BY NestedProps
  <2>. HIDE DEF Q, M
  <2>6. Last(P) = <<>> <=> N[n] = <<>>
    BY <1>1, <1>2, <1>3 DEF Last
  <2>7. R = M
    <3>1. CASE N[n] = <<>>
      <4>. DEFINE f == Front(Q)
                  l == Spaces(Outer)
                  A == Append(f, l)
      <4>1. Q # <<>>
        BY <1>2, <2>4
      <4>2. f \in Seq(Str) /\ Len(f) = Len(Q) - 1 /\ \A i \in 1..Len(f) : f[i] = Q[i]
        BY <2>4, <4>1, FrontLast
      <4>3. l \in Str
        BY StringAssumption, SpacesTyped
      <4>. HIDE DEF f, l
      <4>4. A \in Seq(Str) /\ Len(A) = Len(f) + 1 /\ (\A i \in 1..Len(f) : A[i] = f[i]) /\ A[Len(f) + 1] = l
        BY <4>2, <4>3, FrontAppend
      <4>. HIDE DEF A
      <4>5. Len(f) = n - 1 /\ Len(A) = n /\ A[n] = l
        BY <1>1, <2>4, <4>2, <4>4
      <4>6. ASSUME NEW i \in 1..n PROVE A[i] = M[i]
        <5>1. CASE i = n
          BY <2>5, <3>1, <4>5, <5>1 DEF PrintedLine, l
        <5>2. CASE i # n
          <6>0. i \in 1..(n - 1)
            <7>1. n \in Nat /\ i \in 1..n /\ i # n
              BY <1>1, <5>2
            <7>. HIDE DEF n
            <7>. QED BY ONLY <7>1
          <6>1. i \in 1..Len(f)
            BY <4>5, <6>0
          <6>2. A[i] = Q[i]
            BY <4>2, <4>4, <6>1
          <6>. QED BY <2>4, <2>5, <5>2, <6>2 DEF PrintedLine
        <5>. QED BY <5>1, <5>2
      <4>7. A = M
        BY <2>5, <4>4, <4>5, <4>6, SameSeq
      <4>. QED BY <2>6, <3>1, <4>7 DEF A, f, l
    <3>2. CASE N[n] # <<>>
      <4>1. \A i \in 1..n : Q[i] = M[i]
        BY <2>4, <2>5, <3>2 DEF PrintedLine
      <4>2. Q = M
        BY <2>4, <2>5, <4>1, SameSeq
      <4>. QED BY <2>6, <3>2, <4>2
    <3>. QED BY <3>1, <3>2
  <2>8. PrintedLines(N) = <<<<>>>> \o M
    BY <1>5 DEF PrintedLines, M
  <2>. QED BY <2>1, <2>7, <2>8 DEF P
<1>. QED BY <1>4, <1>5

LEMMA Reprinted ==
    ASSUME NEW N, Settled(N)
    PROVE  PrintedLines(N) \in Seq(Str) /\ PrintedLines(N) # <<>> /\ NixLines(PrintedLines(N)) = N
<1>. DEFINE n == Len(N)
            c == Outer + Width
            e == <<>>
<1>1. N \in Seq(Str) /\ N # <<>> /\ n \in Nat /\ n >= 1 /\ \A i \in 1..n : N[i] \in Str
  BY DEF Settled
<1>2. c \in Nat /\ Outer \in Nat
  BY StringAssumption
<1>3. Len(N) \notin Filled(N) => N[n] = <<>>
  <2>1. n \in 1..n
    BY <1>1
  <2>. QED BY <2>1 DEF Settled
<1>. HIDE DEF c
<1>4. CASE n = 1
  <2>1. PrintedLines(N) = N /\ KeptLines(N) = N
    BY <1>4 DEF PrintedLines, KeptLines
  <2>2. StripsTo(N, N)
    <3>1. CASE \A i \in 1..Len(N) : N[i] = <<>>
      <4>1. Filled(N) = {}
        BY <3>1, EmptyString DEF Filled
      <4>. QED BY <1>1, <3>1, <4>1 DEF StripsTo
    <3>2. CASE ~\A i \in 1..Len(N) : N[i] = <<>>
      <4>1. \E i \in Filled(N) : LeadingSpaces(N[i]) = 0
        BY <3>2 DEF Settled
      <4>2. Common(N, 0)
        <5>1. \A i \in Filled(N) : LeadingSpaces(N[i]) \in Nat
          BY <1>1, LeadNat DEF Filled
        <5>2. \A i \in Filled(N) : 0 <= LeadingSpaces(N[i])
          BY <5>1
        <5>. QED BY <4>1, <5>2 DEF Common
      <4>3. ASSUME NEW i \in 1..Len(N) PROVE N[i] = StrippedBy(N, 0, i)
        <5>1. LeadingSpaces(N[i]) \in Nat /\ N[i] \in Seq(Char)
          BY <1>1, LeadNat DEF Str
        <5>2. Shorter(0, LeadingSpaces(N[i])) = 0
          BY <5>1 DEF Shorter
        <5>3. WithoutPrefix(N[i], 0) = N[i]
          BY <5>1, SubSeqFull DEF WithoutPrefix
        <5>. QED BY <1>3, <5>2, <5>3 DEF StrippedBy
      <4>. QED BY <1>1, <4>2, <4>3 DEF StripsTo
    <3>. QED BY <3>1, <3>2
  <2>3. StripsTo(N, NixLines(N))
    BY <1>1, <2>1, NixStrips
  <2>. QED BY <1>1, <2>1, <2>2, <2>3, StripsUnique
<1>5. CASE n # 1
  <2>. DEFINE Q == NestedLines(N)
              A == <<e>> \o Q
  <2>1. Q \in Seq(Str) /\ Len(Q) = n /\ \A i \in 1..n : Q[i] = PrintedLine(N, i)
    BY <1>1, NestedProps
  <2>2. PrintedLines(N) = A
    BY <1>5 DEF PrintedLines
  <2>3. e \in Str
    BY EmptyString
  <2>. HIDE DEF Q, e
  <2>4. A \in Seq(Str) /\ A # <<>> /\ A[1] = e /\ Tail(A) = Q /\ Len(A) = Len(Q) + 1
    BY <2>1, <2>3, ConsProps
  <2>. HIDE DEF A
  <2>5. Len(A) > 1 /\ IsOnlySpaces(A[1])
    <3>1. IsOnlySpaces(e)
      BY EmptyString DEF e
    <3>. QED BY <1>1, <2>1, <2>4, <3>1
  <2>6. KeptLines(A) = Q
    BY <2>4, <2>5 DEF KeptLines
  <2>7. ASSUME NEW i \in 1..n
        PROVE  /\ N[i] # <<>> => Q[i] = Shifted(c, N[i])
               /\ IsOnlySpaces(Q[i]) <=> IsOnlySpaces(N[i])
               /\ i \in Filled(N) => N[i] # <<>> /\ LeadingSpaces(Q[i]) = c + LeadingSpaces(N[i])
               /\ N[i] = <<>> /\ i # n => Q[i] = <<>>
    <3>1. N[i] \in Str /\ (i \in Filled(N) => N[i] # <<>>)
      BY <1>1, EmptyString DEF Filled
    <3>2. Q[i] = IF N[i] # <<>> THEN Shifted(c, N[i]) ELSE IF i = n THEN Spaces(Outer) ELSE <<>>
      BY <2>1 DEF PrintedLine, c
    <3>3. LeadingSpaces(Shifted(c, N[i])) = c + LeadingSpaces(N[i])
          /\ (IsOnlySpaces(Shifted(c, N[i])) <=> IsOnlySpaces(N[i]))
      BY <1>2, <3>1, ShiftedSpaces
    <3>4. IsOnlySpaces(Spaces(Outer))
      BY <1>2, SpacesTyped, OnlySpacesIs DEF Str
    <3>. QED BY <3>1, <3>2, <3>3, <3>4, EmptyString
  <2>8. Filled(Q) = Filled(N)
    BY <2>1, <2>7 DEF Filled
  <2>9. StripsTo(Q, N)
    <3>1. CASE \A i \in 1..Len(N) : N[i] = <<>>
      <4>1. Filled(N) = {}
        BY <3>1, EmptyString DEF Filled
      <4>. QED BY <1>1, <2>1, <2>8, <3>1, <4>1 DEF StripsTo
    <3>2. CASE ~\A i \in 1..Len(N) : N[i] = <<>>
      <4>0. \A i \in Filled(N) : i \in 1..n /\ LeadingSpaces(N[i]) \in Nat
        BY <1>1, LeadNat DEF Filled
      <4>1. PICK z \in Filled(N) : LeadingSpaces(N[z]) = 0
        BY <3>2 DEF Settled
      <4>2. Common(Q, c)
        <5>1. \A i \in Filled(Q) : c <= LeadingSpaces(Q[i])
          <6>1. ASSUME NEW i \in Filled(Q) PROVE c <= LeadingSpaces(Q[i])
            <7>1. i \in 1..n /\ LeadingSpaces(Q[i]) = c + LeadingSpaces(N[i]) /\ LeadingSpaces(N[i]) \in Nat
              BY <2>7, <2>8, <4>0
            <7>. QED BY <1>2, <7>1
          <6>. QED BY <6>1
        <5>2. z \in Filled(Q) /\ c = LeadingSpaces(Q[z])
          <6>1. z \in 1..n /\ LeadingSpaces(Q[z]) = c + LeadingSpaces(N[z])
            BY <2>7, <4>0, <4>1
          <6>. QED BY <1>2, <2>8, <4>1, <6>1
        <5>. QED BY <1>2, <5>1, <5>2 DEF Common
      <4>3. ASSUME NEW i \in 1..n PROVE N[i] = StrippedBy(Q, c, i)
        <5>1. CASE i = n /\ i \notin Filled(N)
          BY <1>3, <2>1, <2>8, <5>1 DEF StrippedBy
        <5>2. CASE ~(i = n /\ i \notin Filled(N))
          <6>1. StrippedBy(Q, c, i) = WithoutPrefix(Q[i], Shorter(c, LeadingSpaces(Q[i])))
            BY <2>1, <2>8, <5>2 DEF StrippedBy
          <6>2. CASE N[i] = <<>>
            <7>1. i # n
              BY <2>7, <5>2, <6>2
            <7>2. Q[i] = <<>>
              BY <2>7, <6>2, <7>1
            <7>3. Shorter(c, 0) = 0
              BY <1>2 DEF Shorter
            <7>4. WithoutPrefix(e, 0) = e
              BY DEF WithoutPrefix, e
            <7>. QED BY <6>1, <6>2, <7>2, <7>3, <7>4, EmptyString DEF e
          <6>3. CASE N[i] # <<>>
            <7>. DEFINE l == LeadingSpaces(N[i])
            <7>1. Q[i] = Shifted(c, N[i]) /\ N[i] \in Str /\ l \in Nat
              BY <1>1, <2>7, <6>3, LeadNat
            <7>2. LeadingSpaces(Q[i]) = c + l
              BY <1>2, <7>1, ShiftedSpaces
            <7>. HIDE DEF l
            <7>3. Shorter(c, c + l) = c /\ c \in 0..c /\ c - c = 0
              BY <1>2, <7>1 DEF Shorter
            <7>4. WithoutPrefix(Shifted(c, N[i]), c) = Shifted(c - c, N[i])
              BY <1>2, <7>1, <7>3, ShiftedRest
            <7>5. Shifted(0, N[i]) = N[i]
              BY <7>1, ShiftedZero
            <7>. QED BY <6>1, <7>1, <7>2, <7>3, <7>4, <7>5
          <6>. QED BY <6>2, <6>3
        <5>. QED BY <5>1, <5>2
      <4>. QED BY <1>1, <2>1, <4>2, <4>3 DEF StripsTo
    <3>. QED BY <3>1, <3>2
  <2>10. StripsTo(Q, NixLines(A))
    BY <2>4, <2>6, NixStrips
  <2>11. NixLines(A) = N
    BY <2>1, <2>9, <2>10, StripsUnique
  <2>. QED BY <2>2, <2>4, <2>11
<1>. QED BY <1>4, <1>5


-----------------------------------------------------------------------------
(* Stripping and printing keep the ends of the strings.                    *)

Moved(s, r) == r = <<>> \/ \E m \in Nat : r = Shifted(m, s) \/ s = Shifted(m, r)

LEMMA CloseAlone == EndsIn("indented", <<>>)
<1>. DEFINE e == <<>>
            c == Close
<1>1. c \in Str /\ c # <<>> /\ Terminator("indented") = c /\ Len(c) = 2 /\ c[1] = Apostrophe /\ c[2] = Apostrophe
  <2>1. Close # <<>>
    BY DEF Close
  <2>. QED BY <2>1, CloseIs
<1>. HIDE DEF c
<1>2. ScanStep("indented", c) = 2
  <2>1. c \in Seq(Char)
    BY <1>1 DEF Str
  <2>2. TwoAre(c, Apostrophe, Apostrophe) /\ ~(Len(c) >= 3)
    BY <1>1 DEF TwoAre
  <2>3. IndentedStep(c) = 2
    BY <2>1, <2>2, IndentedSteps DEF ThreeAre
  <2>. QED BY <2>3 DEF ScanStep
<1>3. Taken(c, 2) = c /\ WithoutPrefix(c, 2) = e
  <2>1. c \in Seq(Char) /\ e \in Seq(Char) /\ c \o e = c
    BY <1>1 DEF Str
  <2>. HIDE DEF e
  <2>2. WithoutPrefix(c \o e, Len(c)) = e /\ Taken(c \o e, Len(c)) = c
    BY <2>1, RestOfJoin
  <2>. QED BY <1>1, <2>1, <2>2
<1>4. FirstToken("indented", c) = c /\ Behind("indented", c) = e
  BY <1>2, <1>3 DEF FirstToken, Behind
<1>5. Tokens("indented", c) = <<c>> \o Tokens("indented", e)
  BY <1>1, <1>4, TokensUnfold
<1>6. Tokens("indented", e) = e
  BY TokensEmpty
<1>7. Tokens("indented", c) = <<c>>
  BY <1>5, <1>6
<1>8. e \o c = c
  BY <1>1 DEF Str
<1>9. EndsWell(<<c>>, c)
  BY <1>1, EndsAlone
<1>. QED BY <1>1, <1>7, <1>8, <1>9 DEF EndsIn

LEMMA MovedLegal ==
    ASSUME NEW s \in Str, NEW r \in Str, Moved(s, r)
    PROVE  /\ Clean("indented", s) => Clean("indented", r)
           /\ EndsIn("indented", s) => EndsIn("indented", r)
<1>1. CASE r = <<>>
  BY <1>1, CleanEmpty, CloseAlone
<1>2. CASE \E m \in Nat : r = Shifted(m, s) \/ s = Shifted(m, r)
  BY <1>2, SpacesInFront
<1>. QED BY <1>1, <1>2 DEF Moved

LEMMA MovedLines ==
    ASSUME NEW A \in Seq(Str), A # <<>>, Legal("indented", A), NEW B \in Seq(Str), B # <<>>,
           \A i \in 1..Len(B) : \E j \in 1..Len(A) : Moved(A[j], B[i]),
           Moved(A[Len(A)], B[Len(B)])
    PROVE  Legal("indented", B)
<1>1. /\ Len(A) \in 1..Len(A) /\ Len(B) \in 1..Len(B) /\ DOMAIN A = 1..Len(A) /\ DOMAIN B = 1..Len(B)
      /\ (\A i \in 1..Len(A) : A[i] \in Str) /\ (\A i \in 1..Len(B) : B[i] \in Str)
      /\ Last(A) = A[Len(A)] /\ Last(B) = B[Len(B)]
  BY DEF Last
<1>2. (\A i \in 1..Len(A) : Clean("indented", A[i])) /\ EndsIn("indented", A[Len(A)])
  BY <1>1, LegalIs
<1>3. ASSUME NEW i \in 1..Len(B) PROVE Clean("indented", B[i])
  BY <1>1, <1>2, MovedLegal
<1>4. EndsIn("indented", B[Len(B)])
  BY <1>1, <1>2, MovedLegal
<1>. QED BY <1>1, <1>3, <1>4, LegalIs

LEMMA LegalStripped ==
    ASSUME NEW lines \in Seq(Str), lines # <<>>, Legal("indented", lines)
    PROVE  Legal("indented", NixLines(lines))
<1>. DEFINE kept == KeptLines(lines)
            N == NixLines(lines)
            n == Len(kept)
<1>1. kept \in Seq(Str) /\ kept # <<>> /\ n \in Nat /\ n >= 1 /\ \A i \in 1..n : kept[i] \in Str
  BY KeptTyped
<1>2. StripsTo(kept, N)
  BY NixStrips
<1>3. N \in Seq(Str) /\ Len(N) = n
  BY <1>2 DEF StripsTo
<1>4. (\A i \in 1..n : \E j \in 1..Len(lines) : kept[i] = lines[j]) /\ kept[n] = lines[Len(lines)]
  <2>0. Len(lines) \in Nat /\ Len(lines) >= 1
    OBVIOUS
  <2>1. CASE Len(lines) > 1 /\ IsOnlySpaces(lines[1])
    <3>1. kept = Tail(lines)
      BY <2>1 DEF KeptLines
    <3>2. n = Len(lines) - 1 /\ \A i \in 1..n : kept[i] = lines[i + 1] /\ i + 1 \in 1..Len(lines)
      BY <2>1, <3>1
    <3>. HIDE DEF kept, n
    <3>3. n \in 1..n /\ n + 1 = Len(lines)
      BY <1>1, <2>0, <3>2
    <3>. QED BY <3>2, <3>3
  <2>2. CASE ~(Len(lines) > 1 /\ IsOnlySpaces(lines[1]))
    BY <2>2 DEF KeptLines
  <2>. QED BY <2>1, <2>2
<1>. HIDE DEF kept, N, n
<1>5. ASSUME NEW i \in 1..n PROVE Moved(kept[i], N[i])
  <2>. DEFINE s == kept[i]
  <2>0. s \in Str
    BY <1>1
  <2>1. CASE N[i] = <<>>
    BY <2>1 DEF Moved
  <2>2. CASE N[i] # <<>>
    <3>1. PICK c : Common(kept, c) /\ N[i] = StrippedBy(kept, c, i)
      BY <1>2, <2>2 DEF StripsTo, n
    <3>2. c \in Nat /\ N[i] = WithoutPrefix(s, Shorter(c, LeadingSpaces(s)))
      BY <2>2, <3>1 DEF StrippedBy, Common
    <3>. HIDE DEF s
    <3>. DEFINE m == Shorter(c, LeadingSpaces(s))
                r == WithoutPrefix(s, m)
    <3>3. m \in Nat /\ s = Shifted(m, r)
      BY <2>0, <3>2, StrippedLine
    <3>4. N[i] = r
      BY <3>2
    <3>. HIDE DEF m, r
    <3>. QED BY <3>3, <3>4 DEF Moved, s
  <2>. QED BY <2>1, <2>2
<1>6. \A i \in 1..Len(N) : \E j \in 1..Len(lines) : Moved(lines[j], N[i])
  BY <1>3, <1>4, <1>5
<1>7. Moved(lines[Len(lines)], N[Len(N)])
  <2>1. n \in 1..n
    BY <1>1
  <2>. QED BY <2>1, <1>3, <1>4, <1>5
<1>8. N # <<>>
  BY <1>1, <1>3
<1>9. Legal("indented", N)
  BY <1>3, <1>6, <1>7, <1>8, MovedLines
<1>. QED BY <1>9 DEF N

LEMMA LegalPrinted ==
    ASSUME NEW N \in Seq(Str), N # <<>>, Legal("indented", N)
    PROVE  Legal("indented", PrintedLines(N))
<1>. DEFINE n == Len(N)
            e == <<>>
            M == NestedLines(N)
            B == <<e>> \o M
<1>1. CASE n = 1
  BY <1>1 DEF PrintedLines
<1>2. CASE n # 1
  <2>1. M \in Seq(Str) /\ Len(M) = n /\ n \in Nat /\ \A i \in 1..n : M[i] = PrintedLine(N, i) /\ N[i] \in Str
    BY NestedProps
  <2>2. e \in Str /\ n >= 1
    BY EmptyString
  <2>. HIDE DEF e, M
  <2>3. B \in Seq(Str) /\ B # <<>> /\ B[1] = e /\ Len(B) = n + 1 /\ \A i \in 1..n : B[i + 1] = M[i]
    BY <2>1, <2>2, ConsProps
  <2>4. PrintedLines(N) = B
    BY <1>2 DEF PrintedLines, M, e
  <2>. HIDE DEF B
  <2>5. Outer \in Nat /\ Outer + Width \in Nat
    BY StringAssumption
  <2>6. ASSUME NEW i \in 1..n PROVE Moved(N[i], M[i])
    <3>1. M[i] = PrintedLine(N, i)
      BY <2>1
    <3>2. CASE N[i] # <<>>
      BY <2>5, <3>1, <3>2 DEF PrintedLine, Moved
    <3>3. CASE N[i] = <<>> /\ i = n
      <4>1. Shifted(Outer, e) = Spaces(Outer)
        BY <2>5, SpacesTyped DEF Shifted, Str, e
      <4>. QED BY <2>5, <3>1, <3>3, <4>1 DEF PrintedLine, Moved, e
    <3>4. CASE N[i] = <<>> /\ i # n
      BY <3>1, <3>4 DEF PrintedLine, Moved
    <3>. QED BY <3>2, <3>3, <3>4
  <2>7. ASSUME NEW i \in 1..Len(B) PROVE \E j \in 1..n : Moved(N[j], B[i])
    <3>1. CASE i = 1
      <4>1. Moved(N[1], B[i])
        BY <2>3, <3>1 DEF Moved, e
      <4>2. 1 \in 1..n
        BY <2>1, <2>2
      <4>. QED BY <4>1, <4>2
    <3>2. CASE i # 1
      <4>1. i - 1 \in 1..n /\ (i - 1) + 1 = i
        <5>1. i \in 1..(n + 1) /\ n \in Nat
          BY <2>1, <2>3
        <5>. HIDE DEF n
        <5>. QED BY ONLY <5>1, <3>2
      <4>2. B[(i - 1) + 1] = M[i - 1]
        BY <2>3, <4>1
      <4>. QED BY <2>6, <4>1, <4>2
    <3>. QED BY <3>1, <3>2
  <2>8. Moved(N[n], B[Len(B)])
    <3>1. n \in 1..n
      BY <2>1, <2>2
    <3>. QED BY <2>3, <2>6, <3>1
  <2>9. Legal("indented", B)
    BY <2>3, <2>7, <2>8, MovedLines
  <2>. QED BY <2>4, <2>9
<1>. QED BY <1>1, <1>2

-----------------------------------------------------------------------------
(* The value, line by line.                                                *)

SaidLines(kind, lines) == [i \in 1..Len(lines) |-> Said(kind, lines[i])]

LEMMA SaidIs ==
    ASSUME NEW kind, NEW s \in Str
    PROVE  FlattenSeq([k \in DOMAIN Tokens(kind, s) |-> Meaning(kind, Tokens(kind, s)[k])]) = Said(kind, s)
<1>. DEFINE toks == Tokens(kind, s)
<1>1. toks \in Seq(Token)
  BY TokensNonempty
<1>2. \A k \in DOMAIN toks : toks[k] \in Token
  BY <1>1
<1>3. [k \in DOMAIN toks |-> MeaningOf(kind)[toks[k]]] = [k \in DOMAIN toks |-> Meaning(kind, toks[k])]
  BY <1>2 DEF MeaningOf
<1>. QED BY <1>3 DEF Said, Mapped

LEMMA ValueIs ==
    ASSUME NEW kind, NEW lines \in Seq(Str), lines # <<>>
    PROVE  Value(Term(kind, lines)) = SaidLines(kind, IF kind = "simple" THEN lines ELSE NixLines(lines))
<1>. DEFINE L == IF kind = "simple" THEN lines ELSE NixLines(lines)
            M(line) == FlattenSeq([k \in DOMAIN Tokens(kind, line) |-> Meaning(kind, Tokens(kind, line)[k])])
<1>1. L \in Seq(Str)
  BY ProcessIs
<1>2. Value(Term(kind, lines)) = [i \in DOMAIN L |-> M(L[i])]
  BY DEF Value, Term
<1>. HIDE DEF L
<1>3. DOMAIN L = 1..Len(L) /\ \A i \in 1..Len(L) : L[i] \in Str
  BY <1>1
<1>4. \A i \in DOMAIN L : M(L[i]) = Said(kind, L[i])
  BY <1>3, SaidIs
<1>5. [i \in DOMAIN L |-> M(L[i])] = SaidLines(kind, L)
  <2>. HIDE DEF M
  <2>. QED BY <1>3, <1>4 DEF SaidLines
<1>. QED BY <1>2, <1>5 DEF L


-----------------------------------------------------------------------------
(* The escapes that are converted.                                         *)

ConvStep(u)  == IF ThreeAre(u, Apostrophe, Apostrophe, Dollar) \/ ThreeAre(u, Apostrophe, Apostrophe, Apostrophe)
                THEN 3 ELSE 1
ConvPiece(u) == IF ThreeAre(u, Apostrophe, Apostrophe, Dollar) THEN <<Backslash, Dollar>>
                ELSE IF ThreeAre(u, Apostrophe, Apostrophe, Apostrophe) THEN Close ELSE <<u[1]>>

ConvertStep  == [u \in Str |-> ConvStep(u)]
ConvertPiece == [u \in Str |-> IF u = <<>> THEN <<>> ELSE ConvPiece(u)]

LEMMA ConvProps ==
    ASSUME NEW u \in Str, u # <<>>
    PROVE  ConvStep(u) \in 1..Len(u) /\ ConvPiece(u) \in Str
<1>1. u \in Seq(Char) /\ Len(u) \in Nat /\ Len(u) >= 1 /\ u[1] \in Char
  BY DEF Str
<1>2. ConvStep(u) \in 1..Len(u)
  BY <1>1 DEF ConvStep, ThreeAre
<1>3. <<Backslash, Dollar>> \in Str /\ Close \in Str /\ <<u[1]>> \in Str
  BY <1>1, Characters DEF Close, Str
<1>. QED BY <1>2, <1>3 DEF ConvPiece

LEMMA ConvertScan == Stepping(ConvertStep, Char) /\ ConvertPiece \in [Seq(Char) -> Seq(Char)]
<1>1. \A u \in Str : ConvStep(u) \in Nat
  BY DEF ConvStep
<1>2. Stepping(ConvertStep, Char)
  BY <1>1, ConvProps DEF Stepping, ConvertStep, Str
<1>3. \A u \in Str : (IF u = <<>> THEN <<>> ELSE ConvPiece(u)) \in Str
  BY ConvProps, EmptyString
<1>. QED BY <1>2, <1>3 DEF ConvertPiece, Str

LEMMA ConvertScanned ==
    ASSUME NEW s \in Str
    PROVE  \E f : Scanned(f, s, ConvertStep, ConvertPiece) /\ ConvertEscapes(s) = f[1]
<1>. DEFINE Body(f, i) ==
                IF i > Len(s) THEN <<>>
                ELSE LET rest == WithoutPrefix(s, i - 1) IN
                     IF IsPrefix(<<Apostrophe, Apostrophe, Dollar>>, rest) THEN <<Backslash, Dollar>> \o f[i + 3]
                     ELSE IF IsPrefix(<<Apostrophe, Apostrophe, Apostrophe>>, rest) THEN Close \o f[i + 3]
                     ELSE <<rest[1]>> \o f[i + 1]
            Rec(f) == f = [i \in 1..(Len(s) + 1) |-> Body(f, i)]
            step  == ConvertStep
            piece == ConvertPiece
<1>1. ASSUME NEW i \in 1..Len(s), NEW f
      PROVE  Body(f, i) = LET rest == WithoutPrefix(s, i - 1) IN piece[rest] \o f[i + step[rest]]
  <2>. DEFINE r == WithoutPrefix(s, i - 1)
  <2>1. r \in Str /\ r # <<>>
    <3>1. i - 1 \in 0..Len(s) /\ Len(s) - (i - 1) >= 1
      BY DEF Str
    <3>2. r \in Str /\ Len(r) = Len(s) - (i - 1)
      BY <3>1, Rests DEF Str
    <3>. QED BY <3>1, <3>2
  <2>2. ~(i > Len(s))
    BY DEF Str
  <2>. HIDE DEF r
  <2>3. step[r] = ConvStep(r) /\ piece[r] = ConvPiece(r)
    BY <2>1 DEF ConvertStep, ConvertPiece
  <2>4. r \in Seq(Char)
    BY <2>1 DEF Str
  <2>5. /\ IsPrefix(<<Apostrophe, Apostrophe, Dollar>>, r) <=> ThreeAre(r, Apostrophe, Apostrophe, Dollar)
        /\ IsPrefix(<<Apostrophe, Apostrophe, Apostrophe>>, r) <=> ThreeAre(r, Apostrophe, Apostrophe, Apostrophe)
    BY <2>4, PrefixThree DEF ThreeAre
  <2>6. Body(f, i) = IF ThreeAre(r, Apostrophe, Apostrophe, Dollar) THEN <<Backslash, Dollar>> \o f[i + 3]
                     ELSE IF ThreeAre(r, Apostrophe, Apostrophe, Apostrophe) THEN Close \o f[i + 3]
                     ELSE <<r[1]>> \o f[i + 1]
    BY <2>2, <2>5 DEF r
  <2>. HIDE DEF Body
  <2>7. Body(f, i) = ConvPiece(r) \o f[i + ConvStep(r)]
    BY <2>6 DEF ConvPiece, ConvStep
  <2>. QED BY <2>3, <2>7 DEF r
<1>2. Stepping(step, Char) /\ piece \in [Seq(Char) -> Seq(Char)]
  BY ConvertScan
<1>3. Len(s) \in Nat /\ \A i \in 1..(Len(s) + 1) : ~(i > Len(s)) => i \in 1..Len(s)
  BY DEF Str
<1>3a. \A f : \A i \in 1..(Len(s) + 1) : i > Len(s) => Body(f, i) = <<>>
  OBVIOUS
<1>. HIDE DEF step, piece
<1>4. \E f : f \in [1..(Len(s) + 1) -> Seq(Char)] /\ Scanned(f, s, step, piece)
  BY <1>2, ScanExists DEF Str
<1>5. PICK f : f \in [1..(Len(s) + 1) -> Seq(Char)] /\ Scanned(f, s, step, piece)
  BY <1>4
<1>6. ASSUME NEW i \in 1..(Len(s) + 1) PROVE f[i] = Body(f, i)
  <2>. HIDE DEF Body
  <2>. QED BY <1>1, <1>3, <1>3a, <1>5 DEF Scanned
<1>7. Rec(f)
  <2>. HIDE DEF Body
  <2>. QED BY <1>5, <1>6
<1>. DEFINE g == CHOOSE h : Rec(h)
<1>8. Rec(g)
  <2>. HIDE DEF Rec
  <2>. QED BY <1>7
<1>9. ConvertEscapes(s) = g[1]
  BY DEF ConvertEscapes
<1>. HIDE DEF g, Body
<1>10. \A i \in 1..(Len(s) + 1) : g[i] = Body(g, i)
  BY <1>8
<1>11. Scanned(g, s, step, piece)
  <2>. HIDE DEF Rec
  <2>. QED BY <1>1, <1>3, <1>3a, <1>10 DEF Scanned
<1>. QED BY <1>9, <1>11 DEF step, piece

LEMMA ConvertEmpty == ConvertEscapes(<<>>) = <<>>
<1>1. \E f : Scanned(f, <<>>, ConvertStep, ConvertPiece) /\ ConvertEscapes(<<>>) = f[1]
  BY EmptyString, ConvertScanned
<1>. QED BY <1>1, ScanEmpty

LEMMA ConvertUnfold ==
    ASSUME NEW s \in Str, s # <<>>
    PROVE  /\ ConvertEscapes(WithoutPrefix(s, ConvStep(s))) \in Str
           /\ ConvertEscapes(s) = ConvPiece(s) \o ConvertEscapes(WithoutPrefix(s, ConvStep(s)))
<1>. DEFINE u == WithoutPrefix(s, ConvStep(s))
            step  == ConvertStep
            piece == ConvertPiece
<1>1. Stepping(step, Char) /\ piece \in [Seq(Char) -> Seq(Char)]
  BY ConvertScan
<1>2. step[s] = ConvStep(s) /\ piece[s] = ConvPiece(s)
  BY DEF ConvertStep, ConvertPiece
<1>3. u \in Str
  <2>1. ConvStep(s) \in 0..Len(s)
    BY ConvProps DEF Str
  <2>. QED BY <2>1, Rests DEF Str
<1>. HIDE DEF step, piece, u
<1>4. PICK f : Scanned(f, s, step, piece) /\ ConvertEscapes(s) = f[1]
  BY ConvertScanned DEF step, piece
<1>5. PICK g : Scanned(g, u, step, piece) /\ ConvertEscapes(u) = g[1]
  BY <1>3, ConvertScanned DEF step, piece
<1>6. Scanned(g, WithoutPrefix(s, step[s]), step, piece)
  BY <1>2, <1>5 DEF u
<1>7. g[1] \in Seq(Char) /\ f[1] = piece[s] \o g[1]
  <2>1. s \in Seq(Char)
    BY DEF Str
  <2>2. Unfolds(f, g, s, piece, Char)
    BY ONLY <2>1, s # <<>>, <1>1, <1>4, <1>6, ScanUnfold
  <2>. QED BY <2>2 DEF Unfolds
<1>. QED BY <1>2, <1>4, <1>5, <1>7 DEF u, Str

LEMMA ConvertTyped == ASSUME NEW s \in Str PROVE ConvertEscapes(s) \in Str
<1>1. CASE s = <<>>
  BY <1>1, ConvertEmpty, EmptyString
<1>2. CASE s # <<>>
  <2>. DEFINE p == ConvPiece(s)
              c == ConvertEscapes(WithoutPrefix(s, ConvStep(s)))
  <2>1. p \in Str /\ c \in Str /\ ConvertEscapes(s) = p \o c
    BY <1>2, ConvertUnfold, ConvProps
  <2>. HIDE DEF p, c
  <2>. QED BY <2>1, StrJoin
<1>. QED BY <1>1, <1>2


-----------------------------------------------------------------------------
(* The tokens of a line with neither double quotes nor backslashes, and    *)
(* what they are converted to.                                             *)

Plain(s) == \A i \in 1..Len(s) : s[i] # DoubleQuote /\ s[i] # Backslash

ApostropheDollar == <<Apostrophe, Apostrophe, Dollar>>
ThreeApostrophes == <<Apostrophe, Apostrophe, Apostrophe>>
TwoDollars       == <<Dollar, Dollar>>
EscapedDollar    == <<Backslash, Dollar>>

(* A character in front of v is a token. *)
Alone(c, v) == /\ c # DoubleQuote /\ c # Backslash
               /\ c = Apostrophe => v = <<>> \/ v[1] # Apostrophe
               /\ c = Dollar => v = <<>> \/ (v[1] # Dollar /\ v[1] # Braces)

TokenCase(t, v) == \/ t = ApostropheDollar \/ t = ThreeApostrophes \/ t = Interpolation \/ t = TwoDollars
                   \/ \E c \in Char : t = <<c>> /\ Alone(c, v)

LEMMA ThreeTaken ==
    ASSUME NEW s \in Str, NEW a \in Char, NEW b \in Char, NEW c \in Char, ThreeAre(s, a, b, c)
    PROVE  Taken(s, 3) = <<a, b, c>>
<1>. DEFINE t == Taken(s, 3)
            u == <<a, b, c>>
<1>1. Len(s) >= 3 /\ s[1] = a /\ s[2] = b /\ s[3] = c /\ s \in Seq(Char) /\ 3 \in 0..Len(s)
  BY DEF ThreeAre, Str
<1>2. t \in Seq(Char) /\ Len(t) = 3 /\ \A i \in 1..3 : t[i] = s[i]
  BY <1>1, Rests
<1>3. u \in Seq(Char) /\ Len(u) = 3 /\ u[1] = a /\ u[2] = b /\ u[3] = c
  OBVIOUS
<1>. HIDE DEF t, u
<1>4. \A i \in 1..Len(t) : t[i] = u[i]
  BY <1>1, <1>2, <1>3
<1>5. t = u
  BY <1>2, <1>3, <1>4, SameSeq
<1>. QED BY <1>5 DEF t, u

LEMMA TwoTaken ==
    ASSUME NEW s \in Str, NEW a \in Char, NEW b \in Char, TwoAre(s, a, b)
    PROVE  Taken(s, 2) = <<a, b>>
<1>. DEFINE t == Taken(s, 2)
            u == <<a, b>>
<1>1. Len(s) >= 2 /\ s[1] = a /\ s[2] = b /\ s \in Seq(Char) /\ 2 \in 0..Len(s)
  BY DEF TwoAre, Str
<1>2. t \in Seq(Char) /\ Len(t) = 2 /\ \A i \in 1..2 : t[i] = s[i]
  BY <1>1, Rests
<1>3. u \in Seq(Char) /\ Len(u) = 2 /\ u[1] = a /\ u[2] = b
  OBVIOUS
<1>. HIDE DEF t, u
<1>4. \A i \in 1..Len(t) : t[i] = u[i]
  BY <1>1, <1>2, <1>3
<1>5. t = u
  BY <1>2, <1>3, <1>4, SameSeq
<1>. QED BY <1>5 DEF t, u

LEMMA OneTaken ==
    ASSUME NEW s \in Str, s # <<>>
    PROVE  /\ Taken(s, 1) = <<s[1]>> /\ s[1] \in Char /\ WithoutPrefix(s, 1) \in Str
           /\ Len(WithoutPrefix(s, 1)) = Len(s) - 1 /\ Len(s) \in Nat /\ Len(s) >= 1
           /\ Len(s) >= 2 => WithoutPrefix(s, 1)[1] = s[2]
<1>. DEFINE t == Taken(s, 1)
            v == WithoutPrefix(s, 1)
<1>1. s \in Seq(Char) /\ Len(s) \in Nat /\ Len(s) >= 1 /\ s[1] \in Char /\ 1 \in 0..Len(s)
  BY DEF Str
<1>2. /\ t \in Seq(Char) /\ Len(t) = 1 /\ (\A i \in 1..1 : t[i] = s[i])
      /\ v \in Seq(Char) /\ Len(v) = Len(s) - 1 /\ \A i \in 1..(Len(s) - 1) : v[i] = s[1 + i]
  BY <1>1, Rests
<1>. HIDE DEF t, v
<1>3. t = <<t[1]>> /\ t[1] = s[1]
  BY <1>2, SingleIs
<1>4. ASSUME Len(s) >= 2 PROVE v[1] = s[2]
  <2>1. 1 \in 1..(Len(s) - 1)
    BY <1>1, <1>4
  <2>. QED BY <1>2, <2>1
<1>. QED BY <1>1, <1>2, <1>3, <1>4 DEF t, v, Str

LEMMA TokenCases ==
    ASSUME NEW s \in Str, s # <<>>, Plain(s), FirstToken("indented", s) # Close
    PROVE  TokenCase(FirstToken("indented", s), Behind("indented", s))
<1>. DEFINE n == IndentedStep(s)
            t == FirstToken("indented", s)
            v == Behind("indented", s)
<1>1. t = Taken(s, n) /\ v = WithoutPrefix(s, n)
  BY DEF FirstToken, Behind, ScanStep
<1>2. n = IF ThreeAre(s, Apostrophe, Apostrophe, Backslash) THEN Shorter(4, Len(s))
          ELSE IF ThreeAre(s, Apostrophe, Apostrophe, Dollar) \/ ThreeAre(s, Apostrophe, Apostrophe, Apostrophe) THEN 3
          ELSE IF TwoAre(s, Apostrophe, Apostrophe) \/ TwoAre(s, Dollar, Braces) \/ TwoAre(s, Dollar, Dollar) THEN 2
          ELSE 1
  <2>1. s \in Seq(Char)
    BY DEF Str
  <2>. HIDE DEF n
  <2>. QED BY <2>1, IndentedSteps DEF n
<1>3. ~ThreeAre(s, Apostrophe, Apostrophe, Backslash)
  <2>1. Len(s) \in Nat
    BY DEF Str
  <2>. QED BY <2>1 DEF ThreeAre, Plain
<1>4. t # Close
  OBVIOUS
<1>. SUFFICES TokenCase(t, v)
  OBVIOUS
<1>. HIDE DEF n, t, v
<1>5. CASE ThreeAre(s, Apostrophe, Apostrophe, Dollar)
  BY <1>1, <1>2, <1>3, <1>5, ThreeTaken, Characters DEF TokenCase, ApostropheDollar
<1>6. CASE ThreeAre(s, Apostrophe, Apostrophe, Apostrophe)
  BY <1>1, <1>2, <1>3, <1>6, ThreeTaken, Characters DEF TokenCase, ThreeApostrophes
<1>7. CASE ~ThreeAre(s, Apostrophe, Apostrophe, Dollar) /\ ~ThreeAre(s, Apostrophe, Apostrophe, Apostrophe)
  <2>1. CASE TwoAre(s, Apostrophe, Apostrophe)
    <3>1. t = Close
      BY <1>1, <1>2, <1>3, <1>7, <2>1, TwoTaken, Characters DEF Close
    <3>. QED BY <1>4, <3>1
  <2>2. CASE TwoAre(s, Dollar, Braces)
    BY <1>1, <1>2, <1>3, <1>7, <2>2, TwoTaken, Characters DEF TokenCase, Interpolation
  <2>3. CASE TwoAre(s, Dollar, Dollar)
    BY <1>1, <1>2, <1>3, <1>7, <2>3, TwoTaken, Characters DEF TokenCase, TwoDollars
  <2>4. CASE ~TwoAre(s, Apostrophe, Apostrophe) /\ ~TwoAre(s, Dollar, Braces) /\ ~TwoAre(s, Dollar, Dollar)
    <3>1. n = 1
      BY <1>2, <1>3, <1>7, <2>4
    <3>2. /\ t = <<s[1]>> /\ s[1] \in Char /\ v \in Str /\ Len(v) = Len(s) - 1 /\ Len(s) \in Nat /\ Len(s) >= 1
          /\ Len(s) >= 2 => v[1] = s[2]
      BY <1>1, <3>1, OneTaken
    <3>3. v = <<>> \/ (Len(s) >= 2 /\ v[1] = s[2])
      <4>1. v # <<>> => Len(v) >= 1
        BY <3>2 DEF Str
      <4>. QED BY <3>2, <4>1
    <3>4. s[1] # DoubleQuote /\ s[1] # Backslash
      BY <3>2 DEF Plain
    <3>5. Alone(s[1], v)
      BY <2>4, <3>3, <3>4 DEF Alone, TwoAre
    <3>. QED BY <3>2, <3>5 DEF TokenCase
  <2>. QED BY <2>1, <2>2, <2>3, <2>4
<1>. QED BY <1>5, <1>6, <1>7

LEMMA ConvertBehind ==
    ASSUME NEW p \in Str, p # <<>>, NEW x \in Str, ConvStep(p \o x) = Len(p)
    PROVE  ConvertEscapes(p \o x) = ConvPiece(p \o x) \o ConvertEscapes(x)
<1>. DEFINE s == p \o x
<1>1. s \in Str /\ s # <<>>
  BY StrJoin, JoinFull
<1>2. WithoutPrefix(s, Len(p)) = x
  BY RestOfJoin DEF Str
<1>3. ConvStep(s) = Len(p)
  OBVIOUS
<1>. HIDE DEF s
<1>4. ConvertEscapes(s) = ConvPiece(s) \o ConvertEscapes(WithoutPrefix(s, ConvStep(s)))
  BY <1>1, ConvertUnfold
<1>5. ConvertEscapes(s) = ConvPiece(s) \o ConvertEscapes(x)
  BY <1>2, <1>3, <1>4
<1>. QED BY <1>5 DEF s

LEMMA ConvertSingle ==
    ASSUME NEW c \in Char, NEW x \in Str, c = Apostrophe => x = <<>> \/ x[1] # Apostrophe
    PROVE  ConvertEscapes(<<c>> \o x) = <<c>> \o ConvertEscapes(x)
<1>. DEFINE p == <<c>>
            s == p \o x
<1>1. p \in Str /\ p # <<>> /\ Len(p) = 1
  BY DEF Str
<1>2. s[1] = c /\ Len(s) = Len(x) + 1 /\ (Len(x) >= 1 => s[2] = x[1])
  BY DEF Str
<1>3. Len(x) \in Nat /\ (x = <<>> => Len(x) = 0)
  BY DEF Str
<1>. HIDE DEF s
<1>4. ~ThreeAre(s, Apostrophe, Apostrophe, Dollar) /\ ~ThreeAre(s, Apostrophe, Apostrophe, Apostrophe)
  BY <1>2, <1>3 DEF ThreeAre
<1>5. ConvStep(s) = 1 /\ ConvPiece(s) = p
  BY <1>2, <1>4 DEF ConvStep, ConvPiece
<1>. HIDE DEF p
<1>6. ConvertEscapes(p \o x) = ConvPiece(p \o x) \o ConvertEscapes(x)
  <2>1. ConvStep(p \o x) = Len(p)
    BY <1>1, <1>5 DEF s
  <2>. QED BY <1>1, <2>1, ConvertBehind
<1>. QED BY <1>5, <1>6 DEF s, p

ConvTok(t) == IF t = ApostropheDollar THEN EscapedDollar ELSE IF t = ThreeApostrophes THEN Close ELSE t

LEMMA JoinFirst ==
    ASSUME NEW a \in Char, NEW b \in Char, NEW c \in Char, NEW x \in Str
    PROVE  /\ Len(<<a, b, c>> \o x) = Len(x) + 3 /\ Len(x) \in Nat /\ (<<a, b, c>> \o x)[1] = a
           /\ (<<a, b, c>> \o x)[2] = b /\ (<<a, b, c>> \o x)[3] = c
           /\ <<a, b, c>> \in Str /\ <<a, b, c>> # <<>> /\ Len(<<a, b, c>>) = 3
  BY DEF Str

LEMMA ConvertToken ==
    ASSUME NEW t, NEW v, TokenCase(t, v), t # Interpolation, NEW x \in Str, x # <<>> => v # <<>> /\ x[1] = v[1]
    PROVE  ConvertEscapes(t \o x) = ConvTok(t) \o ConvertEscapes(x)
<1>1. CASE t = ApostropheDollar
  <2>1. /\ Len(t \o x) = Len(x) + 3 /\ Len(x) \in Nat /\ (t \o x)[1] = Apostrophe /\ (t \o x)[2] = Apostrophe
        /\ (t \o x)[3] = Dollar /\ t \in Str /\ t # <<>> /\ Len(t) = 3
    BY <1>1, JoinFirst, Characters DEF ApostropheDollar
  <2>2. ThreeAre(t \o x, Apostrophe, Apostrophe, Dollar)
    BY <2>1 DEF ThreeAre
  <2>3. ConvStep(t \o x) = Len(t) /\ ConvPiece(t \o x) = EscapedDollar
    BY <2>1, <2>2 DEF ConvStep, ConvPiece, EscapedDollar
  <2>4. ConvertEscapes(t \o x) = ConvPiece(t \o x) \o ConvertEscapes(x)
    BY <2>1, <2>3, ConvertBehind
  <2>. QED BY <1>1, <2>3, <2>4 DEF ConvTok
<1>2. CASE t = ThreeApostrophes
  <2>1. /\ Len(t \o x) = Len(x) + 3 /\ Len(x) \in Nat /\ (t \o x)[1] = Apostrophe /\ (t \o x)[2] = Apostrophe
        /\ (t \o x)[3] = Apostrophe /\ t \in Str /\ t # <<>> /\ Len(t) = 3 /\ t[3] = Apostrophe
    BY <1>2, JoinFirst, Characters DEF ThreeApostrophes
  <2>2. ThreeAre(t \o x, Apostrophe, Apostrophe, Apostrophe) /\ ~ThreeAre(t \o x, Apostrophe, Apostrophe, Dollar)
    BY <2>1, Characters DEF ThreeAre
  <2>3. ConvStep(t \o x) = Len(t) /\ ConvPiece(t \o x) = Close
    BY <2>1, <2>2 DEF ConvStep, ConvPiece
  <2>4. ConvertEscapes(t \o x) = ConvPiece(t \o x) \o ConvertEscapes(x)
    BY <2>1, <2>3, ConvertBehind
  <2>5. t # ApostropheDollar
    BY <2>1, Characters DEF ApostropheDollar
  <2>. QED BY <1>2, <2>3, <2>4, <2>5 DEF ConvTok
<1>3. CASE t = TwoDollars
  <2>. DEFINE d == <<Dollar>>
              y == d \o x
              z == ConvertEscapes(x)
  <2>1. d \in Str /\ t = d \o d /\ y \in Str /\ z \in Str
    BY <1>3, ConvertTyped, Characters DEF TwoDollars, Str
  <2>2. ConvertEscapes(y) = d \o z /\ ConvertEscapes(d \o y) = d \o ConvertEscapes(y)
    BY <2>1, ConvertSingle, Characters
  <2>. HIDE DEF d, z
  <2>3. t \o x = d \o y /\ t \o z = d \o (d \o z)
    <3>1. d \in Seq(Char) /\ x \in Seq(Char) /\ z \in Seq(Char)
      BY <2>1 DEF Str
    <3>2. (d \o d) \o x = d \o (d \o x) /\ (d \o d) \o z = d \o (d \o z)
      BY <3>1
    <3>. QED BY <2>1, <3>2
  <2>4. t # ApostropheDollar /\ t # ThreeApostrophes
    <3>1. Len(TwoDollars) = 2 /\ Len(ApostropheDollar) = 3 /\ Len(ThreeApostrophes) = 3
      BY DEF TwoDollars, ApostropheDollar, ThreeApostrophes
    <3>. QED BY <1>3, <3>1
  <2>5. ConvertEscapes(t \o x) = t \o z
    <3>. HIDE DEF y
    <3>. QED BY <2>2, <2>3
  <2>. QED BY <2>4, <2>5 DEF ConvTok, z
<1>4. CASE \E c \in Char : t = <<c>> /\ Alone(c, v)
  <2>1. PICK c \in Char : t = <<c>> /\ Alone(c, v)
    BY <1>4
  <2>2. c = Apostrophe => x = <<>> \/ x[1] # Apostrophe
    BY <2>1 DEF Alone
  <2>3. ConvertEscapes(t \o x) = t \o ConvertEscapes(x)
    BY <2>1, <2>2, ConvertSingle
  <2>4. t # ApostropheDollar /\ t # ThreeApostrophes
    <3>1. Len(t) = 1 /\ Len(ApostropheDollar) = 3 /\ Len(ThreeApostrophes) = 3
      BY <2>1 DEF ApostropheDollar, ThreeApostrophes
    <3>. QED BY <3>1
  <2>. QED BY <2>3, <2>4 DEF ConvTok
<1>. QED BY <1>1, <1>2, <1>3, <1>4 DEF TokenCase


(* The characters of converted parts. *)
ConvertedParts(parts) == [k \in DOMAIN parts |-> Converted(parts[k])]
ConvertedText == [p \in PartSet |-> Converted(p).text]
Shown(s) == Chars(ConvertedParts(Parts("indented", s)))

LEMMA ConvertedIs ==
    /\ \A p \in PartSet : Converted(p) \in PartSet /\ Converted(p).text \in Str
    /\ \A t \in Str : Converted(TextPart(t)).text = ConvertEscapes(t)
    /\ \A p \in PartSet : p.interp => Converted(p).text = p.text
<1>1. ASSUME NEW p \in PartSet PROVE Converted(p) \in PartSet /\ Converted(p).text \in Str
  <2>1. CASE p.interp
    BY <2>1, PartTyped DEF Converted
  <2>2. CASE ~p.interp
    <3>1. ConvertEscapes(p.text) \in Str
      BY PartTyped, ConvertTyped
    <3>. QED BY <2>2, <3>1, PartTyped DEF Converted
  <2>. QED BY <2>1, <2>2
<1>2. ASSUME NEW t \in Str PROVE Converted(TextPart(t)).text = ConvertEscapes(t)
  BY PartTyped, ConvertTyped DEF Converted
<1>3. \A p \in PartSet : p.interp => Converted(p).text = p.text
  BY DEF Converted
<1>. QED BY <1>1, <1>2, <1>3

LEMMA ConvertedMapped ==
    ASSUME NEW parts \in Seq(PartSet)
    PROVE  /\ Chars(ConvertedParts(parts)) = Mapped(ConvertedText, parts)
           /\ MapsInto(ConvertedText, PartSet, Char) /\ ConvertedParts(parts) \in Seq(PartSet)
<1>1. \A k \in DOMAIN parts : parts[k] \in PartSet
  OBVIOUS
<1>2. \A p \in PartSet : Converted(p) \in PartSet /\ Converted(p).text \in Str
  BY ConvertedIs
<1>. DEFINE Q == ConvertedParts(parts)
<1>3. DOMAIN Q = DOMAIN parts /\ \A k \in DOMAIN parts : Q[k] = Converted(parts[k])
  BY DEF ConvertedParts
<1>4. Q \in Seq(PartSet)
  <2>1. DOMAIN parts = 1..Len(parts) /\ Len(parts) \in Nat
    OBVIOUS
  <2>2. \A k \in 1..Len(parts) : Converted(parts[k]) \in PartSet
    BY <1>1, <1>2, <2>1
  <2>. QED BY <2>1, <2>2 DEF ConvertedParts
<1>5. \A k \in DOMAIN parts : Q[k].text = ConvertedText[parts[k]]
  BY <1>1, <1>3 DEF ConvertedText
<1>. HIDE DEF Q
<1>6. [k \in DOMAIN Q |-> Q[k].text] = [k \in DOMAIN parts |-> ConvertedText[parts[k]]]
  BY <1>3, <1>5
<1>7. Chars(Q) = Mapped(ConvertedText, parts)
  BY <1>6 DEF Chars, Mapped
<1>8. MapsInto(ConvertedText, PartSet, Char)
  BY <1>2 DEF MapsInto, ConvertedText, Str
<1>. QED BY <1>4, <1>7, <1>8 DEF Q

LEMMA ConvertedCons ==
    ASSUME NEW p \in PartSet, NEW rest \in Seq(PartSet)
    PROVE  /\ Chars(ConvertedParts(<<p>> \o rest)) = Converted(p).text \o Chars(ConvertedParts(rest))
           /\ Chars(ConvertedParts(rest)) \in Str /\ Converted(p).text \in Str
<1>. DEFINE all == <<p>> \o rest
            g == ConvertedText
<1>1. all \in Seq(PartSet)
  BY ConsProps
<1>2. MapsInto(g, PartSet, Char)
  BY ConvertedMapped
<1>3. Chars(ConvertedParts(all)) = Mapped(g, all) /\ Chars(ConvertedParts(rest)) = Mapped(g, rest)
  BY <1>1, ConvertedMapped
<1>4. g[p] = Converted(p).text
  BY DEF ConvertedText
<1>. HIDE DEF g
<1>5. MappedHead(g, p, rest) /\ g[p] \in Seq(Char) /\ Mapped(g, rest) \in Seq(Char)
  BY ONLY p \in PartSet, rest \in Seq(PartSet), <1>2, MappedCons
<1>6. Mapped(g, all) = g[p] \o Mapped(g, rest)
  BY <1>5 DEF MappedHead
<1>. QED BY <1>3, <1>4, <1>5, <1>6 DEF Str

LEMMA ShownEmpty == Shown(<<>>) = <<>>
<1>1. <<>> \in Seq(PartSet)
  BY EmptySeq
<1>2. Mapped(ConvertedText, <<>>) = <<>>
  BY MappedEmpty
<1>. QED BY <1>1, <1>2, PartsEmpty, ConvertedMapped DEF Shown

LEMMA ConvTokTyped == ASSUME NEW t \in Str PROVE ConvTok(t) \in Str
  BY Characters DEF ConvTok, EscapedDollar, Close, Str

LEMMA ShownUnfold ==
    ASSUME NEW s \in Str, s # <<>>, Plain(s), FirstToken("indented", s) # Close
    PROVE  /\ Shown(s) = ConvTok(FirstToken("indented", s)) \o Shown(Behind("indented", s))
           /\ Shown(Behind("indented", s)) \in Str /\ ConvTok(FirstToken("indented", s)) \in Str
<1>. DEFINE t == FirstToken("indented", s)
            v == Behind("indented", s)
            R == Parts("indented", v)
            W == Chars(ConvertedParts(R))
            c == ConvTok(t)
            e == <<>>
<1>1. t \in Str /\ t # <<>> /\ v \in Str
  BY TokensUnfold
<1>2. TokenCase(t, v)
  BY TokenCases
<1>3. Parts("indented", s) = Prepend(t, R)
  BY PartsUnfold
<1>4. R \in Seq(GoodPart) /\ (R = <<>> <=> v = <<>>)
  BY <1>1, PartsGood
<1>5. c \in Str
  BY <1>1, ConvTokTyped
<1>6. R # <<>> => R[1] \in GoodPart /\ R[1].text[1] = v[1]
  BY <1>1, <1>4, FirstCharacter
<1>7. R \in Seq(PartSet)
  BY <1>4, GoodIs
<1>8. W \in Str
  <2>. HIDE DEF R
  <2>1. MapsInto(ConvertedText, PartSet, Char) /\ W = Mapped(ConvertedText, R)
    BY <1>7, ConvertedMapped
  <2>2. Mapped(ConvertedText, R) \in Seq(Char)
    BY ONLY <1>7, <2>1, MappedType
  <2>. QED BY <2>1, <2>2 DEF Str
<1>9. Shown(s) = Chars(ConvertedParts(Prepend(t, R))) /\ Shown(v) = W
  BY <1>3 DEF Shown
<1>10. Interpolation # ApostropheDollar /\ Interpolation # ThreeApostrophes
  <2>1. Len(Interpolation) = 2 /\ Len(ApostropheDollar) = 3 /\ Len(ThreeApostrophes) = 3
    BY DEF Interpolation, ApostropheDollar, ThreeApostrophes
  <2>. QED BY <2>1
<1>. HIDE DEF t, v, R
<1>11. CASE t = Interpolation \/ R = <<>> \/ R[1].interp
  <2>1. Prepend(t, R) = <<Part(t)>> \o R
    BY <1>11 DEF Prepend
  <2>2. Part(t) \in PartSet
    BY <1>1, PartTyped
  <2>3. Converted(Part(t)).text = c
    <3>1. CASE t = Interpolation
      <4>1. Part(t).interp /\ Part(t).text = t
        BY <1>1, <3>1, PartTyped
      <4>2. c = t
        BY <1>10, <3>1 DEF ConvTok
      <4>. QED BY <2>2, <4>1, <4>2, ConvertedIs
    <3>2. CASE t # Interpolation
      <4>1. Converted(Part(t)).text = ConvertEscapes(t)
        BY <1>1, <3>2, PartTyped, ConvertedIs
      <4>2. e \in Str /\ t \o e = t /\ ConvertEscapes(e) = e /\ c \o e = c
        BY <1>1, <1>5, EmptyString, ConvertEmpty DEF Str
      <4>3. e = <<>>
        OBVIOUS
      <4>. HIDE DEF e, c
      <4>4. ConvertEscapes(t \o e) = ConvTok(t) \o ConvertEscapes(e)
        BY <1>2, <3>2, <4>2, <4>3, ConvertToken
      <4>. QED BY <4>1, <4>2, <4>4 DEF c
    <3>. QED BY <3>1, <3>2
  <2>4. Chars(ConvertedParts(<<Part(t)>> \o R)) = Converted(Part(t)).text \o W
    BY <1>7, <2>2, ConvertedCons
  <2>. QED BY <1>5, <1>8, <1>9, <2>1, <2>3, <2>4 DEF t, v
<1>12. CASE ~(t = Interpolation \/ R = <<>> \/ R[1].interp)
  <2>. DEFINE p == R[1]
              y == p.text
              rest == Tail(R)
              d == ConvertEscapes(y)
              Z == Chars(ConvertedParts(rest))
              q == TextPart(t \o y)
  <2>1. p \in PartSet /\ rest \in Seq(PartSet) /\ R = <<p>> \o rest
    BY <1>7, <1>12, HeadRest
  <2>2. y \in Str /\ p = TextPart(y) /\ ~p.interp
    BY <1>12, <2>1, PartTyped
  <2>3. v # <<>> /\ y[1] = v[1]
    BY <1>4, <1>6, <1>12
  <2>4. Prepend(t, R) = <<q>> \o rest
    BY <1>12 DEF Prepend
  <2>. HIDE DEF p, y, rest
  <2>5. t \o y \in Str
    BY <1>1, <2>2, StrJoin
  <2>6. q \in PartSet /\ Converted(q).text = ConvertEscapes(t \o y)
    BY <2>5, PartTyped, ConvertedIs
  <2>7. ConvertEscapes(t \o y) = c \o d
    BY <1>2, <1>12, <2>2, <2>3, ConvertToken
  <2>8. Converted(p).text = d
    BY <2>2, ConvertedIs
  <2>. HIDE DEF q
  <2>9. Chars(ConvertedParts(<<q>> \o rest)) = Converted(q).text \o Z
    BY <2>1, <2>6, ConvertedCons
  <2>10. W = Converted(p).text \o Z /\ Z \in Str
    <3>1. Chars(ConvertedParts(<<p>> \o rest)) = Converted(p).text \o Z /\ Z \in Str
      BY <2>1, ConvertedCons
    <3>. QED BY <2>1, <3>1
  <2>11. d \in Str
    BY <2>2, ConvertTyped
  <2>. HIDE DEF c, d, Z, W
  <2>12. (c \o d) \o Z = c \o (d \o Z)
    BY <1>5, <2>10, <2>11 DEF Str
  <2>13. Shown(s) = c \o W
    BY <1>9, <2>4, <2>6, <2>7, <2>8, <2>9, <2>10, <2>12
  <2>. QED BY <1>5, <1>8, <1>9, <2>13 DEF c, t, v
<1>. QED BY <1>11, <1>12

(* A line whose texts have neither double quotes nor backslashes has none. *)
LEMMA PlainJoin ==
    ASSUME NEW a \in Str, NEW b \in Str
    PROVE  Plain(a \o b) <=> Plain(a) /\ Plain(b)
<1>. DEFINE s == a \o b
            m == Len(a)
            n == Len(b)
<1>1. /\ Len(s) = m + n /\ m \in Nat /\ n \in Nat /\ (\A i \in 1..m : s[i] = a[i])
      /\ \A i \in 1..n : s[m + i] = b[i]
  BY DEF Str
<1>. HIDE DEF s
<1>2. ASSUME Plain(s) PROVE Plain(a) /\ Plain(b)
  <2>. HIDE DEF m, n
  <2>1. \A i \in 1..m : i \in 1..(m + n)
    BY <1>1
  <2>2. \A i \in 1..n : m + i \in 1..(m + n)
    BY <1>1
  <2>. QED BY <1>1, <1>2, <2>1, <2>2 DEF Plain, m, n
<1>3. ASSUME Plain(a), Plain(b) PROVE Plain(s)
  <2>1. ASSUME NEW i \in 1..(m + n) PROVE s[i] # DoubleQuote /\ s[i] # Backslash
    <3>1. CASE i \in 1..m
      BY <1>1, <1>3, <3>1 DEF Plain
    <3>2. CASE i \notin 1..m
      <4>1. i - m \in 1..n /\ m + (i - m) = i
        <5>. HIDE DEF m, n
        <5>. QED BY <1>1, <3>2
      <4>2. s[m + (i - m)] = b[i - m]
        BY <1>1, <4>1
      <4>. QED BY <1>3, <4>1, <4>2 DEF Plain
    <3>. QED BY <3>1, <3>2
  <2>. QED BY <1>1, <2>1 DEF Plain
<1>. QED BY <1>2, <1>3 DEF s

LEMMA PlainText ==
    ASSUME NEW s \in Str
    PROVE  ToSet(s) \cap {DoubleQuote, Backslash} = {} <=> Plain(s)
<1>1. ToSet(s) = {s[i] : i \in 1..Len(s)}
  BY DEF ToSet, Str
<1>. QED BY <1>1 DEF Plain

LEMMA PlainLine ==
    ASSUME NEW s \in Str, \A p \in ToSet(Parts("indented", s)) : ~HasQuoteOrBackslash(p)
    PROVE  Plain(s)
<1>. DEFINE Calm(P) == \A p \in ToSet(P) : ~HasQuoteOrBackslash(p)
            T == {u \in Str : Calm(Parts("indented", u)) => Plain(u)}
<1>1. ASSUME NEW u \in Seq(Char), \A x \in Seq(Char) : Len(x) < Len(u) => x \in T
      PROVE  u \in T
  <2>0. u \in Str
    BY DEF Str
  <2>1. CASE u = <<>>
    BY <2>0, <2>1 DEF Plain
  <2>2. CASE u # <<>>
    <3>. SUFFICES ASSUME Calm(Parts("indented", u)) PROVE Plain(u)
      BY <2>0
    <3>. DEFINE t == FirstToken("indented", u)
                v == Behind("indented", u)
                R == Parts("indented", v)
                P == Parts("indented", u)
    <3>1. t \in Str /\ v \in Str /\ Len(v) < Len(u) /\ u = t \o v
      BY <2>0, <2>2, TokensUnfold
    <3>2. P = Prepend(t, R) /\ R \in Seq(PartSet)
      BY <2>0, <2>2, PartsUnfold
    <3>3. Calm(P)
      OBVIOUS
    <3>4. v \in T
      BY <1>1, <3>1 DEF Str
    <3>. HIDE DEF t, v, P
    <3>5. Calm(R) => Plain(v)
      BY <3>4
    <3>. HIDE DEF R
    <3>6. Plain(t) /\ Calm(R)
      <4>1. CASE t = Interpolation \/ R = <<>> \/ R[1].interp
        <5>1. P = <<Part(t)>> \o R /\ Part(t) \in PartSet
          BY <3>1, <3>2, <4>1, PartTyped DEF Prepend
        <5>2. ToSet(P) = {Part(t)} \cup ToSet(R)
          BY <3>2, <5>1, ConsSet
        <5>3. ~HasQuoteOrBackslash(Part(t)) /\ Calm(R)
          BY <3>3, <5>2
        <5>4. CASE t = Interpolation
          BY <5>3, <5>4, Characters DEF Plain, Interpolation
        <5>5. CASE t # Interpolation
          <6>1. ~Part(t).interp /\ Part(t).text = t
            BY <3>1, <5>5, PartTyped
          <6>. QED BY <3>1, <5>3, <6>1, PlainText DEF HasQuoteOrBackslash
        <5>. QED BY <5>3, <5>4, <5>5
      <4>2. CASE ~(t = Interpolation \/ R = <<>> \/ R[1].interp)
        <5>. DEFINE p == R[1]
                    y == p.text
                    rest == Tail(R)
                    q == TextPart(t \o y)
        <5>1. p \in PartSet /\ rest \in Seq(PartSet) /\ R = <<p>> \o rest
          BY <3>2, <4>2, HeadRest
        <5>2. y \in Str /\ ~p.interp /\ P = <<q>> \o rest
          BY <3>2, <4>2, <5>1, PartTyped DEF Prepend
        <5>. HIDE DEF p, y, rest
        <5>3. t \o y \in Str
          BY <3>1, <5>2, StrJoin
        <5>4. q \in PartSet /\ ~q.interp /\ q.text = t \o y
          BY <5>3, PartTyped
        <5>. HIDE DEF q
        <5>5. ToSet(P) = {q} \cup ToSet(rest) /\ ToSet(R) = {p} \cup ToSet(rest)
          <6>1. ToSet(<<q>> \o rest) = {q} \cup ToSet(rest)
            BY <5>1, <5>4, ConsSet
          <6>2. ToSet(<<p>> \o rest) = {p} \cup ToSet(rest)
            BY <5>1, ConsSet
          <6>. QED BY <5>1, <5>2, <6>1, <6>2
        <5>6. Plain(t \o y)
          BY <3>3, <5>3, <5>4, <5>5, PlainText DEF HasQuoteOrBackslash
        <5>7. Plain(t) /\ Plain(y)
          BY <3>1, <5>2, <5>6, PlainJoin
        <5>8. ~HasQuoteOrBackslash(p)
          BY <5>2, <5>7, PlainText DEF HasQuoteOrBackslash, y
        <5>. QED BY <3>3, <5>5, <5>7, <5>8
      <4>. QED BY <4>1, <4>2
    <3>7. Plain(t \o v)
      BY <3>1, <3>5, <3>6, PlainJoin
    <3>. QED BY <3>1, <3>7
  <2>. QED BY <2>1, <2>2
<1>2. \A u \in Seq(Char) : u \in T
  <2>. HIDE DEF T
  <2>. QED BY <1>1, LengthInd
<1>. QED BY <1>2 DEF Str


-----------------------------------------------------------------------------
(* What the simple string with the converted parts says.                   *)

SimpleTakes(x, z) ==
    \/ x = EscapedDollar \/ x = Interpolation \/ x = TwoDollars
    \/ \E c \in Char : /\ x = <<c>> /\ c # Backslash /\ c # DoubleQuote
                       /\ c = Dollar => z = <<>> \/ (z[1] # Dollar /\ z[1] # Braces)

LEMMA JoinTwo ==
    ASSUME NEW a \in Char, NEW b \in Char, NEW z \in Str
    PROVE  /\ <<a, b>> \in Str /\ <<a, b>> # <<>> /\ Len(<<a, b>>) = 2
           /\ Len(<<a, b>> \o z) >= 2 /\ (<<a, b>> \o z)[1] = a /\ (<<a, b>> \o z)[2] = b
  BY DEF Str

LEMMA SimpleStepIs ==
    ASSUME NEW x, NEW z \in Str, SimpleTakes(x, z)
    PROVE  x \in Str /\ x # <<>> /\ x \o z \in Str /\ SimpleStep(x \o z) = Len(x) /\ x # <<DoubleQuote>>
<1>1. ASSUME NEW a \in Char, NEW b \in Char, x = <<a, b>>,
             a = Backslash \/ (a = Dollar /\ (b = Braces \/ b = Dollar))
      PROVE  x \in Str /\ x # <<>> /\ x \o z \in Str /\ SimpleStep(x \o z) = Len(x) /\ x # <<DoubleQuote>>
  <2>. DEFINE s == x \o z
  <2>1. x \in Str /\ x # <<>> /\ Len(x) = 2 /\ Len(s) >= 2 /\ s[1] = a /\ s[2] = b
    BY <1>1, JoinTwo
  <2>2. s \in Str /\ s \in Seq(Char)
    BY <2>1, StrJoin DEF Str
  <2>3. x # <<DoubleQuote>>
    <3>1. Len(<<DoubleQuote>>) = 1
      OBVIOUS
    <3>. QED BY <2>1, <3>1
  <2>. HIDE DEF s
  <2>4. SimpleStep(s) = 2
    <3>1. CASE a = Backslash
      <4>1. Shorter(2, Len(s)) = 2
        BY <2>1, <2>2 DEF Shorter, Str
      <4>. QED BY <2>1, <2>2, <3>1, <4>1, SimpleSteps
    <3>2. CASE a = Dollar /\ (b = Braces \/ b = Dollar)
      BY <2>1, <2>2, <3>2, SimpleSteps, Characters DEF TwoAre
    <3>. QED BY <1>1, <3>1, <3>2
  <2>. QED BY <2>1, <2>2, <2>3, <2>4 DEF s
<1>2. ASSUME NEW c \in Char, x = <<c>>, c # Backslash, c # DoubleQuote,
             c = Dollar => z = <<>> \/ (z[1] # Dollar /\ z[1] # Braces)
      PROVE  x \in Str /\ x # <<>> /\ x \o z \in Str /\ SimpleStep(x \o z) = Len(x) /\ x # <<DoubleQuote>>
  <2>. DEFINE s == x \o z
  <2>1. /\ x \in Str /\ x # <<>> /\ Len(x) = 1 /\ s[1] = c /\ Len(s) = Len(z) + 1 /\ Len(z) \in Nat
        /\ (Len(z) >= 1 => s[2] = z[1]) /\ (z = <<>> => Len(z) = 0)
    BY <1>2 DEF Str
  <2>2. s \in Str /\ s \in Seq(Char)
    BY <2>1, StrJoin DEF Str
  <2>3. x # <<DoubleQuote>>
    BY <1>2
  <2>. HIDE DEF s
  <2>4. ~TwoAre(s, Dollar, Braces) /\ ~TwoAre(s, Dollar, Dollar)
    BY <1>2, <2>1 DEF TwoAre
  <2>5. SimpleStep(s) = 1
    BY <1>2, <2>1, <2>2, <2>4, SimpleSteps
  <2>. QED BY <2>1, <2>2, <2>3, <2>5 DEF s
<1>3. CASE x = EscapedDollar
  BY <1>1, <1>3, Characters DEF EscapedDollar
<1>4. CASE x = Interpolation
  BY <1>1, <1>4, Characters DEF Interpolation
<1>5. CASE x = TwoDollars
  BY <1>1, <1>5, Characters DEF TwoDollars
<1>. QED BY <1>2, <1>3, <1>4, <1>5 DEF SimpleTakes

LEMMA SimpleFirst ==
    ASSUME NEW x, NEW z \in Str, SimpleTakes(x, z)
    PROVE  /\ x \in Str /\ x # <<>> /\ x \o z \in Str /\ x \o z # <<>> /\ x # <<DoubleQuote>>
           /\ FirstToken("simple", x \o z) = x /\ Behind("simple", x \o z) = z
<1>1. x \in Str /\ x # <<>> /\ x \o z \in Str /\ SimpleStep(x \o z) = Len(x) /\ x # <<DoubleQuote>>
  BY SimpleStepIs
<1>2. x \o z # <<>>
  BY <1>1, JoinFull
<1>3. WithoutPrefix(x \o z, Len(x)) = z /\ Taken(x \o z, Len(x)) = x
  BY <1>1, RestOfJoin DEF Str
<1>4. ScanStep("simple", x \o z) = Len(x)
  BY <1>1 DEF ScanStep
<1>. QED BY <1>1, <1>2, <1>3, <1>4 DEF FirstToken, Behind

LEMMA QuoteBehind ==
    ASSUME NEW x, NEW z \in Str, SimpleTakes(x, z)
    PROVE  SimpleTakes(x, z \o <<DoubleQuote>>) /\ z \o <<DoubleQuote>> \in Str /\ z \o <<DoubleQuote>> # <<>>
<1>. DEFINE y == z \o <<DoubleQuote>>
<1>1. y \in Str /\ y # <<>> /\ Len(y) = Len(z) + 1 /\ y[1] = (IF z = <<>> THEN DoubleQuote ELSE z[1])
  BY Characters DEF Str
<1>. HIDE DEF y
<1>2. SimpleTakes(x, y)
  BY <1>1, Characters DEF SimpleTakes
<1>. QED BY <1>1, <1>2 DEF y

(* w says what is said, and ends well. *)
Renders(w, said) == w \in Str /\ Said("simple", w) = said /\ Clean("simple", w) /\ EndsIn("simple", w)

LEMMA QuoteIs == Terminator("simple") = <<DoubleQuote>> /\ <<DoubleQuote>> \in Str
  BY Characters DEF Terminator, Str

LEMMA QuoteAlone == Renders(<<>>, <<>>)
<1>. DEFINE e == <<>>
            d == <<DoubleQuote>>
<1>1. d \in Str /\ d # <<>> /\ Terminator("simple") = d /\ d \in Seq(Char) /\ Len(d) = 1 /\ d[1] = DoubleQuote
  BY QuoteIs DEF Str
<1>. HIDE DEF d
<1>2. ScanStep("simple", d) = 1
  <2>1. SimpleStep(d) = 1
    BY <1>1, SimpleSteps, Characters DEF TwoAre
  <2>. QED BY <2>1 DEF ScanStep
<1>3. Taken(d, 1) = d /\ WithoutPrefix(d, 1) = e
  <2>1. e \in Seq(Char) /\ d \o e = d
    BY <1>1
  <2>. HIDE DEF e
  <2>2. WithoutPrefix(d \o e, Len(d)) = e /\ Taken(d \o e, Len(d)) = d
    BY <1>1, <2>1, RestOfJoin
  <2>. QED BY <1>1, <2>1, <2>2
<1>4. FirstToken("simple", d) = d /\ Behind("simple", d) = e
  BY <1>2, <1>3 DEF FirstToken, Behind
<1>5. Tokens("simple", d) = <<d>> \o Tokens("simple", e)
  BY <1>1, <1>4, TokensUnfold
<1>6. Tokens("simple", e) = e
  BY TokensEmpty
<1>7. Tokens("simple", d) = <<d>>
  BY <1>5, <1>6
<1>8. e \o d = d
  BY <1>1
<1>9. EndsWell(<<d>>, d)
  BY <1>1, EndsAlone
<1>10. EndsIn("simple", e)
  BY <1>1, <1>7, <1>8, <1>9 DEF EndsIn
<1>. QED BY <1>10, EmptyString, SaidEmpty, CleanEmpty DEF Renders

LEMMA RenderMore ==
    ASSUME NEW x, NEW z, NEW said, Renders(z, said), SimpleTakes(x, z)
    PROVE  Renders(x \o z, Meaning("simple", x) \o said)
<1>. DEFINE w == x \o z
            d == <<DoubleQuote>>
            y == z \o d
<1>1. z \in Str /\ Said("simple", z) = said /\ Clean("simple", z) /\ EndsIn("simple", z)
  BY DEF Renders
<1>2. x \in Str /\ x # <<>> /\ w \in Str /\ w # <<>> /\ FirstToken("simple", w) = x /\ Behind("simple", w) = z /\ x # d
  BY <1>1, SimpleFirst
<1>3. d \in Str /\ Terminator("simple") = d
  BY QuoteIs
<1>4. SimpleTakes(x, y) /\ y \in Str /\ y # <<>>
  BY <1>1, QuoteBehind
<1>5. w \o d = x \o y
  <2>1. x \in Seq(Char) /\ z \in Seq(Char) /\ d \in Seq(Char)
    BY <1>1, <1>2, <1>3 DEF Str
  <2>. HIDE DEF d
  <2>. QED BY <2>1
<1>. HIDE DEF w, d, y
<1>6. Said("simple", w) = Meaning("simple", x) \o said
  BY <1>1, <1>2, SaidUnfold
<1>7. Clean("simple", w)
  BY <1>1, <1>2, <1>3, CleanUnfold
<1>8. EndsIn("simple", w)
  <2>1. x \o y \in Str /\ x \o y # <<>> /\ FirstToken("simple", x \o y) = x /\ Behind("simple", x \o y) = y
    BY <1>4, SimpleFirst
  <2>. DEFINE r == Tokens("simple", y)
  <2>2. Tokens("simple", x \o y) = <<x>> \o r /\ r \in Seq(Str)
    BY <2>1, TokensUnfold
  <2>3. r # <<>>
    <3>. DEFINE a == FirstToken("simple", y)
                b == Tokens("simple", Behind("simple", y))
    <3>1. a \in Str /\ b \in Seq(Str) /\ r = <<a>> \o b
      BY <1>4, TokensUnfold
    <3>. HIDE DEF a, b
    <3>. QED BY <3>1, ConsProps
  <2>4. EndsWell(r, d)
    BY <1>1, <1>3 DEF EndsIn, y
  <2>. HIDE DEF r
  <2>5. EndsWell(<<x>> \o r, d)
    BY <1>2, <2>2, <2>3, <2>4, EndsBehind
  <2>. QED BY <1>3, <1>5, <2>2, <2>5 DEF EndsIn
<1>. QED BY <1>2, <1>6, <1>7, <1>8 DEF Renders, w

LEMMA TokensDiffer ==
    /\ ThreeApostrophes # ApostropheDollar
    /\ TwoDollars # ApostropheDollar /\ TwoDollars # ThreeApostrophes /\ TwoDollars # Interpolation
    /\ Interpolation # ApostropheDollar /\ Interpolation # ThreeApostrophes
    /\ \A c : <<c>> # ApostropheDollar /\ <<c>> # ThreeApostrophes /\ <<c>> # Interpolation
<1>. USE DEF ThreeApostrophes, ApostropheDollar, TwoDollars, Interpolation
<1>1. ThreeApostrophes # ApostropheDollar
  BY Characters
<1>2. TwoDollars # ApostropheDollar
  OBVIOUS
<1>3. TwoDollars # ThreeApostrophes
  OBVIOUS
<1>4. TwoDollars # Interpolation
  BY Characters
<1>5. Interpolation # ApostropheDollar
  OBVIOUS
<1>6. Interpolation # ThreeApostrophes
  OBVIOUS
<1>7. ASSUME NEW c PROVE <<c>> # ApostropheDollar /\ <<c>> # ThreeApostrophes /\ <<c>> # Interpolation
  OBVIOUS
<1>. QED BY <1>1, <1>2, <1>3, <1>4, <1>5, <1>6, <1>7

(* An interpolation, an escape or a character says the same in both. *)
LEMMA Meanings ==
    /\ Meaning("indented", ApostropheDollar) = <<Dollar>> /\ Meaning("simple", EscapedDollar) = <<Dollar>>
    /\ Meaning("indented", ThreeApostrophes) = Close
    /\ Meaning("indented", Interpolation) = Meaning("simple", Interpolation)
    /\ Meaning("indented", TwoDollars) = TwoDollars /\ Meaning("simple", TwoDollars) = TwoDollars
    /\ \A c \in Char : Meaning("indented", <<c>>) = <<c>> /\ (c # Backslash => Meaning("simple", <<c>>) = <<c>>)
<1>1. /\ Len(ApostropheDollar) = 3 /\ Len(ThreeApostrophes) = 3 /\ Len(TwoDollars) = 2 /\ Len(EscapedDollar) = 2
      /\ Len(Interpolation) = 2
      /\ ApostropheDollar[3] = Dollar /\ ThreeApostrophes[3] = Apostrophe
      /\ TwoDollars[1] = Dollar /\ TwoDollars[2] = Dollar /\ Interpolation[2] = Braces
      /\ EscapedDollar[1] = Backslash /\ EscapedDollar[2] = Dollar /\ Tail(EscapedDollar) = <<Dollar>>
  BY DEF ApostropheDollar, ThreeApostrophes, TwoDollars, EscapedDollar, Interpolation
<1>2. Meaning("indented", ApostropheDollar) = <<Dollar>>
  <2>. DEFINE t == ApostropheDollar
  <2>1. Len(t) = 3 /\ t[3] = Dollar /\ t # Interpolation /\ t # ThreeApostrophes
    BY <1>1, Characters
  <2>. HIDE DEF t
  <2>2. Meaning("indented", t) = <<Dollar>>
    BY <2>1 DEF Meaning, ThreeApostrophes
  <2>. QED BY <2>2 DEF t
<1>3. Meaning("simple", EscapedDollar) = <<Dollar>>
  <2>. DEFINE t == EscapedDollar
  <2>1. t[1] = Backslash /\ Tail(t) = <<Dollar>> /\ t # Interpolation
    BY <1>1, Characters
  <2>. HIDE DEF t
  <2>2. Meaning("simple", t) = <<Dollar>>
    BY <2>1 DEF Meaning
  <2>. QED BY <2>2 DEF t
<1>4. Meaning("indented", ThreeApostrophes) = Close
  BY TokensDiffer DEF Meaning, ThreeApostrophes
<1>5. Meaning("indented", Interpolation) = Meaning("simple", Interpolation)
  BY DEF Meaning
<1>6. Meaning("indented", TwoDollars) = TwoDollars /\ Meaning("simple", TwoDollars) = TwoDollars
  <2>. DEFINE t == TwoDollars
  <2>1. Len(t) = 2 /\ t[1] # Backslash /\ t # Interpolation /\ t # ThreeApostrophes
    BY <1>1, Characters
  <2>. HIDE DEF t
  <2>2. Meaning("indented", t) = t /\ Meaning("simple", t) = t
    BY <2>1 DEF Meaning, ThreeApostrophes
  <2>. QED BY <2>2 DEF t
<1>7. ASSUME NEW c \in Char
      PROVE  Meaning("indented", <<c>>) = <<c>> /\ (c # Backslash => Meaning("simple", <<c>>) = <<c>>)
  <2>. DEFINE t == <<c>>
  <2>1. Len(t) = 1 /\ t[1] = c
    OBVIOUS
  <2>2. t # Interpolation /\ t # ThreeApostrophes
    BY TokensDiffer
  <2>. HIDE DEF t
  <2>3. Meaning("indented", t) = t
    BY <2>1, <2>2 DEF Meaning, ThreeApostrophes
  <2>4. c # Backslash => Meaning("simple", t) = t
    BY <2>1, <2>2 DEF Meaning
  <2>. QED BY <2>3, <2>4 DEF t
<1>. QED BY <1>2, <1>3, <1>4, <1>5, <1>6, <1>7

StartsAs(w, s) == /\ w = <<>> <=> s = <<>>
                  /\ s # <<>> => w[1] = s[1] \/ w[1] = Backslash

LEMMA RenderToken ==
    ASSUME NEW t, NEW v \in Str, TokenCase(t, v), NEW z, StartsAs(z, v),
           NEW said \in Seq(Heard), Renders(z, said)
    PROVE  /\ Renders(ConvTok(t) \o z, Meaning("indented", t) \o said)
           /\ ConvTok(t) \in Str /\ ConvTok(t) # <<>> /\ (ConvTok(t)[1] = t[1] \/ ConvTok(t)[1] = Backslash)
<1>1. z \in Str
  BY DEF Renders
<1>2. CASE t = ApostropheDollar
  <2>1. SimpleTakes(EscapedDollar, z) /\ ConvTok(t) = EscapedDollar
    BY <1>2 DEF SimpleTakes, ConvTok
  <2>2. Renders(EscapedDollar \o z, Meaning("simple", EscapedDollar) \o said)
    BY <2>1, RenderMore
  <2>3. EscapedDollar \in Str /\ EscapedDollar # <<>> /\ EscapedDollar[1] = Backslash
    BY Characters DEF EscapedDollar, Str
  <2>. QED BY <1>2, <2>1, <2>2, <2>3, Meanings
<1>3. CASE t = ThreeApostrophes
  <2>. DEFINE a == <<Apostrophe>>
  <2>1. \A y : SimpleTakes(a, y)
    BY Characters DEF SimpleTakes
  <2>2. Meaning("simple", a) = a /\ Meaning("indented", t) = a \o a /\ ConvTok(t) = a \o a
    <3>1. Meaning("simple", a) = a
      BY Meanings, Characters
    <3>2. Meaning("indented", t) = Close /\ ConvTok(t) = Close
      BY <1>3, Meanings, TokensDiffer DEF ConvTok
    <3>3. Close = a \o a
      BY DEF Close
    <3>. QED BY <3>1, <3>2, <3>3
  <2>3. a \in Seq(Char) /\ a \in Seq(Heard) /\ z \in Seq(Char) /\ a[1] = Apostrophe /\ Len(a) = 1
    BY <1>1, Characters DEF Heard, Str
  <2>4. t[1] = Apostrophe
    BY <1>3 DEF ThreeApostrophes
  <2>. HIDE DEF a
  <2>5. Renders(a \o z, a \o said)
    BY <2>1, <2>2, RenderMore
  <2>6. Renders(a \o (a \o z), a \o (a \o said))
    BY <2>1, <2>2, <2>5, RenderMore
  <2>7. a \o (a \o z) = (a \o a) \o z /\ a \o (a \o said) = (a \o a) \o said
    BY <2>3
  <2>8. a \o a \in Seq(Char) /\ a \o a # <<>> /\ (a \o a)[1] = Apostrophe
    <3>1. <<Apostrophe, Apostrophe>> = a \o a
      BY DEF a
    <3>2. <<Apostrophe, Apostrophe>> \in Seq(Char) /\ <<Apostrophe, Apostrophe>> # <<>>
          /\ <<Apostrophe, Apostrophe>>[1] = Apostrophe
      BY Characters
    <3>. QED BY <3>1, <3>2
  <2>. QED BY <2>2, <2>4, <2>6, <2>7, <2>8 DEF Str
<1>4. CASE t = Interpolation
  <2>1. SimpleTakes(t, z) /\ ConvTok(t) = t
    <3>1. t # ApostropheDollar /\ t # ThreeApostrophes
      BY <1>4, TokensDiffer
    <3>. QED BY <1>4, <3>1 DEF SimpleTakes, ConvTok
  <2>2. Renders(t \o z, Meaning("simple", t) \o said)
    BY <2>1, RenderMore
  <2>3. t \in Str /\ t # <<>>
    BY <1>1, <2>1, SimpleFirst
  <2>. QED BY <1>4, <2>1, <2>2, <2>3, Meanings
<1>5. CASE t = TwoDollars
  <2>1. SimpleTakes(t, z) /\ ConvTok(t) = t
    <3>1. t # ApostropheDollar /\ t # ThreeApostrophes
      BY <1>5, TokensDiffer
    <3>. QED BY <1>5, <3>1 DEF SimpleTakes, ConvTok
  <2>2. Renders(t \o z, Meaning("simple", t) \o said)
    BY <2>1, RenderMore
  <2>3. t \in Str /\ t # <<>>
    BY <1>1, <2>1, SimpleFirst
  <2>. QED BY <1>5, <2>1, <2>2, <2>3, Meanings
<1>6. CASE \E c \in Char : t = <<c>> /\ Alone(c, v)
  <2>1. PICK c \in Char : t = <<c>> /\ Alone(c, v)
    BY <1>6
  <2>2. SimpleTakes(t, z)
    BY <2>1, Characters DEF SimpleTakes, Alone, StartsAs
  <2>3. ConvTok(t) = t
    <3>1. t # ApostropheDollar /\ t # ThreeApostrophes
      BY <2>1, TokensDiffer
    <3>. QED BY <3>1 DEF ConvTok
  <2>4. Renders(t \o z, Meaning("simple", t) \o said)
    BY <2>2, RenderMore
  <2>5. t \in Str /\ t # <<>>
    BY <1>1, <2>2, SimpleFirst
  <2>6. Meaning("simple", t) = Meaning("indented", t)
    BY <2>1, Meanings DEF Alone
  <2>. QED BY <2>3, <2>4, <2>5, <2>6
<1>. QED BY <1>2, <1>3, <1>4, <1>5, <1>6 DEF TokenCase

LEMMA Rendered ==
    ASSUME NEW s \in Str, Plain(s), Clean("indented", s)
    PROVE  Renders(Shown(s), Said("indented", s))
<1>. DEFINE Fine(u) == Renders(Shown(u), Said("indented", u)) /\ StartsAs(Shown(u), u)
            T == {u \in Str : Plain(u) /\ Clean("indented", u) => Fine(u)}
<1>1. ASSUME NEW u \in Seq(Char), \A x \in Seq(Char) : Len(x) < Len(u) => x \in T
      PROVE  u \in T
  <2>0. u \in Str
    BY DEF Str
  <2>1. CASE u = <<>>
    <3>1. Fine(<<>>)
      BY QuoteAlone, ShownEmpty, SaidEmpty DEF StartsAs
    <3>. QED BY <2>0, <2>1, <3>1
  <2>2. CASE u # <<>>
    <3>. SUFFICES ASSUME Plain(u), Clean("indented", u) PROVE Fine(u)
      BY <2>0
    <3>. DEFINE t == FirstToken("indented", u)
                v == Behind("indented", u)
                z == Shown(v)
                said == Said("indented", v)
                c == ConvTok(t)
    <3>1. t \in Str /\ t # <<>> /\ v \in Str /\ Len(v) < Len(u) /\ u = t \o v
      BY <2>0, <2>2, TokensUnfold
    <3>2. t # Close /\ Clean("indented", v)
      BY <2>0, <2>2, CleanUnfold, CloseIs
    <3>3. TokenCase(t, v)
      BY <2>0, <2>2, <3>2, TokenCases
    <3>4. Shown(u) = c \o z /\ z \in Str
      BY <2>0, <2>2, <3>2, ShownUnfold
    <3>5. Said("indented", u) = Meaning("indented", t) \o said /\ said \in Seq(Heard)
      BY <2>0, <2>2, SaidUnfold
    <3>6. v \in T
      BY <1>1, <3>1 DEF Str
    <3>. HIDE DEF t, v, c
    <3>7. Plain(v)
      BY <3>1, PlainJoin
    <3>8. Fine(v)
      BY <3>2, <3>6, <3>7
    <3>9. Renders(z, said) /\ StartsAs(z, v)
      BY <3>8
    <3>. HIDE DEF z, said, Fine
    <3>10. /\ Renders(ConvTok(t) \o z, Meaning("indented", t) \o said)
           /\ ConvTok(t) \in Str /\ ConvTok(t) # <<>> /\ (ConvTok(t)[1] = t[1] \/ ConvTok(t)[1] = Backslash)
      BY <3>1, <3>3, <3>5, <3>9, RenderToken
    <3>11. c \in Str /\ c # <<>> /\ (c[1] = t[1] \/ c[1] = Backslash)
      BY <3>10 DEF c
    <3>12. (c \o z)[1] = c[1] /\ c \o z # <<>> /\ u[1] = t[1]
      BY <3>1, <3>4, <3>11 DEF Str
    <3>13. StartsAs(Shown(u), u)
      BY <2>2, <3>4, <3>11, <3>12 DEF StartsAs
    <3>. QED BY <3>4, <3>5, <3>10, <3>13 DEF c, Fine
  <2>. QED BY <2>1, <2>2
<1>2. \A u \in Seq(Char) : u \in T
  <2>. HIDE DEF T
  <2>. QED BY <1>1, LengthInd
<1>. QED BY <1>2 DEF Str


-----------------------------------------------------------------------------
(* A string is read, printed and read again.                               *)

GoodText(t) == /\ t.kind \in {"simple", "indented"} /\ t = Term(t.kind, t.lines)
               /\ t.lines \in Seq(Str) /\ t.lines # <<>> /\ Legal(t.kind, t.lines)

(* What is printed of a text is a text that has its value, and is printed. *)
Round(t) == LET u == PrintedText(Parsed(t))
            IN  GoodText(u) /\ Value(u) = Value(t) /\ PrintedText(Parsed(u)) = u

LEMMA TermIs == ASSUME NEW kind, NEW lines PROVE Term(kind, lines).kind = kind /\ Term(kind, lines).lines = lines
  BY DEF Term

LEMMA GoodTerm ==
    ASSUME NEW kind \in {"simple", "indented"}, NEW lines \in Seq(Str), lines # <<>>, Legal(kind, lines)
    PROVE  GoodText(Term(kind, lines))
  BY TermIs DEF GoodText

LEMMA SimplePrinted ==
    ASSUME NEW lines \in Seq(Str)
    PROVE  PrintedText(Parsed(Term("simple", lines))) = Term("simple", lines)
<1>. DEFINE P == PartsList("simple", lines)
<1>1. Parsed(Term("simple", lines)) = Term("simple", P)
  BY TermIs DEF Parsed, PartsList
<1>2. DOMAIN P = 1..Len(lines) /\ (\A i \in 1..Len(lines) : P[i] = Parts("simple", lines[i]) /\ lines[i] \in Str)
      /\ DOMAIN lines = 1..Len(lines)
  BY ListProps
<1>. HIDE DEF P
<1>3. \A i \in 1..Len(lines) : Chars(P[i]) = lines[i]
  BY <1>2, PartsGood
<1>4. PrintSimple(P) = [i \in 1..Len(lines) |-> lines[i]]
  BY <1>2, <1>3 DEF PrintSimple
<1>5. [i \in 1..Len(lines) |-> lines[i]] = lines
  BY <1>2
<1>6. PrintedText(Term("simple", P)) = Term("simple", PrintSimple(P))
  BY TermIs DEF PrintedText
<1>. QED BY <1>1, <1>4, <1>5, <1>6

LEMMA IndentedParsed ==
    ASSUME NEW lines \in Seq(Str), lines # <<>>
    PROVE  Parsed(Term("indented", lines)) = Classified(PartsList("indented", NixLines(lines)))
<1>1. Parsed(Term("indented", lines)) = Classified(ProcessIndented(PartsList("indented", lines)))
  BY TermIs DEF Parsed, PartsList
<1>. QED BY <1>1, ProcessIs

(* An indented string that stays one. *)
LEMMA StaysIndented ==
    ASSUME NEW lines \in Seq(Str), lines # <<>>, Legal("indented", lines),
           ~ShouldBeSimple(PartsList("indented", NixLines(lines)))
    PROVE  Round(Term("indented", lines))
<1>. DEFINE N == NixLines(lines)
            P == PartsList("indented", N)
            L == PrintedLines(N)
            t == Term("indented", lines)
            u == Term("indented", L)
<1>1. Settled(N)
  <2>1. KeptLines(lines) \in Seq(Str) /\ KeptLines(lines) # <<>> /\ StripsTo(KeptLines(lines), N)
    BY KeptTyped, NixStrips
  <2>. HIDE DEF N
  <2>. QED BY <2>1, StrippedSettled
<1>2. N \in Seq(Str) /\ N # <<>>
  BY <1>1 DEF Settled
<1>3. Legal("indented", N)
  BY LegalStripped
<1>4. Parsed(t) = Classified(P)
  BY IndentedParsed
<1>5. Value(t) = SaidLines("indented", N)
  BY ValueIs
<1>6. ~ShouldBeSimple(P)
  OBVIOUS
<1>. HIDE DEF N
<1>7. L \in Seq(Str) /\ L # <<>> /\ NixLines(L) = N
  BY <1>1, Reprinted
<1>8. Legal("indented", L)
  BY <1>2, <1>3, LegalPrinted
<1>9. PrintIndented(P) = L
  BY <1>2, PrintIs
<1>. HIDE DEF P, L
<1>10. Classified(P) = Term("indented", P)
  BY <1>6 DEF Classified
<1>11. PrintedText(Term("indented", P)) = u
  BY <1>9, TermIs DEF PrintedText
<1>12. GoodText(u)
  BY <1>7, <1>8, GoodTerm
<1>13. Value(u) = SaidLines("indented", N)
  BY <1>7, ValueIs
<1>14. Parsed(u) = Classified(P)
  BY <1>7, IndentedParsed DEF P
<1>. HIDE DEF t, u
<1>15. Round(t)
  BY <1>4, <1>5, <1>10, <1>11, <1>12, <1>13, <1>14 DEF Round
<1>. QED BY <1>15 DEF t

(* An indented string that becomes a simple one. *)
LEMMA BecomesSimple ==
    ASSUME NEW lines \in Seq(Str), lines # <<>>, Legal("indented", lines),
           ShouldBeSimple(PartsList("indented", NixLines(lines)))
    PROVE  Round(Term("indented", lines))
<1>. DEFINE N == NixLines(lines)
            P == PartsList("indented", N)
            t == Term("indented", lines)
            s == N[1]
            w == Shown(s)
            L == <<w>>
            u == Term("simple", L)
<1>1. N \in Seq(Str) /\ N # <<>>
  <2>1. Len(NixLines(lines)) = Len(KeptLines(lines)) /\ Len(KeptLines(lines)) >= 1 /\ N \in Seq(Str)
    BY ProcessIs, KeptTyped
  <2>. HIDE DEF N
  <2>2. Len(N) >= 1
    BY <2>1 DEF N
  <2>. QED BY <2>1, <2>2
<1>2. Legal("indented", N)
  BY LegalStripped
<1>3. Parsed(t) = Classified(P)
  BY IndentedParsed
<1>4. Value(t) = SaidLines("indented", N)
  BY ValueIs
<1>5. ShouldBeSimple(P)
  OBVIOUS
<1>. HIDE DEF N
<1>6. DOMAIN P = 1..Len(N) /\ Len(P) = Len(N) /\ Len(N) \in Nat /\ \A i \in 1..Len(N) : P[i] = Parts("indented", N[i])
  BY <1>1, ListProps
<1>. HIDE DEF P
<1>7. Len(N) = 1 /\ 1..Len(N) = {1}
  <2>1. Len(N) <= 1 /\ Len(N) >= 1
    BY <1>1, <1>5, <1>6 DEF ShouldBeSimple
  <2>. QED BY <1>6, <2>1
<1>8. s \in Str /\ P[1] = Parts("indented", s)
  BY <1>1, <1>6, <1>7
<1>9. Clean("indented", s)
  BY <1>1, <1>2, <1>7, LegalIs
<1>10. Plain(s)
  <2>1. \A p \in ToSet(P[1]) : ~HasQuoteOrBackslash(p)
    BY <1>5, <1>6, <1>7 DEF ShouldBeSimple
  <2>. HIDE DEF s
  <2>. QED BY <1>8, <2>1, PlainLine
<1>. HIDE DEF s
<1>11. Renders(w, Said("indented", s))
  BY <1>8, <1>9, <1>10, Rendered
<1>12. Classified(P) = Term("simple", <<ConvertedParts(P[1])>>)
  <2>1. Classified(P) = Term("simple", [i \in {1} |-> ConvertedParts(P[i])])
    BY <1>5, <1>6, <1>7 DEF Classified, ConvertedParts
  <2>2. [i \in {1} |-> ConvertedParts(P[i])] = <<ConvertedParts(P[1])>>
    <3>. DEFINE c == ConvertedParts(P[1])
    <3>1. [i \in {1} |-> ConvertedParts(P[i])] = [i \in {1} |-> c]
      OBVIOUS
    <3>. HIDE DEF c
    <3>2. [i \in {1} |-> c] = <<c>>
      BY <1>7
    <3>. QED BY <3>1, <3>2 DEF c
  <2>. QED BY <2>1, <2>2
<1>13. PrintedText(Term("simple", <<ConvertedParts(P[1])>>)) = u
  <2>. DEFINE c == ConvertedParts(P[1])
              q == <<c>>
  <2>1. Chars(c) = w
    BY <1>8 DEF Shown
  <2>. HIDE DEF c
  <2>2. DOMAIN q = {1} /\ q[1] = c
    OBVIOUS
  <2>. HIDE DEF q, w
  <2>3. PrintSimple(q) = [i \in {1} |-> w]
    BY <2>1, <2>2 DEF PrintSimple
  <2>4. [i \in {1} |-> w] = <<w>>
    BY <1>7
  <2>5. PrintedText(Term("simple", q)) = Term("simple", PrintSimple(q))
    BY TermIs DEF PrintedText
  <2>. QED BY <2>3, <2>4, <2>5 DEF q, c, w
<1>. HIDE DEF w
<1>14. w \in Str /\ Said("simple", w) = Said("indented", s) /\ Clean("simple", w) /\ EndsIn("simple", w)
  BY <1>11 DEF Renders
<1>15. L \in Seq(Str) /\ L # <<>> /\ Len(L) = 1 /\ L[1] = w /\ DOMAIN L = {1} /\ Last(L) = w
  BY <1>14 DEF Last
<1>. HIDE DEF L
<1>16. Legal("simple", L)
  BY <1>14, <1>15, LegalIs
<1>17. GoodText(u)
  BY <1>15, <1>16, GoodTerm
<1>18. Value(u) = SaidLines("simple", L)
  BY <1>15, ValueIs
<1>19. SaidLines("simple", L) = SaidLines("indented", N)
  <2>1. SaidLines("simple", L) = [i \in {1} |-> Said("simple", L[i])]
        /\ SaidLines("indented", N) = [i \in {1} |-> Said("indented", N[i])]
    BY <1>7, <1>15 DEF SaidLines
  <2>2. \A i \in {1} : Said("simple", L[i]) = Said("indented", N[i])
    BY <1>14, <1>15 DEF s
  <2>. QED BY <2>1, <2>2
<1>20. PrintedText(Parsed(u)) = u
  BY <1>15, SimplePrinted
<1>. HIDE DEF t, u
<1>21. Round(t)
  BY <1>3, <1>4, <1>12, <1>13, <1>17, <1>18, <1>19, <1>20 DEF Round
<1>. QED BY <1>21 DEF t

LEMMA RoundTrip ==
    ASSUME NEW t, GoodText(t)
    PROVE  Round(t)
<1>. DEFINE lines == t.lines
<1>1. t.kind \in {"simple", "indented"} /\ t = Term(t.kind, lines) /\ lines \in Seq(Str) /\ lines # <<>>
      /\ Legal(t.kind, lines)
  BY DEF GoodText
<1>. HIDE DEF lines
<1>2. CASE t.kind = "simple"
  <2>1. t = Term("simple", lines)
    BY <1>1, <1>2
  <2>2. PrintedText(Parsed(t)) = t
    BY <1>1, <2>1, SimplePrinted
  <2>. QED BY <2>2 DEF Round
<1>3. CASE t.kind = "indented"
  <2>1. t = Term("indented", lines) /\ Legal("indented", lines)
    BY <1>1, <1>3
  <2>2. Round(Term("indented", lines))
    BY <1>1, <2>1, StaysIndented, BecomesSimple
  <2>. QED BY <2>1, <2>2
<1>. QED BY <1>1, <1>2, <1>3

-----------------------------------------------------------------------------
(* The text is one whose value is that of the source, and, from the first  *)
(* time it is printed on, one that is printed as it is.                    *)
IInv == /\ GoodText(text) /\ Value(text) = Value(source)
        /\ pass \in Nat /\ (pass % 2 = 1 => term = <<Parsed(text)>>)
        /\ printed # <<>> => printed = <<text>> /\ PrintedText(Parsed(text)) = text

LEMMA InitHolds == Init => IInv
<1>. SUFFICES ASSUME Init PROVE IInv
  OBVIOUS
<1>1. PICK s \in Sources : \E lines \in s.lines : source = Term(s.kind, lines)
  BY DEF Init
<1>2. PICK lines \in s.lines : source = Term(s.kind, lines)
  BY <1>1
<1>3. s.kind \in {"simple", "indented"} /\ lines \in Seq(Seq(STRING)) /\ lines # <<>>
  BY SourcesAssumption
<1>4. lines \in Seq(Str)
  <2>1. \A x \in Seq(STRING) : x \in Str
    BY DEF Str, Char
  <2>. QED BY <1>3, <2>1
<1>5. Legal(s.kind, lines)
  BY <1>2, TermIs DEF Init
<1>6. GoodText(source)
  BY <1>2, <1>3, <1>4, <1>5, GoodTerm
<1>7. text = source /\ pass = 0 /\ printed = <<>>
  BY DEF Init
<1>. QED BY <1>6, <1>7 DEF IInv

LEMMA NextHolds == IInv /\ [Next]_vars => IInv'
<1>. SUFFICES ASSUME IInv, [Next]_vars PROVE IInv'
  OBVIOUS
<1>1. CASE Read
  <2>1. pass \in Nat /\ pass' = pass + 1 /\ pass' \in Nat /\ term' = <<Parsed(text)>>
        /\ source' = source /\ text' = text /\ printed' = printed
    BY <1>1 DEF Read, IInv
  <2>. QED BY <2>1 DEF IInv
<1>2. CASE PrintString
  <2>1. pass \in Nat /\ pass % 2 = 1 /\ pass' = pass + 1 /\ source' = source /\ term' = term
        /\ text' = PrintedText(term[1]) /\ printed' = IF printed = <<>> THEN <<text'>> ELSE printed
    BY <1>2 DEF PrintString, IInv
  <2>2. pass' \in Nat /\ pass' % 2 # 1
    BY <2>1
  <2>3. text' = PrintedText(Parsed(text))
    BY <2>1 DEF IInv
  <2>4. GoodText(text)
    BY DEF IInv
  <2>5. Round(text)
    BY <2>4, RoundTrip
  <2>6. GoodText(text') /\ Value(text') = Value(text) /\ PrintedText(Parsed(text')) = text'
    BY <2>3, <2>5 DEF Round
  <2>7. printed' = <<text'>>
    <3>1. CASE printed = <<>>
      BY <2>1, <3>1
    <3>2. CASE printed # <<>>
      BY <2>1, <2>3, <3>2 DEF IInv
    <3>. QED BY <3>1, <3>2
  <2>8. Value(text') = Value(source')
    BY <2>1, <2>6 DEF IInv
  <2>. QED BY <2>2, <2>6, <2>7, <2>8 DEF IInv
<1>3. CASE UNCHANGED vars
  BY <1>3 DEF vars, IInv
<1>. QED BY <1>1, <1>2, <1>3 DEF Next

(* Whatever the string, its blank lines, indentation, escapes and          *)
(* interpolations, and however often it is read and printed: it ends where *)
(* it should and means what it meant                                       *)
(* (src/parser/strings.rs, src/format/string.rs).                          *)
THEOREM ValuesAreKept == Spec => []ValueKept
<1>1. IInv => ValueKept
  BY DEF IInv, GoodText, ValueKept
<1>. QED BY <1>1, InitHolds, NextHolds, PTL DEF Spec

(* What was printed first is printed ever after: an indented string does   *)
(* not move further in, and one that became a simple string stays one.     *)
THEOREM StringsSettle == Spec => []Idempotent
<1>1. IInv => Idempotent
  BY DEF IInv, Idempotent
<1>. QED BY <1>1, InitHolds, NextHolds, PTL DEF Spec
=============================================================================
