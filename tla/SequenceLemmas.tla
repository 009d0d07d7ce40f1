--------------------------- MODULE SequenceLemmas ---------------------------
(***************************************************************************)
(* Lemmas on data, cited by the proofs about the models: induction and     *)
(* recursion over the positions of a sequence, the sequence operators, and *)
(* Total. The induction theorems of the library have an operator as a      *)
(* parameter; here a set stands for the predicate, and a function of       *)
(* functions for the step of a recursive definition.                       *)
(***************************************************************************)
EXTENDS Totals, WellFoundedInduction, TLAPS

-----------------------------------------------------------------------------
\* A non-empty set of numbers has a least element: the library says that < is well founded.
LEMMA Least ==
  ASSUME NEW S \in SUBSET Nat, S # {}
  PROVE  \E m \in S : \A k \in S : m <= k
<1>1. PICK m \in S : \A k \in S : <<k, m>> \notin OpToRel(<, Nat)
  BY WFMin, NatLessThanWellFounded
<1>2. \A k \in S : <<k, m>> \in OpToRel(<, Nat) <=> k < m
  BY Zenon DEF OpToRel
<1>3. \A k \in S : ~ (k < m)
  BY ONLY <1>1, <1>2, Zenon
<1>4. \A k \in S : m <= k
  BY ONLY <1>3, S \in SUBSET Nat, m \in S
<1>. QED  BY <1>4

\* Induction up to n, on a set in place of a predicate.
LEMMA Induction ==
  ASSUME NEW n \in Nat, NEW T, 0 \in T, \A k \in 1..n : k - 1 \in T => k \in T
  PROVE  \A k \in 0..n : k \in T
<1>. SUFFICES ASSUME NEW l \in 0..n, l \notin T PROVE FALSE
  OBVIOUS
<1>. DEFINE S == {k \in 0..n : k \notin T}
<1>1. S \in SUBSET Nat /\ S # {}
  OBVIOUS
<1>2. PICK m \in S : \A k \in S : m <= k
  <2>. HIDE DEF S
  <2>. QED  BY <1>1, Least
<1>3. m \in 1..n /\ m - 1 \in 0..n
  BY <1>2
<1>4. m - 1 \notin S
  BY <1>2, <1>3
<1>. QED  BY <1>2, <1>3, <1>4

\* f iterates the steps D from base, n times.
Iterates(f, S, n, D, base) == /\ f \in [0..n -> S] /\ f[0] = base
                              /\ \A k \in 1..n : f[k] = D[k][f[k - 1]]

\* There is such a function for all steps: recursion over positions defines something.
LEMMA Iteration ==
  ASSUME NEW S, NEW n \in Nat, NEW D \in [1..n -> [S -> S]], NEW base \in S
  PROVE  \E f : Iterates(f, S, n, D, base)
<1>. DEFINE Upto(m) == \E f \in [0..m -> S] : f[0] = base /\ \A k \in 1..m : f[k] = D[k][f[k - 1]]
            T == {m \in 0..n : Upto(m)}
<1>1. Upto(0)
  <2>. DEFINE f == [k \in 0..0 |-> base]
  <2>1. f \in [0..0 -> S] /\ f[0] = base /\ 1..0 = {}
    OBVIOUS
  <2>. HIDE DEF f
  <2>. QED  BY <2>1
<1>2. ASSUME NEW m \in 1..n, Upto(m - 1) PROVE Upto(m)
  <2>1. PICK f \in [0..(m - 1) -> S] : f[0] = base /\ \A k \in 1..(m - 1) : f[k] = D[k][f[k - 1]]
    BY <1>2
  <2>. DEFINE v == D[m][f[m - 1]]
              g == [k \in 0..m |-> IF k = m THEN v ELSE f[k]]
  <2>2. m - 1 \in 0..(m - 1) /\ v \in S
    BY <2>1
  <2>. HIDE DEF v
  <2>3. g \in [0..m -> S] /\ g[0] = base /\ g[m] = v /\ \A k \in 0..(m - 1) : g[k] = f[k]
    BY <2>1, <2>2
  <2>. HIDE DEF g
  <2>4. ASSUME NEW k \in 1..m PROVE g[k] = D[k][g[k - 1]]
    <3>1. k - 1 \in 0..(m - 1) /\ (k = m \/ k \in 1..(m - 1))
      OBVIOUS
    <3>2. g[k - 1] = f[k - 1]
      BY <2>3, <3>1
    <3>. QED  BY <2>1, <2>3, <3>1, <3>2 DEF v
  <2>. QED  BY <2>3, <2>4
<1>. HIDE DEF Upto
<1>3. 0 \in T /\ \A m \in 1..n : m - 1 \in T => m \in T
  BY <1>1, <1>2
<1>4. n \in T
  <2>. HIDE DEF T
  <2>1. \A m \in 0..n : m \in T
    BY <1>3, Induction
  <2>. QED  BY <2>1
<1>. QED  BY <1>4 DEF Upto, Iterates

-----------------------------------------------------------------------------
\* A function on 1..n is a sequence of length n.
LEMMA FunctionAsSeq ==
  ASSUME NEW S, NEW n \in Nat, NEW f \in [1..n -> S]
  PROVE  f \in Seq(S) /\ Len(f) = n
OBVIOUS

\* The elements of a concatenation.
LEMMA Concatenation ==
  ASSUME NEW S, NEW s \in Seq(S), NEW r \in Seq(S)
  PROVE  /\ s \o r \in Seq(S) /\ Len(s \o r) = Len(s) + Len(r)
         /\ \A k \in 1..(Len(s) + Len(r)) :
              (s \o r)[k] = IF k <= Len(s) THEN s[k] ELSE r[k - Len(s)]
OBVIOUS

\* Two sequences of the same length and elements are one.
LEMMA SameElements ==
  ASSUME NEW S, NEW s \in Seq(S), NEW r \in Seq(S), NEW n \in Nat, Len(s) = n, Len(r) = n,
         \A k \in 1..n : s[k] = r[k]
  PROVE  s = r
OBVIOUS

\* The first n elements of a sequence.
LEMMA Prefix ==
  ASSUME NEW S, NEW s \in Seq(S), NEW n \in 0..Len(s)
  PROVE  /\ SubSeq(s, 1, n) \in Seq(S) /\ Len(SubSeq(s, 1, n)) = n
         /\ \A k \in 1..n : SubSeq(s, 1, n)[k] = s[k]
OBVIOUS

\* An element is appended to a concatenation by appending it to its second part.
LEMMA AppendToConcatenation ==
  ASSUME NEW S, NEW s \in Seq(S), NEW r \in Seq(S), NEW e \in S
  PROVE  s \o Append(r, e) = Append(s \o r, e)
<1>. DEFINE n == Len(s) + Len(r)
            x == s \o Append(r, e)
            y == Append(s \o r, e)
<1>1. /\ s \o r \in Seq(S) /\ Len(s \o r) = n /\ n \in Nat
      /\ \A k \in 1..n : (s \o r)[k] = IF k <= Len(s) THEN s[k] ELSE r[k - Len(s)]
  BY Concatenation
<1>2. /\ Append(r, e) \in Seq(S) /\ Len(Append(r, e)) = Len(r) + 1
      /\ Append(r, e)[Len(r) + 1] = e /\ \A k \in 1..Len(r) : Append(r, e)[k] = r[k]
  OBVIOUS
<1>3. /\ x \in Seq(S) /\ Len(x) = n + 1
      /\ \A k \in 1..(n + 1) : x[k] = IF k <= Len(s) THEN s[k] ELSE Append(r, e)[k - Len(s)]
  <2>. DEFINE r2 == Append(r, e)
  <2>1. r2 \in Seq(S) /\ Len(s) + Len(r2) = n + 1
    BY <1>2
  <2>. HIDE DEF r2, n
  <2>. QED  BY <2>1, Concatenation DEF r2
<1>4. /\ y \in Seq(S) /\ Len(y) = n + 1 /\ y[n + 1] = e
      /\ \A k \in 1..n : y[k] = (s \o r)[k]
  BY <1>1
<1>. HIDE DEF x, y
<1>5. ASSUME NEW k \in 1..(n + 1) PROVE x[k] = y[k]
  <2>1. k = n + 1 \/ k \in 1..n
    BY <1>1
  <2>2. CASE k = n + 1
    <3>1. ~(k <= Len(s)) /\ k - Len(s) = Len(r) + 1
      BY <2>2
    <3>. QED  BY <1>2, <1>3, <1>4, <2>2, <3>1
  <2>3. CASE k \in 1..n
    <3>1. y[k] = IF k <= Len(s) THEN s[k] ELSE r[k - Len(s)]
      BY <1>1, <1>4, <2>3
    <3>2. ~(k <= Len(s)) => k - Len(s) \in 1..Len(r)
      BY <2>3
    <3>. QED  BY <1>2, <1>3, <3>1, <3>2
  <2>. QED  BY <2>1, <2>2, <2>3
<1>. HIDE DEF n
<1>6. x = y
  BY <1>1, <1>3, <1>4, <1>5, SameElements
<1>. QED  BY <1>6 DEF x, y

\* What is left of a concatenation when some of its first part is taken away.
LEMMA SuffixOfConcatenation ==
  ASSUME NEW S, NEW s \in Seq(S), NEW r \in Seq(S), NEW n \in 0..Len(s)
  PROVE  SubSeq(s \o r, n + 1, Len(s \o r)) = SubSeq(s, n + 1, Len(s)) \o r
<1>. DEFINE m == Len(s)
            l == Len(r)
            x == SubSeq(s \o r, n + 1, Len(s \o r))
            y == SubSeq(s, n + 1, Len(s)) \o r
<1>1. /\ m \in Nat /\ l \in Nat /\ n \in 0..m /\ s \o r \in Seq(S) /\ Len(s \o r) = m + l
      /\ \A k \in 1..(m + l) : (s \o r)[k] = IF k <= m THEN s[k] ELSE r[k - m]
  BY Concatenation
<1>. HIDE DEF m, l
<1>2. /\ x \in Seq(S) /\ Len(x) = (m - n) + l
      /\ \A k \in 1..((m - n) + l) : x[k] = (s \o r)[n + k]
  BY SMTT(30), <1>1
<1>3. /\ SubSeq(s, n + 1, m) \in Seq(S) /\ Len(SubSeq(s, n + 1, m)) = m - n
      /\ \A k \in 1..(m - n) : SubSeq(s, n + 1, m)[k] = s[n + k]
  BY <1>1 DEF m
<1>4. /\ y \in Seq(S) /\ Len(y) = (m - n) + l
      /\ \A k \in 1..((m - n) + l) : y[k] = IF k <= m - n THEN s[n + k] ELSE r[k - (m - n)]
  <2>. DEFINE z == SubSeq(s, n + 1, m)
  <2>1. z \in Seq(S) /\ y = z \o r /\ Len(z) = m - n /\ Len(r) = l
    BY <1>3 DEF m, l
  <2>2. \A k \in 1..(m - n) : z[k] = s[n + k]
    BY <1>3
  <2>. HIDE DEF y, z
  <2>3. /\ y \in Seq(S) /\ Len(y) = (m - n) + l
        /\ \A k \in 1..((m - n) + l) : y[k] = IF k <= m - n THEN z[k] ELSE r[k - (m - n)]
    BY <2>1, Concatenation
  <2>4. \A k \in 1..((m - n) + l) : k <= m - n => k \in 1..(m - n)
    BY <1>1
  <2>. QED  BY <2>2, <2>3, <2>4
<1>. HIDE DEF x, y
<1>5. ASSUME NEW k \in 1..((m - n) + l) PROVE x[k] = y[k]
  <2>1. n + k \in 1..(m + l) /\ (n + k <= m <=> k <= m - n) /\ (n + k) - m = k - (m - n)
    BY <1>1
  <2>. QED  BY <1>1, <1>2, <1>4, <2>1
<1>6. (m - n) + l \in Nat
  BY <1>1
<1>7. x = y
  BY <1>2, <1>4, <1>5, <1>6, SameElements
<1>. QED  BY <1>7 DEF x, y

-----------------------------------------------------------------------------
\* f has the totals of the first 0, 1, ..., Len(s) elements of s.
PartialTotals(f, s) == /\ f \in [0..Len(s) -> Int] /\ f[0] = 0
                       /\ \A k \in 1..Len(s) : f[k] = f[k - 1] + s[k]

\* There is such an f for every sequence.
LEMMA PartialTotalsExist ==
  ASSUME NEW s \in Seq(Int)
  PROVE  \E f : PartialTotals(f, s)
<1>. DEFINE n == Len(s)
            D == [k \in 1..n |-> [v \in Int |-> v + s[k]]]
<1>1. n \in Nat /\ 0 \in Int /\ D \in [1..n -> [Int -> Int]]
  OBVIOUS
<1>2. \A k \in 1..n, v \in Int : D[k][v] = v + s[k]
  OBVIOUS
<1>. HIDE DEF D, n
<1>3. PICK f \in [0..n -> Int] : f[0] = 0 /\ \A k \in 1..n : f[k] = D[k][f[k - 1]]
  <2>1. \E f : Iterates(f, Int, n, D, 0)
    BY <1>1, Iteration
  <2>. QED  BY <2>1 DEF Iterates
<1>4. \A k \in 1..n : f[k] = f[k - 1] + s[k]
  <2>. TAKE k \in 1..n
  <2>1. k - 1 \in 0..n
    BY <1>1
  <2>2. f[k - 1] \in Int
    BY <2>1, <1>3
  <2>. QED  BY <1>2, <1>3, <2>2
<1>. QED  BY <1>3, <1>4 DEF PartialTotals, n

\* The last of them is what Total computes.
LEMMA TotalIs ==
  ASSUME NEW s \in Seq(Int), NEW f, PartialTotals(f, s)
  PROVE  Total(s) = f[Len(s)] /\ Total(s) \in Int
<1>. DEFINE n == Len(s)
            g == CHOOSE u : u = [k \in 0..n |-> IF k = 0 THEN 0 ELSE u[k - 1] + s[k]]
            T == {k \in 0..n : g[k] = f[k]}
<1>1. f = [k \in 0..n |-> IF k = 0 THEN 0 ELSE f[k - 1] + s[k]] /\ n \in Nat
  BY DEF PartialTotals
<1>2. g = [k \in 0..n |-> IF k = 0 THEN 0 ELSE g[k - 1] + s[k]]
  BY <1>1
<1>3. Total(s) = g[n]
  BY DEF Total
<1>. HIDE DEF g, n
<1>4. 0 \in T /\ \A k \in 1..n : k - 1 \in T => k \in T
  <2>1. 0 \in T
    BY <1>1, <1>2
  <2>2. ASSUME NEW k \in 1..n, k - 1 \in T PROVE k \in T
    <3>1. g[k] = g[k - 1] + s[k] /\ f[k] = f[k - 1] + s[k]
      BY <1>1, <1>2
    <3>. QED  BY <2>2, <3>1, <1>1
  <2>. QED  BY <2>1, <2>2
<1>5. n \in T
  <2>. HIDE DEF T
  <2>1. \A k \in 0..n : k \in T
    BY <1>1, <1>4, Induction
  <2>. QED  BY <1>1, <2>1
<1>6. f[n] \in Int
  <2>1. f \in [0..n -> Int] /\ n \in 0..n
    BY <1>1 DEF PartialTotals, n
  <2>. QED  BY <2>1
<1>. QED  BY <1>3, <1>5, <1>6 DEF n

\* Nothing adds up to 0.
LEMMA TotalEmpty == Total(<<>>) = 0
<1>. DEFINE f == [k \in 0..0 |-> 0]
<1>1. <<>> \in Seq(Int) /\ Len(<<>>) = 0
  OBVIOUS
<1>2. f \in [0..0 -> Int] /\ f[0] = 0 /\ 1..0 = {}
  OBVIOUS
<1>. HIDE DEF f
<1>3. PartialTotals(f, <<>>)
  BY <1>1, <1>2 DEF PartialTotals
<1>. QED  BY <1>1, <1>2, <1>3, TotalIs

\* One more element.
LEMMA TotalAppend ==
  ASSUME NEW s \in Seq(Int), NEW e \in Int
  PROVE  Total(s) \in Int /\ Total(Append(s, e)) = Total(s) + e
<1>. DEFINE n == Len(s)
            r == Append(s, e)
<1>1. PICK f : PartialTotals(f, s)
  BY PartialTotalsExist
<1>2. n \in Nat /\ r \in Seq(Int) /\ Len(r) = n + 1 /\ r[n + 1] = e /\ \A k \in 1..n : r[k] = s[k]
  OBVIOUS
<1>3. f \in [0..n -> Int] /\ f[0] = 0 /\ \A k \in 1..n : f[k] = f[k - 1] + s[k]
  BY <1>1 DEF PartialTotals
<1>4. Total(s) = f[n] /\ Total(s) \in Int
  BY <1>1, TotalIs
<1>. HIDE DEF n, r
<1>. DEFINE g == [k \in 0..(n + 1) |-> IF k = n + 1 THEN f[n] + e ELSE f[k]]
<1>5. /\ g \in [0..(n + 1) -> Int] /\ g[n + 1] = f[n] + e /\ \A k \in 0..n : g[k] = f[k]
  BY <1>2, <1>3
<1>. HIDE DEF g
<1>6. \A k \in 1..(n + 1) : g[k] = g[k - 1] + r[k]
  <2>. TAKE k \in 1..(n + 1)
  <2>1. k - 1 \in 0..n /\ (k = n + 1 \/ k \in 1..n)
    BY <1>2
  <2>2. CASE k = n + 1
    <3>1. g[k] = f[n] + e /\ g[k - 1] = f[n] /\ r[k] = e
      BY <1>2, <1>5, <2>1, <2>2
    <3>. QED  BY <3>1
  <2>3. CASE k \in 1..n
    <3>1. k \in 0..n
      BY <2>3
    <3>2. g[k] = f[k] /\ g[k - 1] = f[k - 1] /\ r[k] = s[k]
      BY <1>2, <1>5, <2>1, <2>3, <3>1
    <3>. QED  BY <1>3, <2>3, <3>2
  <2>. QED  BY <2>1, <2>2, <2>3
<1>7. PartialTotals(g, r)
  BY <1>2, <1>3, <1>5, <1>6 DEF PartialTotals
<1>8. Total(r) = g[n + 1]
  BY <1>2, <1>7, TotalIs
<1>. QED  BY <1>4, <1>5, <1>8 DEF r

\* One element replaced.
LEMMA TotalExcept ==
  ASSUME NEW s \in Seq(Int), NEW i \in 1..Len(s), NEW e \in Int
  PROVE  Total([s EXCEPT ![i] = e]) = Total(s) - s[i] + e
<1>. DEFINE n == Len(s)
            r == [s EXCEPT ![i] = e]
<1>1. PICK f : PartialTotals(f, s)
  BY PartialTotalsExist
<1>2. /\ n \in Nat /\ r \in Seq(Int) /\ Len(r) = n /\ i \in 1..n /\ s[i] \in Int
      /\ \A k \in 1..n : r[k] = IF k = i THEN e ELSE s[k]
  OBVIOUS
<1>3. f \in [0..n -> Int] /\ f[0] = 0 /\ \A k \in 1..n : f[k] = f[k - 1] + s[k] /\ s[k] \in Int
  BY <1>1 DEF PartialTotals
<1>4. Total(s) = f[n] /\ f[n] \in Int
  BY <1>1, TotalIs
<1>. HIDE DEF n, r
<1>. DEFINE d == e - s[i]
            g == [k \in 0..n |-> IF k < i THEN f[k] ELSE f[k] + d]
<1>5. d \in Int /\ s[i] + d = e
  BY <1>2
<1>. HIDE DEF d
<1>6. g \in [0..n -> Int] /\ \A k \in 0..n : g[k] = IF k < i THEN f[k] ELSE f[k] + d
  <2>1. ASSUME NEW k \in 0..n PROVE f[k] \in Int /\ f[k] + d \in Int
    <3>1. f[k] \in Int
      BY <1>3
    <3>. QED  BY <1>5, <3>1
  <2>. QED  BY <2>1
<1>. HIDE DEF g
<1>7. \A k \in 1..n : g[k] = g[k - 1] + r[k]
  <2>. TAKE k \in 1..n
  <2>1. k - 1 \in 0..n /\ k \in 0..n
    BY <1>2
  <2>2. f[k] \in Int /\ f[k - 1] \in Int /\ s[k] \in Int /\ f[k] = f[k - 1] + s[k]
    BY <1>3, <2>1
  <2>3. /\ g[k] = IF k < i THEN f[k] ELSE f[k] + d
        /\ g[k - 1] = IF k - 1 < i THEN f[k - 1] ELSE f[k - 1] + d
    BY <1>6, <2>1
  <2>4. CASE k = i
    <3>1. g[k] = f[k] + d /\ g[k - 1] = f[k - 1] /\ r[k] = e /\ s[k] + d = e
      BY <1>2, <1>5, <2>3, <2>4
    <3>. QED  BY <1>5, <2>2, <3>1
  <2>5. CASE k # i
    <3>1. r[k] = s[k]
      BY <1>2, <2>5
    <3>2. CASE k < i
      <4>1. g[k] = f[k] /\ g[k - 1] = f[k - 1]
        BY <1>2, <2>3, <3>2
      <4>. QED  BY <2>2, <3>1, <4>1
    <3>3. CASE ~(k < i)
      <4>1. g[k] = f[k] + d /\ g[k - 1] = f[k - 1] + d
        BY <1>2, <2>3, <2>5, <3>3
      <4>. QED  BY <1>5, <2>2, <3>1, <4>1
    <3>. QED  BY <3>2, <3>3
  <2>. QED  BY <2>4, <2>5
<1>8. PartialTotals(g, r)
  <2>1. g[0] = 0
    BY <1>2, <1>3, <1>6
  <2>. QED  BY <1>2, <1>6, <1>7, <2>1 DEF PartialTotals
<1>9. Total(r) = g[n]
  BY <1>2, <1>8, TotalIs
<1>10. g[n] = f[n] + d
  BY <1>2, <1>6
<1>11. Total(r) = Total(s) - s[i] + e
  BY <1>2, <1>4, <1>5, <1>9, <1>10
<1>. QED  BY <1>11 DEF r
=============================================================================
