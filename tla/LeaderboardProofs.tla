------------------------- MODULE LeaderboardProofs -------------------------
(***************************************************************************)
(* Proofs about Leaderboard, for every set of users and consumers, every   *)
(* bound, and every size of the board and of the window on it. The lemmas  *)
(* on the board say that ranks are places: no two users share one and none *)
(* empty. Those on packets go by induction over the lines of a reply.      *)
(***************************************************************************)
EXTENDS Leaderboard, FiniteSetTheorems, SequenceLemmas

-----------------------------------------------------------------------------
\* Max of two integers, as ZRevRange uses it.
LEMMA MaxOfTwo ==
  ASSUME NEW a \in Int, NEW b \in Int
  PROVE  Max({a, b}) = IF a >= b THEN a ELSE b
BY DEF Max

\* Min of two integers, likewise.
LEMMA MinOfTwo ==
  ASSUME NEW a \in Int, NEW b \in Int
  PROVE  Min({a, b}) = IF a <= b THEN a ELSE b
BY DEF Min

\* The users on the board.
Scored == {u \in Users : score[u] # Unranked}

ScoresOK == score \in [Users -> 0..MaxPower \cup {Unranked}]

\* Of two users on the board one is above the other, never both.
LEMMA OneIsAbove ==
  ASSUME ScoresOK, NEW u \in Scored, NEW v \in Scored, u # v
  PROVE  u \in Above(v) <=> v \notin Above(u)
<1>1. u \in Nat /\ v \in Nat /\ score[u] \in Nat /\ score[v] \in Nat
  BY LeaderboardAssumption DEF ScoresOK, Scored
<1> QED
  BY <1>1 DEF Above, Scored

\* Who is above a user has fewer users above.
LEMMA FewerAbove ==
  ASSUME ScoresOK, NEW u \in Scored, NEW v \in Above(u)
  PROVE  /\ Above(v) \subseteq Above(u) /\ v \notin Above(v)
         /\ IsFiniteSet(Above(u)) /\ IsFiniteSet(Above(v))
         /\ Cardinality(Above(v)) \in Nat /\ Cardinality(Above(u)) \in Nat
         /\ Cardinality(Above(v)) < Cardinality(Above(u))
<1>1. v \in Scored
  BY DEF Above, Scored
<1>2. \A w \in Scored : w \in Nat /\ score[w] \in Nat
  BY LeaderboardAssumption DEF ScoresOK, Scored
<1>3. v \notin Above(v)
  BY <1>1, <1>2 DEF Above
<1>4. Above(v) \subseteq Above(u)
  BY <1>1, <1>2 DEF Above, Scored
<1>5. IsFiniteSet(Above(u)) /\ IsFiniteSet(Above(v))
  BY LeaderboardAssumption, FS_Subset DEF Above
<1>6. Cardinality(Above(v)) \in Nat /\ Cardinality(Above(u)) \in Nat
  BY <1>5, FS_CardinalityType
<1>7. /\ Cardinality(Above(v)) <= Cardinality(Above(u))
      /\ Cardinality(Above(v)) = Cardinality(Above(u)) => Above(v) = Above(u)
  BY <1>4, <1>5, FS_Subset
<1> QED
  BY <1>3, <1>4, <1>5, <1>6, <1>7

\* No two users on the board have the same rank.
LEMMA RanksDiffer ==
  ASSUME ScoresOK, NEW u \in Scored, NEW v \in Scored, u # v
  PROVE  Cardinality(Above(u)) # Cardinality(Above(v))
<1>1. CASE u \in Above(v)
  BY <1>1, FewerAbove
<1>2. CASE v \in Above(u)
  BY <1>2, FewerAbove
<1> QED
  BY <1>1, <1>2, OneIsAbove

\* The ranks are those of a board of this length.
LEMMA RankInRange ==
  ASSUME ScoresOK, NEW u \in Scored
  PROVE  /\ IsFiniteSet(Scored) /\ Cardinality(Scored) \in Nat
         /\ Cardinality(Scored) <= Cardinality(Users) /\ Cardinality(Users) \in Nat
         /\ Cardinality(Above(u)) \in 0..(Cardinality(Scored) - 1)
<1>1. IsFiniteSet(Scored) /\ Cardinality(Scored) <= Cardinality(Users)
  BY LeaderboardAssumption, FS_Subset DEF Scored
<1>2. Cardinality(Scored) \in Nat /\ Cardinality(Users) \in Nat
  BY <1>1, LeaderboardAssumption, FS_CardinalityType
<1>3. score[u] \in Nat /\ u \in Nat
  BY LeaderboardAssumption DEF ScoresOK, Scored
<1>4. Above(u) \in SUBSET (Scored \ {u})
  BY <1>3 DEF Above, Scored
<1>5. IsFiniteSet(Scored \ {u}) /\ Cardinality(Scored \ {u}) = Cardinality(Scored) - 1
  BY <1>1, FS_RemoveElement
<1>6. IsFiniteSet(Above(u)) /\ Cardinality(Above(u)) <= Cardinality(Scored) - 1
  BY <1>4, <1>5, FS_Subset
<1>7. Cardinality(Above(u)) \in Nat
  BY <1>6, FS_CardinalityType
<1> QED
  BY <1>1, <1>2, <1>6, <1>7

\* Every place of the board is held by a user.
LEMMA PlacesHeld ==
  ASSUME ScoresOK, NEW k \in 1..Cardinality(Scored)
  PROVE  \E u \in Scored : Cardinality(Above(u)) = k - 1
<1> DEFINE n == Cardinality(Scored)
           rank == [u \in Scored |-> Cardinality(Above(u))]
           T == (0..(n - 1)) \ {k - 1}
<1>1. IsFiniteSet(Scored) /\ n \in Nat
  <2>1. IsFiniteSet(Scored)
    BY LeaderboardAssumption, FS_Subset DEF Scored
  <2> QED
    BY <2>1, FS_CardinalityType
<1> SUFFICES ASSUME \A u \in Scored : Cardinality(Above(u)) # k - 1
             PROVE  FALSE
    OBVIOUS
<1>2. rank \in [Scored -> T]
  <2>1. \A u \in Scored : Cardinality(Above(u)) \in T
    BY RankInRange
  <2> QED
    BY <2>1
<1>3. IsFiniteSet(T) /\ Cardinality(T) = n - 1
  <2>1. IsFiniteSet(0..(n - 1)) /\ Cardinality(0..(n - 1)) = n
    <3>1. n - 1 \in Int /\ 0 \in Int
      BY <1>1
    <3> QED
      BY <1>1, <3>1, FS_Interval
  <2>2. k - 1 \in 0..(n - 1)
    BY <1>1
  <2> HIDE DEF n
  <2> QED
    BY <2>1, <2>2, FS_RemoveElement
<1>4. PICK u \in Scored, v \in Scored : u # v /\ rank[u] = rank[v]
  <2>1. Cardinality(T) < Cardinality(Scored)
    BY <1>1, <1>3
  <2> HIDE DEF T, rank
  <2> QED
    BY <1>1, <1>2, <1>3, <2>1, FS_PigeonHole
<1> QED
  BY <1>4, RanksDiffer

\* The board has one row for each user on it, and the row k is that of rank k - 1.
LEMMA BoardRows ==
  ASSUME ScoresOK
  PROVE  /\ Cardinality(Scored) \in Nat
         /\ Board \in Seq(Users) /\ Len(Board) = Cardinality(Scored)
         /\ \A k \in 1..Cardinality(Scored) :
              Board[k] \in Scored /\ Cardinality(Above(Board[k])) = k - 1
<1> DEFINE n == Cardinality(Scored)
           Place(k) == CHOOSE u \in Scored : Cardinality(Above(u)) = k - 1
<1>1. n \in Nat
  <2>1. IsFiniteSet(Scored)
    BY LeaderboardAssumption, FS_Subset DEF Scored
  <2> QED
    BY <2>1, FS_CardinalityType
<1>2. Board = [k \in 1..n |-> Place(k)]
  BY DEF Board, Scored
<1>3. \A k \in 1..n : Place(k) \in Scored /\ Cardinality(Above(Place(k))) = k - 1
  BY PlacesHeld
<1>4. \A k \in 1..n : Place(k) \in Users
  BY <1>3 DEF Scored
<1> HIDE DEF Place, n
<1>5. Board \in [1..n -> Users]
  BY <1>2, <1>4
<1>6. Board \in Seq(Users) /\ Len(Board) = n
  BY <1>1, <1>5
<1> QED
  BY <1>1, <1>2, <1>3, <1>6 DEF n

\* The row of a user on the board is the one of his rank.
LEMMA RowOfRank ==
  ASSUME ScoresOK, NEW u \in Scored
  PROVE  /\ Cardinality(Above(u)) + 1 \in 1..Cardinality(Scored)
         /\ Board[Cardinality(Above(u)) + 1] = u
<1>1. Cardinality(Above(u)) + 1 \in 1..Cardinality(Scored)
  BY RankInRange
<1>2. PICK k \in 1..Cardinality(Scored) : k = Cardinality(Above(u)) + 1
  BY <1>1
<1>3. Board[k] \in Scored /\ Cardinality(Above(Board[k])) = k - 1
  BY BoardRows
<1>4. k - 1 = Cardinality(Above(u))
  BY <1>2, RankInRange
<1>5. Board[k] = u
  BY <1>3, <1>4, RanksDiffer
<1> QED
  BY <1>1, <1>2, <1>5

\* ZREVRANGE with indices from the head of the board returns a part of it.
LEMMA Window ==
  ASSUME ScoresOK, NEW start \in Nat, NEW stop \in Nat
  PROVE  LET rows == ZRevRange(start, stop)
             last == IF stop <= Cardinality(Scored) - 1 THEN stop ELSE Cardinality(Scored) - 1
         IN  /\ rows \in Seq(Users)
             /\ \A k \in Nat \ {0} : start + k - 1 <= last =>
                  k \in DOMAIN rows /\ rows[k] = Board[start + k]
<1> DEFINE n == Len(Board)
           last == IF stop <= n - 1 THEN stop ELSE n - 1
           m == IF last - start + 1 <= 0 THEN 0 ELSE last - start + 1
<1>1. /\ n \in Nat /\ n = Cardinality(Scored) /\ Board \in Seq(Users)
  BY BoardRows
<1>2. last \in Int /\ m \in Nat /\ last <= n - 1
  BY <1>1
<1>3. Min({stop, n - 1}) = last
  BY <1>1, MinOfTwo
<1>4. Max({0, last - start + 1}) = m
  BY <1>2, MaxOfTwo
<1>5. ZRevRange(start, stop) = [k \in 1..m |-> Board[start + k]]
  <2>1. ~(start < 0) /\ ~(stop < 0)
    OBVIOUS
  <2> QED
    BY <1>3, <1>4, <2>1 DEF ZRevRange
<1>6. \A k \in 1..m : start + k \in 1..n
  BY <1>1, <1>2
<1>7. \A k \in 1..m : Board[start + k] \in Users
  BY <1>1, <1>6
<1>8. ZRevRange(start, stop) \in Seq(Users)
  BY <1>2, <1>5, <1>7
<1>9. \A k \in Nat \ {0} : start + k - 1 <= last => k \in 1..m
  BY <1>2
<1> QED
  BY <1>1, <1>5, <1>8, <1>9

-----------------------------------------------------------------------------
\* f has the concatenations of the first 0, 1, ..., Len(seqs) of some sequences.
PartlyFlat(f, seqs, S) == /\ f \in [0..Len(seqs) -> Seq(S)] /\ f[0] = <<>>
                          /\ \A k \in 1..Len(seqs) : f[k] = f[k - 1] \o seqs[k]

\* There is such an f.
LEMMA PartlyFlatExists ==
  ASSUME NEW S, NEW seqs \in Seq(Seq(S))
  PROVE  \E f : PartlyFlat(f, seqs, S)
<1>. DEFINE n == Len(seqs)
            B == Seq(S)
            D == [k \in 1..n |-> [v \in B |-> v \o seqs[k]]]
<1>1. n \in Nat /\ <<>> \in B /\ \A k \in 1..n : seqs[k] \in B
  OBVIOUS
<1>2. \A k \in 1..n, v \in B : v \o seqs[k] \in B
  BY <1>1, Concatenation
<1>. HIDE DEF B, n
<1>3. D \in [1..n -> [B -> B]] /\ \A k \in 1..n, v \in B : D[k][v] = v \o seqs[k]
  BY <1>2
<1>. HIDE DEF D
<1>4. PICK f \in [0..n -> B] : f[0] = <<>> /\ \A k \in 1..n : f[k] = D[k][f[k - 1]]
  <2>1. \E f : Iterates(f, B, n, D, <<>>)
    BY <1>1, <1>3, Iteration
  <2>. QED  BY <2>1 DEF Iterates
<1>5. \A k \in 1..n : f[k] = f[k - 1] \o seqs[k]
  <2>. TAKE k \in 1..n
  <2>1. k - 1 \in 0..n
    BY <1>1
  <2>2. f[k - 1] \in B
    BY <1>4, <2>1
  <2>. QED  BY <1>3, <1>4, <2>2
<1>. QED  BY <1>4, <1>5 DEF PartlyFlat, n, B

\* The last of them is what FlattenSeq computes.
LEMMA FlattenIs ==
  ASSUME NEW S, NEW seqs \in Seq(Seq(S)), NEW f, PartlyFlat(f, seqs, S)
  PROVE  FlattenSeq(seqs) = f[Len(seqs)]
<1>. DEFINE n == Len(seqs)
            g == CHOOSE u : u = [i \in 1..n |-> IF i = 1 THEN seqs[i] ELSE u[i - 1] \o seqs[i]]
            h == [i \in 1..n |-> f[i]]
            T == {k \in 0..n : k = 0 \/ g[k] = f[k]}
<1>1. n \in Nat /\ \A k \in 1..n : seqs[k] \in Seq(S)
  OBVIOUS
<1>2. /\ f \in [0..n -> Seq(S)] /\ f[0] = <<>> /\ \A k \in 1..n : f[k] = f[k - 1] \o seqs[k]
  BY DEF PartlyFlat
<1>3. n = 0 => FlattenSeq(seqs) = f[n]
  <2>1. n = 0 => seqs = <<>>
    OBVIOUS
  <2>. QED  BY <1>2, <2>1 DEF FlattenSeq
<1>4. n # 0 => FlattenSeq(seqs) = g[n]
  BY DEF FlattenSeq
<1>. HIDE DEF g, n
<1>5. n # 0 => f[1] = seqs[1]
  <2>. SUFFICES ASSUME n # 0 PROVE f[1] = seqs[1]
    OBVIOUS
  <2>1. 1 \in 1..n /\ 1 - 1 = 0
    BY <1>1
  <2>2. f[1] = <<>> \o seqs[1] /\ seqs[1] \in Seq(S)
    BY <1>1, <1>2, <2>1
  <2>. QED  BY <2>2
<1>6. h = [i \in 1..n |-> IF i = 1 THEN seqs[i] ELSE h[i - 1] \o seqs[i]]
  <2>1. ASSUME NEW i \in 1..n PROVE h[i] = IF i = 1 THEN seqs[i] ELSE h[i - 1] \o seqs[i]
    <3>1. CASE i = 1
      BY <1>1, <1>5, <3>1
    <3>2. CASE i # 1
      <4>1. i - 1 \in 1..n
        BY <1>1, <3>2
      <4>. QED  BY <1>2, <3>2, <4>1
    <3>. QED  BY <3>1, <3>2
  <2>2. h = [i \in 1..n |-> h[i]]
    OBVIOUS
  <2>. HIDE DEF h
  <2>. QED  BY <2>1, <2>2
<1>7. g = [i \in 1..n |-> IF i = 1 THEN seqs[i] ELSE g[i - 1] \o seqs[i]]
  BY <1>6 DEF g
<1>8. 0 \in T /\ \A k \in 1..n : k - 1 \in T => k \in T
  <2>1. 0 \in T
    BY <1>1
  <2>2. ASSUME NEW k \in 1..n, k - 1 \in T PROVE k \in T
    <3>1. CASE k = 1
      BY <1>5, <1>7, <3>1
    <3>2. CASE k # 1
      <4>1. g[k - 1] = f[k - 1]
        BY <2>2, <3>2
      <4>2. g[k] = g[k - 1] \o seqs[k]
        BY <1>7, <3>2
      <4>3. g[k] = f[k]
        BY <1>2, <4>1, <4>2, Zenon
      <4>. QED  BY <4>3
    <3>. QED  BY <3>1, <3>2
  <2>. QED  BY <2>1, <2>2
<1>9. n # 0 => g[n] = f[n]
  <2>1. \A k \in 0..n : k \in T
    <3>. HIDE DEF T
    <3>. QED  BY <1>1, <1>8, Induction
  <2>. QED  BY <1>1, <2>1
<1>. QED  BY <1>3, <1>4, <1>9 DEF n

\* Nothing is flattened to nothing.
LEMMA FlattenEmpty == FlattenSeq(<<>>) = <<>>
BY DEF FlattenSeq

\* One more sequence is appended to the flat one.
LEMMA FlattenAppend ==
  ASSUME NEW S, NEW seqs \in Seq(Seq(S)), NEW p \in Seq(S)
  PROVE  /\ FlattenSeq(seqs) \in Seq(S)
         /\ FlattenSeq(Append(seqs, p)) = FlattenSeq(seqs) \o p
<1>. DEFINE B == Seq(S)
            n == Len(seqs)
            r == Append(seqs, p)
<1>1. PICK f : PartlyFlat(f, seqs, S)
  BY PartlyFlatExists
<1>2. /\ n \in Nat /\ r \in Seq(B) /\ Len(r) = n + 1 /\ r[n + 1] = p
      /\ \A k \in 1..n : r[k] = seqs[k]
  OBVIOUS
<1>3. /\ f \in [0..n -> B] /\ f[0] = <<>> /\ \A k \in 1..n : f[k] = f[k - 1] \o seqs[k]
  BY <1>1 DEF PartlyFlat
<1>4. FlattenSeq(seqs) = f[n] /\ f[n] \in B /\ f[n] \o p \in B
  <2>1. FlattenSeq(seqs) = f[n]
    BY <1>1, FlattenIs
  <2>2. n \in 0..n
    BY <1>2
  <2>. QED  BY <1>3, <2>1, <2>2, Concatenation
<1>. HIDE DEF n, r, B
<1>. DEFINE g == [k \in 0..(n + 1) |-> IF k = n + 1 THEN f[n] \o p ELSE f[k]]
<1>5. /\ g \in [0..(n + 1) -> B] /\ g[n + 1] = f[n] \o p /\ \A k \in 0..n : g[k] = f[k]
  BY <1>2, <1>3, <1>4
<1>. HIDE DEF g
<1>6. \A k \in 1..(n + 1) : g[k] = g[k - 1] \o r[k]
  <2>. TAKE k \in 1..(n + 1)
  <2>1. k - 1 \in 0..n /\ (k = n + 1 \/ k \in 1..n)
    BY <1>2
  <2>2. CASE k = n + 1
    <3>1. g[k] = f[n] \o p /\ g[k - 1] = f[n] /\ r[k] = p
      BY <1>2, <1>5, <2>1, <2>2
    <3>. QED  BY <3>1
  <2>3. CASE k \in 1..n
    <3>1. k \in 0..n
      BY <2>3
    <3>2. g[k] = f[k] /\ g[k - 1] = f[k - 1] /\ r[k] = seqs[k]
      BY <1>2, <1>5, <2>1, <2>3, <3>1
    <3>. QED  BY <1>3, <2>3, <3>2
  <2>. QED  BY <2>1, <2>2, <2>3
<1>7. PartlyFlat(g, r, S)
  <2>1. g[0] = <<>> /\ Len(r) = n + 1
    BY <1>2, <1>3, <1>5
  <2>. QED  BY <1>5, <1>6, <2>1 DEF PartlyFlat, B
<1>8. FlattenSeq(r) = g[n + 1]
  BY <1>2, <1>7, FlattenIs DEF B
<1>. QED  BY <1>4, <1>5, <1>8 DEF r, B

\* A sequence that is not empty is its front with its last element appended.
LEMMA FrontAndLast ==
  ASSUME NEW S, NEW s \in Seq(S), s # <<>>
  PROVE  /\ Len(s) \in Nat \ {0} /\ Front(s) \in Seq(S) /\ Last(s) \in S
         /\ Len(Front(s)) = Len(s) - 1 /\ Last(s) = s[Len(s)]
         /\ \A k \in 1..(Len(s) - 1) : Front(s)[k] = s[k]
         /\ s = Append(Front(s), Last(s))
<1>1. Len(s) \in Nat \ {0}
  OBVIOUS
<1>2. /\ Front(s) \in Seq(S) /\ Len(Front(s)) = Len(s) - 1
      /\ \A k \in 1..(Len(s) - 1) : Front(s)[k] = s[k]
  <2>1. Len(s) - 1 \in 0..Len(s)
    BY <1>1
  <2>. QED  BY <2>1, Prefix DEF Front
<1>3. Last(s) \in S /\ Last(s) = s[Len(s)]
  BY <1>1 DEF Last
<1>. DEFINE r == Append(Front(s), Last(s))
<1>4. r \in Seq(S) /\ Len(r) = Len(s) /\ \A k \in 1..Len(s) : r[k] = s[k]
  BY <1>1, <1>2, <1>3
<1>. HIDE DEF r
<1>5. s = r
  BY <1>4, SameElements
<1>. QED  BY <1>1, <1>2, <1>3, <1>5 DEF r

-----------------------------------------------------------------------------
\* The lengths a line may have, and a packet's body of such lines.
LineSize == 1..MaxBody
Body == Seq(LineSize)

\* out is a reply cut correctly: it has the lines done, and no packet is too long, nor
\* empty when it has to be sent.
Cut(out, done) ==
  /\ out \in Seq(Body) /\ out # <<>> /\ done \in Body
  /\ FlattenSeq(out) = done
  /\ \A k \in 1..Len(out) : /\ Bytes(out[k]) <= MaxBody
                            /\ (k < Len(out) \/ done # <<>>) => out[k] # <<>>

\* The bytes of a body, and of one with one line more.
LEMMA BodyBytes ==
  ASSUME NEW body \in Body, NEW line \in LineSize
  PROVE  /\ Bytes(body) \in Int /\ Bytes(Append(body, line)) = Bytes(body) + line
         /\ Bytes(<<>>) = 0 /\ Bytes(<<line>>) = line
         /\ Append(body, line) \in Body /\ <<line>> \in Body /\ <<>> \in Body
<1>1. MaxBody \in Nat
  BY LeaderboardAssumption
<1>2. line \in Int /\ body \in Seq(Int) /\ <<>> \in Seq(Int)
  BY <1>1 DEF Body, LineSize
<1>3. Total(body) \in Int /\ Total(Append(body, line)) = Total(body) + line
  BY <1>2, TotalAppend
<1>4. Total(Append(<<>>, line)) = Total(<<>>) + line
  BY <1>2, TotalAppend
<1>5. Append(<<>>, line) = <<line>>
  OBVIOUS
<1>6. Append(body, line) \in Body /\ <<line>> \in Body /\ <<>> \in Body
  BY DEF Body
<1>. QED  BY <1>2, <1>3, <1>4, <1>5, <1>6, TotalEmpty DEF Bytes

\* One more packet at the end adds its lines to those of the others.
LEMMA BodiesFlat ==
  ASSUME NEW bodies \in Seq(Body), NEW p \in Body
  PROVE  /\ FlattenSeq(bodies) \in Body
         /\ FlattenSeq(Append(bodies, p)) = FlattenSeq(bodies) \o p
<1>1. bodies \in Seq(Seq(LineSize)) /\ p \in Seq(LineSize)
  BY DEF Body
<1>. QED  BY <1>1, FlattenAppend DEF Body

\* A line more in the last body is a line more in all.
LEMMA AppendLine ==
  ASSUME NEW s \in Body, NEW body \in Body, NEW line \in LineSize
  PROVE  s \o Append(body, line) = Append(s \o body, line)
<1>1. s \in Seq(LineSize) /\ body \in Seq(LineSize)
  BY DEF Body
<1>. QED  BY <1>1, AppendToConcatenation

\* One more line keeps the cut right: it goes into the last packet, or starts the next.
LEMMA AddLineCuts ==
  ASSUME NEW out, NEW done, Cut(out, done), NEW line \in LineSize
  PROVE  Cut(AddLine(out, line), Append(done, line))
<1>. DEFINE n == Len(out)
            front == Front(out)
            last == Last(out)
<1>1. /\ out \in Seq(Body) /\ out # <<>> /\ done \in Body /\ FlattenSeq(out) = done
      /\ \A k \in 1..n : /\ Bytes(out[k]) <= MaxBody
                         /\ (k < n \/ done # <<>>) => out[k] # <<>>
  BY DEF Cut
<1>2. /\ n \in Nat \ {0} /\ front \in Seq(Body) /\ last \in Body
      /\ Len(front) = n - 1 /\ last = out[n]
      /\ \A k \in 1..(n - 1) : front[k] = out[k]
      /\ out = Append(front, last)
  BY <1>1, FrontAndLast
<1>3. /\ Bytes(last) \in Int /\ Bytes(Append(last, line)) = Bytes(last) + line
      /\ Bytes(<<>>) = 0 /\ Bytes(<<line>>) = line
      /\ Append(last, line) \in Body /\ <<line>> \in Body
      /\ line \in 1..MaxBody /\ MaxBody \in Nat
  BY <1>2, BodyBytes, LeaderboardAssumption DEF LineSize
<1>4. Append(done, line) \in Body /\ Append(done, line) # <<>>
  <2>. DEFINE L == LineSize
  <2>1. line \in L /\ done \in Seq(L)
    BY <1>1 DEF Body
  <2>. HIDE DEF L
  <2>2. Append(done, line) \in Seq(L) /\ Len(Append(done, line)) = Len(done) + 1
    BY <2>1
  <2>3. Len(done) \in Nat /\ Len(<<>>) = 0
    BY <2>1
  <2>4. Append(done, line) # <<>>
    BY <2>2, <2>3
  <2>. QED  BY <2>2, <2>4 DEF Body, L
<1>. HIDE DEF n, front, last
<1>5. CASE Bytes(last) + line > MaxBody
  <2>. DEFINE r == Append(out, <<line>>)
  <2>1. AddLine(out, line) = r
    BY <1>5 DEF AddLine, last
  <2>2. /\ r \in Seq(Body) /\ r # <<>> /\ Len(r) = n + 1 /\ r[n + 1] = <<line>>
        /\ \A k \in 1..n : r[k] = out[k]
    BY <1>1, <1>2, <1>3 DEF n
  <2>3. FlattenSeq(r) = Append(done, line)
    <3>1. FlattenSeq(r) = done \o <<line>>
      BY <1>1, <1>3, BodiesFlat
    <3>2. Append(done, line) = done \o <<line>>
      BY <1>1 DEF Body
    <3>. QED  BY <3>1, <3>2
  <2>4. last # <<>>
    BY <1>3, <1>5
  <2>. HIDE DEF r
  <2>5. ASSUME NEW k \in 1..(n + 1) PROVE Bytes(r[k]) <= MaxBody /\ r[k] # <<>>
    <3>1. CASE k = n + 1
      <4>1. Bytes(r[k]) = line /\ r[k] = <<line>>
        BY <1>3, <2>2, <3>1
      <4>. QED  BY <1>3, <4>1
    <3>2. CASE k \in 1..n
      <4>1. r[k] = out[k] /\ Bytes(out[k]) <= MaxBody /\ (k = n \/ k < n)
        BY <1>1, <1>2, <2>2, <3>2
      <4>. QED  BY <1>1, <1>2, <2>4, <3>2, <4>1
    <3>. QED  BY <1>2, <3>1, <3>2
  <2>. QED  BY <1>4, <2>1, <2>2, <2>3, <2>5 DEF Cut
<1>6. CASE ~(Bytes(last) + line > MaxBody)
  <2>. DEFINE p == Append(last, line)
              r == Append(front, p)
  <2>1. AddLine(out, line) = r
    BY <1>6 DEF AddLine, last, front
  <2>. HIDE DEF p
  <2>2. p \in Body /\ Bytes(p) <= MaxBody /\ p # <<>>
    <3>1. p # <<>>
      BY <1>2 DEF Body, p
    <3>. QED  BY <1>3, <1>6, <3>1 DEF p
  <2>3. /\ r \in Seq(Body) /\ r # <<>> /\ Len(r) = n /\ r[n] = p
        /\ \A k \in 1..(n - 1) : r[k] = out[k]
    BY <1>2, <2>2
  <2>4. FlattenSeq(r) = Append(done, line)
    <3>1. FlattenSeq(front) \in Body /\ FlattenSeq(out) = FlattenSeq(front) \o last
      BY <1>2, BodiesFlat
    <3>2. FlattenSeq(r) = FlattenSeq(front) \o p
      BY <1>2, <2>2, BodiesFlat
    <3>3. FlattenSeq(front) \o Append(last, line) = Append(FlattenSeq(front) \o last, line)
      BY <1>2, <3>1, AppendLine
    <3>. QED  BY <1>1, <3>1, <3>2, <3>3 DEF p
  <2>. HIDE DEF r
  <2>5. ASSUME NEW k \in 1..n PROVE Bytes(r[k]) <= MaxBody /\ r[k] # <<>>
    <3>1. CASE k = n
      BY <2>2, <2>3, <3>1
    <3>2. CASE k \in 1..(n - 1)
      <4>1. k \in 1..n /\ k < n /\ r[k] = out[k]
        BY <1>2, <2>3, <3>2
      <4>. QED  BY <1>1, <4>1
    <3>. QED  BY <1>2, <3>1, <3>2
  <2>. QED  BY <1>4, <2>1, <2>2, <2>3, <2>4, <2>5 DEF Cut
<1>. QED  BY <1>5, <1>6

\* Packets cuts every reply right: AddLine, one line after the other.
LEMMA PacketsCut ==
  ASSUME NEW lines \in Body
  PROVE  Cut(Packets(lines), lines)
<1>. DEFINE n == Len(lines)
            O == Seq(Body) \ {<<>>}
            D == [k \in 1..n |-> [out \in O |-> AddLine(out, lines[k])]]
            g == CHOOSE u : u = [k \in 0..n |-> IF k = 0 THEN << <<>> >>
                                                ELSE AddLine(u[k - 1], lines[k])]
            T == {k \in 0..n : Cut(g[k], SubSeq(lines, 1, k))}
<1>1. /\ n \in Nat /\ <<>> \in Body /\ << <<>> >> \in O /\ lines \in Seq(LineSize)
      /\ \A k \in 1..n : lines[k] \in LineSize
  <2>1. <<>> \in Body
    BY DEF Body
  <2>2. << <<>> >> \in Seq(Body) /\ << <<>> >> # <<>>
    BY <2>1
  <2>. QED  BY <2>1, <2>2 DEF Body
<1>2. Packets(lines) = g[n]
  BY DEF Packets
<1>. HIDE DEF n
<1>3. ASSUME NEW out \in O, NEW line \in LineSize PROVE AddLine(out, line) \in O
  <2>1. Front(out) \in Seq(Body) /\ Last(out) \in Body
    BY FrontAndLast
  <2>2. Append(Last(out), line) \in Body /\ <<line>> \in Body
    BY <2>1, BodyBytes
  <2>3. Append(out, <<line>>) \in O
    BY <2>2
  <2>4. Append(Front(out), Append(Last(out), line)) \in O
    <3>. DEFINE r == Append(Front(out), Append(Last(out), line))
    <3>1. r \in Seq(Body) /\ Len(r) = Len(Front(out)) + 1 /\ Len(Front(out)) \in Nat
      BY <2>1, <2>2
    <3>2. r # <<>>
      BY <3>1
    <3>. QED  BY <3>1, <3>2
  <2>. QED  BY <2>3, <2>4 DEF AddLine
<1>. HIDE DEF O
<1>4. D \in [1..n -> [O -> O]] /\ \A k \in 1..n, out \in O : D[k][out] = AddLine(out, lines[k])
  BY <1>1, <1>3
<1>. HIDE DEF D
<1>5. PICK f \in [0..n -> O] : f[0] = << <<>> >> /\ \A k \in 1..n : f[k] = D[k][f[k - 1]]
  <2>1. \E f : Iterates(f, O, n, D, << <<>> >>)
    BY <1>1, <1>4, Iteration
  <2>. QED  BY <2>1 DEF Iterates
<1>6. f = [k \in 0..n |-> IF k = 0 THEN << <<>> >> ELSE AddLine(f[k - 1], lines[k])]
  <2>1. ASSUME NEW k \in 0..n
        PROVE  f[k] = IF k = 0 THEN << <<>> >> ELSE AddLine(f[k - 1], lines[k])
    <3>1. CASE k = 0
      BY <1>5, <3>1
    <3>2. CASE k # 0
      <4>1. k \in 1..n /\ k - 1 \in 0..n
        BY <1>1, <3>2
      <4>2. f[k - 1] \in O
        BY <1>5, <4>1
      <4>. QED  BY <1>4, <1>5, <3>2, <4>1, <4>2
    <3>. QED  BY <3>1, <3>2
  <2>. QED  BY <1>5, <2>1
<1>7. g = [k \in 0..n |-> IF k = 0 THEN << <<>> >> ELSE AddLine(g[k - 1], lines[k])]
  BY <1>6
<1>. HIDE DEF g
<1>8. 0 \in T
  <2>1. g[0] = << <<>> >> /\ SubSeq(lines, 1, 0) = <<>>
    BY <1>1, <1>7
  <2>2. FlattenSeq(<< <<>> >>) = <<>>
    <3>1. FlattenSeq(Append(<<>>, <<>>)) = FlattenSeq(<<>>) \o <<>>
      <4>1. <<>> \in Seq(Seq({})) /\ <<>> \in Seq({})
        OBVIOUS
      <4>. QED  BY <4>1, FlattenAppend
    <3>2. Append(<<>>, <<>>) = << <<>> >> /\ <<>> \o <<>> = <<>>
      OBVIOUS
    <3>. QED  BY <3>1, <3>2, FlattenEmpty
  <2>3. Bytes(<<>>) <= MaxBody
    BY TotalEmpty, LeaderboardAssumption DEF Bytes
  <2>4. Cut(<< <<>> >>, <<>>)
    BY <1>1, <2>2, <2>3 DEF Cut, O
  <2>. QED  BY <1>1, <2>1, <2>4
<1>9. ASSUME NEW k \in 1..n, k - 1 \in T PROVE k \in T
  <2>1. g[k] = AddLine(g[k - 1], lines[k])
    <3>1. k \in 0..n /\ k # 0
      BY <1>1
    <3>. QED  BY <1>7, <3>1
  <2>2. Cut(g[k - 1], SubSeq(lines, 1, k - 1))
    BY <1>9
  <2>3. Append(SubSeq(lines, 1, k - 1), lines[k]) = SubSeq(lines, 1, k)
    BY <1>1 DEF n
  <2>4. Cut(g[k], SubSeq(lines, 1, k))
    <3>1. lines[k] \in LineSize
      BY <1>1
    <3>. QED  BY <2>1, <2>2, <2>3, <3>1, AddLineCuts
  <2>. QED  BY <2>4
<1>10. n \in T
  <2>. HIDE DEF T
  <2>1. \A k \in 0..n : k \in T
    BY <1>1, <1>8, <1>9, Induction
  <2>. QED  BY <1>1, <2>1
<1>11. SubSeq(lines, 1, n) = lines
  BY <1>1 DEF n
<1>. QED  BY <1>2, <1>10, <1>11

-----------------------------------------------------------------------------
Task == [pc : {"idle", "update", "rank_of", "top", "names", "reply"},
         user : Users \cup {0}, total : 0..MaxPower, rank : -1..(Cardinality(Users) - 1),
         rows : Seq(Users), lines : Seq({HeadBytes, RowBytes, UnknownBytes})]

\* The variables other than th.
RestOK ==
  /\ power \in [Users -> 0..MaxPower] /\ ScoresOK
  /\ named \subseteq Users /\ missed \subseteq Users /\ nameless \subseteq Users
  /\ crossed \subseteq Users
  /\ home \in [Users -> Consumers \cup {NoConsumer}]

\* TypeOK in two parts: the tasks of the consumers, and the rest.
LEMMA TypesSplit == TypeOK <=> RestOK /\ th \in [Consumers -> Task]
BY DEF TypeOK, RestOK, ScoresOK, Task

\* An idle consumer's task.
LEMMA IdleOK == Idle \in Task
<1>1. Cardinality(Users) \in Nat
  BY LeaderboardAssumption, FS_CardinalityType
<1>2. <<>> \in Seq(Users) /\ <<>> \in Seq({HeadBytes, RowBytes, UnknownBytes})
  OBVIOUS
<1>3. 0 \in 0..MaxPower /\ -1 \in -1..(Cardinality(Users) - 1)
  BY <1>1, LeaderboardAssumption
<1> QED
  BY <1>2, <1>3 DEF Idle, Task

\* The window of a request lies on the board.
LEMMA FirstOK ==
  ASSUME NEW rank \in -1..(Cardinality(Users) - 1)
  PROVE  /\ First(rank) \in Nat
         /\ (IF rank < 0 THEN TopN - 1 ELSE rank + Span) \in Nat
         /\ rank >= 0 => First(rank) <= rank
<1>1. rank \in Int /\ Span \in Nat /\ TopN \in Nat \ {0} /\ rank - Span \in Int
  BY LeaderboardAssumption, FS_CardinalityType
<1>2. First(rank) = IF 0 >= rank - Span THEN 0 ELSE rank - Span
  BY <1>1, MaxOfTwo DEF First
<1> QED
  BY <1>1, <1>2

\* The lines of a reply are headings and rows, at least one.
LEMMA LinesOK ==
  ASSUME NEW rows \in Seq(Users)
  PROVE  Lines(rows) \in Seq({HeadBytes, RowBytes, UnknownBytes}) /\ Lines(rows) # <<>>
<1> DEFINE L == {HeadBytes, RowBytes, UnknownBytes}
           body == [k \in DOMAIN rows |-> IF rows[k] \in named THEN RowBytes ELSE UnknownBytes]
<1>1. <<HeadBytes>> \in Seq(L)
  OBVIOUS
<1>2. body \in Seq(L)
  <2>1. DOMAIN rows = 1..Len(rows) /\ Len(rows) \in Nat
    OBVIOUS
  <2> QED
    BY <2>1
<1> HIDE DEF L, body
<1>3. <<HeadBytes>> \o body \in Seq(L) /\ Len(<<HeadBytes>> \o body) = 1 + Len(body)
  BY <1>1, <1>2
<1>4. Len(body) \in Nat /\ Len(<<>>) = 0
  BY <1>2
<1>5. <<HeadBytes>> \o body # <<>>
  BY <1>3, <1>4
<1> QED
  BY <1>3, <1>5 DEF Lines, L, body

\* A reply is made for the user who asked.
LEMMA AnswerOK ==
  ASSUME NEW t \in Task, NEW rows \in Seq(Users)
  PROVE  [Idle EXCEPT !.pc = "reply", !.user = t.user, !.lines = Lines(rows)] \in Task
BY IdleOK, LinesOK DEF Task, Idle

\* The variables have their types at the start.
LEMMA InitTypes == Init => TypeOK
<1> SUFFICES ASSUME Init PROVE TypeOK
    OBVIOUS
<1>1. RestOK
  BY LeaderboardAssumption DEF Init, RestOK, ScoresOK
<1>2. th \in [Consumers -> Task]
  BY IdleOK DEF Init
<1> QED
  BY <1>1, <1>2, TypesSplit

\* A consumer that is busy works for a user.
BusyOK == \A c \in Consumers : th[c].pc # "idle" => th[c].user \in Users

\* A step that continues a task ends it, or goes on to another step of a ranking command;
\* a reply has a line at least.
GoesOn(c) ==
  \/ th' = [th EXCEPT ![c] = Idle]
  \/ \E t \in Task : /\ th' = [th EXCEPT ![c] = t] /\ t.user = th[c].user
                     /\ t.pc \notin {"idle", "update"} /\ ~Update(c)
                     /\ t.pc = "reply" => t.lines # <<>>

\* Each step of a handler works for a user and gives its consumer a well-typed task: ranks,
\* rows and lines stay in their ranges.
LEMMA ContinueTask ==
  ASSUME TypeOK, BusyOK, NEW c \in Consumers, Continue(c)
  PROVE  th[c].pc # "idle" /\ th[c].user \in Users /\ GoesOn(c)
<1>1. RestOK /\ th[c] \in Task
  BY TypesSplit
<1>2. ScoresOK
  BY <1>1 DEF RestOK
<1>3. th[c].pc # "idle"
  BY DEF Continue, Update, RankOf, Top, Names, Reply, At
<1>4. th[c].user \in Users
  BY <1>3 DEF BusyOK
<1>5. CASE Update(c) \/ Reply(c)
  BY <1>3, <1>4, <1>5 DEF Update, Reply, Finish, GoesOn
<1>6. CASE RankOf(c)
  <2> DEFINE rank == RankNow(th[c].user)
             t == [th[c] EXCEPT !.pc = "top", !.rank = rank]
  <2>1. \/ th' = [th EXCEPT ![c] = Idle]
        \/ rank >= 0 /\ th' = [th EXCEPT ![c] = t]
    BY <1>6 DEF RankOf, Finish
  <2>2. CASE rank >= 0 /\ th' = [th EXCEPT ![c] = t]
    <3>1. PICK u \in Users : u = th[c].user
      BY <1>4
    <3>2. u \in Scored /\ rank = Cardinality(Above(u))
      BY <2>2, <3>1 DEF RankNow, Scored
    <3>3. rank \in -1..(Cardinality(Users) - 1)
      BY <1>2, <3>2, RankInRange
    <3> HIDE DEF rank
    <3>4. t \in Task /\ t.user = th[c].user /\ t.pc = "top"
      BY <1>1, <3>3 DEF Task
    <3>5. ~Update(c)
      BY <1>6 DEF RankOf, Update, At
    <3> HIDE DEF t
    <3> QED
      BY <1>3, <1>4, <2>2, <3>4, <3>5 DEF GoesOn
  <2> QED
    BY <1>3, <1>4, <2>1, <2>2 DEF GoesOn
<1>7. ASSUME NEW rows \in Seq(Users), AnswerWith(c, rows), th[c].pc \in {"top", "names"}
      PROVE  GoesOn(c)
  <2> DEFINE t == [Idle EXCEPT !.pc = "reply", !.user = th[c].user, !.lines = Lines(rows)]
  <2>1. t \in Task
    BY <1>1, AnswerOK
  <2>2. t.user = th[c].user /\ t.pc = "reply" /\ th' = [th EXCEPT ![c] = t]
    BY <1>7 DEF Idle, AnswerWith
  <2>3. ~Update(c)
    BY <1>7 DEF Update, At
  <2>4. t.lines # <<>>
    BY LinesOK DEF Idle
  <2> HIDE DEF t
  <2> QED
    BY <2>1, <2>2, <2>3, <2>4 DEF GoesOn
<1>8. ASSUME AnswerEmpty(c), th[c].pc \in {"top", "names"} PROVE GoesOn(c)
  <2>1. <<>> \in Seq(Users)
    OBVIOUS
  <2> QED
    BY <1>7, <1>8, <2>1 DEF AnswerEmpty, Finish, GoesOn
<1>9. CASE Top(c)
  <2> DEFINE rank == th[c].rank
             stop == IF rank < 0 THEN TopN - 1 ELSE rank + Span
             rows == ZRevRange(First(rank), stop)
             t == [th[c] EXCEPT !.pc = "names", !.rows = rows]
  <2>1. th[c].pc = "top" /\ (th' = [th EXCEPT ![c] = t] \/ AnswerEmpty(c))
    BY <1>9 DEF Top, At
  <2>2. rows \in Seq(Users)
    <3>1. First(rank) \in Nat /\ stop \in Nat
      BY <1>1, FirstOK DEF Task
    <3> HIDE DEF rank, stop
    <3> QED
      BY <1>2, <3>1, Window
  <2> HIDE DEF rows
  <2>3. t \in Task /\ t.user = th[c].user /\ t.pc = "names"
    BY <1>1, <2>2 DEF Task
  <2>4. ~Update(c)
    BY <2>1 DEF Update, At
  <2> HIDE DEF t
  <2> QED
    BY <1>3, <1>4, <1>8, <2>1, <2>3, <2>4 DEF GoesOn
<1>10. CASE Names(c)
  <2>1. th[c].pc = "names" /\ (AnswerWith(c, th[c].rows) \/ AnswerEmpty(c))
    BY <1>10 DEF Names, At
  <2>2. PICK rows \in Seq(Users) : rows = th[c].rows
    BY <1>1 DEF Task
  <2> QED
    BY <1>3, <1>4, <1>7, <1>8, <2>1, <2>2
<1> QED
  BY <1>5, <1>6, <1>9, <1>10 DEF Continue

\* A consumer's new task, and any well-typed values of the other variables.
LEMMA TaskTypes ==
  ASSUME TypeOK, NEW c \in Consumers, NEW t \in Task, th' = [th EXCEPT ![c] = t], RestOK'
  PROVE  TypeOK'
<1> DEFINE K == Task
<1>1. th \in [Consumers -> K]
  BY TypesSplit
<1> HIDE DEF K
<1>2. t \in K
  BY DEF K
<1>3. th' \in [Consumers -> K]
  BY <1>1, <1>2
<1> QED
  BY <1>3 DEF K, TypeOK, RestOK, ScoresOK, Task

\* The task a ranking command begins with.
LEMMA BeginOK ==
  ASSUME NEW u \in Users, NEW pc \in {"top", "rank_of"}
  PROVE  [Idle EXCEPT !.pc = pc, !.user = u] \in Task
BY IdleOK DEF Idle, Task

\* Every step keeps the types.
LEMMA NextTypes == TypeOK /\ BusyOK /\ [Next]_vars => TypeOK'
<1> SUFFICES ASSUME TypeOK, BusyOK, [Next]_vars PROVE TypeOK'
    OBVIOUS
<1>1. RestOK /\ th \in [Consumers -> Task]
  BY TypesSplit
<1>2. ASSUME NEW c \in Consumers, NEW u \in Users, Login(c, u) PROVE TypeOK'
  BY <1>2 DEF Login, TypeOK
<1>3. ASSUME NEW c \in Consumers, NEW u \in Users, Commit(c, u) PROVE TypeOK'
  <2>1. PICK p \in 1..MaxPower :
          /\ power' = [power EXCEPT ![u] = p]
          /\ th' = [th EXCEPT ![c] = [Idle EXCEPT !.pc = "update", !.user = u, !.total = p]]
    BY <1>3 DEF Commit
  <2>2. RestOK'
    BY <1>1, <1>3, <2>1, LeaderboardAssumption DEF RestOK, ScoresOK, Commit, redis
  <2> DEFINE t == [Idle EXCEPT !.pc = "update", !.user = u, !.total = p]
  <2>3. t \in Task
    <3>1. p \in 0..MaxPower
      BY LeaderboardAssumption
    <3> QED
      BY <3>1, IdleOK DEF Idle, Task
  <2> HIDE DEF t
  <2>4. th' = [th EXCEPT ![c] = t]
    BY <2>1 DEF t
  <2> QED
    BY <2>2, <2>3, <2>4, TaskTypes
<1>4. ASSUME NEW c \in Consumers, NEW u \in Users, ShowRanker(c, u) \/ ShowMyRank(c, u)
      PROVE  TypeOK'
  <2>1. RestOK'
    BY <1>1, <1>4 DEF ShowRanker, ShowMyRank, redis, RestOK, ScoresOK
  <2>2. PICK pc \in {"top", "rank_of"} :
          th' = [th EXCEPT ![c] = [Idle EXCEPT !.pc = pc, !.user = u]]
    BY <1>4 DEF ShowRanker, ShowMyRank, Begin
  <2> QED
    BY <2>1, <2>2, BeginOK, TaskTypes
<1>5. ASSUME NEW c \in Consumers, Continue(c) PROVE TypeOK'
  <2>1. th[c] \in Task /\ th[c].user \in Users /\ GoesOn(c)
    BY <1>1, <1>5, ContinueTask
  <2>2. RestOK'
    <3>1. CASE Update(c)
      <4>1. th[c].total \in 0..MaxPower
        BY <2>1 DEF Task
      <4> QED
        BY <1>1, <2>1, <3>1, <4>1 DEF Update, RestOK, ScoresOK
    <3>2. CASE ~Update(c)
      BY <1>1, <1>5, <3>2 DEF Continue, RankOf, Top, Names, Reply, redis, RestOK, ScoresOK
    <3> QED
      BY <3>1, <3>2
  <2> QED
    BY <2>1, <2>2, IdleOK, TaskTypes DEF GoesOn
<1>6. ASSUME NEW u \in Users, Disconnect(u) PROVE TypeOK'
  BY <1>6 DEF Disconnect, TypeOK, redis
<1>7. CASE Restart
  <2>1. th' \in [Consumers -> Task]
    BY <1>7, IdleOK DEF Restart
  <2>2. ScoresOK'
    <3>1. \/ score' = score
          \/ score' = [u \in Users |-> Unranked]
          \/ score' = [u \in Users |-> IF u \in Ranked THEN power[u] ELSE Unranked]
      BY <1>7 DEF Restart
    <3> QED
      BY <1>1, <3>1 DEF RestOK, ScoresOK
  <2>3. (/\ named \subseteq Users /\ missed \subseteq Users /\ nameless \subseteq Users
         /\ crossed \subseteq Users)'
    BY <1>1, <1>7 DEF RestOK, Restart, Ranked
  <2>4. (power \in [Users -> 0..MaxPower] /\ home \in [Users -> Consumers \cup {NoConsumer}])'
    BY <1>1, <1>7 DEF RestOK, Restart
  <2> QED
    BY <2>1, <2>2, <2>3, <2>4 DEF TypeOK, ScoresOK, Task
<1>8. CASE UNCHANGED vars
  BY <1>8 DEF vars, TypeOK
<1> QED
  BY <1>2, <1>3, <1>4, <1>5, <1>6, <1>7, <1>8 DEF Next

-----------------------------------------------------------------------------
\* A score is one that the user's items had once, and so is a total about to be published;
\* it is the present one if no other crossed it.
TotalsOK ==
  /\ \A u \in Users : score[u] # Unranked => score[u] <= power[u]
  /\ \A c \in Consumers : th[c].pc = "update" =>
       /\ th[c].total \in 1..power[th[c].user]
       /\ th[c].user \in crossed \/ th[c].total = power[th[c].user]

HasName(u) == u \in named \/ u \in nameless

\* A name was written, or not, for every user that is on line, has a command under way
\* or is ranked.
NamesOK ==
  /\ \A u \in Users : (score[u] # Unranked \/ home[u] # NoConsumer) => HasName(u)
  /\ \A c \in Consumers : th[c].pc # "idle" => HasName(th[c].user)

IInv == TypeOK /\ BusyOK /\ TotalsOK /\ NamesOK /\ RankFollows

\* The invariant holds at the start: nobody is ranked, on line or served.
LEMMA InitIInv == Init => IInv
<1> SUFFICES ASSUME Init PROVE IInv
    OBVIOUS
<1>1. \A c \in Consumers : th[c].pc = "idle"
  BY DEF Init, Idle
<1>2. \A u \in Users : score[u] = Unranked /\ home[u] = NoConsumer /\ power[u] = 0
  BY DEF Init
<1> QED
  BY <1>1, <1>2, InitTypes DEF IInv, BusyOK, TotalsOK, NamesOK, RankFollows, Current

\* A task goes on for its user, or ends.
LEMMA ContinueBusy ==
  ASSUME TypeOK, BusyOK, NEW c \in Consumers, th[c].pc # "idle", GoesOn(c)
  PROVE  BusyOK'
<1>1. th \in [Consumers -> Task]
  BY TypesSplit
<1>2. \A d \in Consumers \ {c} : th'[d] = th[d]
  BY <1>1 DEF GoesOn
<1>3. th'[c].pc # "idle" => th'[c].user = th[c].user
  BY <1>1 DEF GoesOn, Idle
<1> QED
  BY <1>2, <1>3 DEF BusyOK

\* Every command is one of a user.
LEMMA NextBusy == TypeOK /\ BusyOK /\ [Next]_vars => BusyOK'
<1> SUFFICES ASSUME TypeOK, BusyOK, [Next]_vars PROVE BusyOK'
    OBVIOUS
<1>1. th \in [Consumers -> Task]
  BY TypesSplit
<1>2. ASSUME NEW c \in Consumers, NEW u \in Users, NEW t,
             th' = [th EXCEPT ![c] = t], t.user = u
      PROVE  BusyOK'
  BY <1>1, <1>2 DEF BusyOK
<1>3. ASSUME NEW c \in Consumers, NEW u \in Users, Commit(c, u) PROVE BusyOK'
  <2>1. PICK p \in 1..MaxPower :
          th' = [th EXCEPT ![c] = [Idle EXCEPT !.pc = "update", !.user = u, !.total = p]]
    BY <1>3 DEF Commit
  <2> DEFINE t == [Idle EXCEPT !.pc = "update", !.user = u, !.total = p]
  <2>2. t.user = u /\ th' = [th EXCEPT ![c] = t]
    BY <2>1 DEF Idle
  <2> HIDE DEF t
  <2> QED
    BY <1>2, <2>2
<1>4. ASSUME NEW c \in Consumers, NEW u \in Users, ShowRanker(c, u) \/ ShowMyRank(c, u)
      PROVE  BusyOK'
  <2>1. PICK pc \in {"top", "rank_of"} :
          th' = [th EXCEPT ![c] = [Idle EXCEPT !.pc = pc, !.user = u]]
    BY <1>4 DEF ShowRanker, ShowMyRank, Begin
  <2> DEFINE t == [Idle EXCEPT !.pc = pc, !.user = u]
  <2>2. t.user = u /\ th' = [th EXCEPT ![c] = t]
    BY <2>1 DEF Idle
  <2> HIDE DEF t
  <2> QED
    BY <1>2, <2>2
<1>5. ASSUME NEW c \in Consumers, Continue(c) PROVE BusyOK'
  BY <1>5, ContinueTask, ContinueBusy
<1>6. CASE Restart
  BY <1>6 DEF Restart, BusyOK, Idle
<1>7. ASSUME UNCHANGED th PROVE BusyOK'
  BY <1>7 DEF BusyOK
<1> QED
  BY <1>3, <1>4, <1>5, <1>6, <1>7 DEF Next, vars, Login, Disconnect

\* What RankFollows says of one user beyond TotalsOK.
Followed(u) == score[u] = Current(u) \/ Updating(u) \/ u \in missed \/ u \in crossed

LEMMA RankIs == TotalsOK => (RankFollows <=> \A u \in Users : Followed(u))
BY DEF TotalsOK, RankFollows, Followed

\* A transaction, and what it leaves to be published: the present total, unless another
\* consumer has one of the user to publish.
LEMMA CommitStep ==
  ASSUME IInv, NEW c \in Consumers, NEW u \in Users, Commit(c, u)
  PROVE  TotalsOK' /\ NamesOK' /\ RankFollows'
<1>1. /\ power \in [Users -> 0..MaxPower] /\ th \in [Consumers -> Task]
      /\ score \in [Users -> 0..MaxPower \cup {Unranked}] /\ Gains \subseteq Nat
      /\ MaxPower \in Nat
  BY TypesSplit, LeaderboardAssumption DEF IInv, RestOK, ScoresOK
<1>2. PICK p \in 1..MaxPower :
        /\ power' = [power EXCEPT ![u] = p] /\ p >= power[u]
        /\ th' = [th EXCEPT ![c] = [Idle EXCEPT !.pc = "update", !.user = u, !.total = p]]
  <2>1. PICK g \in Gains :
          /\ power[u] + g \in 1..MaxPower
          /\ power' = [power EXCEPT ![u] = @ + g]
          /\ th' = [th EXCEPT ![c] = [Idle EXCEPT !.pc = "update", !.user = u,
                                                  !.total = power[u] + g]]
    BY DEF Commit
  <2>2. power[u] \in Nat /\ g \in Nat
    BY <1>1
  <2>3. power[u] + g >= power[u]
    BY <2>2
  <2> QED
    BY <2>1, <2>3
<1>3. /\ th[c].pc = "idle" /\ home[u] = c
      /\ UNCHANGED <<score, named, missed, nameless, home>>
      /\ crossed' = IF \E d \in Consumers \ {c} : Writes(d, u) THEN crossed \cup {u}
                                                               ELSE crossed \ {u}
  BY DEF Commit, At, redis
<1> DEFINE t == [Idle EXCEPT !.pc = "update", !.user = u, !.total = p]
<1>4. t.pc = "update" /\ t.user = u /\ t.total = p
  BY DEF Idle
<1>5. th' = [th EXCEPT ![c] = t]
  BY <1>2
<1> HIDE DEF t
<1>7. /\ power'[u] = p /\ \A v \in Users \ {u} : power'[v] = power[v]
      /\ th'[c] = t /\ \A d \in Consumers \ {c} : th'[d] = th[d]
  BY <1>1, <1>2, <1>5
<1>8. TotalsOK'
  <2>1. \A v \in Users : score'[v] # Unranked => score'[v] <= power'[v]
    <3> SUFFICES ASSUME NEW v \in Users, score[v] # Unranked PROVE score[v] <= power'[v]
      BY <1>3
    <3>1. score[v] <= power[v] /\ score[v] \in Nat /\ power[v] \in Nat
      BY <1>1 DEF IInv, TotalsOK
    <3>2. power[v] <= power'[v] /\ power'[v] \in Nat
      BY <1>2, <1>7, <3>1
    <3> QED
      BY <3>1, <3>2
  <2>2. ASSUME NEW d \in Consumers, th'[d].pc = "update"
        PROVE  /\ th'[d].total \in 1..power'[th'[d].user]
               /\ th'[d].user \in crossed' \/ th'[d].total = power'[th'[d].user]
    <3>1. CASE d = c
      BY <3>1, <1>4, <1>7
    <3>2. CASE d # c
      <4>1. /\ th'[d] = th[d] /\ th[d].pc = "update" /\ th[d].user \in Users
            /\ th[d].total \in 1..power[th[d].user]
            /\ th[d].user \in crossed \/ th[d].total = power[th[d].user]
        BY <1>7, <2>2, <3>2 DEF IInv, TotalsOK, BusyOK
      <4>2. CASE th[d].user = u
        <5>1. u \in crossed'
          BY <1>3, <3>2, <4>1, <4>2 DEF Writes, At
        <5>2. th[d].total \in 1..p
          BY <1>1, <1>2, <4>1, <4>2
        <5> QED
          BY <1>7, <4>1, <4>2, <5>1, <5>2
      <4>3. CASE th[d].user # u
        BY <1>3, <1>7, <4>1, <4>3
      <4> QED
        BY <4>2, <4>3
    <3> QED
      BY <3>1, <3>2
  <2> QED
    BY <2>1, <2>2 DEF TotalsOK
<1>9. NamesOK'
  BY <1>3, <1>4, <1>7, LeaderboardAssumption DEF IInv, NamesOK, HasName
<1>10. \A v \in Users : Followed(v)'
  <2> TAKE v \in Users
  <2>1. CASE v = u
    BY <2>1, <1>4, <1>7 DEF Followed, Updating, Writes, At
  <2>2. CASE v # u
    <3>1. Followed(v)
      BY RankIs DEF IInv
    <3>2. Current(v)' = Current(v)
      BY <2>2, <1>7 DEF Current
    <3>3. Updating(v) => Updating(v)'
      BY <2>2, <1>3, <1>7 DEF Updating, Writes, At
    <3> QED
      BY <2>2, <1>3, <3>1, <3>2, <3>3 DEF Followed
  <2> QED
    BY <2>1, <2>2
<1>11. RankFollows'
  BY <1>8, <1>10 DEF TotalsOK, RankFollows, Followed
<1> QED
  BY <1>8, <1>9, <1>11

\* A total is published, or is not. It may be an older one, if another crossed it.
LEMMA UpdateStep ==
  ASSUME IInv, NEW c \in Consumers, Update(c)
  PROVE  TotalsOK' /\ NamesOK' /\ RankFollows'
<1>1. /\ th \in [Consumers -> Task] /\ score \in [Users -> 0..MaxPower \cup {Unranked}]
      /\ power \in [Users -> 0..MaxPower]
  BY TypesSplit DEF IInv, RestOK, ScoresOK
<1> DEFINE u == th[c].user
           p == th[c].total
<1>2. /\ th[c].pc = "update" /\ u \in Users /\ p \in 1..power[u]
      /\ u \in crossed \/ p = power[u]
  BY DEF Update, At, IInv, BusyOK, TotalsOK
<1>3. th'[c] = Idle /\ \A d \in Consumers \ {c} : th'[d] = th[d]
  BY <1>1 DEF Update, Finish
<1>4. UNCHANGED <<power, named, nameless, crossed, home>>
  BY DEF Update
<1>5. u \in named \/ u \in nameless
  BY <1>2 DEF IInv, NamesOK, HasName
<1>6. \/ score' = [score EXCEPT ![u] = p] /\ missed' = missed \ {u}
      \/ missed' = missed \cup {u} /\ UNCHANGED score
  BY DEF Update
<1>7. \A v \in Users \ {u}, d \in Consumers :
         Writes(d, v) => Writes(d, v)' /\ th'[d].total = th[d].total
  BY <1>3 DEF Writes, At
<1> HIDE DEF u, p
<1>8. \A v \in Users \ {u} : score'[v] = score[v] /\ (v \in missed => v \in missed')
  BY <1>1, <1>6
<1>9. score'[u] = p \/ (score'[u] = score[u] /\ u \in missed')
  BY <1>1, <1>2, <1>6
<1>10. TotalsOK'
  <2>1. \A v \in Users : score'[v] # Unranked => score'[v] <= power'[v]
    <3> TAKE v \in Users
    <3>1. power[v] \in Nat /\ power'[v] = power[v]
      BY <1>1, <1>4
    <3>2. CASE v # u \/ score'[u] # p
      BY <1>4, <1>8, <1>9, <3>2 DEF IInv, TotalsOK
    <3>3. CASE v = u /\ score'[u] = p
      BY <1>2, <3>1, <3>3
    <3> QED
      BY <3>2, <3>3
  <2>2. \A d \in Consumers : th'[d].pc = "update" =>
          /\ th'[d].total \in 1..power'[th'[d].user]
          /\ th'[d].user \in crossed' \/ th'[d].total = power'[th'[d].user]
    BY <1>3, <1>4 DEF IInv, TotalsOK, Idle
  <2> QED
    BY <2>1, <2>2 DEF TotalsOK
<1>11. NamesOK'
  <2>1. \A v \in Users : (score'[v] # Unranked \/ home'[v] # NoConsumer) => HasName(v)'
    BY <1>4, <1>5, <1>8 DEF IInv, NamesOK, HasName
  <2>2. \A d \in Consumers : th'[d].pc # "idle" => HasName(th[d].user)'
    BY <1>3, <1>4 DEF IInv, NamesOK, HasName, Idle
  <2> QED
    BY <2>1, <2>2 DEF NamesOK
<1>13. \A v \in Users : Followed(v)'
  <2> TAKE v \in Users
  <2>1. CASE v = u
    <3>1. power[u] # 0
      BY <1>1, <1>2
    <3> QED
      BY <2>1, <3>1, <1>2, <1>4, <1>9 DEF Followed, Current
  <2>2. CASE v # u
    <3>1. Followed(v)
      BY RankIs DEF IInv
    <3>2. Current(v)' = Current(v)
      BY <1>4 DEF Current
    <3>3. Updating(v) => Updating(v)'
      BY <2>2, <1>4, <1>7 DEF Updating
    <3> QED
      BY <2>2, <1>4, <1>8, <3>1, <3>2, <3>3 DEF Followed
  <2> QED
    BY <2>1, <2>2
<1>14. RankFollows'
  BY <1>10, <1>13 DEF TotalsOK, RankFollows, Followed
<1> QED
  BY <1>10, <1>11, <1>14

\* A step that changes neither a total nor the ranking, and begins no update.
LEMMA ReadStep ==
  ASSUME IInv, NEW c \in Consumers, NEW t, th' = [th EXCEPT ![c] = t], th[c].pc # "update",
         t.pc # "update", UNCHANGED <<power, score, named, missed, nameless, crossed, home>>,
         t.pc # "idle" => HasName(t.user)
  PROVE  TotalsOK' /\ NamesOK' /\ RankFollows'
<1>1. th'[c] = t /\ \A d \in Consumers \ {c} : th'[d] = th[d]
  BY TypesSplit DEF IInv
<1>2. TotalsOK'
  BY <1>1 DEF IInv, TotalsOK
<1>3. NamesOK'
  BY <1>1 DEF IInv, NamesOK, HasName
<1>4. \A v \in Users : Updating(v) => Updating(v)'
  BY <1>1 DEF Updating, Writes, At
<1>5. RankFollows'
  BY <1>4 DEF IInv, RankFollows, Current
<1> QED
  BY <1>2, <1>3, <1>5

\* Every step keeps the invariant, a crash and a rebuild cut short anywhere included.
LEMMA NextIInv == IInv /\ [Next]_vars => IInv'
<1> SUFFICES ASSUME IInv, [Next]_vars PROVE TotalsOK' /\ NamesOK' /\ RankFollows'
  BY NextTypes, NextBusy DEF IInv
<1>1. TypeOK /\ BusyOK
  BY DEF IInv
<1>2. ASSUME NEW c \in Consumers, NEW u \in Users, Login(c, u)
      PROVE  TotalsOK' /\ NamesOK' /\ RankFollows'
  <2>1. /\ UNCHANGED <<power, score, missed, crossed, th>> /\ home' = [home EXCEPT ![u] = c]
        /\ named \subseteq named' /\ u \in named' \cup nameless'
        /\ nameless \subseteq named' \cup nameless'
    BY <1>2 DEF Login
  <2>2. \A v \in Users \ {u} : home'[v] = home[v]
    BY <1>1, <2>1 DEF TypeOK
  <2>3. TotalsOK' /\ RankFollows'
    BY <2>1 DEF IInv, TotalsOK, RankFollows, Current, Updating, Writes, At
  <2>4. \A v \in Users : (score'[v] # Unranked \/ home'[v] # NoConsumer) => HasName(v)'
    BY <2>1, <2>2 DEF IInv, NamesOK, HasName
  <2>5. \A d \in Consumers : th'[d].pc # "idle" => HasName(th[d].user)'
    BY <2>1 DEF IInv, NamesOK, HasName
  <2> QED
    BY <2>3, <2>4, <2>5 DEF NamesOK
<1>3. ASSUME NEW c \in Consumers, NEW u \in Users, Commit(c, u)
      PROVE  TotalsOK' /\ NamesOK' /\ RankFollows'
  BY <1>3, CommitStep
<1>4. ASSUME NEW c \in Consumers, NEW u \in Users, ShowRanker(c, u) \/ ShowMyRank(c, u)
      PROVE  TotalsOK' /\ NamesOK' /\ RankFollows'
  <2>1. /\ th[c].pc = "idle" /\ home[u] = c
        /\ UNCHANGED <<power, score, named, missed, nameless, crossed, home>>
    BY <1>4 DEF ShowRanker, ShowMyRank, At, redis
  <2>2. HasName(u)
    BY <2>1, LeaderboardAssumption DEF IInv, NamesOK
  <2>3. PICK pc \in {"top", "rank_of"} :
          th' = [th EXCEPT ![c] = [Idle EXCEPT !.pc = pc, !.user = u]]
    BY <1>4 DEF ShowRanker, ShowMyRank, Begin
  <2> DEFINE t == [Idle EXCEPT !.pc = pc, !.user = u]
  <2>4. t.user = u /\ t.pc = pc /\ th' = [th EXCEPT ![c] = t]
    BY <2>3 DEF Idle
  <2> HIDE DEF t
  <2> QED
    BY <2>1, <2>2, <2>4, ReadStep
<1>5. ASSUME NEW c \in Consumers, Continue(c)
      PROVE  TotalsOK' /\ NamesOK' /\ RankFollows'
  <2>1. th[c].pc # "idle" /\ GoesOn(c) /\ HasName(th[c].user)
    BY <1>1, <1>5, ContinueTask DEF IInv, NamesOK
  <2>2. CASE Update(c)
    BY <2>2, UpdateStep
  <2>3. CASE ~Update(c)
    <3>1. /\ UNCHANGED <<power, score, named, missed, nameless, crossed, home>>
          /\ th[c].pc # "update"
      BY <1>5, <2>3 DEF Continue, RankOf, Top, Names, Reply, redis, At
    <3>2. Idle.pc = "idle"
      BY DEF Idle
    <3> QED
      BY <2>1, <3>1, <3>2, ReadStep DEF GoesOn
  <2> QED
    BY <2>2, <2>3
<1>6. ASSUME NEW u \in Users, Disconnect(u) PROVE TotalsOK' /\ NamesOK' /\ RankFollows'
  <2>1. /\ UNCHANGED <<power, score, named, missed, nameless, crossed, th>>
        /\ \A v \in Users : home'[v] # NoConsumer => home[v] # NoConsumer
    BY <1>1, <1>6 DEF Disconnect, redis, TypeOK
  <2> QED
    BY <2>1 DEF IInv, TotalsOK, NamesOK, HasName, RankFollows, Current, Updating, Writes, At
<1>7. CASE Restart
  <2>1. \A c \in Consumers : th'[c].pc = "idle"
    BY <1>7 DEF Restart, Idle
  <2>2. power' = power /\ \A u \in Users : home'[u] = NoConsumer
    BY <1>7 DEF Restart
  <2>4. PICK done \in 0..4 :
          /\ score' = CASE done = 0 -> score
                        [] done \in {1, 2} -> [u \in Users |-> Unranked]
                        [] OTHER -> [u \in Users |-> IF u \in Ranked THEN power[u] ELSE Unranked]
          /\ named' = CASE done < 2 -> named [] done \in {2, 3} -> {} [] OTHER -> Ranked
          /\ missed' = IF done < 3 THEN Users ELSE {}
          /\ nameless' = CASE done < 2 -> nameless [] done \in {2, 3} -> Users [] OTHER -> {}
    BY <1>7 DEF Restart
  <2>3. TotalsOK'
    <3>1. \A u \in Users : score'[u] # Unranked => score'[u] \in {score[u], power[u]}
      BY <2>4
    <3>2. \A u \in Users : power[u] <= power[u]
      BY <1>1 DEF TypeOK
    <3> QED
      BY <2>1, <2>2, <3>1, <3>2 DEF TotalsOK, IInv
  <2>5. CASE done \in {0, 1, 2}
    <3>1. missed' = Users
      BY <2>4, <2>5
    <3>2. \A u \in Users : score'[u] # Unranked => score[u] # Unranked /\ done = 0
      BY <2>4, <2>5
    <3>3. done = 0 => UNCHANGED <<named, nameless>>
      BY <2>4
    <3> QED
      BY <2>1, <2>2, <2>3, <3>1, <3>2, <3>3 DEF RankFollows, TotalsOK, NamesOK, HasName, IInv
  <2>6. CASE done \in {3, 4}
    <3>1. score' = [u \in Users |-> IF u \in Ranked THEN power[u] ELSE Unranked]
      BY <2>4, <2>6
    <3>2. \A u \in Users : u \in Ranked <=> power[u] # 0
      BY <1>1 DEF TypeOK, Ranked
    <3>3. RankFollows'
      BY <2>2, <2>3, <3>1, <3>2 DEF RankFollows, TotalsOK, Current
    <3>4. nameless' = Users \/ named' = Ranked
      BY <2>4, <2>6
    <3>5. NamesOK'
      BY <2>1, <2>2, <3>1, <3>4 DEF NamesOK, HasName
    <3> QED
      BY <2>3, <3>3, <3>5
  <2> QED
    BY <2>5, <2>6
<1>8. CASE UNCHANGED vars
  BY <1>8 DEF vars, IInv, TotalsOK, NamesOK, HasName, RankFollows, Current, Updating, Writes, At
<1> QED
  BY <1>2, <1>3, <1>4, <1>5, <1>6, <1>7, <1>8 DEF Next

\* The inductive invariant holds in every behaviour.
LEMMA Invariant == Spec => []IInv
BY InitIInv, NextIInv, PTL DEF Spec

\* LeaderboardTypes: the variables stay in their ranges; no index of a window is off the
\* board, for any of its sizes.
THEOREM LeaderboardTypes == Spec => []TypeOK
<1>1. IInv => TypeOK
  BY DEF IInv
<1> QED
  BY <1>1, Invariant, PTL

\* ScoreFollowsPower: a score is never more than the user's total; it is the total, or it
\* is about to be written, or its last write failed, or two consumers published for the
\* user at once.
THEOREM ScoreFollowsPower == Spec => []RankFollows
<1>1. IInv => RankFollows
  BY DEF IInv
<1> QED
  BY <1>1, Invariant, PTL

\* RankedHaveNames: who is in the ranking has a name there unless writing it failed.
THEOREM RankedHaveNames == Spec => []NamesKept
<1>1. IInv => NamesKept
  BY DEF IInv, NamesOK, HasName, NamesKept
<1> QED
  BY <1>1, Invariant, PTL

\* Reading the rows: the row of one's own rank is in the window, and is one's own.
LEMMA OwnRow ==
  ASSUME IInv, [Next]_vars, NEW c \in Consumers, th[c].pc = "top", th'[c].pc = "names",
         th[c].rank >= 0, RankNow(th[c].user) = th[c].rank
  PROVE  LET k == th[c].rank - First(th[c].rank) + 1
         IN  k \in DOMAIN th'[c].rows /\ th'[c].rows[k] = th[c].user
<1>1. /\ th \in [Consumers -> Task] /\ ScoresOK /\ th[c] \in Task
      /\ TypeOK /\ BusyOK
  BY TypesSplit DEF IInv, RestOK
<1>2. PICK r \in 0..(Cardinality(Users) - 1), u \in Users : r = th[c].rank /\ u = th[c].user
  <2>1. th[c].rank \in 0..(Cardinality(Users) - 1)
    BY <1>1 DEF Task
  <2> QED
    BY <1>1, <2>1 DEF BusyOK
<1>3. u \in Scored /\ Cardinality(Above(u)) = r
  BY <1>2 DEF RankNow, Scored
<1>4. Top(c)
  <2>1. ASSUME NEW d \in Consumers, NEW v \in Users,
               Login(d, v) \/ Commit(d, v) \/ ShowRanker(d, v) \/ ShowMyRank(d, v)
        PROVE  th'[c] = th[c]
    BY <1>1, <2>1 DEF Login, Commit, ShowRanker, ShowMyRank, Begin, At
  <2>2. ASSUME NEW d \in Consumers, Continue(d), d # c PROVE th'[c] = th[c]
    <3>1. GoesOn(d)
      BY <1>1, <2>2, ContinueTask
    <3> QED
      BY <1>1, <2>2, <3>1 DEF GoesOn
  <2>3. ~Restart
    BY DEF Restart, Idle
  <2>4. Continue(c)
    BY <2>1, <2>2, <2>3 DEF Next, vars, Disconnect
  <2> QED
    BY <2>4 DEF Continue, Update, RankOf, Names, Reply, At
<1> DEFINE rows == ZRevRange(First(r), r + Span)
<1>5. th'[c].rows = rows
  <2>1. \/ th' = [th EXCEPT ![c].pc = "names", ![c].rows = rows]
        \/ AnswerEmpty(c)
    BY <1>2, <1>4 DEF Top
  <2>2. ~AnswerEmpty(c)
    <3> DEFINE t == [Idle EXCEPT !.pc = "reply", !.user = th[c].user, !.lines = Lines(<<>>)]
    <3>1. t.pc = "reply" /\ Idle.pc = "idle"
      BY DEF Idle
    <3>2. AnswerEmpty(c) => th' = [th EXCEPT ![c] = t] \/ th' = [th EXCEPT ![c] = Idle]
      BY DEF AnswerEmpty, Finish, AnswerWith
    <3> HIDE DEF t
    <3> QED
      BY <1>1, <3>1, <3>2
  <2> HIDE DEF rows
  <2> QED
    BY <1>1, <2>1, <2>2 DEF Task
<1>6. First(r) \in Nat /\ r + Span \in Nat /\ First(r) <= r /\ r \in Nat /\ Span \in Nat
  <2>1. r \in -1..(Cardinality(Users) - 1) /\ r >= 0 /\ r \in Nat
    OBVIOUS
  <2> QED
    BY <2>1, FirstOK, LeaderboardAssumption
<1>7. PICK k \in Nat \ {0} : k = r - First(r) + 1
  BY <1>6
<1>8. r + 1 \in 1..Cardinality(Scored) /\ Board[r + 1] = u /\ Cardinality(Scored) \in Nat
  BY <1>1, <1>3, RowOfRank, BoardRows
<1>9. k \in DOMAIN rows /\ rows[k] = Board[First(r) + k]
  <2>1. PICK start \in Nat, stop \in Nat : start = First(r) /\ stop = r + Span
    BY <1>6
  <2>2. start + k - 1 <= (IF stop <= Cardinality(Scored) - 1 THEN stop ELSE Cardinality(Scored) - 1)
    BY <1>6, <1>7, <1>8, <2>1
  <2>3. k \in DOMAIN ZRevRange(start, stop) /\ ZRevRange(start, stop)[k] = Board[start + k]
    BY <1>1, <2>2, Window
  <2> QED
    BY <2>1, <2>3
<1>10. First(r) + k = r + 1
  BY <1>6, <1>7
<1> HIDE DEF rows
<1>11. k \in DOMAIN th'[c].rows /\ th'[c].rows[k] = u
  BY <1>5, <1>8, <1>9, <1>10
<1> QED
  BY <1>2, <1>7, <1>11

\* OwnRowIsMarked: /r me finds the row of its user where it looks for it.
THEOREM OwnRowIsMarked == Spec => OwnRowMarked
<1> DEFINE Marked == \A c \in Consumers :
       (At(c, "top") /\ At(c, "names")' /\ th[c].rank >= 0 /\ RankNow(th[c].user) = th[c].rank) =>
         LET k == th[c].rank - First(th[c].rank) + 1
         IN  k \in DOMAIN th'[c].rows /\ th'[c].rows[k] = th[c].user
<1>1. IInv /\ [Next]_vars => Marked
  BY OwnRow DEF At
<1>2. IInv /\ [Next]_vars => [Marked]_vars
  BY <1>1
<1> HIDE DEF Marked
<1>3. Spec => [][Marked]_vars
  BY <1>2, Invariant, PTL DEF Spec
<1> QED
  BY <1>3 DEF Marked, OwnRowMarked

-----------------------------------------------------------------------------
\* A reply that waits to be sent has lines.
ReplyLines == \A c \in Consumers : th[c].pc = "reply" => th[c].lines # <<>>

\* Only a ranking command that has read its rows makes a reply, and the heading is there.
LEMMA NextReplyLines == IInv /\ ReplyLines /\ [Next]_vars => ReplyLines'
<1> SUFFICES ASSUME IInv, ReplyLines, [Next]_vars PROVE ReplyLines'
    OBVIOUS
<1>1. th \in [Consumers -> Task] /\ TypeOK /\ BusyOK
  BY TypesSplit DEF IInv
<1>2. ASSUME NEW c \in Consumers, NEW t, th' = [th EXCEPT ![c] = t],
             t.pc = "reply" => t.lines # <<>>
      PROVE  ReplyLines'
  BY <1>1, <1>2 DEF ReplyLines
<1>3. ASSUME NEW c \in Consumers, NEW u \in Users, Login(c, u) PROVE ReplyLines'
  BY <1>3 DEF Login, ReplyLines
<1>4. ASSUME NEW c \in Consumers, NEW u \in Users, Commit(c, u) PROVE ReplyLines'
  <2>1. PICK p \in 1..MaxPower :
          th' = [th EXCEPT ![c] = [Idle EXCEPT !.pc = "update", !.user = u, !.total = p]]
    BY <1>4 DEF Commit
  <2> DEFINE t == [Idle EXCEPT !.pc = "update", !.user = u, !.total = p]
  <2>2. t.pc = "update" /\ th' = [th EXCEPT ![c] = t]
    BY <2>1 DEF Idle
  <2> HIDE DEF t
  <2> QED
    BY <1>2, <2>2
<1>5. ASSUME NEW c \in Consumers, NEW u \in Users, ShowRanker(c, u) \/ ShowMyRank(c, u)
      PROVE  ReplyLines'
  <2>1. PICK pc \in {"top", "rank_of"} :
          th' = [th EXCEPT ![c] = [Idle EXCEPT !.pc = pc, !.user = u]]
    BY <1>5 DEF ShowRanker, ShowMyRank, Begin
  <2> DEFINE t == [Idle EXCEPT !.pc = pc, !.user = u]
  <2>2. t.pc # "reply" /\ th' = [th EXCEPT ![c] = t]
    BY <2>1 DEF Idle
  <2> HIDE DEF t
  <2> QED
    BY <1>2, <2>2
<1>6. ASSUME NEW c \in Consumers, Continue(c) PROVE ReplyLines'
  <2>1. GoesOn(c) /\ Idle.pc = "idle"
    BY <1>1, <1>6, ContinueTask DEF Idle
  <2> QED
    BY <1>2, <2>1 DEF GoesOn
<1>7. ASSUME NEW u \in Users, Disconnect(u) PROVE ReplyLines'
  BY <1>7 DEF Disconnect, ReplyLines
<1>8. CASE Restart
  BY <1>8 DEF Restart, ReplyLines, Idle
<1>9. CASE UNCHANGED vars
  BY <1>9 DEF vars, ReplyLines
<1> QED
  BY <1>3, <1>4, <1>5, <1>6, <1>7, <1>8, <1>9 DEF Next

\* RepliesAreWhole: whatever is in the ranking, the packets of a reply are neither empty
\* nor truncated, and have all its lines in order.
THEOREM RepliesAreWhole == Spec => []ReplyWhole
<1>1. Init => ReplyLines
  BY DEF Init, ReplyLines, Idle
<1>2. ASSUME IInv, ReplyLines PROVE ReplyWhole
  <2> SUFFICES ASSUME NEW c \in Consumers, th[c].pc = "reply"
               PROVE  LET out == Packets(th[c].lines) IN
                      /\ FlattenSeq(out) = th[c].lines
                      /\ \A k \in DOMAIN out : out[k] # <<>> /\ Bytes(out[k]) <= MaxBody
    BY DEF ReplyWhole, At
  <2>1. PICK lines : lines = th[c].lines
    OBVIOUS
  <2>2. lines \in Body /\ lines # <<>>
    <3>1. th[c] \in Task
      BY <1>2, TypesSplit DEF IInv
    <3>2. lines \in Seq({HeadBytes, RowBytes, UnknownBytes})
      BY <2>1, <3>1 DEF Task
    <3>3. lines \in Seq(LineSize)
      BY <3>2, LeaderboardAssumption DEF LineSize
    <3> QED
      BY <1>2, <2>1, <3>3 DEF ReplyLines, Body
  <2>3. PICK out : out = Packets(lines) /\ Cut(out, lines)
    BY <2>2, PacketsCut
  <2>4. DOMAIN out = 1..Len(out)
    BY <2>3 DEF Cut
  <2> QED
    BY <2>1, <2>2, <2>3, <2>4 DEF Cut
<1> QED
  BY <1>1, <1>2, NextReplyLines, Invariant, PTL DEF Spec
=============================================================================
