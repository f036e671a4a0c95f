--------------------------- MODULE PositionsProofs ---------------------------
(* What At keeps of a list, for any list and any set of its positions.      *)
EXTENDS Positions, Sequences, FiniteSetTheorems, SequenceTheorems, WellFoundedInduction, TLAPS

\* A set of natural numbers has a least one.
LEMMA Least ==
  ASSUME NEW S \in SUBSET Nat, S # {}
  PROVE  \E i \in S : \A j \in S : i <= j
  <1>1. PICK i \in S : \A j \in S : ~(<<j, i>> \in OpToRel(<, Nat))
    BY NatLessThanWellFounded, WFMin
  <1>2. ASSUME NEW j \in S PROVE i <= j
    <2>1. i \in Nat /\ j \in Nat
      OBVIOUS
    <2>2. ~(j < i)
      BY <1>1, <2>1 DEF OpToRel
    <2>. QED BY <2>1, <2>2
  <1>. QED BY <1>2

\* A set of numbers up to n has a greatest one.
LEMMA Greatest ==
  ASSUME NEW n \in Nat, NEW S \in SUBSET (1..n), S # {}
  PROVE  \E i \in S : \A j \in S : j <= i
  <1>. DEFINE T == {n - i : i \in S}
  <1>1. T \in SUBSET Nat /\ T # {}
    <2>1. \A i \in S : n - i \in Nat
      OBVIOUS
    <2>2. PICK i : i \in S
      OBVIOUS
    <2>3. n - i \in T
      BY <2>2
    <2>. QED BY <2>1, <2>3
  <1>2. PICK x \in T : \A y \in T : ~(<<y, x>> \in OpToRel(<, Nat))
    BY <1>1, NatLessThanWellFounded, WFMin
  <1>3. \A y \in T : x <= y
    <2>. HIDE DEF T
    <2>1. ASSUME NEW y \in T PROVE x <= y
      <3>1. x \in Nat /\ y \in Nat
        BY <1>1, <1>2
      <3>2. <<y, x>> \in Nat \X Nat /\ ~(<<y, x>> \in OpToRel(<, Nat))
        BY <1>2, <3>1
      <3>3. ~(y < x)
        BY <3>2 DEF OpToRel
      <3>. QED BY <3>1, <3>3
    <2>. QED BY <2>1
  <1>4. PICK i \in S : x = n - i
    BY <1>2
  <1>5. \A j \in S : j <= i
    BY <1>3, <1>4
  <1>. QED BY <1>5

LEMMA UpTo ==
  ASSUME NEW n \in Nat
  PROVE  IsFiniteSet(1..n) /\ Cardinality(1..n) = n
  BY FS_Interval

\* The place of a position among some.
Place(positions, i) == Cardinality({j \in positions : j <= i})

\* What is kept keeps its order, each entry at its place.
LEMMA Kept ==
  ASSUME NEW S, NEW s \in Seq(S), NEW at \in SUBSET (DOMAIN s)
  PROVE  /\ At(s, at) \in Seq(S) /\ Len(At(s, at)) = Cardinality(at)
         /\ Cardinality(at) \in Nat /\ Cardinality(at) <= Len(s)
         /\ \A k \in DOMAIN At(s, at) : \E i \in at : Place(at, i) = k /\ At(s, at)[k] = s[i]
         /\ \A i \in at : Place(at, i) \in DOMAIN At(s, at) /\ At(s, at)[Place(at, i)] = s[i]
         /\ \A i, j \in at : i < j => Place(at, i) < Place(at, j)
  <1>. DEFINE n == Cardinality(at)
              upTo(i) == {j \in at : j <= i}
  <1>1. /\ Len(s) \in Nat /\ DOMAIN s = 1..Len(s) /\ \A i \in DOMAIN s : s[i] \in S
        /\ IsFiniteSet(1..Len(s)) /\ Cardinality(1..Len(s)) = Len(s)
    <2>1. Len(s) \in Nat /\ DOMAIN s = 1..Len(s) /\ \A i \in DOMAIN s : s[i] \in S
      BY LenProperties
    <2>2. IsFiniteSet(1..Len(s)) /\ Cardinality(1..Len(s)) = Len(s)
      BY <2>1, UpTo
    <2>. QED BY <2>1, <2>2
  <1>2. IsFiniteSet(at) /\ n \in Nat /\ n <= Len(s)
    <2>1. at \in SUBSET (1..Len(s))
      BY <1>1
    <2>2. IsFiniteSet(at) /\ Cardinality(at) <= Cardinality(1..Len(s))
      BY <1>1, <2>1, FS_Subset
    <2>. QED BY <1>1, <2>2, FS_CardinalityType
  <1>3. ASSUME NEW i \in at
        PROVE  IsFiniteSet(upTo(i)) /\ Place(at, i) \in 1..n /\ Place(at, i) \in Nat
    <2>1. upTo(i) \in SUBSET at /\ i \in upTo(i)
      BY <1>1
    <2>2. IsFiniteSet(upTo(i)) /\ Cardinality(upTo(i)) <= n
      <3>. HIDE DEF upTo
      <3>. QED BY <1>2, <2>1, FS_Subset
    <2>3. Cardinality(upTo(i)) \in Nat /\ Cardinality(upTo(i)) # 0
      <3>. HIDE DEF upTo
      <3>. QED BY <2>1, <2>2, FS_CardinalityType, FS_EmptySet
    <2>. HIDE DEF n
    <2>. QED BY <1>2, <2>2, <2>3 DEF Place
  <1>4. ASSUME NEW i \in at, NEW j \in at, i < j
        PROVE  Place(at, i) < Place(at, j)
    <2>1. upTo(i) \in SUBSET upTo(j) /\ j \in upTo(j) /\ ~(j \in upTo(i))
      BY <1>1, <1>4
    <2>2. IsFiniteSet(upTo(j)) /\ Place(at, i) \in Nat /\ Place(at, j) \in Nat
      BY <1>3
    <2>3. Place(at, i) = Cardinality(upTo(i)) /\ Place(at, j) = Cardinality(upTo(j))
      BY DEF Place
    <2>. HIDE DEF upTo
    <2>4. /\ Cardinality(upTo(i)) <= Cardinality(upTo(j))
          /\ Cardinality(upTo(i)) # Cardinality(upTo(j))
      BY <2>1, <2>2, FS_Subset
    <2>. QED BY <2>2, <2>3, <2>4
  <1>5. \A i, j \in at : Place(at, i) = Place(at, j) => i = j
    <2>1. ASSUME NEW i \in at, NEW j \in at, i # j PROVE Place(at, i) # Place(at, j)
      <3>1. i < j \/ j < i
        BY <1>1, <2>1
      <3>2. Place(at, i) \in Nat /\ Place(at, j) \in Nat
        BY <1>3
      <3>. QED BY <1>4, <3>1, <3>2
    <2>. QED BY <2>1
  <1>6. ASSUME NEW k \in 1..n PROVE \E i \in at : Place(at, i) = k
    <2>1. SUFFICES ASSUME \A i \in at : Place(at, i) # k PROVE FALSE
      OBVIOUS
    <2>. DEFINE f == [i \in at |-> Place(at, i)]
    <2>2. f \in [at -> (1..n) \ {k}]
      BY <1>3, <2>1
    <2>3. IsFiniteSet((1..n) \ {k}) /\ Cardinality((1..n) \ {k}) < Cardinality(at)
      <3>1. IsFiniteSet(1..n) /\ Cardinality(1..n) = n
        <4>. HIDE DEF n
        <4>. QED BY <1>2, FS_Interval
      <3>2. IsFiniteSet((1..n) \ {k}) /\ Cardinality((1..n) \ {k}) = n - 1
        BY <3>1, FS_RemoveElement
      <3>. QED BY <1>2, <3>2
    <2>4. \E i, j \in at : i # j /\ f[i] = f[j]
      <3>. HIDE DEF f, n
      <3>. QED BY <1>2, <2>2, <2>3, FS_PigeonHole
    <2>. QED BY <1>5, <2>4
  <1>7. At(s, at) = [k \in 1..n |-> s[CHOOSE i \in at : Place(at, i) = k]]
    BY DEF At, Place
  <1>. HIDE DEF n
  <1>8. \A k \in 1..n : \E i \in at : Place(at, i) = k /\ At(s, at)[k] = s[i]
    BY <1>6, <1>7
  <1>9. \A i \in at : Place(at, i) \in 1..n /\ At(s, at)[Place(at, i)] = s[i]
    BY <1>3, <1>5, <1>8
  <1>10. At(s, at) \in Seq(S) /\ Len(At(s, at)) = n /\ DOMAIN At(s, at) = 1..n
    <2>1. At(s, at) \in [1..n -> S]
      BY <1>1, <1>7, <1>8
    <2>. QED BY <1>2, <2>1
  <1>. QED BY <1>2, <1>4, <1>8, <1>9, <1>10 DEF n

\* A longer list: what is kept of it is kept of its beginning, with its last entry or
\* without.
LEMMA KeptMore ==
  ASSUME NEW S, NEW s \in Seq(S), NEW c \in S, NEW at \in SUBSET (DOMAIN s)
  PROVE  /\ At(Append(s, c), at) = At(s, at)
         /\ At(Append(s, c), at \cup {Len(s) + 1}) = Append(At(s, at), c)
  <1>. DEFINE t == Append(s, c)
              m == Len(s) + 1
              P == at \cup {m}
  <1>1. /\ Len(s) \in Nat /\ DOMAIN s = 1..Len(s) /\ t \in Seq(S) /\ DOMAIN t = 1..m
        /\ \A i \in DOMAIN s : t[i] = s[i]
        /\ t[m] = c
    BY LenProperties, AppendProperties
  <1>2. /\ IsFiniteSet(at) /\ m \notin at
        /\ P \in SUBSET (DOMAIN t) /\ at \in SUBSET (DOMAIN t)
    <2>1. IsFiniteSet(1..Len(s))
      BY <1>1, UpTo
    <2>2. at \in SUBSET (1..Len(s))
      BY <1>1
    <2>3. IsFiniteSet(at)
      BY <2>1, <2>2, FS_Subset
    <2>. QED BY <1>1, <2>2, <2>3
  <1>. DEFINE n == Cardinality(at)
  <1>3. n \in Nat /\ Cardinality(P) = n + 1
    BY <1>2, FS_CardinalityType, FS_AddElement
  <1>4. \A i \in at : Place(P, i) = Place(at, i)
    <2>1. ASSUME NEW i \in at PROVE {j \in P : j <= i} = {j \in at : j <= i}
      BY <1>1
    <2>. QED BY <2>1 DEF Place
  <1>5. Place(P, m) = n + 1
    <2>1. {j \in P : j <= m} = P
      BY <1>1
    <2>. QED BY <1>3, <2>1 DEF Place
  <1>. HIDE DEF t, P, m, n
  <1>6. /\ At(s, at) \in Seq(S) /\ Len(At(s, at)) = n
        /\ \A k \in DOMAIN At(s, at) : \E i \in at : Place(at, i) = k /\ At(s, at)[k] = s[i]
    BY Kept DEF n
  <1>7. /\ At(t, at) \in Seq(S) /\ Len(At(t, at)) = n
        /\ \A i \in at : At(t, at)[Place(at, i)] = t[i]
    BY <1>1, <1>2, Kept DEF n
  <1>8. /\ At(t, P) \in Seq(S) /\ Len(At(t, P)) = n + 1
        /\ \A i \in P : At(t, P)[Place(P, i)] = t[i]
    BY <1>1, <1>2, <1>3, Kept
  <1>9. DOMAIN At(s, at) = 1..n /\ DOMAIN At(t, at) = 1..n /\ DOMAIN At(t, P) = 1..n + 1
    BY <1>3, <1>6, <1>7, <1>8, LenProperties
  <1>10. ASSUME NEW k \in 1..n
         PROVE  At(t, at)[k] = At(s, at)[k] /\ At(t, P)[k] = At(s, at)[k]
    <2>1. PICK i \in at : Place(at, i) = k /\ At(s, at)[k] = s[i]
      BY <1>6, <1>9
    <2>2. i \in P /\ i \in DOMAIN s
      BY <1>1 DEF P
    <2>3. At(t, at)[k] = t[i]
      BY <1>7, <2>1
    <2>4. At(t, P)[k] = t[i]
      BY <1>4, <1>8, <2>1, <2>2
    <2>. QED BY <1>1, <2>1, <2>2, <2>3, <2>4
  <1>11. At(t, at) = At(s, at)
    BY <1>6, <1>7, <1>9, <1>10, SeqEqual
  <1>12. At(t, P)[n + 1] = c
    <2>1. m \in P
      BY DEF P
    <2>. QED BY <1>1, <1>5, <1>8, <2>1
  <1>13. At(t, P) = Append(At(s, at), c)
    <2>1. /\ Append(At(s, at), c) \in Seq(S) /\ Len(Append(At(s, at), c)) = n + 1
          /\ \A k \in 1..n : Append(At(s, at), c)[k] = At(s, at)[k]
          /\ Append(At(s, at), c)[n + 1] = c
      BY <1>6, AppendProperties
    <2>2. \A k \in 1..n + 1 : k \in 1..n \/ k = n + 1
      BY <1>3
    <2>3. \A k \in 1..n + 1 : At(t, P)[k] = Append(At(s, at), c)[k]
      BY <1>10, <1>12, <2>1, <2>2
    <2>. QED BY <1>8, <1>9, <2>1, <2>3, SeqEqual
  <1>. QED BY <1>11, <1>13 DEF t, P, m

\* What is kept of two lists at the same positions comes, entry by entry, from the
\* same position of each.
LEMMA KeptAlike ==
  ASSUME NEW S, NEW s \in Seq(S), NEW u, NEW at \in SUBSET (DOMAIN s)
  PROVE  /\ DOMAIN At(s, at) = 1..Cardinality(at) /\ DOMAIN At(u, at) = 1..Cardinality(at)
         /\ \A k \in 1..Cardinality(at) : \E i \in at : At(s, at)[k] = s[i] /\ At(u, at)[k] = u[i]
  <1>. DEFINE pick(k) == CHOOSE i \in at : Cardinality({j \in at : j <= i}) = k
  <1>1. At(s, at) = [k \in 1..Cardinality(at) |-> s[pick(k)]]
    BY DEF At
  <1>2. At(u, at) = [k \in 1..Cardinality(at) |-> u[pick(k)]]
    BY DEF At
  <1>3. ASSUME NEW k \in 1..Cardinality(at) PROVE pick(k) \in at
    <2>1. k \in DOMAIN At(s, at)
      BY <1>1
    <2>2. \E i \in at : Place(at, i) = k
      BY <2>1, Kept
    <2>. QED BY <2>2 DEF Place
  <1>. HIDE DEF pick
  <1>. QED BY <1>1, <1>2, <1>3

\* What is kept at the positions from a to b is that part of the list.
LEMMA KeptBetween ==
  ASSUME NEW S, NEW s \in Seq(S), NEW a \in 1..Len(s), NEW b \in 1..Len(s), a <= b
  PROVE  At(s, a..b) = SubSeq(s, a, b)
  <1>. DEFINE part == SubSeq(s, a, b)
              kept == At(s, a..b)
              n == (b - a) + 1
  <1>1. Len(s) \in Nat /\ DOMAIN s = 1..Len(s) /\ \A i \in 1..Len(s) : s[i] \in S
    BY LenProperties
  <1>2. a \in Nat /\ b \in Nat /\ a \in Int /\ b \in Int /\ a..b \in SUBSET (DOMAIN s) /\ n \in Nat
    BY <1>1
  <1>3. Cardinality(a..b) = n
    BY <1>2, FS_Interval
  <1>4. part \in Seq(S) /\ Len(part) = n /\ \A k \in 1..n : part[k] = s[(a + k) - 1]
    <2>1. \A i \in a..b : s[i] \in S
      BY <1>1, <1>2
    <2>2. /\ SubSeq(s, a, b) \in Seq(S)
          /\ Len(SubSeq(s, a, b)) = IF a <= b THEN b - a + 1 ELSE 0
          /\ \A k \in 1..b - a + 1 : SubSeq(s, a, b)[k] = s[a + k - 1]
      BY <1>2, <2>1, SubSeqProperties
    <2>. HIDE DEF part
    <2>3. part \in Seq(S) /\ Len(part) = b - a + 1 /\ \A k \in 1..b - a + 1 : part[k] = s[a + k - 1]
      BY <2>2 DEF part
    <2>4. b - a + 1 = n /\ \A k \in 1..n : a + k - 1 = (a + k) - 1
      BY <1>2
    <2>. QED BY <2>3, <2>4
  <1>5. kept \in Seq(S) /\ Len(kept) = n /\ \A i \in a..b : kept[Place(a..b, i)] = s[i]
    BY <1>2, <1>3, Kept
  <1>6. ASSUME NEW i \in a..b PROVE Place(a..b, i) = (i - a) + 1
    <2>1. i \in Int /\ a <= i
      BY <1>2
    <2>2. {j \in a..b : j <= i} = a..i
      BY <1>2, <2>1
    <2>3. Cardinality(a..i) = (i - a) + 1
      BY <1>2, <2>1, FS_Interval
    <2>. QED BY <2>2, <2>3 DEF Place
  <1>. HIDE DEF part, kept
  <1>7. ASSUME NEW k \in 1..n PROVE kept[k] = part[k]
    <2>. DEFINE i == (a + k) - 1
    <2>1. i \in a..b /\ (i - a) + 1 = k
      BY <1>2
    <2>2. kept[k] = s[i]
      <3>. HIDE DEF i
      <3>. QED BY <1>5, <1>6, <2>1
    <2>. QED BY <1>4, <2>2
  <1>. HIDE DEF n
  <1>8. kept = part
    BY <1>4, <1>5, <1>7, SeqEqual
  <1>. QED BY <1>8 DEF kept, part
=============================================================================
