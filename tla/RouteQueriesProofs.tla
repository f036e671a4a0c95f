------------------------- MODULE RouteQueriesProofs -------------------------
(***************************************************************************)
(* Proofs about the answers to queries, for any store, any limits and any   *)
(* order in which hash maps are listed and equal entries sorted.            *)
(*                                                                         *)
(* The inductive invariant (Inv) is that the store is one of those served   *)
(* and the answer one that this store gives to the request: an answer is    *)
(* computed in one step, so what is left is what rank, cut and filter do.   *)
(* The lemmas say it of sequences (Listing, CutEntries, Kept), of rankings  *)
(* (Ranked, CutBest, KeptBest) and of each query (TopCitiesBest and on).    *)
(***************************************************************************)
EXTENDS RouteQueries, PositionsProofs

-----------------------------------------------------------------------------
(* Lists of the members of a set, cut and thinned out.                     *)

\* A set is as large as another when a function pairs their members.
LEMMA SameSize ==
  ASSUME NEW S, IsFiniteSet(S), NEW T, NEW f \in [S -> T],
         \A x, y \in S : f[x] = f[y] => x = y,
         \A t \in T : \E x \in S : f[x] = t
  PROVE  IsFiniteSet(T) /\ Cardinality(T) = Cardinality(S)
  <1>1. f \in Bijection(S, T)
    BY DEF Bijection, Injection, Surjection, IsInjective
  <1>2. ExistsBijection(S, T)
    BY <1>1 DEF ExistsBijection
  <1>. QED BY <1>2, FS_Bijection

LEMMA CutEntries ==
  ASSUME NEW S, NEW s \in Seq(S), NEW n \in Nat
  PROVE  /\ Cut(s, n) \in Seq(S)
         /\ Len(Cut(s, n)) = IF Len(s) <= n THEN Len(s) ELSE n
         /\ DOMAIN Cut(s, n) = 1..Len(Cut(s, n))
         /\ \A i \in DOMAIN Cut(s, n) : i \in DOMAIN s /\ Cut(s, n)[i] = s[i]
  <1>. DEFINE m == IF Len(s) <= n THEN Len(s) ELSE n
  <1>1. /\ Len(s) \in Nat /\ DOMAIN s = 1..Len(s) /\ m \in Nat /\ m <= Len(s)
        /\ \A i \in 1..m : s[i] \in S
    BY LenProperties
  <1>2. Cut(s, n) = SubSeq(s, 1, m)
    BY DEF Cut
  <1>. HIDE DEF m
  <1>3. /\ SubSeq(s, 1, m) \in Seq(S)
        /\ Len(SubSeq(s, 1, m)) = m
        /\ \A i \in 1..m : SubSeq(s, 1, m)[i] = s[i]
    BY <1>1, SubSeqProperties
  <1>4. DOMAIN SubSeq(s, 1, m) = 1..m
    BY <1>3, LenProperties
  <1>. QED BY <1>1, <1>2, <1>3, <1>4 DEF m

\* Any order of a hash map lists each entry once.
LEMMA Listing ==
  ASSUME NEW E, IsFiniteSet(E), NEW s \in SetToSeqs(E)
  PROVE  /\ s \in Seq(E)
         /\ Len(s) = Cardinality(E) /\ Cardinality(E) \in Nat
         /\ \A i, j \in DOMAIN s : s[i] = s[j] => i = j
         /\ \A e \in E : \E i \in DOMAIN s : s[i] = e
  <1>. DEFINE n == Cardinality(E)
  <1>1. n \in Nat /\ IsFiniteSet(1..n) /\ Cardinality(1..n) = n
    <2>1. n \in Nat
      BY FS_CardinalityType
    <2>. HIDE DEF n
    <2>. QED BY <2>1, FS_Interval
  <1>2. s \in [1..n -> E] /\ \A i, j \in 1..n : i # j => s[i] # s[j]
    BY DEF SetToSeqs
  <1>3. s \in Seq(E) /\ Len(s) = n
    <2>. HIDE DEF n
    <2>. QED BY <1>1, <1>2
  <1>4. ASSUME NEW e \in E, \A i \in 1..n : s[i] # e
        PROVE  FALSE
    <2>1. IsFiniteSet(E \ {e}) /\ Cardinality(E \ {e}) < Cardinality(1..n)
      <3>1. IsFiniteSet(E \ {e}) /\ Cardinality(E \ {e}) = n - 1
        BY FS_RemoveElement
      <3>. HIDE DEF n
      <3>. QED BY <1>1, <3>1
    <2>2. s \in [1..n -> E \ {e}]
      BY <1>2, <1>4
    <2>. HIDE DEF n
    <2>3. \E i, j \in 1..n : i # j /\ s[i] = s[j]
      BY <1>1, <2>1, <2>2, FS_PigeonHole
    <2>. QED BY <1>2, <2>3
  <1>. QED BY <1>1, <1>2, <1>3, <1>4

-----------------------------------------------------------------------------
(* A ranking.                                                              *)

Entry(count, k) == [of |-> k, count |-> count[k]]

\* The first n of K, with their counts, none twice and in order; whatever is left out
\* has no higher count.
IsBest(s, K, count, n) ==
  /\ s \in Seq([of : K, count : Nat])
  /\ Len(s) = IF Cardinality(K) <= n THEN Cardinality(K) ELSE n
  /\ \A i \in DOMAIN s : s[i].count = count[s[i].of]
  /\ \A i, j \in DOMAIN s : s[i].of = s[j].of => i = j
  /\ \A i, j \in DOMAIN s : i < j => s[i].count >= s[j].count
  /\ \A k \in K : (\A i \in DOMAIN s : s[i].of # k) => \A i \in DOMAIN s : count[k] <= s[i].count

LEMMA BestEntries ==
  ASSUME NEW K, NEW count, NEW n, NEW s, IsBest(s, K, count, n)
  PROVE  /\ Len(s) \in Nat /\ DOMAIN s = 1..Len(s)
         /\ \A i \in DOMAIN s : s[i] \in [of : K, count : Nat] /\ s[i].of \in K /\ s[i].count \in Nat
  <1>. DEFINE R == [of : K, count : Nat]
  <1>1. s \in Seq(R)
    BY DEF IsBest
  <1>2. \A r \in R : r.of \in K /\ r.count \in Nat
    OBVIOUS
  <1>. HIDE DEF R
  <1>3. Len(s) \in Nat /\ DOMAIN s = 1..Len(s) /\ \A i \in DOMAIN s : s[i] \in R
    BY <1>1, LenProperties
  <1>. QED BY <1>2, <1>3 DEF R

\* As many as there are is all of them.
LEMMA BestIsAll ==
  ASSUME NEW K, IsFiniteSet(K), NEW count, NEW s, IsBest(s, K, count, Cardinality(K))
  PROVE  \A k \in K : \E i \in DOMAIN s : s[i].of = k
  <1>. DEFINE t == [i \in 1..Cardinality(K) |-> s[i].of]
  <1>1. DOMAIN s = 1..Cardinality(K) /\ \A i \in DOMAIN s : s[i].of \in K
    <2>1. Len(s) = Cardinality(K)
      BY FS_CardinalityType DEF IsBest
    <2>. QED BY <2>1, BestEntries
  <1>2. t \in SetToSeqs(K)
    <2>1. t \in [1..Cardinality(K) -> K]
      BY <1>1
    <2>2. \A i, j \in 1..Cardinality(K) : i # j => t[i] # t[j]
      BY <1>1 DEF IsBest
    <2>. QED BY <2>1, <2>2 DEF SetToSeqs
  <1>3. \A k \in K : \E i \in DOMAIN t : t[i] = k
    <2>. HIDE DEF t
    <2>. QED BY <1>2, Listing
  <1>. QED BY <1>1, <1>3

LEMMA CutBest ==
  ASSUME NEW K, IsFiniteSet(K), NEW count, NEW s, IsBest(s, K, count, Cardinality(K)), NEW n \in Nat
  PROVE  IsBest(Cut(s, n), K, count, n)
  <1>. DEFINE R == [of : K, count : Nat]
              c == Cut(s, n)
  <1>1. Cardinality(K) \in Nat
    BY FS_CardinalityType
  <1>2. /\ s \in Seq(R) /\ Len(s) = Cardinality(K)
        /\ \A i \in DOMAIN s : s[i].count = count[s[i].of]
        /\ \A i, j \in DOMAIN s : s[i].of = s[j].of => i = j
        /\ \A i, j \in DOMAIN s : i < j => s[i].count >= s[j].count
    BY <1>1 DEF IsBest
  <1>3. DOMAIN s = 1..Len(s) /\ Len(s) \in Nat /\ \A i \in DOMAIN s : s[i].count \in Nat
    BY BestEntries
  <1>4. /\ c \in Seq(R) /\ Len(c) = (IF Len(s) <= n THEN Len(s) ELSE n)
        /\ DOMAIN c = 1..Len(c)
        /\ \A i \in DOMAIN c : i \in DOMAIN s /\ c[i] = s[i]
    <2>. HIDE DEF R
    <2>. QED BY <1>2, CutEntries
  <1>. HIDE DEF c
  <1>5. ASSUME NEW k \in K, \A i \in DOMAIN c : c[i].of # k, NEW i \in DOMAIN c
        PROVE  count[k] <= c[i].count
    <2>1. PICK j \in DOMAIN s : s[j].of = k
      BY BestIsAll
    <2>2. i < j
      BY <1>3, <1>4, <1>5, <2>1
    <2>. QED BY <1>2, <1>3, <1>4, <2>1, <2>2
  <1>6. \A i, j \in DOMAIN c : c[i].of = c[j].of => i = j
    BY <1>2, <1>4
  <1>7. \A i, j \in DOMAIN c : i < j => c[i].count >= c[j].count
    BY <1>2, <1>4
  <1>8. \A i \in DOMAIN c : c[i].count = count[c[i].of]
    BY <1>2, <1>4
  <1>. QED BY <1>2, <1>4, <1>5, <1>6, <1>7, <1>8 DEF IsBest, c

\* What remains of a full ranking without some is the ranking of the others.
LEMMA KeptBest ==
  ASSUME NEW K, IsFiniteSet(K), NEW count, NEW s, IsBest(s, K, count, Cardinality(K)),
         NEW L \in SUBSET K, NEW at, at = {i \in DOMAIN s : s[i].of \in L}
  PROVE  IsBest(At(s, at), L, count, Cardinality(L))
  <1>. DEFINE R == [of : K, count : Nat]
              t == At(s, at)
  <1>1. /\ s \in Seq(R)
        /\ \A i \in DOMAIN s : s[i].count = count[s[i].of]
        /\ \A i, j \in DOMAIN s : s[i].of = s[j].of => i = j
        /\ \A i, j \in DOMAIN s : i < j => s[i].count >= s[j].count
    BY DEF IsBest
  <1>2. /\ DOMAIN s = 1..Len(s) /\ Len(s) \in Nat
        /\ \A i \in DOMAIN s : s[i] \in R /\ s[i].count \in Nat
    BY BestEntries
  <1>3. /\ t \in Seq(R) /\ Len(t) = Cardinality(at) /\ Cardinality(at) \in Nat
        /\ \A k \in DOMAIN t : \E i \in at : Place(at, i) = k /\ t[k] = s[i]
        /\ \A i \in at : Place(at, i) \in DOMAIN t /\ t[Place(at, i)] = s[i]
        /\ \A i, j \in at : i < j => Place(at, i) < Place(at, j)
    <2>. HIDE DEF R
    <2>1. at \in SUBSET (DOMAIN s) /\ s \in Seq(R)
      BY <1>1
    <2>2. At(s, at) \in Seq(R) /\ Len(At(s, at)) = Cardinality(at) /\ Cardinality(at) \in Nat
      BY <2>1, Kept
    <2>3. \A k \in DOMAIN At(s, at) : \E i \in at : Place(at, i) = k /\ At(s, at)[k] = s[i]
      BY <2>1, Kept
    <2>4. \A i \in at : Place(at, i) \in DOMAIN At(s, at) /\ At(s, at)[Place(at, i)] = s[i]
      BY <2>1, Kept
    <2>5. \A i, j \in at : i < j => Place(at, i) < Place(at, j)
      BY <2>1, Kept
    <2>. QED BY <2>2, <2>3, <2>4, <2>5
  <1>. HIDE DEF t, R
  <1>4. DOMAIN t = 1..Len(t)
    <2>. QED BY <1>3, LenProperties
  <1>5. Cardinality(at) = Cardinality(L)
    <2>. DEFINE f == [i \in at |-> s[i].of]
    <2>1. f \in [at -> L] /\ \A i, j \in at : f[i] = f[j] => i = j
      BY <1>1
    <2>2. \A l \in L : \E i \in at : f[i] = l
      BY BestIsAll
    <2>3. IsFiniteSet(at)
      <3>1. IsFiniteSet(1..Len(s))
        BY <1>2, UpTo
      <3>. QED BY <1>2, <3>1, FS_Subset
    <2>. HIDE DEF f
    <2>. QED BY <2>1, <2>2, <2>3, SameSize
  <1>6. t \in Seq([of : L, count : Nat])
    <2>. DEFINE Q == [of : L, count : Nat]
    <2>1. \A i \in at : s[i] \in Q
      BY <1>2 DEF R
    <2>. HIDE DEF Q
    <2>2. t \in [1..Len(t) -> Q]
      <3>1. t \in [1..Len(t) -> R]
        BY <1>3, LenProperties
      <3>. QED BY <1>3, <1>4, <2>1, <3>1
    <2>3. t \in Seq(Q)
      <3>1. Len(t) \in Nat
        BY <1>3
      <3>. QED BY <2>2, <3>1
    <2>. QED BY <2>3 DEF Q
  <1>10. \A k \in DOMAIN t : \E i \in DOMAIN s : i \in at /\ Place(at, i) = k /\ t[k] = s[i]
    BY <1>3
  <1>7. ASSUME NEW k \in DOMAIN t PROVE t[k].count = count[t[k].of]
    <2>1. PICK i \in DOMAIN s : t[k] = s[i]
      BY <1>10
    <2>2. s[i].count = count[s[i].of]
      BY <1>1
    <2>. QED BY <2>1, <2>2
  <1>8. ASSUME NEW k \in DOMAIN t, NEW l \in DOMAIN t, t[k].of = t[l].of PROVE k = l
    <2>1. PICK i \in DOMAIN s : i \in at /\ Place(at, i) = k /\ t[k] = s[i]
      BY <1>10
    <2>2. PICK j \in DOMAIN s : j \in at /\ Place(at, j) = l /\ t[l] = s[j]
      BY <1>10
    <2>3. i = j
      BY <1>1, <1>8, <2>1, <2>2
    <2>. QED BY <2>1, <2>2, <2>3
  <1>9. ASSUME NEW k \in DOMAIN t, NEW l \in DOMAIN t, k < l
        PROVE  t[k].count >= t[l].count
    <2>1. PICK i \in at : Place(at, i) = k /\ t[k] = s[i]
      BY <1>3
    <2>2. PICK j \in at : Place(at, j) = l /\ t[l] = s[j]
      BY <1>3
    <2>3. i < j
      <3>1. ~(j < i) /\ i # j
        BY <1>3, <1>4, <1>9, <2>1, <2>2
      <3>. QED BY <1>2, <3>1
    <2>. QED BY <1>1, <2>1, <2>2, <2>3
  <1>11. \A l \in L : \E i \in DOMAIN t : t[i].of = l
    <2>1. \A l \in L : \E i \in at : s[i].of = l
      BY BestIsAll
    <2>2. \A i \in at : \E k \in DOMAIN t : t[k] = s[i]
      BY <1>3
    <2>. QED BY <2>1, <2>2
  <1>. QED BY <1>3, <1>5, <1>6, <1>7, <1>8, <1>9, <1>11 DEF IsBest, t

\* std::sort of the entries of a hash map, then resize.
LEMMA Ranked ==
  ASSUME NEW K, IsFiniteSet(K), NEW count \in [K -> Nat], NEW n \in Nat,
         NEW s \in RankedAndCut(count, n)
  PROVE  IsBest(s, K, count, n)
  <1>. DEFINE E == {Entry(count, k) : k \in K}
  <1>1. IsFiniteSet(E) /\ Cardinality(E) = Cardinality(K)
    <2>. DEFINE f == [k \in K |-> Entry(count, k)]
    <2>1. f \in [K -> E]
      OBVIOUS
    <2>2. \A k, l \in K : f[k] = f[l] => k = l
      BY DEF Entry
    <2>3. \A e \in E : \E k \in K : f[k] = e
      OBVIOUS
    <2>. HIDE DEF f, E
    <2>. QED BY <2>1, <2>2, <2>3, SameSize
  <1>2. PICK all \in SetToSeqs(E) :
          /\ \A i, j \in DOMAIN all : i < j => ~(all[j].count > all[i].count)
          /\ s = Cut(all, n)
    BY DEF RankedAndCut, Ordered, MoreRoutes, Entry
  <1>3. \A e \in E : e \in [of : K, count : Nat] /\ e.count = count[e.of] /\ e.count \in Nat
    BY DEF Entry
  <1>4. \A k \in K : Entry(count, k) \in E /\ Entry(count, k).of = k
    BY DEF Entry
  <1>5. \A d, e \in E : d.of = e.of => d = e
    BY DEF Entry
  <1>. HIDE DEF E
  <1>6. /\ all \in Seq(E) /\ Len(all) = Cardinality(K) /\ Cardinality(K) \in Nat
        /\ \A i, j \in DOMAIN all : all[i] = all[j] => i = j
        /\ \A e \in E : \E i \in DOMAIN all : all[i] = e
    BY <1>1, <1>2, Listing
  <1>7. DOMAIN all = 1..Len(all) /\ \A i \in DOMAIN all : all[i] \in E
    BY <1>6, LenProperties
  <1>8. IsBest(all, K, count, Cardinality(K))
    <2>1. all \in Seq([of : K, count : Nat])
      <3>. DEFINE R == [of : K, count : Nat]
      <3>1. all \in [1..Len(all) -> E] /\ \A e \in E : e \in R
        BY <1>3, <1>6, LenProperties
      <3>. HIDE DEF R
      <3>2. all \in Seq(R)
        BY <1>6, <1>7, <3>1
      <3>. QED BY <3>2 DEF R
    <2>2. \A i \in DOMAIN all : all[i].count = count[all[i].of] /\ all[i].count \in Nat
      BY <1>3, <1>7
    <2>3. \A i, j \in DOMAIN all : all[i].of = all[j].of => i = j
      BY <1>5, <1>6, <1>7
    <2>4. \A i, j \in DOMAIN all : i < j => all[i].count >= all[j].count
      BY <1>2, <2>2
    <2>5. \A k \in K : \E i \in DOMAIN all : all[i].of = k
      BY <1>4, <1>6
    <2>. QED BY <1>6, <2>1, <2>2, <2>3, <2>4, <2>5 DEF IsBest
  <1>. QED BY <1>2, <1>8, CutBest

\* What the properties say of an answer that is a ranking.
LEMMA BestAnswer ==
  ASSUME NEW K, NEW count, NEW n, IsBest(answer, K, count, n)
  PROVE  /\ Listed \subseteq K
         /\ Len(answer) = Cardinality(Listed)
         /\ Len(answer) = IF Cardinality(K) <= n THEN Cardinality(K) ELSE n
         /\ \A k \in Listed : CountOf(k) = count[k]
         /\ \A i, j \in DOMAIN answer : i < j => answer[i].count >= answer[j].count
         /\ \A k \in Listed, l \in K \ Listed : count[l] <= count[k]
  <1>1. /\ Len(answer) \in Nat /\ DOMAIN answer = 1..Len(answer)
        /\ \A i \in DOMAIN answer : answer[i].of \in K
    BY BestEntries
  <1>2. /\ Len(answer) = IF Cardinality(K) <= n THEN Cardinality(K) ELSE n
        /\ \A i \in DOMAIN answer : answer[i].count = count[answer[i].of]
        /\ \A i, j \in DOMAIN answer : answer[i].of = answer[j].of => i = j
        /\ \A i, j \in DOMAIN answer : i < j => answer[i].count >= answer[j].count
        /\ \A k \in K : (\A i \in DOMAIN answer : answer[i].of # k)
                        => \A i \in DOMAIN answer : count[k] <= answer[i].count
    BY DEF IsBest
  <1>3. Len(answer) = Cardinality(Listed)
    <2>. DEFINE f == [i \in 1..Len(answer) |-> answer[i].of]
    <2>1. f \in [1..Len(answer) -> Listed] /\ \A i, j \in 1..Len(answer) : f[i] = f[j] => i = j
      BY <1>1, <1>2 DEF Listed
    <2>2. \A k \in Listed : \E i \in 1..Len(answer) : f[i] = k
      BY <1>1 DEF Listed
    <2>3. IsFiniteSet(1..Len(answer)) /\ Cardinality(1..Len(answer)) = Len(answer)
      BY <1>1, UpTo
    <2>. HIDE DEF f
    <2>. QED BY <2>1, <2>2, <2>3, SameSize
  <1>4. ASSUME NEW i \in DOMAIN answer PROVE CountOf(answer[i].of) = answer[i].count
    BY <1>2 DEF CountOf
  <1>5. \A k \in Listed : \E i \in DOMAIN answer : answer[i].of = k
    BY DEF Listed
  <1>6. \A k \in Listed : CountOf(k) = count[k]
    BY <1>2, <1>4, <1>5
  <1>7. \A k \in Listed, l \in K \ Listed : count[l] <= count[k]
    <2>1. \A l \in K \ Listed : \A i \in DOMAIN answer : answer[i].of # l
      BY DEF Listed
    <2>. QED BY <1>2, <1>5, <2>1
  <1>. QED BY <1>1, <1>2, <1>3, <1>5, <1>6, <1>7

-----------------------------------------------------------------------------
(* The store.                                                              *)

\* The store is one of those served.
OfStore ==
  \E s \in Stores :
    /\ airports_by_id = [id \in {a.id : a \in s.airports} |-> CHOOSE a \in s.airports : a.id = id]
    /\ airports_by_iata = [c \in {a.iata : a \in s.airports} \ {NoCode} |->
                             CHOOSE a \in s.airports : a.iata = c]
    /\ airlines = s.airlines
    /\ routes = s.routes

LEMMA StoreFacts ==
  ASSUME OfStore
  PROVE  /\ IsFiniteSet(Airports) /\ IsFiniteSet(airlines)
         /\ routes \in Seq(Range(routes))
         /\ \A id \in DOMAIN airports_by_id : airports_by_id[id].id = id
         /\ \A c \in DOMAIN airports_by_iata :
              /\ airports_by_iata[c] \in Airports /\ airports_by_iata[c].iata = c
              /\ airports_by_iata[c] = airports_by_id[airports_by_iata[c].id]
              /\ c \in Codes /\ c # NoCode
         /\ \A a \in Airports : a.iata # NoCode => Known(a.iata) /\ airports_by_iata[a.iata] = a
         /\ \A a, b \in Airports : Miles[a.geo][b.geo] \in Nat
         /\ NoCode = Nothing
         /\ \A al \in airlines : al.iata \in Parts[al.iata] /\ Lower[al.name] \in al.texts
         /\ \A a \in Airports : \A c \in {a.iata, a.icao} : Lower[c] \in Parts[Lower[c]]
  <1>1. PICK s \in Stores :
          /\ airports_by_id = [id \in {a.id : a \in s.airports} |-> CHOOSE a \in s.airports : a.id = id]
          /\ airports_by_iata = [c \in {a.iata : a \in s.airports} \ {NoCode} |->
                                   CHOOSE a \in s.airports : a.iata = c]
          /\ airlines = s.airlines
          /\ routes = s.routes
    BY DEF OfStore
  <1>2. /\ IsFiniteSet(s.airports) /\ IsFiniteSet(s.airlines) /\ s.routes \in Seq(Range(s.routes))
        /\ \A a, b \in s.airports : a.id = b.id => a = b
        /\ \A a, b \in s.airports : a.iata = b.iata /\ a.iata # NoCode => a = b
        /\ \A a \in s.airports : a.iata \in Codes \cup {NoCode}
        /\ \A al \in s.airlines : al.iata \in Parts[al.iata] /\ Lower[al.name] \in al.texts
        /\ \A a \in s.airports : \A c \in {a.iata, a.icao} : Lower[c] \in Parts[Lower[c]]
        /\ \A a, b \in s.airports : Miles[a.geo][b.geo] \in Nat
        /\ NoCode = Nothing
    BY StoreAssumption, TextAssumption, DistanceAssumption
  <1>3. \A a \in s.airports : a.id \in DOMAIN airports_by_id /\ airports_by_id[a.id] = a
    <2>1. ASSUME NEW a \in s.airports PROVE (CHOOSE b \in s.airports : b.id = a.id) = a
      BY <1>2
    <2>. QED BY <1>1, <2>1
  <1>4. \A a \in s.airports : a.iata # NoCode => Known(a.iata) /\ airports_by_iata[a.iata] = a
    <2>1. ASSUME NEW a \in s.airports, a.iata # NoCode
          PROVE  (CHOOSE b \in s.airports : b.iata = a.iata) = a
      BY <1>2, <2>1
    <2>. QED BY <1>1, <2>1 DEF Known
  <1>5. \A id \in DOMAIN airports_by_id : \E a \in s.airports : a.id = id
    BY <1>1
  <1>6. \A c \in DOMAIN airports_by_iata : c # NoCode /\ \E a \in s.airports : a.iata = c
    BY <1>1
  <1>7. Airports = s.airports
    BY <1>3, <1>5 DEF Airports
  <1>8. \A c \in DOMAIN airports_by_iata :
          /\ airports_by_iata[c] \in s.airports /\ airports_by_iata[c].iata = c
          /\ airports_by_iata[c] = airports_by_id[airports_by_iata[c].id]
          /\ c \in Codes /\ c # NoCode
    BY <1>2, <1>3, <1>4, <1>6
  <1>9. \A id \in DOMAIN airports_by_id : airports_by_id[id].id = id
    BY <1>3, <1>5
  <1>10. airlines = s.airlines /\ routes = s.routes
    BY <1>1
  <1>. HIDE DEF Known
  <1>. QED BY <1>2, <1>4, <1>7, <1>8, <1>9, <1>10

\* Queries leave the store, so what they would answer stays the same.
LEMMA SameStore ==
  ASSUME UNCHANGED store
  PROVE  /\ OfStore => OfStore'
         /\ \A a, n : TopCities(a, n)' = TopCities(a, n)
         /\ \A c : AirlinesAt(c)' = AirlinesAt(c)
         /\ \A a : AirlineAirports(a)' = AirlineAirports(a)
         /\ MapAirports' = MapAirports
         /\ \A c, d : OneHops(c, d)' = OneHops(c, d)
         /\ \A q : AirlineHits(q)' = AirlineHits(q) /\ AirportHits(q)' = AirportHits(q)
         /\ \A q : StartingAirlines(q)' = StartingAirlines(q)
         /\ \A q : StartingAirports(q)' = StartingAirports(q)
  <1>1. /\ airports_by_id' = airports_by_id /\ airports_by_iata' = airports_by_iata
        /\ airlines' = airlines /\ routes' = routes
    BY DEF store
  <1>2. Airports' = Airports
    BY <1>1 DEF Airports
  <1>3. Cities' = Cities
    BY <1>2 DEF Cities
  <1>4. \A a, c : Into(a, c)' = Into(a, c)
    BY <1>1 DEF Into
  <1>5. \A a : OfAirline(a)' = OfAirline(a)
    BY <1>1 DEF OfAirline
  <1>6. \A c : Touching(c)' = Touching(c)
    BY <1>1 DEF Touching
  <1>7. \A c : OnMap(c)' = OnMap(c) /\ Known(c)' = Known(c)
    BY <1>1 DEF OnMap, Known
  <1>8. \A a, c : Ends(a, c)' = Ends(a, c)
    BY <1>1, <1>5 DEF Ends
  <1>9. \A a, n : TopCities(a, n)' = TopCities(a, n)
    BY <1>3, <1>4 DEF TopCities
  <1>10. \A c : AirlinesAt(c)' = AirlinesAt(c)
    BY <1>5, <1>6 DEF AirlinesAt
  <1>11. \A s, n : Drop(s, n)' = Drop(s, n)
    BY <1>7 DEF Drop
  <1>12. \A a : AirlineAirports(a)' = AirlineAirports(a)
    BY <1>1, <1>5, <1>8, <1>11 DEF AirlineAirports
  <1>13. MapAirports' = MapAirports
    BY <1>1 DEF MapAirports
  <1>14. \A c, d : FirstLegs(c, d)' = FirstLegs(c, d) /\ SecondLegs(c, d)' = SecondLegs(c, d)
    BY <1>1 DEF FirstLegs, SecondLegs, NonStop
  <1>15. \A c, d, e : Total(c, d, e)' = Total(c, d, e)
    BY <1>1 DEF Total, Between
  <1>16. \A c, d : Connections(c, d)' = Connections(c, d)
    BY <1>1, <1>7, <1>14, <1>15 DEF Connections
  <1>17. \A c, d : OneHops(c, d)' = OneHops(c, d)
    BY <1>16 DEF OneHops, Ordered
  <1>18. \A q : AirlineHits(q)' = AirlineHits(q) /\ AirportHits(q)' = AirportHits(q)
    BY <1>1, <1>2 DEF AirlineHits, AirportHits
  <1>19. \A q : StartingAirlines(q)' = StartingAirlines(q)
    BY <1>1 DEF StartingAirlines
  <1>20. \A q : StartingAirports(q)' = StartingAirports(q)
    BY <1>2 DEF StartingAirports
  <1>21. OfStore => OfStore'
    BY <1>1 DEF OfStore
  <1>. QED BY <1>9, <1>10, <1>12, <1>13, <1>17, <1>18, <1>19, <1>20, <1>21

-----------------------------------------------------------------------------
(* The answers.                                                            *)

\* What is answered is an answer the store gives to the request.
Answered ==
  /\ request = <<>> => answer = <<>>
  /\ Asked("top_cities") => request[3] \in Counts /\ answer \in TopCities(request[2], request[3])
  /\ Asked("airlines_at") => answer \in AirlinesAt(request[2])
  /\ Asked("airline_airports") => answer \in AirlineAirports(request[2])
  /\ Asked("map") => answer \in MapAirports
  /\ Asked("onehop") =>
       Known(request[2]) /\ Known(request[3]) /\ answer \in OneHops(request[2], request[3])
  /\ Asked("airlines") => request[2] \in Texts /\ answer \in Found(AirlineHits(request[2]))
  /\ Asked("airports") => request[2] \in Texts /\ answer \in Found(AirportHits(request[2]))
  /\ Asked("suggest_airlines") =>
       answer \in Suggested({AirlineItem(al) : al \in StartingAirlines(request[2])}, request[2])
  /\ Asked("suggest_airports") =>
       answer \in Suggested({AirportItem(a) : a \in StartingAirports(request[2])}, request[2])

Inv == OfStore /\ Answered

LEMMA Received ==
  ASSUME NEW what, NEW answers
  PROVE  /\ Receive(what, <<>>, answers) => request' # <<>> /\ request'[1] = what
         /\ \A a : Receive(what, <<a>>, answers) =>
              request' # <<>> /\ request'[1] = what /\ request'[2] = a
         /\ \A a, b : Receive(what, <<a, b>>, answers) =>
              request' # <<>> /\ request'[1] = what /\ request'[2] = a /\ request'[3] = b
  BY DEF Receive

LEMMA StepInv ==
  ASSUME Inv, [Next]_vars
  PROVE  Inv'
  <1>1. UNCHANGED store
    BY DEF Next, vars, Receive, Reply, AskTopCities, AskAirlinesAt, AskAirlineAirports,
           AskAirlineRoutes, AskMap, AskOneHop, AskAirlines, AskAirports, AskAirlineItems,
           AskAirportItems, AskAirlineReport, AskAirportReport, AskAirport
  <1>2. OfStore'
    BY <1>1, SameStore DEF Inv
  <1>3. /\ airlines' = airlines
        /\ \A c : Known(c)' = Known(c)
    BY <1>1 DEF store, Known
  <1>. SUFFICES Answered'
    BY <1>2 DEF Inv
  <1>4. CASE AskTopCities
    BY <1>1, <1>3, <1>4, Received, SameStore DEF AskTopCities, Receive, Answered, Asked
  <1>5. CASE AskAirlinesAt
    BY <1>1, <1>3, <1>5, Received, SameStore DEF AskAirlinesAt, Receive, Answered, Asked
  <1>6. CASE AskAirlineAirports
    BY <1>1, <1>3, <1>6, Received, SameStore DEF AskAirlineAirports, Receive, Answered, Asked
  <1>7. CASE AskAirlineRoutes
    BY <1>1, <1>3, <1>7, Received, SameStore DEF AskAirlineRoutes, Receive, Answered, Asked
  <1>8. CASE AskMap
    BY <1>1, <1>3, <1>8, Received, SameStore DEF AskMap, Receive, Answered, Asked
  <1>9. CASE AskOneHop
    BY <1>1, <1>3, <1>9, Received, SameStore DEF AskOneHop, Receive, Answered, Asked
  <1>10. CASE AskAirlines
    BY <1>1, <1>3, <1>10, Received, SameStore DEF AskAirlines, Receive, Answered, Asked
  <1>11. CASE AskAirports
    BY <1>1, <1>3, <1>11, Received, SameStore DEF AskAirports, Receive, Answered, Asked
  <1>12. CASE AskAirlineItems
    <2>1. PICK q : Receive("suggest_airlines", <<q>>, Suggested({AirlineItem(al) : al \in StartingAirlines(q)}, q))
      BY <1>12 DEF AskAirlineItems
    <2>2. request' # <<>> /\ request'[1] = "suggest_airlines" /\ request'[2] = q
      BY <2>1, Received
    <2>3. answer' \in Suggested({AirlineItem(al) : al \in StartingAirlines(request[2])}, request[2])'
      BY <1>1, SameStore, <2>1, <2>2 DEF Receive
    <2>. QED BY <2>2, <2>3 DEF Answered, Asked
  <1>13. CASE AskAirportItems
    <2>1. PICK q : Receive("suggest_airports", <<q>>, Suggested({AirportItem(a) : a \in StartingAirports(q)}, q))
      BY <1>13 DEF AskAirportItems
    <2>2. request' # <<>> /\ request'[1] = "suggest_airports" /\ request'[2] = q
      BY <2>1, Received
    <2>3. answer' \in Suggested({AirportItem(a) : a \in StartingAirports(request[2])}, request[2])'
      BY <1>1, SameStore, <2>1, <2>2 DEF Receive
    <2>. QED BY <2>2, <2>3 DEF Answered, Asked
  <1>14. CASE AskAirlineReport
    BY <1>1, <1>3, <1>14, Received, SameStore DEF AskAirlineReport, Receive, Answered, Asked
  <1>15. CASE AskAirportReport
    BY <1>1, <1>3, <1>15, Received, SameStore DEF AskAirportReport, Receive, Answered, Asked
  <1>16. CASE AskAirport
    BY <1>1, <1>3, <1>16, Received, SameStore DEF AskAirport, Receive, Answered, Asked
  <1>17. CASE Reply
    BY <1>17 DEF Reply, Answered, Asked
  <1>18. CASE UNCHANGED vars
    BY <1>1, <1>3, <1>18, SameStore DEF vars, Inv, Answered, Asked
  <1>. QED BY <1>2, <1>4, <1>5, <1>6, <1>7, <1>8, <1>9, <1>10, <1>11, <1>12, <1>13, <1>14, <1>15, <1>16, <1>17, <1>18 DEF Next

-----------------------------------------------------------------------------
(* The rankings.                                                           *)

LEMMA Image ==
  ASSUME NEW S, IsFiniteSet(S), NEW f, DOMAIN f = S
  PROVE  IsFiniteSet({f[x] : x \in S})
  <1>. DEFINE T == {f[x] : x \in S}
              g == [x \in S |-> f[x]]
  <1>1. g \in Surjection(S, T)
    BY DEF Surjection
  <1>. HIDE DEF g, T
  <1>2. IsFiniteSet(T)
    BY <1>1, FS_Surjection
  <1>. QED BY <1>2 DEF T

\* Sets of routes are finite.
LEMMA RouteSets ==
  ASSUME OfStore, NEW R \in SUBSET (DOMAIN routes)
  PROVE  /\ IsFiniteSet(R) /\ Cardinality(R) \in Nat
         /\ Cardinality(R) > 0 <=> R # {}
  <1>1. IsFiniteSet(DOMAIN routes)
    <2>1. routes \in Seq(Range(routes))
      BY StoreFacts
    <2>2. DOMAIN routes = 1..Len(routes) /\ Len(routes) \in Nat
      BY <2>1, LenProperties
    <2>. QED BY <2>2, UpTo
  <1>2. IsFiniteSet(R) /\ Cardinality(R) \in Nat
    BY <1>1, FS_Subset, FS_CardinalityType
  <1>. QED BY <1>2, FS_EmptySet

LEMMA TopLimit ==
  ASSUME NEW n \in Int
  PROVE  Top(n) \in Nat
  BY LimitAssumption DEF Top

LEMMA TopCitiesBest ==
  ASSUME Inv, Asked("top_cities")
  PROVE  TopCitiesAreBest
  <1>. DEFINE a == request[2]
              K == {c \in Cities : Into(a, c) # {}}
              count == [c \in K |-> Cardinality(Into(a, c))]
              n == Top(request[3])
  <1>1. OfStore /\ n \in Nat /\ answer \in RankedAndCut(count, n)
    <2>1. OfStore /\ request[3] \in Int /\ answer \in TopCities(request[2], request[3])
      BY LimitAssumption DEF Inv, Answered
    <2>. QED BY <2>1, TopLimit DEF TopCities
  <1>2. IsFiniteSet(K)
    <2>. DEFINE f == [b \in Airports |-> b.city]
    <2>1. IsFiniteSet({f[b] : b \in Airports})
      <3>1. IsFiniteSet(Airports)
        BY <1>1, StoreFacts
      <3>2. DOMAIN f = Airports
        OBVIOUS
      <3>. HIDE DEF f
      <3>. QED BY <3>1, <3>2, Image
    <2>2. K \in SUBSET {f[b] : b \in Airports}
      BY DEF Cities
    <2>. HIDE DEF K, f
    <2>. QED BY <2>1, <2>2, FS_Subset
  <1>3. \A c : /\ Cardinality(Into(a, c)) \in Nat
               /\ Cardinality(Into(a, c)) > 0 <=> Into(a, c) # {}
    <2>1. \A c : Into(a, c) \in SUBSET (DOMAIN routes)
      BY DEF Into
    <2>. QED BY <1>1, <2>1, RouteSets
  <1>4. count \in [K -> Nat]
    BY <1>3
  <1>5. K = {c \in Cities : Cardinality(Into(a, c)) > 0}
    BY <1>3
  <1>6. \A c \in K : count[c] = Cardinality(Into(a, c))
    OBVIOUS
  <1>. HIDE DEF K, count, n
  <1>7. IsBest(answer, K, count, n)
    BY <1>1, <1>2, <1>4, Ranked
  <1>8. /\ Listed \subseteq K
        /\ Len(answer) = Cardinality(Listed)
        /\ Len(answer) = IF Cardinality(K) <= n THEN Cardinality(K) ELSE n
        /\ \A k \in Listed : CountOf(k) = count[k]
        /\ \A i, j \in DOMAIN answer : i < j => answer[i].count >= answer[j].count
        /\ \A k \in Listed, l \in K \ Listed : count[l] <= count[k]
    BY <1>7, BestAnswer
  <1>. QED BY <1>5, <1>6, <1>8 DEF TopCitiesAreBest, BestOf, n

\* The number of routes "Show" lists for an airline and an airport.
LEMMA ShownRoutes ==
  ASSUME OfStore, NEW a, NEW c
  PROVE  LET shown == {i \in OfAirline(a) : Touches(routes[i], c)}
         IN  Len(AirlineRoutes(a, c)) < MaxListed => Len(AirlineRoutes(a, c)) = Cardinality(shown)
  <1>. DEFINE shown == {i \in OfAirline(a) : Touches(routes[i], c)}
  <1>1. routes \in Seq(Range(routes)) /\ shown \in SUBSET (DOMAIN routes) /\ MaxListed \in Nat
    BY StoreFacts, LimitAssumption DEF OfAirline
  <1>2. AirlineRoutes(a, c) = Cut(At(routes, shown), MaxListed)
    BY DEF AirlineRoutes
  <1>. HIDE DEF shown
  <1>3. At(routes, shown) \in Seq(Range(routes)) /\ Len(At(routes, shown)) = Cardinality(shown)
    BY <1>1, Kept
  <1>4. Len(Cut(At(routes, shown), MaxListed))
          = IF Len(At(routes, shown)) <= MaxListed THEN Len(At(routes, shown)) ELSE MaxListed
    BY <1>1, <1>3, CutEntries
  <1>. QED BY <1>1, <1>2, <1>3, <1>4 DEF shown

LEMMA AirlinesAtBest ==
  ASSUME Inv, Asked("airlines_at"), NEW a \in Listed
  PROVE  CountOf(a) = Cardinality(OfAirline(a) \cap Touching(request[2]))
  <1>. DEFINE at(b) == OfAirline(b) \cap Touching(request[2])
              K == {b \in AirlineCodes : at(b) # {}}
              count == [b \in K |-> Cardinality(at(b))]
  <1>1. OfStore /\ MaxAirlines \in Nat /\ answer \in RankedAndCut(count, MaxAirlines)
    BY LimitAssumption DEF Inv, Answered, AirlinesAt
  <1>2. IsFiniteSet(K)
    <2>. DEFINE f == [i \in DOMAIN routes |-> routes[i].airline]
    <2>1. IsFiniteSet({f[i] : i \in DOMAIN routes})
      <3>1. IsFiniteSet(DOMAIN routes) /\ DOMAIN f = DOMAIN routes
        BY <1>1, RouteSets
      <3>. HIDE DEF f
      <3>. QED BY <3>1, Image
    <2>2. K \in SUBSET {f[i] : i \in DOMAIN routes}
      BY DEF OfAirline
    <2>. HIDE DEF K, f
    <2>. QED BY <2>1, <2>2, FS_Subset
  <1>3. count \in [K -> Nat]
    <2>1. \A b : at(b) \in SUBSET (DOMAIN routes)
      BY DEF OfAirline
    <2>2. \A b : Cardinality(at(b)) \in Nat
      BY <1>1, <2>1, RouteSets
    <2>. QED BY <2>2
  <1>4. \A b \in K : count[b] = Cardinality(at(b))
    OBVIOUS
  <1>. HIDE DEF K, count
  <1>5. IsBest(answer, K, count, MaxAirlines)
    BY <1>1, <1>2, <1>3, Ranked
  <1>6. Listed \subseteq K /\ CountOf(a) = count[a]
    BY <1>5, BestAnswer
  <1>. QED BY <1>4, <1>6

LEMMA ServedBest ==
  ASSUME Inv, Asked("airline_airports")
  PROVE  ServedAreBest
  <1>. DEFINE a == request[2]
              named == (UNION {{routes[i].src, routes[i].dest} : i \in OfAirline(a)}) \ {NoCode}
              count == [c \in named |-> Ends(a, c)]
              L == {c \in named : OnMap(c)}
  <1>1. OfStore /\ MaxServed \in Nat
    BY LimitAssumption DEF Inv
  <1>2. PICK s \in RankedAndCut(count, Cardinality(named)) : answer = Drop(s, MaxServed)
    BY DEF Inv, Answered, AirlineAirports
  <1>3. IsFiniteSet(named)
    <2>. DEFINE f == [i \in DOMAIN routes |-> routes[i].src]
                g == [i \in DOMAIN routes |-> routes[i].dest]
                F == {f[i] : i \in DOMAIN routes}
                G == {g[i] : i \in DOMAIN routes}
    <2>1. IsFiniteSet(F) /\ IsFiniteSet(G)
      <3>1. IsFiniteSet(DOMAIN routes) /\ DOMAIN f = DOMAIN routes /\ DOMAIN g = DOMAIN routes
        BY <1>1, RouteSets
      <3>. HIDE DEF f, g
      <3>. QED BY <3>1, Image
    <2>2. named \in SUBSET (F \cup G)
      BY DEF OfAirline
    <2>. HIDE DEF named, F, G
    <2>. QED BY <2>1, <2>2, FS_Union, FS_Subset
  <1>4. \A c : Ends(a, c) \in Nat /\ (c \in named <=> c # NoCode /\ Ends(a, c) > 0)
    <2>. DEFINE from(c) == {i \in OfAirline(a) : routes[i].src = c}
                to(c) == {i \in OfAirline(a) : routes[i].dest = c}
    <2>1. \A c : from(c) \in SUBSET (DOMAIN routes) /\ to(c) \in SUBSET (DOMAIN routes)
      BY DEF OfAirline
    <2>2. \A c : c \in named <=> c # NoCode /\ (from(c) # {} \/ to(c) # {})
      OBVIOUS
    <2>3. \A c : Ends(a, c) = Cardinality(from(c)) + Cardinality(to(c))
      BY DEF Ends
    <2>. HIDE DEF from, to, named
    <2>4. \A c : /\ Cardinality(from(c)) \in Nat /\ Cardinality(to(c)) \in Nat
                 /\ Cardinality(from(c)) > 0 <=> from(c) # {}
                 /\ Cardinality(to(c)) > 0 <=> to(c) # {}
      BY <1>1, <2>1, RouteSets
    <2>. QED BY <2>2, <2>3, <2>4
  <1>5. L = {c \in Codes : OnMap(c) /\ Ends(a, c) > 0}
    <2>1. \A c : OnMap(c) => c \in Codes /\ c # NoCode
      BY <1>1, StoreFacts DEF OnMap, Known
    <2>. HIDE DEF named
    <2>. QED BY <1>4, <2>1
  <1>6. count \in [named -> Nat] /\ Cardinality(named) \in Nat
    <2>1. Cardinality(named) \in Nat
      BY <1>3, FS_CardinalityType
    <2>. HIDE DEF named
    <2>. QED BY <1>4, <2>1
  <1>7. \A c \in L : count[c] = Ends(a, c)
    OBVIOUS
  <1>8. L \in SUBSET named
    OBVIOUS
  <1>9. answer = Cut(At(s, {i \in DOMAIN s : OnMap(s[i].of)}), MaxServed)
    BY <1>2 DEF Drop
  <1>. HIDE DEF named, count
  <1>10. IsBest(s, named, count, Cardinality(named))
    BY <1>2, <1>3, <1>6, Ranked
  <1>11. {i \in DOMAIN s : OnMap(s[i].of)} = {i \in DOMAIN s : s[i].of \in L}
    <2>1. \A i \in DOMAIN s : s[i].of \in named
      BY <1>10, BestEntries
    <2>. QED BY <2>1
  <1>. HIDE DEF L
  <1>12. IsBest(At(s, {i \in DOMAIN s : s[i].of \in L}), L, count, Cardinality(L))
    BY <1>3, <1>8, <1>10, KeptBest
  <1>13. IsFiniteSet(L)
    BY <1>3, <1>8, FS_Subset
  <1>14. IsBest(answer, L, count, MaxServed)
    BY <1>1, <1>9, <1>11, <1>12, <1>13, CutBest
  <1>15. /\ Listed \subseteq L
         /\ Len(answer) = Cardinality(Listed)
         /\ Len(answer) = IF Cardinality(L) <= MaxServed THEN Cardinality(L) ELSE MaxServed
         /\ \A k \in Listed : CountOf(k) = count[k]
         /\ \A i, j \in DOMAIN answer : i < j => answer[i].count >= answer[j].count
         /\ \A k \in Listed, l \in L \ Listed : count[l] <= count[k]
    BY <1>14, BestAnswer
  <1>. QED BY <1>5, <1>7, <1>15 DEF ServedAreBest, BestOf

LEMMA CountsSame ==
  ASSUME Inv
  PROVE  CountsAgree
  <1>1. OfStore
    BY DEF Inv
  <1>2. ASSUME Asked("airline_airports"), NEW c \in Listed,
               Len(AirlineRoutes(request[2], c)) < MaxListed
        PROVE  LET loops == {i \in OfAirline(request[2]) : routes[i].src = c /\ routes[i].dest = c}
               IN  CountOf(c) = Len(AirlineRoutes(request[2], c)) + Cardinality(loops)
    <2>. DEFINE a == request[2]
                from == {i \in OfAirline(a) : routes[i].src = c}
                to == {i \in OfAirline(a) : routes[i].dest = c}
    <2>1. CountOf(c) = Cardinality(from) + Cardinality(to)
      <3>1. CountOf(c) = Ends(a, c)
        BY <1>2, ServedBest DEF ServedAreBest, BestOf
      <3>. QED BY <3>1 DEF Ends
    <2>2. from \in SUBSET (DOMAIN routes) /\ to \in SUBSET (DOMAIN routes)
      BY DEF OfAirline
    <2>3. {i \in OfAirline(a) : Touches(routes[i], c)} = from \cup to
      BY DEF Touches
    <2>4. {i \in OfAirline(a) : routes[i].src = c /\ routes[i].dest = c} = from \cap to
      OBVIOUS
    <2>. HIDE DEF from, to
    <2>5. /\ IsFiniteSet(from) /\ IsFiniteSet(to)
          /\ Cardinality(from) \in Nat /\ Cardinality(to) \in Nat
          /\ Cardinality(from \cap to) \in Nat
      <3>1. from \cap to \in SUBSET (DOMAIN routes)
        BY <2>2
      <3>. QED BY <1>1, <2>2, <3>1, RouteSets
    <2>6. Cardinality(from \cup to) = Cardinality(from) + Cardinality(to) - Cardinality(from \cap to)
      BY <2>5, FS_Union
    <2>7. Len(AirlineRoutes(a, c)) = Cardinality(from \cup to)
      BY <1>1, <1>2, <2>3, ShownRoutes
    <2>8. CountOf(c) = Len(AirlineRoutes(a, c)) + Cardinality(from \cap to)
      <3>. HIDE DEF a
      <3>. QED BY <2>1, <2>5, <2>6, <2>7
    <2>. QED BY <2>4, <2>8
  <1>3. ASSUME Asked("airlines_at"), NEW a \in Listed,
               Len(AirlineRoutes(a, request[2])) < MaxListed
        PROVE  CountOf(a) = Len(AirlineRoutes(a, request[2]))
    <2>1. {i \in OfAirline(a) : Touches(routes[i], request[2])} = OfAirline(a) \cap Touching(request[2])
      BY DEF Touches, Touching, OfAirline
    <2>. QED BY <1>1, <1>3, <2>1, ShownRoutes, AirlinesAtBest
  <1>4. ASSUME Asked("airline_airports"), NEW c \in Listed, Upper[request[2]] = request[2], Upper[c] = c
        PROVE  AirlineRoutes(Upper[request[2]], Upper[c]) = AirlineRoutes(request[2], c)
    BY <1>4
  <1>5. ASSUME Asked("airlines_at"), NEW a \in Listed, Upper[a] = a, Upper[request[2]] = request[2]
        PROVE  AirlineRoutes(Upper[a], Upper[request[2]]) = AirlineRoutes(a, request[2])
    BY <1>5
  <1>. QED BY <1>2, <1>3, <1>4, <1>5 DEF CountsAgree

-----------------------------------------------------------------------------
(* The map.                                                                *)

Starts(id) == {i \in DOMAIN routes : routes[i].src_id = id}
Landings(id) == {i \in DOMAIN routes : routes[i].dest_id = id}

\* The ends of routes, counted as pairs of a route and a side.
LEMMA RouteEnds ==
  ASSUME OfStore, NEW id
  PROVE  Cardinality({e \in (DOMAIN routes) \X {"src_id", "dest_id"} : routes[e[1]][e[2]] = id})
           = Cardinality(Starts(id)) + Cardinality(Landings(id))
  <1>. DEFINE P == {e \in (DOMAIN routes) \X {"src_id", "dest_id"} : routes[e[1]][e[2]] = id}
              A == {e \in P : e[2] = "src_id"}
              B == {e \in P : e[2] = "dest_id"}
  <1>1. P = A \cup B /\ A \cap B = {}
    OBVIOUS
  <1>2. IsFiniteSet(Starts(id)) /\ IsFiniteSet(Landings(id))
        /\ Cardinality(Starts(id)) \in Nat /\ Cardinality(Landings(id)) \in Nat
    <2>1. Starts(id) \in SUBSET (DOMAIN routes) /\ Landings(id) \in SUBSET (DOMAIN routes)
      BY DEF Starts, Landings
    <2>. QED BY <2>1, RouteSets
  <1>3. IsFiniteSet(A) /\ Cardinality(A) = Cardinality(Starts(id))
    <2>. DEFINE f == [i \in Starts(id) |-> <<i, "src_id">>]
    <2>1. f \in [Starts(id) -> A]
      BY DEF Starts
    <2>2. \A i, j \in Starts(id) : f[i] = f[j] => i = j
      OBVIOUS
    <2>3. \A e \in A : \E i \in Starts(id) : f[i] = e
      BY DEF Starts
    <2>. HIDE DEF f, A
    <2>. QED BY <1>2, <2>1, <2>2, <2>3, SameSize
  <1>4. IsFiniteSet(B) /\ Cardinality(B) = Cardinality(Landings(id))
    <2>. DEFINE f == [i \in Landings(id) |-> <<i, "dest_id">>]
    <2>1. f \in [Landings(id) -> B]
      BY DEF Landings
    <2>2. \A i, j \in Landings(id) : f[i] = f[j] => i = j
      OBVIOUS
    <2>3. \A e \in B : \E i \in Landings(id) : f[i] = e
      BY DEF Landings
    <2>. HIDE DEF f, B
    <2>. QED BY <1>2, <2>1, <2>2, <2>3, SameSize
  <1>. HIDE DEF P, A, B
  <1>5. Cardinality(A \cup B) = Cardinality(A) + Cardinality(B) - Cardinality(A \cap B)
    BY <1>3, <1>4, FS_Union
  <1>6. Cardinality(A \cap B) = 0
    BY <1>1, FS_EmptySet
  <1>7. Cardinality(P) = Cardinality(Starts(id)) + Cardinality(Landings(id))
    BY <1>1, <1>2, <1>3, <1>4, <1>5, <1>6
  <1>. QED BY <1>7 DEF P

LEMMA MapBest ==
  ASSUME Inv, Asked("map")
  PROVE  MapIsTop /\ Len(answer) <= MaxMap
  <1>. DEFINE ids == UNION {{routes[i].src_id, routes[i].dest_id} : i \in DOMAIN routes}
              used == {id \in ids : id > 0}
              ends(id) == Cardinality(Starts(id)) + Cardinality(Landings(id))
              count == [id \in used |-> ends(id)]
              named == {id \in used \cap DOMAIN airports_by_id : airports_by_id[id].iata # NoCode}
  <1>1. OfStore /\ MaxMap \in Nat
    BY LimitAssumption DEF Inv
  <1>2. PICK s \in RankedAndCut(count, MaxMap) : answer = At(s, {i \in DOMAIN s :
                s[i].of \in DOMAIN airports_by_id /\ airports_by_id[s[i].of].iata # NoCode})
    BY DEF Inv, Answered, MapAirports, Starts, Landings
  <1>3. IsFiniteSet(used)
    <2>. DEFINE f == [i \in DOMAIN routes |-> routes[i].src_id]
                g == [i \in DOMAIN routes |-> routes[i].dest_id]
                F == {f[i] : i \in DOMAIN routes}
                G == {g[i] : i \in DOMAIN routes}
    <2>1. IsFiniteSet(F) /\ IsFiniteSet(G)
      <3>1. IsFiniteSet(DOMAIN routes) /\ DOMAIN f = DOMAIN routes /\ DOMAIN g = DOMAIN routes
        BY <1>1, RouteSets
      <3>. HIDE DEF f, g
      <3>. QED BY <3>1, Image
    <2>2. used \in SUBSET (F \cup G)
      OBVIOUS
    <2>. HIDE DEF used, F, G
    <2>. QED BY <2>1, <2>2, FS_Union, FS_Subset
  <1>4. count \in [used -> Nat]
    <2>1. \A id : Starts(id) \in SUBSET (DOMAIN routes) /\ Landings(id) \in SUBSET (DOMAIN routes)
      BY DEF Starts, Landings
    <2>2. \A id : Cardinality(Starts(id)) \in Nat /\ Cardinality(Landings(id)) \in Nat
      BY <1>1, <2>1, RouteSets
    <2>. HIDE DEF used
    <2>. QED BY <2>2
  <1>5. \A id \in used : count[id] = ends(id)
    OBVIOUS
  <1>6. named \in SUBSET used
    OBVIOUS
  <1>7. \A id \in used : id \in named <=>
          id \in DOMAIN airports_by_id /\ airports_by_id[id].iata # NoCode
    OBVIOUS
  <1>. DEFINE at == {i \in DOMAIN s : s[i].of \in named}
  <1>. HIDE DEF used, count, named, ends
  <1>8. IsBest(s, used, count, MaxMap)
    BY <1>1, <1>2, <1>3, <1>4, Ranked
  <1>9. /\ Len(s) \in Nat /\ DOMAIN s = 1..Len(s)
        /\ \A i \in DOMAIN s : s[i].of \in used
    BY <1>8, BestEntries
  <1>10. answer = At(s, at)
    BY <1>2, <1>7, <1>9
  <1>11. at \in SUBSET (DOMAIN s) /\ \A i \in at : s[i].of \in named
    OBVIOUS
  <1>12. /\ Len(answer) = Cardinality(at)
         /\ \A k \in DOMAIN answer : \E i \in at : answer[k] = s[i]
         /\ \A i \in at : \E k \in DOMAIN answer : answer[k] = s[i]
    <2>. DEFINE R == [of : used, count : Nat]
    <2>1. s \in Seq(R)
      BY <1>8 DEF IsBest
    <2>. HIDE DEF at, R
    <2>2. Len(At(s, at)) = Cardinality(at)
      BY <1>11, <2>1, Kept
    <2>3. \A k \in DOMAIN At(s, at) : \E i \in at : Place(at, i) = k /\ At(s, at)[k] = s[i]
      BY <1>11, <2>1, Kept
    <2>4. \A i \in at : Place(at, i) \in DOMAIN At(s, at) /\ At(s, at)[Place(at, i)] = s[i]
      BY <1>11, <2>1, Kept
    <2>. QED BY <1>10, <2>2, <2>3, <2>4
  <1>13. /\ \A k \in Listed : \E i \in at : s[i].of = k
         /\ \A i \in at : s[i].of \in Listed
    <2>. HIDE DEF at
    <2>. QED BY <1>12 DEF Listed
  <1>14. Listed \subseteq named
    BY <1>11, <1>13
  <1>15. ASSUME NEW k \in Listed, NEW l \in named \ Listed
         PROVE  ends(l) <= ends(k)
    <2>1. PICK i \in at : s[i].of = k
      BY <1>13
    <2>2. \A j \in DOMAIN s : s[j].of # l
      BY <1>13
    <2>3. s[i].count = count[k] /\ count[l] <= s[i].count
      BY <1>6, <1>8, <2>1, <2>2 DEF IsBest
    <2>. QED BY <1>5, <1>6, <1>14, <2>3
  <1>16. named \subseteq Listed \/ Len(answer) >= MaxMap - Cardinality(used \ named)
    <2>1. Cardinality(used) \in Nat
      BY <1>3, FS_CardinalityType
    <2>2. CASE Cardinality(used) <= MaxMap
      <3>1. IsBest(s, used, count, Cardinality(used))
        BY <1>8, <2>1, <2>2 DEF IsBest
      <3>2. \A l \in named : \E i \in DOMAIN s : s[i].of = l
        BY <1>3, <1>6, <3>1, BestIsAll
      <3>. QED BY <1>13, <3>2
    <2>3. CASE Cardinality(used) > MaxMap
      <3>. DEFINE un == {i \in DOMAIN s : s[i].of \in used \ named}
      <3>1. Len(s) = MaxMap
        BY <1>1, <1>8, <2>1, <2>3 DEF IsBest
      <3>2. un = (1..Len(s)) \ at /\ at \in SUBSET (1..Len(s))
        BY <1>9
      <3>3. IsFiniteSet(un) /\ Cardinality(un) <= Cardinality(used \ named)
        <4>. DEFINE f == [i \in un |-> s[i].of]
        <4>1. f \in Injection(un, used \ named)
          BY <1>8 DEF IsBest, Injection, IsInjective
        <4>2. IsFiniteSet(used \ named)
          BY <1>3, FS_Difference
        <4>. HIDE DEF f, un
        <4>. QED BY <4>1, <4>2, FS_Injection
      <3>4. Cardinality(un) \in Nat /\ Cardinality(used \ named) \in Nat
        BY <1>3, <3>3, FS_Difference, FS_CardinalityType
      <3>5. Cardinality(un) = Len(s) - Cardinality(at)
        <4>1. (1..Len(s)) \cap at = at
          BY <3>2
        <4>2. IsFiniteSet(1..Len(s)) /\ Cardinality(1..Len(s)) = Len(s)
          BY <1>9, UpTo
        <4>3. Cardinality((1..Len(s)) \ at) = Cardinality(1..Len(s)) - Cardinality((1..Len(s)) \cap at)
          BY <4>2, FS_Difference
        <4>. QED BY <3>2, <4>1, <4>2, <4>3
      <3>6. Cardinality(at) \in Nat
        <4>1. IsFiniteSet(1..Len(s))
          BY <1>9, UpTo
        <4>. HIDE DEF at, un
        <4>. QED BY <3>2, <4>1, FS_Subset, FS_CardinalityType
      <3>. HIDE DEF at, un
      <3>. QED BY <1>1, <1>12, <3>1, <3>3, <3>4, <3>5, <3>6
    <2>. QED BY <1>1, <2>1, <2>2, <2>3
  <1>17. \A id : Cardinality({e \in (DOMAIN routes) \X {"src_id", "dest_id"} : routes[e[1]][e[2]] = id})
                   = ends(id)
    BY <1>1, RouteEnds DEF ends
  <1>. HIDE DEF at
  <1>18. used = {id \in UNION {{routes[i].src_id, routes[i].dest_id} : i \in DOMAIN routes} : id > 0}
         /\ named = {id \in used \cap DOMAIN airports_by_id : airports_by_id[id].iata # NoCode}
    BY DEF used, named
  <1>19. MapIsTop
    BY <1>14, <1>15, <1>16, <1>17, <1>18 DEF MapIsTop
  <1>20. Len(answer) <= MaxMap
    <2>. DEFINE R == [of : used, count : Nat]
    <2>1. s \in Seq(R)
      BY <1>8 DEF IsBest
    <2>. HIDE DEF R
    <2>2. Cardinality(at) \in Nat /\ Cardinality(at) <= Len(s)
      BY <1>11, <2>1, Kept DEF at
    <2>3. Len(s) <= MaxMap
      <3>1. Cardinality(used) \in Nat
        BY <1>3, FS_CardinalityType
      <3>. QED BY <1>1, <1>8, <3>1 DEF IsBest
    <2>. QED BY <1>1, <1>9, <1>12, <2>2, <2>3
  <1>. QED BY <1>19, <1>20

-----------------------------------------------------------------------------
(* Connections.                                                            *)

\* The pairs of routes a connection is made of.
Legs(from, to) ==
  {p \in FirstLegs(from, to) \X SecondLegs(from, to) :
     routes[p[1]].dest = routes[p[2]].src /\ Known(routes[p[1]].dest)}

Hop(from, to, p) ==
  [via |-> routes[p[1]].dest, leg1 |-> p[1], leg2 |-> p[2],
   total |-> Total(from, routes[p[1]].dest, to)]

LEMMA ConnectionEntries ==
  ASSUME OfStore, NEW from, NEW to, Known(from), Known(to)
  PROVE  /\ IsFiniteSet(Connections(from, to))
         /\ \A p \in Legs(from, to) :
              /\ Hop(from, to, p) \in Connections(from, to)
              /\ p \in (DOMAIN routes) \X (DOMAIN routes)
         /\ \A e \in Connections(from, to) :
              <<e.leg1, e.leg2>> \in Legs(from, to) /\ e = Hop(from, to, <<e.leg1, e.leg2>>)
         /\ \A e \in Connections(from, to) : e.total \in Nat
  <1>. DEFINE D == DOMAIN routes
              f == [p \in Legs(from, to) |-> Hop(from, to, p)]
  <1>1. Connections(from, to) = {Hop(from, to, p) : p \in Legs(from, to)}
    BY DEF Connections, Hop, Legs
  <1>2. \A p \in Legs(from, to) : p \in D \X D /\ Known(routes[p[1]].dest)
    BY DEF Legs, FirstLegs, SecondLegs
  <1>3. IsFiniteSet(Connections(from, to))
    <2>1. IsFiniteSet(D)
      BY RouteSets
    <2>. HIDE DEF D
    <2>2. IsFiniteSet(D \X D)
      BY <2>1, FS_Product
    <2>3. IsFiniteSet(Legs(from, to))
      <3>1. Legs(from, to) \in SUBSET (D \X D)
        BY <1>2
      <3>. QED BY <2>2, <3>1, FS_Subset
    <2>4. {f[p] : p \in Legs(from, to)} = Connections(from, to)
      BY <1>1
    <2>5. DOMAIN f = Legs(from, to)
      OBVIOUS
    <2>. HIDE DEF f
    <2>. QED BY <2>3, <2>4, <2>5, Image
  <1>4. \A c, d : Known(c) /\ Known(d) => Between(c, d) \in Nat
    BY StoreFacts DEF Between, Known
  <1>5. \A p \in Legs(from, to) : Total(from, routes[p[1]].dest, to) \in Nat
    BY <1>2, <1>4 DEF Total
  <1>6. \A p \in Legs(from, to) : Hop(from, to, p).leg1 = p[1] /\ Hop(from, to, p).leg2 = p[2]
                                  /\ Hop(from, to, p).total = Total(from, routes[p[1]].dest, to)
    BY DEF Hop
  <1>7. \A p \in Legs(from, to) : p = <<p[1], p[2]>>
    BY <1>2
  <1>. QED BY <1>1, <1>2, <1>3, <1>5, <1>6, <1>7

LEMMA HopsBest ==
  ASSUME Inv, Asked("onehop")
  PROVE  OneHopsAreShortest /\ \A i \in DOMAIN answer : answer[i].leg1 \in DOMAIN routes
  <1>. DEFINE from == request[2]
              to == request[3]
              E == Connections(from, to)
              flown == {p \in (DOMAIN routes) \X (DOMAIN routes) :
                          /\ routes[p[1]].src = from /\ routes[p[2]].dest = to
                          /\ routes[p[1]].dest = routes[p[2]].src
                          /\ routes[p[1]].dest \notin {from, to}
                          /\ routes[p[1]].stops = 0 /\ routes[p[2]].stops = 0
                          /\ Known(routes[p[1]].dest)}
              listed == {<<answer[i].leg1, answer[i].leg2>> : i \in DOMAIN answer}
              miles(p) == Total(from, routes[p[1]].dest, to)
  <1>1. OfStore /\ Known(from) /\ Known(to) /\ answer \in OneHops(from, to) /\ MaxHops \in Nat
    BY LimitAssumption DEF Inv, Answered
  <1>2. flown = Legs(from, to)
    <2>1. \A c : Known(c) => c # NoCode
      BY <1>1, StoreFacts DEF Known
    <2>2. ASSUME NEW p \in (DOMAIN routes) \X (DOMAIN routes)
          PROVE  p \in flown <=> p \in Legs(from, to)
      BY <1>1, <2>1 DEF Legs, FirstLegs, SecondLegs, NonStop
    <2>3. \A p \in Legs(from, to) : p \in (DOMAIN routes) \X (DOMAIN routes)
      BY <1>1, ConnectionEntries
    <2>4. \A p \in flown : p \in (DOMAIN routes) \X (DOMAIN routes)
      OBVIOUS
    <2>. HIDE DEF flown
    <2>. QED BY <2>2, <2>3, <2>4
  <1>3. PICK s \in SetToSeqs(E) :
          /\ \A i, j \in DOMAIN s : i < j => ~(s[j].total < s[i].total)
          /\ answer = Cut(s, MaxHops)
    BY <1>1 DEF OneHops, Ordered, Shorter
  <1>4. /\ IsFiniteSet(E)
        /\ \A p \in Legs(from, to) : Hop(from, to, p) \in E /\ p \in (DOMAIN routes) \X (DOMAIN routes)
        /\ \A e \in E : <<e.leg1, e.leg2>> \in Legs(from, to) /\ e = Hop(from, to, <<e.leg1, e.leg2>>)
        /\ \A e \in E : e.total \in Nat
    BY <1>1, ConnectionEntries
  <1>5. \A p \in Legs(from, to) :
          /\ Hop(from, to, p).total = miles(p)
          /\ <<Hop(from, to, p).leg1, Hop(from, to, p).leg2>> = p
    <2>1. \A p \in Legs(from, to) : p = <<p[1], p[2]>>
      BY <1>4
    <2>2. \A p : /\ Hop(from, to, p).total = miles(p)
                 /\ Hop(from, to, p).leg1 = p[1] /\ Hop(from, to, p).leg2 = p[2]
      BY DEF Hop
    <2>. HIDE DEF from, to, miles
    <2>. QED BY <2>1, <2>2
  <1>. HIDE DEF E, from, to, flown, miles
  <1>6. /\ s \in Seq(E) /\ Len(s) = Cardinality(E) /\ Cardinality(E) \in Nat
        /\ \A e \in E : \E i \in DOMAIN s : s[i] = e
    BY <1>3, <1>4, Listing
  <1>7. DOMAIN s = 1..Len(s) /\ \A i \in DOMAIN s : s[i] \in E
    BY <1>6, LenProperties
  <1>8. /\ Len(answer) = (IF Len(s) <= MaxHops THEN Len(s) ELSE MaxHops)
        /\ DOMAIN answer = 1..Len(answer)
        /\ \A i \in DOMAIN answer : i \in DOMAIN s /\ answer[i] = s[i]
    BY <1>1, <1>3, <1>6, CutEntries
  <1>9. \A i \in DOMAIN answer : /\ answer[i] \in E
                                 /\ <<answer[i].leg1, answer[i].leg2>> \in Legs(from, to)
                                 /\ answer[i].total = miles(<<answer[i].leg1, answer[i].leg2>>)
    <2>1. \A i \in DOMAIN answer : answer[i] \in E
      BY <1>7, <1>8
    <2>. QED BY <1>4, <1>5, <2>1
  <1>10. listed \subseteq flown
    BY <1>2, <1>9
  <1>11. ASSUME NEW r \in flown, r \notin listed
         PROVE  \E j \in DOMAIN s : j \notin DOMAIN answer /\ s[j].total = miles(r)
    <2>1. PICK j \in DOMAIN s : s[j] = Hop(from, to, r)
      BY <1>2, <1>4, <1>6
    <2>2. j \notin DOMAIN answer
      BY <1>2, <1>5, <1>8, <1>11, <2>1
    <2>. QED BY <1>2, <1>5, <2>1, <2>2
  <1>12. flown = listed \/ Len(answer) = MaxHops
    <2>1. CASE Len(s) <= MaxHops
      BY <1>7, <1>8, <1>10, <1>11, <2>1
    <2>2. CASE ~(Len(s) <= MaxHops)
      BY <1>8, <2>2
    <2>. QED BY <2>1, <2>2
  <1>13. ASSUME NEW p \in listed, NEW r \in flown \ listed
         PROVE  miles(p) <= miles(r)
    <2>1. PICK i \in DOMAIN answer : p = <<answer[i].leg1, answer[i].leg2>>
      OBVIOUS
    <2>2. PICK j \in DOMAIN s : j \notin DOMAIN answer /\ s[j].total = miles(r)
      BY <1>11
    <2>3. i \in DOMAIN s /\ s[i] = answer[i] /\ i < j
      BY <1>1, <1>6, <1>7, <1>8, <2>2
    <2>4. s[i].total = miles(p)
      BY <1>9, <2>1, <2>3
    <2>5. s[i].total \in Nat /\ s[j].total \in Nat /\ ~(s[j].total < s[i].total)
      BY <1>3, <1>4, <1>7, <2>3
    <2>. QED BY <2>2, <2>4, <2>5
  <1>14. OneHopsAreShortest
    <2>. HIDE DEF listed
    <2>. QED BY <1>10, <1>12, <1>13 DEF OneHopsAreShortest, flown, listed, miles, from, to
  <1>15. \A i \in DOMAIN answer : answer[i].leg1 \in DOMAIN routes
    BY <1>4, <1>9
  <1>. QED BY <1>14, <1>15

-----------------------------------------------------------------------------
(* Searches and suggestions.                                               *)

\* A list of results that is not cut has them all.
LEMMA FoundAll ==
  ASSUME NEW hits, IsFiniteSet(hits), NEW found \in Found(hits)
  PROVE  /\ found \in Seq(hits)
         /\ Cardinality(hits) <= MaxFound =>
              /\ Len(found) = Cardinality(hits)
              /\ \A x \in hits : \E i \in DOMAIN found : found[i] = x
  <1>1. PICK s \in SetToSeqs(hits) : found = Cut(s, MaxFound)
    BY DEF Found
  <1>2. /\ s \in Seq(hits) /\ Len(s) = Cardinality(hits) /\ Cardinality(hits) \in Nat
        /\ \A x \in hits : \E i \in DOMAIN s : s[i] = x
    BY <1>1, Listing
  <1>3. MaxFound \in Nat
    BY LimitAssumption
  <1>4. /\ found \in Seq(hits)
        /\ Len(found) = IF Len(s) <= MaxFound THEN Len(s) ELSE MaxFound
        /\ DOMAIN found = 1..Len(found)
        /\ \A i \in DOMAIN found : found[i] = s[i]
    BY <1>1, <1>2, <1>3, CutEntries
  <1>5. DOMAIN s = 1..Len(s)
    BY <1>2, LenProperties
  <1>. QED BY <1>2, <1>4, <1>5

\* Of results that decide it, the page picks one that has the code, if one has.
LEMMA PickExact ==
  ASSUME NEW hits, IsFiniteSet(hits), NEW q, Decided(hits, q), NEW found \in Found(hits),
         NEW exact \in SUBSET (DOMAIN found), exact # {}
  PROVE  /\ found # <<>>
         /\ \E i \in exact : Preferred(found, q, exact) = found[i] /\ found[i] \in hits
  <1>. DEFINE first == CHOOSE j \in exact : \A k \in exact : j <= k
              short == Size[q] <= 3
  <1>1. found \in Seq(hits) /\ (short \/ Len(found) = 1)
    BY FoundAll DEF Decided
  <1>2. /\ DOMAIN found = 1..Len(found) /\ Len(found) \in Nat
        /\ \A j \in DOMAIN found : found[j] \in hits
    BY <1>1, LenProperties
  <1>3. exact \in SUBSET Nat
    BY <1>2
  <1>4. first \in exact
    <2>1. \E j \in exact : \A k \in exact : j <= k
      BY <1>3, Least
    <2>. QED BY <2>1
  <1>5. found # <<>> /\ found[first] \in hits /\ first \in 1..Len(found)
    BY <1>2, <1>4
  <1>6. CASE Len(found) > 1
    <2>1. short
      <3>. HIDE DEF short
      <3>. QED BY <1>1, <1>2, <1>6
    <2>2. Preferred(found, q, exact) = found[first]
      BY <1>6, <2>1 DEF Preferred
    <2>. QED BY <1>4, <1>5, <2>2
  <1>7. CASE ~(Len(found) > 1)
    <2>1. first = 1
      <3>. HIDE DEF first
      <3>. QED BY <1>2, <1>5, <1>7
    <2>2. Preferred(found, q, exact) = found[1]
      BY <1>7 DEF Preferred
    <2>. QED BY <1>4, <1>5, <2>1, <2>2
  <1>. QED BY <1>6, <1>7

\* What a search finds is finite.
LEMMA HitsFinite ==
  ASSUME OfStore, NEW q
  PROVE  IsFiniteSet(AirlineHits(q)) /\ IsFiniteSet(AirportHits(q))
  <1>1. AirlineHits(q) \in SUBSET airlines /\ AirportHits(q) \in SUBSET Airports
    BY DEF AirlineHits, AirportHits
  <1>. QED BY <1>1, StoreFacts, FS_Subset

\* The same of each of the two searches.
LEMMA AirlinePicked ==
  ASSUME OfStore, NEW q, Decided(AirlineHits(q), q), NEW found \in Found(AirlineHits(q)),
         NEW al \in AirlineHits(q), Upper[al.iata] = Upper[q]
  PROVE  found # <<>> /\ Upper[PickedAirline(found, q).iata] = Upper[q]
  <1>. DEFINE exact == {i \in DOMAIN found : Upper[found[i].iata] = Upper[q]}
  <1>1. PickedAirline(found, q) = Preferred(found, q, exact)
    BY DEF PickedAirline
  <1>2. IsFiniteSet(AirlineHits(q))
    BY HitsFinite
  <1>3. exact \in SUBSET (DOMAIN found) /\ exact # {}
    <2>1. PICK i \in DOMAIN found : found[i] = al
      BY <1>2, FoundAll DEF Decided
    <2>. QED BY <2>1
  <1>4. found # <<>> /\ \E i \in exact : Preferred(found, q, exact) = found[i]
    <2>. HIDE DEF exact
    <2>. QED BY <1>2, <1>3, PickExact
  <1>. QED BY <1>1, <1>4

LEMMA AirportPicked ==
  ASSUME OfStore, NEW q, Decided(AirportHits(q), q), NEW found \in Found(AirportHits(q)),
         NEW a \in AirportHits(q), a.iata = Upper[q], a.iata # NoCode
  PROVE  found # <<>> /\ PickedAirport(found, q) = a
  <1>. DEFINE exact == {i \in DOMAIN found : found[i].iata = Upper[q]}
  <1>1. PickedAirport(found, q) = Preferred(found, q, exact)
    BY DEF PickedAirport
  <1>2. IsFiniteSet(AirportHits(q))
    BY HitsFinite
  <1>3. exact \in SUBSET (DOMAIN found) /\ exact # {}
    <2>1. PICK i \in DOMAIN found : found[i] = a
      BY <1>2, FoundAll DEF Decided
    <2>. QED BY <2>1
  <1>4. /\ found # <<>>
        /\ \E i \in exact : Preferred(found, q, exact) = found[i] /\ found[i] \in AirportHits(q)
    <2>. HIDE DEF exact
    <2>. QED BY <1>2, <1>3, PickExact
  <1>5. \A x \in AirportHits(q) : x.iata = a.iata => x = a
    <2>1. AirportHits(q) \in SUBSET Airports
      BY DEF AirportHits
    <2>. QED BY <2>1, StoreFacts
  <1>. QED BY <1>1, <1>4, <1>5

LEMMA ExactBest ==
  ASSUME Inv
  PROVE  ExactCodePicked
  <1>. DEFINE q == request[2]
  <1>1. OfStore
    BY DEF Inv
  <1>2. ASSUME Asked("airlines"), Decided(AirlineHits(q), q), NEW al \in airlines, al.iata = q
        PROVE  answer # <<>> /\ Upper[PickedAirline(answer, q).iata] = Upper[q]
    <2>1. answer \in Found(AirlineHits(q))
      BY <1>2 DEF Inv, Answered
    <2>2. al \in AirlineHits(q)
      BY <1>1, <1>2, StoreFacts DEF AirlineHits
    <2>. QED BY <1>1, <1>2, <2>1, <2>2, AirlinePicked
  <1>3. ASSUME Asked("airports"), Decided(AirportHits(q), q), NEW a \in Airports, a.iata = Upper[q]
        PROVE  answer # <<>> /\ PickedAirport(answer, q) = a
    <2>1. answer \in Found(AirportHits(q)) /\ q \in Texts
      BY <1>3 DEF Inv, Answered
    <2>2. Lower[a.iata] = Lower[q]
      BY <1>3, <2>1, TextAssumption
    <2>3. Lower[q] \in Parts[Lower[a.iata]]
      BY <1>1, <2>2, StoreFacts
    <2>4. a \in AirportHits(q)
      BY <2>3 DEF AirportHits
    <2>5. a.iata # NoCode
      <3>1. q # Nothing /\ NoCode = Nothing
        BY <1>3, TextAssumption DEF Decided
      <3>. QED BY <1>3, <2>1, <3>1, TextAssumption
    <2>. QED BY <1>1, <1>3, <2>1, <2>4, <2>5, AirportPicked
  <1>. QED BY <1>2, <1>3 DEF ExactCodePicked

\* What is suggested is the item of something that starts with the text typed.
LEMMA Offered ==
  ASSUME NEW S, IsFiniteSet(S), NEW item, DOMAIN item = S, NEW q,
         NEW s \in Suggested({item[x] : x \in S}, q), NEW i \in DOMAIN s
  PROVE  \E x \in S : s[i] = item[x]
  <1>. DEFINE items == {item[x] : x \in S}
              n == IF q = Nothing THEN MaxOffered ELSE MaxSuggested
  <1>1. IsFiniteSet(items)
    BY Image
  <1>2. PICK t \in SetToSeqs(items) : s = Cut(t, n)
    BY DEF Suggested
  <1>3. n \in Nat
    BY LimitAssumption
  <1>. HIDE DEF items, n
  <1>4. t \in Seq(items)
    BY <1>1, <1>2, Listing
  <1>5. i \in DOMAIN t /\ s[i] = t[i]
    BY <1>2, <1>3, <1>4, CutEntries
  <1>6. t[i] \in items
    BY <1>4, <1>5, LenProperties
  <1>. QED BY <1>5, <1>6 DEF items

LEMMA SuggestionBest ==
  ASSUME Inv
  PROVE  SuggestionLeadsThere
  <1>. DEFINE q == request[2]
  <1>1. OfStore
    BY DEF Inv
  <1>2. ASSUME Asked("suggest_airlines"), NEW i \in DOMAIN answer
        PROVE  LET al == answer[i].of
                   value == answer[i].value
                   hits == AirlineHits(value)
               IN  /\ al \in hits
                   /\ al.iata # NoCode /\ Decided(hits, value) =>
                        \A found \in Found(hits) :
                          Upper[PickedAirline(found, value).iata] = Upper[al.iata]
    <2>. DEFINE S == StartingAirlines(q)
                item == [al \in S |-> AirlineItem(al)]
    <2>1. answer \in Suggested({AirlineItem(al) : al \in S}, q)
      BY <1>2 DEF Inv, Answered
    <2>2. {AirlineItem(al) : al \in S} = {item[al] : al \in S} /\ DOMAIN item = S
      OBVIOUS
    <2>3. IsFiniteSet(S) /\ S \in SUBSET airlines
      <3>1. S \in SUBSET airlines
        BY DEF StartingAirlines
      <3>. HIDE DEF S
      <3>. QED BY <1>1, <3>1, StoreFacts, FS_Subset
    <2>4. \E al \in S : answer[i] = item[al]
      <3>. HIDE DEF item, S
      <3>. QED BY <1>2, <2>1, <2>2, <2>3, Offered
    <2>5. PICK al \in airlines : answer[i] = AirlineItem(al)
      BY <2>3, <2>4
    <2>6. /\ answer[i].of = al
          /\ answer[i].value = IF al.iata = NoCode THEN al.name ELSE al.iata
      BY <2>5 DEF AirlineItem
    <2>7. al.iata \in Parts[al.iata] /\ Lower[al.name] \in al.texts
      BY <1>1, StoreFacts
    <2>8. al \in AirlineHits(answer[i].value)
      BY <2>6, <2>7 DEF AirlineHits
    <2>9. ASSUME al.iata # NoCode, Decided(AirlineHits(answer[i].value), answer[i].value),
                 NEW found \in Found(AirlineHits(answer[i].value))
          PROVE  Upper[PickedAirline(found, answer[i].value).iata] = Upper[al.iata]
      <3>1. answer[i].value = al.iata
        BY <2>6, <2>9
      <3>. QED BY <1>1, <2>8, <2>9, <3>1, AirlinePicked
    <2>. QED BY <2>6, <2>8, <2>9
  <1>3. ASSUME Asked("suggest_airports"), NEW i \in DOMAIN answer
        PROVE  LET a == answer[i].of
                   value == answer[i].value
                   hits == AirportHits(value)
               IN  /\ a \in hits
                   /\ a.iata # NoCode /\ Upper[a.iata] = a.iata =>
                        /\ Lookup(value) = <<a>>
                        /\ Decided(hits, value) =>
                             \A found \in Found(hits) : PickedAirport(found, value) = a
    <2>. DEFINE S == StartingAirports(q)
                item == [a \in S |-> AirportItem(a)]
    <2>1. answer \in Suggested({AirportItem(a) : a \in S}, q)
      BY <1>3 DEF Inv, Answered
    <2>2. {AirportItem(a) : a \in S} = {item[a] : a \in S} /\ DOMAIN item = S
      OBVIOUS
    <2>3. IsFiniteSet(S) /\ S \in SUBSET Airports
      <3>1. S \in SUBSET Airports
        BY DEF StartingAirports
      <3>. HIDE DEF S
      <3>. QED BY <1>1, <3>1, StoreFacts, FS_Subset
    <2>4. \E a \in S : answer[i] = item[a]
      <3>. HIDE DEF item, S
      <3>. QED BY <1>3, <2>1, <2>2, <2>3, Offered
    <2>5. PICK a \in Airports : answer[i] = AirportItem(a)
      BY <2>3, <2>4
    <2>6. /\ answer[i].of = a
          /\ answer[i].value = IF a.iata = NoCode THEN a.icao ELSE a.iata
      BY <2>5 DEF AirportItem, AnyCode
    <2>7. /\ \A c \in {a.iata, a.icao} : Lower[c] \in Parts[Lower[c]]
          /\ a.iata # NoCode => Known(a.iata) /\ airports_by_iata[a.iata] = a
      BY <1>1, StoreFacts
    <2>8. a \in AirportHits(answer[i].value)
      BY <2>6, <2>7 DEF AirportHits
    <2>9. ASSUME a.iata # NoCode, Upper[a.iata] = a.iata
          PROVE  Lookup(answer[i].value) = <<a>>
      <3>1. Raised(answer[i].value, {3}) = a.iata
        BY <2>6, <2>9 DEF Raised
      <3>. QED BY <2>7, <2>9, <3>1 DEF Lookup
    <2>10. ASSUME a.iata # NoCode, Upper[a.iata] = a.iata,
                  Decided(AirportHits(answer[i].value), answer[i].value),
                  NEW found \in Found(AirportHits(answer[i].value))
           PROVE  PickedAirport(found, answer[i].value) = a
      <3>1. a.iata = Upper[answer[i].value]
        BY <2>6, <2>10
      <3>. QED BY <1>1, <2>8, <2>10, <3>1, AirportPicked
    <2>. QED BY <2>6, <2>8, <2>9, <2>10
  <1>. QED BY <1>2, <1>3 DEF SuggestionLeadsThere

LEMMA TypeBest ==
  ASSUME Inv
  PROVE  TypeOK
  <1>1. OfStore /\ (request = <<>> => answer = <<>>)
    BY DEF Inv, Answered
  <1>2. /\ \A id \in DOMAIN airports_by_id : airports_by_id[id].id = id
        /\ \A c \in DOMAIN airports_by_iata :
             airports_by_iata[c].iata = c /\ airports_by_iata[c] = airports_by_id[airports_by_iata[c].id]
    BY <1>1, StoreFacts
  <1>3. Asked("map") => Len(answer) <= MaxMap
    BY MapBest
  <1>4. Asked("onehop") => \A i \in DOMAIN answer : answer[i].leg1 \in DOMAIN routes
    BY HopsBest
  <1>. QED BY <1>1, <1>2, <1>3, <1>4 DEF TypeOK

-----------------------------------------------------------------------------
(* The theorems.                                                           *)

\* Every answer is one that the store gives to the request, and the store is as loaded.
THEOREM Invariant == Spec => []Inv
  <1>1. Init => Inv
    <2>1. SUFFICES ASSUME Init PROVE Inv
      OBVIOUS
    <2>2. OfStore
      BY <2>1 DEF Init, OfStore
    <2>3. Answered
      BY <2>1 DEF Init, Answered, Asked
    <2>. QED BY <2>2, <2>3 DEF Inv
  <1>2. Inv /\ [Next]_vars => Inv'
    BY StepInv
  <1>. QED BY <1>1, <1>2, PTL DEF Spec

\* The indexes agree, and answers keep to their limits and to routes that exist.
THEOREM TypeCorrect == Spec => []TypeOK
  BY Invariant, TypeBest, PTL

\* top_cities lists the cities an airline has the most routes into.
THEOREM CitiesAreBest == Spec => []TopCitiesAreBest
  <1>1. Inv => TopCitiesAreBest
    BY TopCitiesBest DEF TopCitiesAreBest
  <1>. QED BY <1>1, Invariant, PTL

\* airline_airports lists the known airports an airline has the most routes at.
THEOREM ServedFirst == Spec => []ServedAreBest
  <1>1. Inv => ServedAreBest
    BY ServedBest DEF ServedAreBest
  <1>. QED BY <1>1, Invariant, PTL

\* The number of routes shown is the number that is listed for them.
THEOREM CountsMatch == Spec => []CountsAgree
  BY Invariant, CountsSame, PTL

\* The map shows the airports with the most route ends.
THEOREM MapShowsTop == Spec => []MapIsTop
  <1>1. Inv => MapIsTop
    BY MapBest DEF MapIsTop
  <1>. QED BY <1>1, Invariant, PTL

\* One-hop searches list the shortest connections.
THEOREM HopsAreShortest == Spec => []OneHopsAreShortest
  <1>1. Inv => OneHopsAreShortest
    BY HopsBest DEF OneHopsAreShortest
  <1>. QED BY <1>1, Invariant, PTL

\* The page picks the airline or airport whose code was typed.
THEOREM CodePicked == Spec => []ExactCodePicked
  BY Invariant, ExactBest, PTL

\* A suggestion leads to what it stands for.
THEOREM SuggestionFound == Spec => []SuggestionLeadsThere
  BY Invariant, SuggestionBest, PTL
=============================================================================
