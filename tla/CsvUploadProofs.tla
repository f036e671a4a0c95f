--------------------------- MODULE CsvUploadProofs ---------------------------
(***************************************************************************)
(* Proofs about the reading of an uploaded file, for any file.             *)
(*                                                                         *)
(* The loop of parse_csv_line and the loop over the lines go a character    *)
(* and a line further at a time.  The inductive invariant says what each    *)
(* has in hand (Reading, FirstAsRead) in terms of what was read so far; the *)
(* lemmas OneMore and LinesMore say how the fields of a text and the rows  *)
(* of a file change when they get one character or one line longer.        *)
(***************************************************************************)
EXTENDS CsvUpload, PositionsProofs

Text == Seq(Tokens)

-----------------------------------------------------------------------------
(* Values.                                                                 *)

LEMMA ValueType ==
  ASSUME NEW s \in Text
  PROVE  Value(s) \in Text
  <1>. DEFINE solid == {i \in DOMAIN s : s[i] \notin {Blank, CR}}
              from == CHOOSE i \in solid : \A j \in solid : i <= j
              to == CHOOSE i \in solid : \A j \in solid : j <= i
  <1>1. <<>> \in Text
    BY DEF Text
  <1>2. /\ Len(s) \in Nat /\ DOMAIN s = 1..Len(s) /\ \A i \in 1..Len(s) : s[i] \in Tokens
    BY LenProperties DEF Text
  <1>3. solid \in SUBSET (1..Len(s))
    BY <1>2
  <1>4. ASSUME solid # {}
        PROVE  SubSeq(s, from, to) \in Text
    <2>. HIDE DEF solid
    <2>1. \E i \in solid : \A j \in solid : i <= j
      <3>1. solid \in SUBSET Nat
        BY <1>3
      <3>. QED BY <1>4, <3>1, Least
    <2>2. \E i \in solid : \A j \in solid : j <= i
      BY <1>2, <1>3, <1>4, Greatest
    <2>3. from \in 1..Len(s) /\ to \in 1..Len(s)
      BY <1>3, <2>1, <2>2
    <2>. HIDE DEF from, to
    <2>4. from \in Int /\ to \in Int /\ \A i \in from..to : s[i] \in Tokens
      BY <1>2, <2>3
    <2>. QED BY <2>4, SubSeqProperties DEF Text
  <1>5. Trim(s) = IF solid = {} THEN <<>> ELSE SubSeq(s, from, to)
    BY DEF Trim
  <1>. HIDE DEF solid, from, to
  <1>. QED BY <1>1, <1>4, <1>5 DEF Value

-----------------------------------------------------------------------------
(* A text that gets one character longer.                                  *)

LEMMA Beginnings ==
  ASSUME NEW S, NEW s \in Seq(S), NEW n \in 0..Len(s)
  PROVE  /\ SubSeq(s, 1, n) \in Seq(S)
         /\ Len(SubSeq(s, 1, n)) = n
         /\ \A i \in 1..n : SubSeq(s, 1, n)[i] = s[i]
         /\ n < Len(s) => SubSeq(s, 1, n + 1) = Append(SubSeq(s, 1, n), s[n + 1])
         /\ SubSeq(s, 1, Len(s)) = s
         /\ SubSeq(s, 1, 0) = <<>>
  <1>1. Len(s) \in Nat /\ \A i \in 1..Len(s) : s[i] \in S
    BY LenProperties
  <1>2. ASSUME NEW k \in 0..Len(s)
        PROVE  /\ SubSeq(s, 1, k) \in Seq(S) /\ Len(SubSeq(s, 1, k)) = k
               /\ \A i \in 1..k : SubSeq(s, 1, k)[i] = s[i]
    <2>1. k \in Int /\ 1 \in Int /\ \A i \in 1..k : s[i] \in S
      BY <1>1
    <2>2. /\ SubSeq(s, 1, k) \in Seq(S)
          /\ Len(SubSeq(s, 1, k)) = IF 1 <= k THEN k - 1 + 1 ELSE 0
          /\ \A i \in 1..k - 1 + 1 : SubSeq(s, 1, k)[i] = s[1 + i - 1]
      BY <2>1, SubSeqProperties
    <2>. QED BY <1>1, <2>2
  <1>3. ASSUME n < Len(s)
        PROVE  SubSeq(s, 1, n + 1) = Append(SubSeq(s, 1, n), s[n + 1])
    <2>. DEFINE t == SubSeq(s, 1, n)
                u == SubSeq(s, 1, n + 1)
    <2>1. n + 1 \in 0..Len(s) /\ s[n + 1] \in S /\ n \in Nat
      BY <1>1, <1>3
    <2>2. /\ t \in Seq(S) /\ Len(t) = n /\ \A i \in 1..n : t[i] = s[i]
          /\ u \in Seq(S) /\ Len(u) = n + 1 /\ \A i \in 1..n + 1 : u[i] = s[i]
      BY <1>2, <2>1
    <2>. HIDE DEF t, u
    <2>3. /\ Append(t, s[n + 1]) \in Seq(S) /\ Len(Append(t, s[n + 1])) = n + 1
          /\ \A i \in 1..n : Append(t, s[n + 1])[i] = s[i]
          /\ Append(t, s[n + 1])[n + 1] = s[n + 1]
      BY <2>1, <2>2, AppendProperties
    <2>4. \A i \in 1..n + 1 : i \in 1..n \/ i = n + 1
      BY <2>1
    <2>5. \A i \in 1..n + 1 : u[i] = Append(t, s[n + 1])[i]
      BY <2>2, <2>3, <2>4
    <2>6. u = Append(t, s[n + 1])
      BY <2>2, <2>3, <2>5, SeqEqual
    <2>. QED BY <2>6 DEF t, u
  <1>4. SubSeq(s, 1, 0) = <<>>
    BY SubSeqEmpty
  <1>. QED BY <1>2, <1>3, <1>4, SubSeqFull

LEMMA TextSets ==
  ASSUME NEW s \in Text
  PROVE  /\ Len(s) \in Nat /\ DOMAIN s = 1..Len(s) /\ \A i \in DOMAIN s : s[i] \in Tokens
         /\ \A P \in SUBSET (DOMAIN s) : IsFiniteSet(P) /\ Cardinality(P) \in Nat
         /\ FieldEnds(s) \in SUBSET (DOMAIN s) /\ QuotesIn(s) \in SUBSET (DOMAIN s)
         /\ \A k : InField(s, k) \in SUBSET (DOMAIN s)
  <1>1. Len(s) \in Nat /\ DOMAIN s = 1..Len(s) /\ \A i \in DOMAIN s : s[i] \in Tokens
    BY LenProperties DEF Text
  <1>2. ASSUME NEW P \in SUBSET (DOMAIN s) PROVE IsFiniteSet(P) /\ Cardinality(P) \in Nat
    <2>1. IsFiniteSet(DOMAIN s)
      BY <1>1, UpTo
    <2>. QED BY <2>1, FS_Subset, FS_CardinalityType
  <1>. QED BY <1>1, <1>2 DEF FieldEnds, QuotesIn, InField

\* A text and the same with one more character.
Longer(s, c, t) ==
  /\ t = Append(s, c)
  /\ DOMAIN t = 1..Len(s) + 1 /\ t[Len(s) + 1] = c
  /\ \A i \in 1..Len(s) : t[i] = s[i]

LEMMA IsLonger ==
  ASSUME NEW S, NEW s \in Seq(S), NEW c \in S
  PROVE  Append(s, c) \in Seq(S) /\ Len(Append(s, c)) = Len(s) + 1 /\ Longer(s, c, Append(s, c))
  <1>1. /\ Append(s, c) \in Seq(S) /\ Len(Append(s, c)) = Len(s) + 1
        /\ \A i \in 1..Len(s) : Append(s, c)[i] = s[i]
        /\ Append(s, c)[Len(s) + 1] = c
    BY AppendProperties
  <1>2. DOMAIN Append(s, c) = 1..Len(Append(s, c))
    BY <1>1, LenProperties
  <1>. QED BY <1>1, <1>2 DEF Longer

LEMMA OpenMore ==
  ASSUME NEW s \in Text, NEW c, NEW t, Longer(s, c, t)
  PROVE  Open(t) <=> IF c = Quote THEN ~Open(s) ELSE Open(s)
  <1>. DEFINE m == Len(s) + 1
  <1>1. Len(s) \in Nat /\ DOMAIN s = 1..Len(s) /\ QuotesIn(s) \in SUBSET (DOMAIN s)
        /\ IsFiniteSet(QuotesIn(s)) /\ Cardinality(QuotesIn(s)) \in Nat
    BY TextSets
  <1>2. DOMAIN t = (DOMAIN s) \cup {m} /\ m \notin DOMAIN s
    BY <1>1 DEF Longer
  <1>3. QuotesIn(t) = IF c = Quote THEN QuotesIn(s) \cup {m} ELSE QuotesIn(s)
    BY <1>1, <1>2 DEF QuotesIn, Longer
  <1>4. m \notin QuotesIn(s)
    BY <1>1
  <1>5. Cardinality(QuotesIn(s) \cup {m}) = Cardinality(QuotesIn(s)) + 1
    BY <1>1, <1>4, FS_AddElement
  <1>. QED BY <1>1, <1>3, <1>5 DEF Open

LEMMA EndsMore ==
  ASSUME NEW s \in Text, NEW c \in Tokens, NEW t, Longer(s, c, t)
  PROVE  FieldEnds(t) = IF c \in Separators /\ ~Open(t) THEN FieldEnds(s) \cup {Len(s) + 1}
                        ELSE FieldEnds(s)
  <1>. DEFINE m == Len(s) + 1
  <1>1. Len(s) \in Nat /\ DOMAIN s = 1..Len(s) /\ t \in Text /\ t = Append(s, c) /\ Len(t) = m
        /\ DOMAIN t = 1..m /\ t[m] = c /\ \A i \in 1..Len(s) : t[i] = s[i]
    <2>1. Append(s, c) \in Text /\ Len(Append(s, c)) = m
      BY IsLonger DEF Text
    <2>. QED BY <2>1, TextSets DEF Longer
  <1>2. ASSUME NEW i \in 1..Len(s)
        PROVE  SubSeq(t, 1, i) = SubSeq(s, 1, i)
    <2>1. i \in 0..Len(s) /\ i \in 0..Len(t) /\ i \in 1..i
      BY <1>1
    <2>2. /\ SubSeq(s, 1, i) \in Text /\ Len(SubSeq(s, 1, i)) = i
          /\ \A j \in 1..i : SubSeq(s, 1, i)[j] = s[j]
      BY <2>1, Beginnings DEF Text
    <2>3. /\ SubSeq(t, 1, i) \in Text /\ Len(SubSeq(t, 1, i)) = i
          /\ \A j \in 1..i : SubSeq(t, 1, i)[j] = t[j]
      BY <1>1, <2>1, Beginnings DEF Text
    <2>4. \A j \in 1..i : s[j] = t[j]
      <3>1. Len(s) \in Nat /\ \A j \in 1..Len(s) : t[j] = s[j]
        BY <1>1
      <3>2. \A j \in 1..i : j \in 1..Len(s)
        BY <3>1
      <3>. QED BY <3>1, <3>2
    <2>. DEFINE x == SubSeq(s, 1, i)
                y == SubSeq(t, 1, i)
    <2>. HIDE DEF x, y
    <2>5. \A j \in 1..i : y[j] = x[j]
      BY <2>2, <2>3, <2>4 DEF x, y
    <2>6. y = x
      BY <2>2, <2>3, <2>5, SeqEqual DEF Text, x, y
    <2>. QED BY <2>6 DEF x, y
  <1>3. SubSeq(t, 1, m) = t
    BY <1>1, SubSeqFull DEF Text
  <1>4. \A i \in 1..m : i \in 1..Len(s) \/ i = m
    BY <1>1
  <1>5. \A i : i \in FieldEnds(t) <=> (i \in FieldEnds(s) \/ (i = m /\ c \in Separators /\ ~Open(t)))
    <2>1. ASSUME NEW i \in 1..Len(s) PROVE i \in FieldEnds(t) <=> i \in FieldEnds(s)
      <3>1. i \in DOMAIN t /\ i \in DOMAIN s /\ t[i] = s[i] /\ SubSeq(t, 1, i) = SubSeq(s, 1, i)
        <4>1. i \in DOMAIN s /\ i \in DOMAIN t
          BY <1>1
        <4>2. t[i] = s[i]
          BY <1>1
        <4>. QED BY <1>2, <4>1, <4>2
      <3>2. i \in FieldEnds(t) <=> t[i] \in Separators /\ ~Open(SubSeq(t, 1, i))
        BY <3>1 DEF FieldEnds
      <3>3. i \in FieldEnds(s) <=> s[i] \in Separators /\ ~Open(SubSeq(s, 1, i))
        BY <3>1 DEF FieldEnds
      <3>. QED BY <3>1, <3>2, <3>3
    <2>2. m \in FieldEnds(t) <=> (c \in Separators /\ ~Open(t))
      <3>1. m \in DOMAIN t /\ t[m] = c
        BY <1>1
      <3>2. m \in FieldEnds(t) <=> t[m] \in Separators /\ ~Open(SubSeq(t, 1, m))
        BY <3>1 DEF FieldEnds
      <3>. QED BY <1>3, <3>1, <3>2
    <2>3. \A i : (i \in FieldEnds(t) => i \in 1..m) /\ (i \in FieldEnds(s) => i \in 1..Len(s))
      BY <1>1 DEF FieldEnds
    <2>4. m \notin 1..Len(s)
      BY <1>1
    <2>. QED BY <1>4, <2>1, <2>2, <2>3, <2>4
  <1>. HIDE DEF m
  <1>. QED BY <1>5 DEF m

\* The new character c of t is one of the k-th field.
Takes(s, c, t, k) ==
  /\ c # Quote /\ ~(c \in Separators /\ ~Open(t))
  /\ k = Cardinality(FieldEnds(s)) + 1

LEMMA InFieldMore ==
  ASSUME NEW s \in Text, NEW c \in Tokens, NEW t, Longer(s, c, t), NEW k \in Nat
  PROVE  /\ Takes(s, c, t, k) => InField(t, k) = InField(s, k) \cup {Len(s) + 1}
         /\ ~Takes(s, c, t, k) => InField(t, k) = InField(s, k)
  <1>. DEFINE m == Len(s) + 1
              E == FieldEnds(s)
              F == FieldEnds(t)
  <1>1. /\ Len(s) \in Nat /\ DOMAIN s = 1..Len(s) /\ E \in SUBSET (1..Len(s))
        /\ Cardinality(E) \in Nat
    BY TextSets
  <1>2. DOMAIN t = 1..m /\ t[m] = c /\ \A i \in 1..Len(s) : t[i] = s[i]
    BY DEF Longer
  <1>3. F = IF c \in Separators /\ ~Open(t) THEN E \cup {m} ELSE E
    BY EndsMore
  <1>. HIDE DEF E, F
  <1>4. \A i \in 1..m : {e \in F : e < i} = {e \in E : e < i}
    <2>1. ASSUME NEW i \in 1..m PROVE {e \in F : e < i} = {e \in E : e < i}
      <3>1. ~(m < i)
        BY <1>1
      <3>2. \A e : (e \in F /\ e < i) <=> (e \in E /\ e < i)
        BY <1>3, <3>1
      <3>. QED BY <3>2
    <2>. QED BY <2>1
  <1>5. {e \in E : e < m} = E
    <2>1. \A e \in E : e < m
      BY <1>1
    <2>. QED BY <2>1
  <1>6. \A i : i \in InField(t, k) <=>
          i \in 1..m /\ i \notin F /\ t[i] # Quote /\ Cardinality({e \in F : e < i}) = k - 1
    BY <1>2 DEF InField, F
  <1>7. \A i : i \in InField(s, k) <=>
          i \in 1..Len(s) /\ i \notin E /\ s[i] # Quote /\ Cardinality({e \in E : e < i}) = k - 1
    BY <1>1 DEF InField, E
  <1>8. \A i \in 1..m : (i \in 1..Len(s) \/ i = m) /\ ~(i \in 1..Len(s) /\ i = m)
    BY <1>1
  <1>9. ASSUME NEW i \in 1..Len(s) PROVE i \in InField(t, k) <=> i \in InField(s, k)
    <2>1. i \in 1..m /\ i # m
      BY <1>1
    <2>2. i \in F <=> i \in E
      BY <1>3, <2>1
    <2>. QED BY <1>2, <1>4, <1>6, <1>7, <2>1, <2>2
  <1>10. m \in InField(t, k) <=>
           c # Quote /\ ~(c \in Separators /\ ~Open(t)) /\ Cardinality(E) = k - 1
    <2>1. m \in 1..m /\ m \notin E
      BY <1>1
    <2>2. m \in F <=> c \in Separators /\ ~Open(t)
      BY <1>3, <2>1
    <2>3. {e \in F : e < m} = E
      BY <1>4, <1>5, <2>1
    <2>. QED BY <1>2, <1>6, <2>1, <2>2, <2>3
  <1>11. Cardinality(E) = k - 1 <=> k = Cardinality(E) + 1
    BY <1>1
  <1>12. \A i : (i \in InField(t, k) => i \in 1..m) /\ (i \in InField(s, k) => i \in 1..Len(s))
    BY <1>6, <1>7
  <1>13. 1..Len(s) \subseteq 1..m
    BY <1>1
  <1>. HIDE DEF m
  <1>14. \A i : i \in InField(t, k) <=> (i \in InField(s, k) \/ (i = m /\ m \in InField(t, k)))
    BY <1>8, <1>9, <1>12, <1>13
  <1>. QED BY <1>10, <1>11, <1>14 DEF m, E, Takes

\* What the fields of a text are made of, one by one.
Part(s, k) == At(s, InField(s, k))

LEMMA PartMore ==
  ASSUME NEW s \in Text, NEW c \in Tokens, NEW t, Longer(s, c, t), NEW k \in Nat
  PROVE  Part(t, k) = IF Takes(s, c, t, k) THEN Append(Part(s, k), c) ELSE Part(s, k)
  <1>. DEFINE P == InField(s, k)
  <1>1. P \in SUBSET (DOMAIN s) /\ s \in Seq(Tokens) /\ t = Append(s, c)
    BY TextSets DEF Longer, Text
  <1>2. /\ Takes(s, c, t, k) => InField(t, k) = P \cup {Len(s) + 1}
        /\ ~Takes(s, c, t, k) => InField(t, k) = P
    BY InFieldMore
  <1>. HIDE DEF P
  <1>3. At(Append(s, c), P) = At(s, P)
    BY <1>1, KeptMore
  <1>4. At(Append(s, c), P \cup {Len(s) + 1}) = Append(At(s, P), c)
    BY <1>1, KeptMore
  <1>5. Part(s, k) = At(s, P) /\ Part(t, k) = At(t, InField(t, k))
    BY DEF Part, P
  <1>. QED BY <1>1, <1>2, <1>3, <1>4, <1>5

LEMMA NoPart ==
  ASSUME NEW s \in Text, NEW k \in Nat, k > Cardinality(FieldEnds(s)) + 1
  PROVE  Part(s, k) = <<>>
  <1>1. /\ FieldEnds(s) \in SUBSET (DOMAIN s)
        /\ IsFiniteSet(FieldEnds(s)) /\ Cardinality(FieldEnds(s)) \in Nat
    BY TextSets
  <1>2. ASSUME NEW i \in InField(s, k) PROVE FALSE
    <2>. DEFINE before == {e \in FieldEnds(s) : e < i}
    <2>1. Cardinality(before) = k - 1
      BY DEF InField
    <2>2. before \in SUBSET FieldEnds(s)
      OBVIOUS
    <2>. HIDE DEF before
    <2>3. Cardinality(before) <= Cardinality(FieldEnds(s)) /\ Cardinality(before) \in Nat
      BY <1>1, <2>2, FS_Subset, FS_CardinalityType
    <2>. QED BY <1>1, <2>1, <2>3
  <1>3. InField(s, k) = {}
    BY <1>2
  <1>4. {} \in SUBSET (DOMAIN s) /\ s \in Seq(Tokens)
    BY DEF Text
  <1>5. At(s, {}) \in Seq(Tokens) /\ Len(At(s, {})) = Cardinality({})
    BY <1>4, Kept
  <1>6. At(s, {}) = <<>>
    BY <1>5, FS_EmptySet, EmptySeq
  <1>. QED BY <1>3, <1>6 DEF Part

-----------------------------------------------------------------------------
(* A line.                                                                 *)

\* The loop has read s.
Reads(s, q, f, fs) ==
  /\ q = Open(s)
  /\ fs = [k \in 1..Cardinality(FieldEnds(s)) |-> Value(Part(s, k))]
  /\ f = Part(s, Cardinality(FieldEnds(s)) + 1)

LEMMA ReadsFields ==
  ASSUME NEW s \in Text, NEW q, NEW f, NEW fs, Reads(s, q, f, fs)
  PROVE  /\ Append(fs, Value(f)) = FieldsRead(s)
         /\ fs \in Seq(Text) /\ Value(f) \in Text
         /\ FieldsRead(s) \in Seq(Text)
         /\ Len(FieldsRead(s)) = Cardinality(FieldEnds(s)) + 1
  <1>. DEFINE n == Cardinality(FieldEnds(s))
              value(k) == Value(Part(s, k))
              new == Append(fs, Value(f))
  <1>1. n \in Nat
    BY TextSets
  <1>2. fs = [k \in 1..n |-> value(k)] /\ Value(f) = value(n + 1)
    BY DEF Reads
  <1>3. FieldsRead(s) = [k \in 1..n + 1 |-> value(k)]
    BY DEF FieldsRead, Part
  <1>4. \A k \in Nat : value(k) \in Text
    <2>1. ASSUME NEW k \in Nat PROVE Part(s, k) \in Text
      <3>1. InField(s, k) \in SUBSET (DOMAIN s)
        BY TextSets
      <3>. QED BY <3>1, Kept DEF Part, Text
    <2>. QED BY <2>1, ValueType
  <1>. HIDE DEF n, value
  <1>5. fs \in Seq(Text) /\ Len(fs) = n /\ FieldsRead(s) \in Seq(Text) /\ Len(FieldsRead(s)) = n + 1
    <2>1. fs \in [1..n -> Text] /\ FieldsRead(s) \in [1..n + 1 -> Text]
      BY <1>1, <1>2, <1>3, <1>4
    <2>2. n + 1 \in Nat
      BY <1>1
    <2>. HIDE DEF Text
    <2>. QED BY <1>1, <2>1, <2>2
  <1>6. Value(f) \in Text
    BY <1>1, <1>2, <1>4
  <1>7. /\ new \in Seq(Text) /\ Len(new) = n + 1
        /\ \A k \in 1..n : new[k] = fs[k]
        /\ new[n + 1] = Value(f)
    BY <1>5, <1>6, AppendProperties
  <1>8. \A k \in 1..n + 1 : new[k] = FieldsRead(s)[k]
    <2>1. \A k \in 1..n + 1 : k \in 1..n \/ k = n + 1
      BY <1>1
    <2>2. \A k \in 1..n : new[k] = value(k)
      BY <1>2, <1>7
    <2>3. new[n + 1] = value(n + 1)
      BY <1>2, <1>7
    <2>4. \A k \in 1..n + 1 : FieldsRead(s)[k] = value(k)
      BY <1>3
    <2>. HIDE DEF new
    <2>. QED BY <2>1, <2>2, <2>3, <2>4
  <1>9. new = FieldsRead(s)
    <2>. HIDE DEF new
    <2>. QED BY <1>5, <1>7, <1>8, SeqEqual
  <1>. QED BY <1>5, <1>6, <1>9 DEF n

LEMMA ReadsNothing ==
  Reads(<<>>, FALSE, <<>>, <<>>) /\ FieldEnds(<<>>) = {}
  <1>1. <<>> \in Text
    BY DEF Text
  <1>2. DOMAIN (<<>>) = {}
    OBVIOUS
  <1>3. FieldEnds(<<>>) = {} /\ QuotesIn(<<>>) = {} /\ InField(<<>>, 1) = {}
    BY <1>2 DEF FieldEnds, QuotesIn, InField
  <1>4. Cardinality({}) = 0
    BY FS_EmptySet
  <1>5. FALSE = Open(<<>>)
    <2>1. Cardinality(QuotesIn(<<>>)) = 0
      BY <1>3, <1>4
    <2>2. 0 % 2 = 0
      OBVIOUS
    <2>. QED BY <2>1, <2>2 DEF Open
  <1>6. Part(<<>>, 1) = <<>>
    <2>1. {} \in SUBSET (DOMAIN (<<>>)) /\ <<>> \in Seq(Tokens)
      OBVIOUS
    <2>2. At(<<>>, {}) \in Seq(Tokens) /\ Len(At(<<>>, {})) = Cardinality({})
      BY <2>1, Kept
    <2>3. At(<<>>, {}) = <<>>
      BY <2>2, <1>4, EmptySeq
    <2>. QED BY <1>3, <2>3 DEF Part
  <1>7. [k \in 1..0 |-> Value(Part(<<>>, k))] = <<>>
    OBVIOUS
  <1>8. Cardinality(FieldEnds(<<>>)) = 0
    BY <1>3, <1>4
  <1>9. Part(<<>>, Cardinality(FieldEnds(<<>>)) + 1) = <<>>
    BY <1>6, <1>8
  <1>10. [k \in 1..Cardinality(FieldEnds(<<>>)) |-> Value(Part(<<>>, k))] = <<>>
    BY <1>7, <1>8
  <1>. QED BY <1>3, <1>5, <1>9, <1>10 DEF Reads

\* A turn of the loop.
LEMMA OneMore ==
  ASSUME NEW s \in Text, NEW c \in Tokens, NEW q \in BOOLEAN, NEW f, NEW fs, Reads(s, q, f, fs)
  PROVE  /\ c = Quote => Reads(Append(s, c), ~q, f, fs)
         /\ c \in Separators /\ ~q => Reads(Append(s, c), q, <<>>, Append(fs, Value(f)))
         /\ c # Quote /\ ~(c \in Separators /\ ~q) => Reads(Append(s, c), q, Append(f, c), fs)
  <1>. DEFINE t == Append(s, c)
              n == Cardinality(FieldEnds(s))
  <1>1. Longer(s, c, t) /\ t \in Text
    BY IsLonger DEF Text
  <1>2. /\ Len(s) \in Nat /\ FieldEnds(s) \in SUBSET (1..Len(s))
        /\ IsFiniteSet(FieldEnds(s)) /\ n \in Nat
    BY TextSets
  <1>3. Quote \notin Separators
    BY DEF Quote, Separators, Comma, CR
  <1>4. q <=> Open(s)
    BY DEF Reads
  <1>. HIDE DEF t, n
  <1>5. Open(t) <=> IF c = Quote THEN ~Open(s) ELSE Open(s)
    BY <1>1, OpenMore
  <1>6. FieldEnds(t) = IF c \in Separators /\ ~Open(t) THEN FieldEnds(s) \cup {Len(s) + 1}
                       ELSE FieldEnds(s)
    BY <1>1, EndsMore
  <1>7. \A k \in Nat : Part(t, k) =
          IF c # Quote /\ ~(c \in Separators /\ ~Open(t)) /\ k = n + 1
          THEN Append(Part(s, k), c) ELSE Part(s, k)
    <2>1. ASSUME NEW k \in Nat
          PROVE  Part(t, k) = IF Takes(s, c, t, k) THEN Append(Part(s, k), c) ELSE Part(s, k)
      BY <1>1, PartMore
    <2>. QED BY <2>1 DEF Takes, n
  <1>8. Open(s) \in BOOLEAN /\ Open(t) \in BOOLEAN
    BY DEF Open
  <1>9. fs = [k \in 1..n |-> Value(Part(s, k))] /\ f = Part(s, n + 1)
    BY DEF Reads, n
  <1>10. ASSUME c = Quote PROVE Reads(t, ~q, f, fs)
    <2>1. FieldEnds(t) = FieldEnds(s) /\ \A k \in Nat : Part(t, k) = Part(s, k)
      BY <1>3, <1>6, <1>7, <1>10
    <2>2. (~q) = Open(t)
      BY <1>4, <1>5, <1>8, <1>10
    <2>3. [k \in 1..n |-> Value(Part(t, k))] = [k \in 1..n |-> Value(Part(s, k))]
      BY <1>2, <2>1
    <2>4. Cardinality(FieldEnds(t)) = n
      BY <2>1 DEF n
    <2>5. Part(t, n + 1) = Part(s, n + 1)
      BY <1>2, <2>1
    <2>6. fs = [k \in 1..Cardinality(FieldEnds(t)) |-> Value(Part(t, k))]
      BY <1>9, <2>3, <2>4
    <2>7. f = Part(t, Cardinality(FieldEnds(t)) + 1)
      BY <1>9, <2>4, <2>5
    <2>. QED BY <2>2, <2>6, <2>7 DEF Reads
  <1>11. ASSUME c \in Separators, ~q PROVE Reads(t, q, <<>>, Append(fs, Value(f)))
    <2>1. q = Open(t) /\ ~Open(t)
      BY <1>3, <1>4, <1>5, <1>8, <1>11
    <2>2. Len(s) + 1 \notin FieldEnds(s)
      BY <1>2
    <2>3. Cardinality(FieldEnds(t)) = n + 1
      BY <1>2, <1>6, <1>11, <2>1, <2>2, FS_AddElement DEF n
    <2>4. \A k \in Nat : Part(t, k) = Part(s, k)
      BY <1>7, <1>11, <2>1
    <2>5. Part(s, n + 2) = <<>>
      <3>1. n + 2 \in Nat /\ n + 2 > Cardinality(FieldEnds(s)) + 1
        BY <1>2 DEF n
      <3>. QED BY <3>1, NoPart
    <2>6. Append(fs, Value(f)) = FieldsRead(s)
      BY ReadsFields
    <2>7. FieldsRead(s) = [k \in 1..n + 1 |-> Value(Part(s, k))]
      BY DEF FieldsRead, Part, n
    <2>8. [k \in 1..n + 1 |-> Value(Part(t, k))] = [k \in 1..n + 1 |-> Value(Part(s, k))]
      BY <1>2, <2>4
    <2>9. Part(t, n + 1 + 1) = <<>>
      BY <1>2, <2>4, <2>5
    <2>. QED BY <2>1, <2>3, <2>6, <2>7, <2>8, <2>9 DEF Reads
  <1>12. ASSUME c # Quote, ~(c \in Separators /\ ~q) PROVE Reads(t, q, Append(f, c), fs)
    <2>1. q = Open(t) /\ FieldEnds(t) = FieldEnds(s)
      BY <1>4, <1>5, <1>6, <1>8, <1>12
    <2>2. Part(t, n + 1) = Append(Part(s, n + 1), c)
      <3>1. n + 1 \in Nat
        BY <1>2
      <3>2. ~(c \in Separators /\ ~Open(t))
        BY <1>12, <2>1
      <3>. QED BY <1>7, <1>12, <3>1, <3>2
    <2>3. \A k \in 1..n : Part(t, k) = Part(s, k)
      <3>1. \A k \in 1..n : k \in Nat /\ k # n + 1
        BY <1>2
      <3>. QED BY <1>7, <3>1
    <2>4. [k \in 1..n |-> Value(Part(t, k))] = [k \in 1..n |-> Value(Part(s, k))]
      BY <2>3
    <2>. QED BY <1>9, <2>1, <2>2, <2>4 DEF Reads, n
  <1>. QED BY <1>10, <1>11, <1>12 DEF t

LEMMA FieldsType ==
  ASSUME NEW s \in Text
  PROVE  FieldsRead(s) \in Seq(Text) /\ Len(FieldsRead(s)) = Cardinality(FieldEnds(s)) + 1
  <1>. DEFINE q == Open(s)
              f == Part(s, Cardinality(FieldEnds(s)) + 1)
              fs == [k \in 1..Cardinality(FieldEnds(s)) |-> Value(Part(s, k))]
  <1>1. Reads(s, q, f, fs)
    BY DEF Reads
  <1>. HIDE DEF q, f, fs
  <1>. QED BY <1>1, ReadsFields

-----------------------------------------------------------------------------
(* A file that gets one line longer.                                       *)

Rows(g) == [i \in DOMAIN g |-> FieldsRead(g[i])]
Body(g) == LongLines(g) \ LeadingHeader(g)
LongRow == {r \in Seq(Text) : Len(r) >= Needed}

LEMMA RowsMore ==
  ASSUME NEW g \in Seq(Text), NEW l \in Text
  PROVE  /\ Rows(g) \in Seq(Seq(Text)) /\ Len(Rows(g)) = Len(g)
         /\ Rows(Append(g, l)) = Append(Rows(g), FieldsRead(l))
  <1>. DEFINE h == Append(g, l)
              m == Len(g) + 1
              R == Seq(Text)
  <1>1. /\ Len(g) \in Nat /\ DOMAIN g = 1..Len(g) /\ \A i \in 1..Len(g) : g[i] \in Text
        /\ DOMAIN h = 1..m /\ h[m] = l /\ \A i \in 1..Len(g) : h[i] = g[i]
    <2>1. Longer(g, l, h)
      BY IsLonger
    <2>2. Len(g) \in Nat /\ DOMAIN g = 1..Len(g) /\ \A i \in 1..Len(g) : g[i] \in Text
      BY LenProperties
    <2>. HIDE DEF h
    <2>. QED BY <2>1, <2>2 DEF Longer
  <1>2. \A s \in Text : FieldsRead(s) \in R
    BY FieldsType
  <1>. HIDE DEF h, R
  <1>3. Rows(g) \in [1..Len(g) -> R] /\ FieldsRead(l) \in R
    BY <1>1, <1>2 DEF Rows
  <1>4. Rows(g) \in Seq(R) /\ Len(Rows(g)) = Len(g)
    BY <1>1, <1>3
  <1>5. \A i \in 1..m : i \in 1..Len(g) \/ i = m
    BY <1>1
  <1>6. Rows(h) \in [1..m -> R]
    BY <1>1, <1>2, <1>5 DEF Rows
  <1>7. m \in Nat
    BY <1>1
  <1>8. Rows(h) \in Seq(R) /\ Len(Rows(h)) = m
    <2>. HIDE DEF m
    <2>. QED BY <1>6, <1>7
  <1>9. /\ Append(Rows(g), FieldsRead(l)) \in Seq(R)
        /\ Len(Append(Rows(g), FieldsRead(l))) = m
        /\ \A i \in 1..Len(g) : Append(Rows(g), FieldsRead(l))[i] = Rows(g)[i]
        /\ Append(Rows(g), FieldsRead(l))[m] = FieldsRead(l)
    BY <1>3, <1>4, AppendProperties
  <1>10. \A i \in 1..Len(g) : Rows(h)[i] = Rows(g)[i]
    <2>1. \A i \in 1..Len(g) : i \in 1..m
      BY <1>1
    <2>. QED BY <1>1, <2>1 DEF Rows
  <1>11. Rows(h)[m] = FieldsRead(l)
    <2>1. m \in 1..m
      BY <1>1
    <2>. QED BY <1>1, <2>1 DEF Rows
  <1>12. \A i \in 1..m : Rows(h)[i] = Append(Rows(g), FieldsRead(l))[i]
    <2>. HIDE DEF m
    <2>. QED BY <1>5, <1>9, <1>10, <1>11
  <1>13. Rows(h) = Append(Rows(g), FieldsRead(l))
    <2>. HIDE DEF m
    <2>. QED BY <1>8, <1>9, <1>12, SeqEqual
  <1>. QED BY <1>4, <1>13 DEF h, R

LEMMA BodyMore ==
  ASSUME NEW g \in Seq(Text), NEW l \in Text
  PROVE  LET m == Len(g) + 1
             row == FieldsRead(l)
         IN  /\ LongLines(g) \in SUBSET (DOMAIN g)
             /\ Len(row) >= Needed => LongLines(Append(g, l)) = LongLines(g) \cup {m}
             /\ ~(Len(row) >= Needed) => LongLines(Append(g, l)) = LongLines(g)
             /\ Len(row) >= Needed /\ ~(LongLines(g) = {} /\ IsHeader(row)) =>
                  Body(Append(g, l)) = Body(g) \cup {m}
             /\ ~(Len(row) >= Needed) \/ (LongLines(g) = {} /\ IsHeader(row)) =>
                  Body(Append(g, l)) = Body(g)
  <1>. DEFINE h == Append(g, l)
              m == Len(g) + 1
              row == FieldsRead(l)
  <1>1. /\ Len(g) \in Nat /\ DOMAIN g = 1..Len(g)
        /\ DOMAIN h = 1..m /\ h[m] = l /\ \A i \in 1..Len(g) : h[i] = g[i]
    <2>1. Longer(g, l, h)
      BY IsLonger
    <2>2. Len(g) \in Nat /\ DOMAIN g = 1..Len(g)
      BY LenProperties
    <2>. HIDE DEF h
    <2>. QED BY <2>1, <2>2 DEF Longer
  <1>. HIDE DEF h
  <1>2. /\ \A i \in 1..m : i \in 1..Len(g) \/ i = m
        /\ m \in 1..m /\ m \notin 1..Len(g)
        /\ \A i \in 1..Len(g) : i \in 1..m /\ i < m /\ i <= m /\ ~(m <= i)
    BY <1>1
  <1>. HIDE DEF m
  <1>3. \A i : i \in LongLines(g) <=> i \in 1..Len(g) /\ Len(FieldsRead(g[i])) >= Needed
    BY <1>1 DEF LongLines
  <1>4. \A i : i \in LongLines(h) <=> i \in 1..m /\ Len(FieldsRead(h[i])) >= Needed
    BY <1>1 DEF LongLines
  <1>5. \A i \in 1..Len(g) : i \in LongLines(h) <=> i \in LongLines(g)
    BY <1>1, <1>2, <1>3, <1>4
  <1>6. m \in LongLines(h) <=> Len(row) >= Needed
    BY <1>1, <1>2, <1>4
  <1>7. \A i : i \in LongLines(h) <=> i \in LongLines(g) \/ (i = m /\ Len(row) >= Needed)
    BY <1>2, <1>3, <1>4, <1>5, <1>6
  <1>8. \A i \in LongLines(g) : i \in 1..Len(g) /\ h[i] = g[i]
    BY <1>1, <1>3
  <1>9. \A i : i \in LeadingHeader(g) <=>
          i \in LongLines(g) /\ IsHeader(FieldsRead(g[i])) /\ \A j \in LongLines(g) : i <= j
    BY DEF LeadingHeader
  <1>10. \A i : i \in LeadingHeader(h) <=>
          i \in LongLines(h) /\ IsHeader(FieldsRead(h[i])) /\ \A j \in LongLines(h) : i <= j
    BY DEF LeadingHeader
  <1>11. \A i \in LongLines(g) : i \in LeadingHeader(h) <=> i \in LeadingHeader(g)
    <2>1. ASSUME NEW i \in LongLines(g)
          PROVE  i \in LeadingHeader(h) <=> i \in LeadingHeader(g)
      <3>1. i \in LongLines(h) /\ h[i] = g[i] /\ i <= m
        BY <1>2, <1>7, <1>8
      <3>2. (\A j \in LongLines(h) : i <= j) <=> (\A j \in LongLines(g) : i <= j)
        BY <1>7, <3>1
      <3>. QED BY <1>9, <1>10, <3>1, <3>2
    <2>. QED BY <2>1
  <1>12. ASSUME Len(row) >= Needed
         PROVE  m \in LeadingHeader(h) <=> LongLines(g) = {} /\ IsHeader(row)
    <2>1. m \in LongLines(h) /\ h[m] = l
      BY <1>1, <1>6, <1>12
    <2>2. (\A j \in LongLines(h) : m <= j) <=> LongLines(g) = {}
      <3>1. ASSUME NEW j \in LongLines(g) PROVE j \in LongLines(h) /\ ~(m <= j)
        BY <1>2, <1>7, <1>8
      <3>2. m <= m
        BY <1>1 DEF m
      <3>. QED BY <1>7, <3>1, <3>2
    <2>. QED BY <1>10, <2>1, <2>2
  <1>13. \A i : i \in Body(h) <=> i \in LongLines(h) /\ ~(i \in LeadingHeader(h))
    BY DEF Body
  <1>14. \A i : i \in Body(g) <=> i \in LongLines(g) /\ ~(i \in LeadingHeader(g))
    BY DEF Body
  <1>15. m \notin LongLines(g)
    BY <1>2, <1>8
  <1>16. \A i : i \in Body(h) <=>
           i \in Body(g) \/ (i = m /\ Len(row) >= Needed /\ ~(LongLines(g) = {} /\ IsHeader(row)))
    BY <1>7, <1>11, <1>12, <1>13, <1>14, <1>15
  <1>17. LongLines(g) \in SUBSET (DOMAIN g)
    BY <1>1, <1>8
  <1>. HIDE DEF row
  <1>18. Len(row) >= Needed => LongLines(h) = LongLines(g) \cup {m}
    BY <1>7
  <1>19. ~(Len(row) >= Needed) => LongLines(h) = LongLines(g)
    BY <1>7
  <1>20. Len(row) >= Needed /\ ~(LongLines(g) = {} /\ IsHeader(row)) => Body(h) = Body(g) \cup {m}
    BY <1>16
  <1>21. ~(Len(row) >= Needed) \/ (LongLines(g) = {} /\ IsHeader(row)) => Body(h) = Body(g)
    BY <1>16
  <1>. QED BY <1>17, <1>18, <1>19, <1>20, <1>21 DEF h, m, row

\* The fields of rows that are taken.
Cut(rows) == [r \in DOMAIN rows |-> Taken(rows[r])]

LEMMA CutType ==
  /\ \A r \in LongRow : Taken(r) \in [1..Needed -> Text]
  /\ \A rows \in Seq(LongRow) : Cut(rows) \in Seq([1..Needed -> Text]) /\ Len(Cut(rows)) = Len(rows)
  <1>. DEFINE T == [1..Needed -> Text]
  <1>1. ASSUME NEW r \in LongRow PROVE Taken(r) \in T
    <2>1. Needed \in Nat
      BY CsvAssumption
    <2>2. r \in Seq(Text) /\ Needed \in 0..Len(r)
      <3>1. r \in Seq(Text) /\ Len(r) >= Needed
        BY DEF LongRow
      <3>2. Len(r) \in Nat
        BY <3>1, LenProperties
      <3>. QED BY <2>1, <3>1, <3>2
    <2>3. Taken(r) \in Seq(Text) /\ Len(Taken(r)) = Needed
      BY <2>2, Beginnings DEF Taken
    <2>. HIDE DEF Text
    <2>. QED BY <2>1, <2>3, LenProperties
  <1>. HIDE DEF T
  <1>2. ASSUME NEW rows \in Seq(LongRow) PROVE Cut(rows) \in Seq(T) /\ Len(Cut(rows)) = Len(rows)
    <2>1. /\ Len(rows) \in Nat /\ DOMAIN rows = 1..Len(rows)
          /\ \A r \in 1..Len(rows) : rows[r] \in LongRow
      BY LenProperties
    <2>2. Cut(rows) \in [1..Len(rows) -> T]
      BY <1>1, <2>1 DEF Cut
    <2>. QED BY <2>1, <2>2
  <1>. QED BY <1>1, <1>2 DEF T

LEMMA CutMore ==
  ASSUME NEW rows \in Seq(LongRow), NEW row \in LongRow
  PROVE  Cut(Append(rows, row)) = Append(Cut(rows), Taken(row))
  <1>. DEFINE T == [1..Needed -> Text]
              n == Len(rows)
              more == Append(rows, row)
  <1>1. /\ n \in Nat /\ DOMAIN rows = 1..n /\ more \in Seq(LongRow) /\ Len(more) = n + 1
        /\ DOMAIN more = 1..n + 1 /\ more[n + 1] = row /\ \A r \in 1..n : more[r] = rows[r]
    <2>1. Longer(rows, row, more) /\ more \in Seq(LongRow) /\ Len(more) = n + 1
      BY IsLonger
    <2>2. n \in Nat /\ DOMAIN rows = 1..n
      BY LenProperties
    <2>. HIDE DEF more
    <2>. QED BY <2>1, <2>2 DEF Longer
  <1>. HIDE DEF T, n, more
  <1>2. /\ Cut(rows) \in Seq(T) /\ Len(Cut(rows)) = n /\ Taken(row) \in T
        /\ Cut(more) \in Seq(T) /\ Len(Cut(more)) = n + 1
    BY <1>1, CutType DEF n, T
  <1>3. /\ Append(Cut(rows), Taken(row)) \in Seq(T)
        /\ Len(Append(Cut(rows), Taken(row))) = n + 1
        /\ \A r \in 1..n : Append(Cut(rows), Taken(row))[r] = Cut(rows)[r]
        /\ Append(Cut(rows), Taken(row))[n + 1] = Taken(row)
    BY <1>2, AppendProperties
  <1>4. /\ n + 1 \in 1..n + 1 /\ \A r \in 1..n : r \in 1..n + 1
        /\ \A r \in 1..n + 1 : r \in 1..n \/ r = n + 1
    BY <1>1
  <1>5. \A r \in 1..n : Cut(more)[r] = Cut(rows)[r]
    BY <1>1, <1>4 DEF Cut
  <1>6. Cut(more)[n + 1] = Taken(row)
    BY <1>1, <1>4 DEF Cut
  <1>7. \A r \in 1..n + 1 : Cut(more)[r] = Append(Cut(rows), Taken(row))[r]
    BY <1>3, <1>4, <1>5, <1>6
  <1>8. Cut(more) = Append(Cut(rows), Taken(row))
    BY <1>2, <1>3, <1>7, SeqEqual
  <1>. QED BY <1>8 DEF more

LEMMA LinesMore ==
  ASSUME NEW g \in Seq(Text), NEW l \in Text
  PROVE  LET row == FieldsRead(l)
             taken == Len(row) >= Needed /\ ~(LongLines(g) = {} /\ IsHeader(row))
         IN  /\ LinesRead(g) \in Seq([1..Needed -> Text])
             /\ taken => LinesRead(Append(g, l)) = Append(LinesRead(g), Taken(row))
             /\ ~taken => LinesRead(Append(g, l)) = LinesRead(g)
  <1>. DEFINE h == Append(g, l)
              row == FieldsRead(l)
              taken == Len(row) >= Needed /\ ~(LongLines(g) = {} /\ IsHeader(row))
              kept == At(Rows(g), Body(g))
  <1>1. LinesRead(g) = Cut(At(Rows(g), Body(g))) /\ LinesRead(h) = Cut(At(Rows(h), Body(h)))
    BY DEF LinesRead, Cut, Rows, Body, Taken
  <1>2. /\ Rows(g) \in Seq(Seq(Text)) /\ Len(Rows(g)) = Len(g)
        /\ Rows(h) = Append(Rows(g), row)
    BY RowsMore
  <1>3. LongLines(g) \in SUBSET (DOMAIN g)
    BY BodyMore
  <1>4. DOMAIN g = 1..Len(g) /\ DOMAIN Rows(g) = DOMAIN g
    BY LenProperties DEF Rows
  <1>5. row \in Seq(Text)
    BY FieldsType
  <1>6. Body(g) \in SUBSET (DOMAIN Rows(g))
    BY <1>3, <1>4 DEF Body
  <1>7. /\ taken => Body(h) = Body(g) \cup {Len(g) + 1}
        /\ ~taken => Body(h) = Body(g)
    <2>1. taken => Body(h) = Body(g) \cup {Len(g) + 1}
      BY BodyMore
    <2>2. ~taken => Body(h) = Body(g)
      BY BodyMore
    <2>. QED BY <2>1, <2>2
  <1>8. kept \in Seq(LongRow)
    <2>1. /\ kept \in Seq(Seq(Text))
          /\ \A k \in DOMAIN kept : \E i \in Body(g) : kept[k] = Rows(g)[i]
      BY <1>2, <1>6, Kept
    <2>2. ASSUME NEW i \in Body(g) PROVE Rows(g)[i] \in LongRow
      <3>1. i \in LongLines(g) /\ i \in DOMAIN g
        BY <1>3 DEF Body
      <3>2. Rows(g)[i] = FieldsRead(g[i]) /\ g[i] \in Text
        BY <1>4, <3>1, LenProperties DEF Rows
      <3>3. Len(FieldsRead(g[i])) >= Needed
        BY <3>1 DEF LongLines
      <3>. QED BY <3>2, <3>3, FieldsType DEF LongRow
    <2>. HIDE DEF kept
    <2>3. \A k \in DOMAIN kept : kept[k] \in LongRow
      BY <2>1, <2>2
    <2>4. Len(kept) \in Nat /\ kept = [k \in 1..Len(kept) |-> kept[k]] /\ DOMAIN kept = 1..Len(kept)
      BY <2>1, LenProperties
    <2>5. kept \in [1..Len(kept) -> LongRow]
      BY <2>3, <2>4
    <2>. HIDE DEF LongRow
    <2>. QED BY <2>4, <2>5
  <1>9. LinesRead(g) \in Seq([1..Needed -> Text])
    <2>. HIDE DEF kept
    <2>. QED BY <1>1, <1>8, CutType DEF kept
  <1>10. ASSUME taken PROVE LinesRead(h) = Append(LinesRead(g), Taken(row))
    <2>1. row \in LongRow
      BY <1>5, <1>10 DEF LongRow
    <2>2. At(Rows(h), Body(h)) = Append(kept, row)
      <3>1. At(Append(Rows(g), row), Body(g) \cup {Len(Rows(g)) + 1}) = Append(kept, row)
        <4>1. ASSUME NEW s \in Seq(Seq(Text)), NEW c \in Seq(Text), NEW P \in SUBSET (DOMAIN s)
              PROVE  At(Append(s, c), P \cup {Len(s) + 1}) = Append(At(s, P), c)
          BY KeptMore
        <4>. HIDE DEF row
        <4>. QED BY <1>2, <1>5, <1>6, <4>1
      <3>. HIDE DEF taken, row, h, kept
      <3>. QED BY <1>2, <1>7, <1>10, <3>1
    <2>. HIDE DEF kept, row, h
    <2>3. Cut(Append(kept, row)) = Append(Cut(kept), Taken(row))
      BY <1>8, <2>1, CutMore
    <2>. QED BY <1>1, <2>2, <2>3 DEF kept
  <1>11. ASSUME ~taken PROVE LinesRead(h) = LinesRead(g)
    <2>1. At(Rows(h), Body(h)) = kept
      <3>1. At(Append(Rows(g), row), Body(g)) = kept
        BY <1>2, <1>5, <1>6, KeptMore
      <3>. HIDE DEF taken, row, h, kept
      <3>. QED BY <1>2, <1>7, <1>11, <3>1
    <2>. QED BY <1>1, <2>1
  <1>. QED BY <1>9, <1>10, <1>11 DEF h, row, taken

-----------------------------------------------------------------------------
(* A row that was written.                                                 *)

\* The loop of parse_csv_line over characters that end no field.
LEMMA ReadsText ==
  ASSUME NEW s \in Text, NEW q \in BOOLEAN, NEW f \in Text, NEW fs, Reads(s, q, f, fs),
         NEW v \in Text, \A i \in 1..Len(v) : v[i] # Quote /\ ~(v[i] \in Separators /\ ~q)
  PROVE  s \o v \in Text /\ Reads(s \o v, q, f \o v, fs)
  <1>. DEFINE upTo(n) == SubSeq(v, 1, n)
              Read(n) == Reads(s \o upTo(n), q, f \o upTo(n), fs)
              unread == {n \in Nat : n <= Len(v) /\ ~Read(n)}
  <1>1. Len(v) \in Nat /\ \A i \in 1..Len(v) : v[i] \in Tokens
    BY LenProperties DEF Text
  <1>2. \A n \in 0..Len(v) : upTo(n) \in Text
    BY Beginnings DEF Text
  <1>3. Read(0)
    <2>1. upTo(0) = <<>>
      BY SubSeqEmpty
    <2>2. s \o <<>> = s /\ f \o <<>> = f
      BY ConcatEmptySeq DEF Text
    <2>. QED BY <2>1, <2>2
  <1>4. ASSUME NEW n \in Nat, n < Len(v), Read(n)
        PROVE  Read(n + 1)
    <2>. DEFINE p == upTo(n)
                c == v[n + 1]
    <2>1. n \in 0..Len(v) /\ n + 1 \in 1..Len(v)
      BY <1>1, <1>4
    <2>2. p \in Text /\ c \in Tokens /\ upTo(n + 1) = Append(p, c)
      BY <1>1, <1>2, <1>4, <2>1, Beginnings DEF Text
    <2>3. c # Quote /\ ~(c \in Separators /\ ~q)
      BY <2>1
    <2>. HIDE DEF p, c
    <2>4. ASSUME NEW u \in Text
          PROVE  u \o p \in Text /\ u \o Append(p, c) = Append(u \o p, c)
      <3>1. <<c>> \in Seq(Tokens) /\ u \in Seq(Tokens) /\ p \in Seq(Tokens)
        BY <2>2 DEF Text
      <3>2. u \o p \in Seq(Tokens)
        BY <3>1, ConcatProperties
      <3>3. Append(p, c) = p \o <<c>> /\ Append(u \o p, c) = (u \o p) \o <<c>>
        BY <2>2, <3>1, <3>2, AppendIsConcat
      <3>4. (u \o p) \o <<c>> = u \o (p \o <<c>>)
        BY <3>1, ConcatAssociative
      <3>. QED BY <3>2, <3>3, <3>4 DEF Text
    <2>5. Reads(s \o p, q, f \o p, fs)
      BY <1>4 DEF p
    <2>6. Reads(Append(s \o p, c), q, Append(f \o p, c), fs)
      BY <2>2, <2>3, <2>4, <2>5, OneMore
    <2>. QED BY <2>2, <2>4, <2>6
  <1>. HIDE DEF Read, upTo
  <1>5. unread = {}
    <2>1. SUFFICES ASSUME unread # {} PROVE FALSE
      OBVIOUS
    <2>2. PICK n \in unread : \A m \in unread : n <= m
      <3>1. unread \in SUBSET Nat
        OBVIOUS
      <3>. HIDE DEF unread
      <3>. QED BY <2>1, <3>1, Least
    <2>3. n \in Nat /\ n # 0 /\ n <= Len(v) /\ ~Read(n)
      BY <1>3, <2>2
    <2>4. n - 1 \in Nat /\ n - 1 < Len(v) /\ ~(n <= n - 1) /\ n - 1 + 1 = n
      BY <1>1, <2>3
    <2>5. Read(n - 1)
      BY <1>1, <2>2, <2>4
    <2>6. Read(n - 1 + 1)
      BY <1>4, <2>4, <2>5
    <2>. QED BY <2>3, <2>4, <2>6
  <1>6. Read(Len(v))
    <2>1. Len(v) <= Len(v) /\ Len(v) \notin unread
      BY <1>1, <1>5
    <2>. QED BY <1>1, <2>1
  <1>7. upTo(Len(v)) = v
    BY SubSeqFull DEF upTo, Text
  <1>8. s \o v \in Text
    BY ConcatProperties DEF Text
  <1>. QED BY <1>6, <1>7, <1>8 DEF Read

\* A value of a table, in whose texts there are no quotes and no carriage returns.
Plain(v) == v \in Text /\ \A i \in 1..Len(v) : v[i] \notin {Quote, CR}

LEMMA Signs ==
  /\ Quote \in Tokens /\ Comma \in Tokens /\ CR \in Tokens
  /\ Comma \in Separators /\ CR \in Separators /\ Quote \notin Separators
  /\ \A c \in Separators : c = Comma \/ c = CR
  <1>1. Quote \in Tokens /\ Comma \in Tokens /\ CR \in Tokens
    BY CsvAssumption
  <1>2. Comma \in Separators /\ CR \in Separators
    BY DEF Separators
  <1>3. Quote \notin Separators
    BY DEF Quote, Comma, CR, Separators
  <1>4. \A c \in Separators : c = Comma \/ c = CR
    BY DEF Separators
  <1>. QED BY <1>1, <1>2, <1>3, <1>4

\* Quoted or not, a value becomes the field that is read.
LEMMA ReadsQuoted ==
  ASSUME NEW s \in Text, NEW fs, Reads(s, FALSE, <<>>, fs), NEW v, Plain(v), NEW style
  PROVE  /\ Quoted(v, style) \in Text /\ s \o Quoted(v, style) \in Text
         /\ Reads(s \o Quoted(v, style), FALSE, v, fs)
  <1>1. v \in Text /\ <<>> \in Text /\ <<Quote>> \in Text
    BY Signs DEF Plain, Text
  <1>2. <<>> \o v = v
    BY <1>1, ConcatEmptySeq DEF Text
  <1>3. CASE style.quoteAll \/ \E i \in DOMAIN v : v[i] = Comma
    <2>. DEFINE opened == Append(s, Quote)
    <2>1. opened \in Text
      BY Signs, AppendProperties DEF Text
    <2>2. Reads(opened, TRUE, <<>>, fs)
      <3>1. Reads(opened, ~FALSE, <<>>, fs)
        BY Signs, OneMore
      <3>. QED BY <3>1
    <2>. HIDE DEF opened
    <2>3. \A i \in 1..Len(v) : v[i] # Quote /\ ~(v[i] \in Separators /\ ~TRUE)
      BY DEF Plain
    <2>4. opened \o v \in Text /\ Reads(opened \o v, TRUE, <<>> \o v, fs)
      BY <1>1, <2>1, <2>2, <2>3, ReadsText
    <2>5. Reads(Append(opened \o v, Quote), FALSE, v, fs)
      <3>1. Reads(Append(opened \o v, Quote), ~TRUE, v, fs)
        BY <1>2, <2>4, Signs, OneMore
      <3>. QED BY <3>1
    <2>6. Quoted(v, style) = <<Quote>> \o v \o <<Quote>>
      BY <1>3 DEF Quoted
    <2>7. <<Quote>> \o v \in Text /\ <<Quote>> \o v \o <<Quote>> \in Text
      BY <1>1, ConcatProperties DEF Text
    <2>8. s \o (<<Quote>> \o v \o <<Quote>>) = Append(opened \o v, Quote)
      <3>1. s \o (<<Quote>> \o v \o <<Quote>>) = (s \o (<<Quote>> \o v)) \o <<Quote>>
        BY <1>1, <2>7, ConcatAssociative DEF Text
      <3>2. s \o (<<Quote>> \o v) = (s \o <<Quote>>) \o v
        BY <1>1, ConcatAssociative DEF Text
      <3>3. s \o <<Quote>> = opened
        BY Signs, AppendIsConcat DEF Text, opened
      <3>4. (opened \o v) \o <<Quote>> = Append(opened \o v, Quote)
        BY <2>4, Signs, AppendIsConcat DEF Text
      <3>. QED BY <3>1, <3>2, <3>3, <3>4
    <2>9. Append(opened \o v, Quote) \in Text
      BY <2>4, Signs, AppendProperties DEF Text
    <2>. QED BY <2>5, <2>6, <2>7, <2>8, <2>9
  <1>4. CASE ~(style.quoteAll \/ \E i \in DOMAIN v : v[i] = Comma)
    <2>1. Quoted(v, style) = v
      BY <1>4 DEF Quoted
    <2>2. DOMAIN v = 1..Len(v)
      BY <1>1, LenProperties DEF Text
    <2>3. \A i \in 1..Len(v) : v[i] # Quote /\ ~(v[i] \in Separators /\ ~FALSE)
      BY <1>4, <2>2, Signs DEF Plain
    <2>4. s \o v \in Text /\ Reads(s \o v, FALSE, <<>> \o v, fs)
      BY <1>1, <2>3, ReadsText
    <2>. QED BY <1>1, <1>2, <2>1, <2>4
  <1>. QED BY <1>3, <1>4

\* The text of a row after its n-th value, from the text before.
LinkTo(row, style, n, before) ==
  CASE n = 0 -> <<>>
    [] n = 1 -> Quoted(row[1], style)
    [] OTHER -> before \o <<Comma>> \o Quoted(row[n], style)

UpToValues(f, m, row, style) == f = [n \in 0..m |-> LinkTo(row, style, n, f[n - 1])]

\* The recursive function of WrittenRow: there is one.
LEMMA UpToExists ==
  ASSUME NEW row, NEW style, NEW m \in Nat
  PROVE  \E f : UpToValues(f, m, row, style)
  <1>. DEFINE Has(k) == \E f : UpToValues(f, k, row, style)
              lacking == {k \in Nat : ~Has(k)}
              next(n, before) == LinkTo(row, style, n, before)
  <1>1. \A a, b : next(0, a) = next(0, b)
    BY DEF LinkTo
  <1>2. Has(0)
    <2>. DEFINE f == [n \in 0..0 |-> next(n, <<>>)]
    <2>1. \A n \in 0..0 : next(n, <<>>) = next(n, f[n - 1])
      <3>1. \A n \in 0..0 : n = 0
        OBVIOUS
      <3>. HIDE DEF f, next
      <3>. QED BY <1>1, <3>1
    <2>2. f = [n \in 0..0 |-> next(n, f[n - 1])]
      <3>1. f = [n \in 0..0 |-> next(n, <<>>)]
        OBVIOUS
      <3>. HIDE DEF f, next
      <3>. QED BY <2>1, <3>1
    <2>. HIDE DEF f
    <2>. QED BY <2>2 DEF UpToValues
  <1>3. ASSUME NEW k \in Nat, Has(k)
        PROVE  Has(k + 1)
    <2>. PICK f : UpToValues(f, k, row, style)
      BY <1>3
    <2>1. f = [n \in 0..k |-> next(n, f[n - 1])]
      BY DEF UpToValues
    <2>. DEFINE g == [n \in 0..k + 1 |-> IF n = k + 1 THEN next(k + 1, f[k]) ELSE f[n]]
    <2>2. g = [n \in 0..k + 1 |-> IF n = k + 1 THEN next(k + 1, f[k]) ELSE f[n]]
      OBVIOUS
    <2>. HIDE DEF g, next
    <2>3. ASSUME NEW n \in 0..k + 1
          PROVE  g[n] = next(n, g[n - 1])
      <3>1. CASE n = k + 1
        <4>1. n - 1 = k /\ k \in 0..k + 1 /\ k # k + 1
          BY <3>1
        <4>2. g[n] = next(k + 1, f[k])
          BY <2>2, <3>1
        <4>3. g[k] = f[k]
          BY <2>2, <4>1
        <4>. QED BY <3>1, <4>1, <4>2, <4>3
      <3>2. CASE n = 0
        <4>1. n \in 0..k /\ n # k + 1
          BY <3>2
        <4>2. g[n] = f[n] /\ f[n] = next(n, f[n - 1])
          <5>1. f[n] = next(n, f[n - 1])
            BY <2>1, <4>1
          <5>. QED BY <2>2, <4>1, <5>1
        <4>. QED BY <1>1, <3>2, <4>2
      <3>3. CASE n # k + 1 /\ n # 0
        <4>1. n \in 0..k /\ n - 1 \in 0..k + 1 /\ n - 1 # k + 1
          BY <3>3
        <4>2. f[n] = next(n, f[n - 1])
          BY <2>1, <4>1
        <4>3. g[n] = f[n] /\ g[n - 1] = f[n - 1]
          BY <2>2, <3>3, <4>1
        <4>. QED BY <4>2, <4>3
      <3>. QED BY <3>1, <3>2, <3>3
    <2>4. g = [n \in 0..k + 1 |-> next(n, g[n - 1])]
      BY <2>2, <2>3
    <2>. QED BY <2>4 DEF UpToValues, next
  <1>. HIDE DEF Has
  <1>4. lacking = {}
    <2>1. SUFFICES ASSUME lacking # {} PROVE FALSE
      OBVIOUS
    <2>2. PICK k \in lacking : \A j \in lacking : k <= j
      <3>1. lacking \in SUBSET Nat
        OBVIOUS
      <3>. HIDE DEF lacking
      <3>. QED BY <2>1, <3>1, Least
    <2>3. k \in Nat /\ k # 0 /\ ~Has(k)
      BY <1>2, <2>2
    <2>4. k - 1 \in Nat /\ ~(k <= k - 1) /\ k - 1 + 1 = k
      BY <2>3
    <2>5. Has(k - 1)
      BY <2>2, <2>4
    <2>6. Has(k - 1 + 1)
      BY <1>3, <2>4, <2>5
    <2>. QED BY <2>3, <2>4, <2>6
  <1>. QED BY <1>4 DEF Has

LEMMA WrittenUpTo ==
  ASSUME NEW row, Len(row) \in Nat, NEW style
  PROVE  \E f : /\ UpToValues(f, Len(row), row, style)
                /\ WrittenRow(row, style) =
                     f[Len(row)] \o (IF style.crlf THEN <<CR>> ELSE <<>>)
  <1>. DEFINE upTo[n \in 0..Len(row)] ==
                CASE n = 0 -> <<>>
                  [] n = 1 -> Quoted(row[1], style)
                  [] OTHER -> upTo[n - 1] \o <<Comma>> \o Quoted(row[n], style)
  <1>1. PICK f : UpToValues(f, Len(row), row, style)
    BY UpToExists
  <1>2. upTo = [n \in 0..Len(row) |-> CASE n = 0 -> <<>>
                  [] n = 1 -> Quoted(row[1], style)
                  [] OTHER -> upTo[n - 1] \o <<Comma>> \o Quoted(row[n], style)]
    BY <1>1 DEF UpToValues, LinkTo
  <1>3. UpToValues(upTo, Len(row), row, style)
    <2>. HIDE DEF upTo
    <2>. QED BY <1>2 DEF UpToValues, LinkTo
  <1>4. WrittenRow(row, style) = upTo[Len(row)] \o (IF style.crlf THEN <<CR>> ELSE <<>>)
    BY DEF WrittenRow
  <1>. HIDE DEF upTo
  <1>. QED BY <1>3, <1>4

Values(row, n) == [k \in 1..n |-> Value(row[k])]

LEMMA ValuesMore ==
  ASSUME NEW row \in Seq(Text), NEW n \in Nat, n < Len(row)
  PROVE  /\ Values(row, n) \in Seq(Text) /\ Len(Values(row, n)) = n
         /\ Append(Values(row, n), Value(row[n + 1])) = Values(row, n + 1)
  <1>. DEFINE value(k) == Value(row[k])
              more == Append(Values(row, n), value(n + 1))
  <1>1. Len(row) \in Nat /\ \A k \in 1..Len(row) : row[k] \in Text
    BY LenProperties
  <1>2. \A k \in 1..n + 1 : value(k) \in Text
    <2>1. \A k \in 1..n + 1 : k \in 1..Len(row)
      BY <1>1
    <2>. QED BY <1>1, <2>1, ValueType
  <1>3. Values(row, n) = [k \in 1..n |-> value(k)] /\ Values(row, n + 1) = [k \in 1..n + 1 |-> value(k)]
    BY DEF Values
  <1>. HIDE DEF value, Text
  <1>4. Values(row, n) \in [1..n -> Text] /\ Values(row, n + 1) \in [1..n + 1 -> Text]
    BY <1>2, <1>3
  <1>5. /\ Values(row, n) \in Seq(Text) /\ Len(Values(row, n)) = n
        /\ Values(row, n + 1) \in Seq(Text) /\ Len(Values(row, n + 1)) = n + 1
    <2>1. n + 1 \in Nat
      OBVIOUS
    <2>. QED BY <1>4, <2>1
  <1>6. /\ more \in Seq(Text) /\ Len(more) = n + 1 /\ more[n + 1] = value(n + 1)
        /\ \A k \in 1..n : more[k] = Values(row, n)[k]
    <2>1. value(n + 1) \in Text
      BY <1>2
    <2>. QED BY <1>5, <2>1, AppendProperties
  <1>. HIDE DEF more
  <1>7. \A k \in 1..n + 1 : more[k] = Values(row, n + 1)[k]
    <2>1. \A k \in 1..n + 1 : k \in 1..n \/ k = n + 1
      OBVIOUS
    <2>2. \A k \in 1..n : more[k] = value(k)
      BY <1>3, <1>6
    <2>3. \A k \in 1..n + 1 : Values(row, n + 1)[k] = value(k)
      BY <1>3
    <2>. QED BY <1>6, <2>1, <2>2, <2>3
  <1>8. more = Values(row, n + 1)
    BY <1>5, <1>6, <1>7, SeqEqual
  <1>. QED BY <1>5, <1>8 DEF more, value

LEMMA ReadsRow ==
  ASSUME NEW row \in Seq(Text), \A k \in 1..Len(row) : Plain(row[k]),
         NEW style, NEW f, UpToValues(f, Len(row), row, style)
  PROVE  \A n \in 1..Len(row) :
           f[n] \in Text /\ Reads(f[n], FALSE, row[n], Values(row, n - 1))
  <1>. DEFINE Read(n) == f[n] \in Text /\ Reads(f[n], FALSE, row[n], Values(row, n - 1))
              unread == {n \in Nat : n \in 1..Len(row) /\ ~Read(n)}
  <1>1. Len(row) \in Nat /\ \A k \in 1..Len(row) : row[k] \in Text
    BY LenProperties
  <1>2. \A n \in 1..Len(row) : f[n] = LinkTo(row, style, n, f[n - 1])
    <2>1. f = [n \in 0..Len(row) |-> LinkTo(row, style, n, f[n - 1])]
      BY DEF UpToValues
    <2>2. \A n \in 1..Len(row) : n \in 0..Len(row)
      BY <1>1
    <2>. QED BY <2>1, <2>2
  <1>3. ASSUME 1 \in 1..Len(row) PROVE Read(1)
    <2>1. f[1] = Quoted(row[1], style)
      BY <1>2, <1>3 DEF LinkTo
    <2>2. Reads(<<>>, FALSE, <<>>, <<>>)
      BY ReadsNothing
    <2>6. <<>> \in Text
      BY DEF Text
    <2>7. Plain(row[1])
      BY <1>3
    <2>8. /\ Quoted(row[1], style) \in Text
          /\ Reads(<<>> \o Quoted(row[1], style), FALSE, row[1], <<>>)
      BY <2>2, <2>6, <2>7, ReadsQuoted
    <2>3. /\ f[1] \in Text
          /\ Reads(<<>> \o f[1], FALSE, row[1], <<>>)
      BY <2>1, <2>8
    <2>4. <<>> \o f[1] = f[1]
      BY <2>3, ConcatEmptySeq DEF Text
    <2>5. Values(row, 1 - 1) = <<>>
      BY DEF Values
    <2>. QED BY <2>3, <2>4, <2>5
  <1>4. ASSUME NEW n \in Nat, n \in 1..Len(row), n + 1 \in 1..Len(row), Read(n)
        PROVE  Read(n + 1)
    <2>. DEFINE next == Quoted(row[n + 1], style)
                ended == Append(f[n], Comma)
    <2>1. n - 1 \in Nat /\ n - 1 < Len(row) /\ n - 1 + 1 = n /\ (n + 1) - 1 = n /\ n + 1 # 0 /\ n + 1 # 1
      BY <1>1, <1>4
    <2>2. f[n] \in Text /\ Reads(f[n], FALSE, row[n], Values(row, n - 1))
      BY <1>4
    <2>3. Append(Values(row, n - 1), Value(row[n])) = Values(row, n)
      <3>1. Append(Values(row, n - 1), Value(row[n - 1 + 1])) = Values(row, n - 1 + 1)
        BY <2>1, ValuesMore
      <3>. QED BY <2>1, <3>1
    <2>4. ended \in Text /\ ended = f[n] \o <<Comma>>
      BY <2>2, Signs, AppendProperties, AppendIsConcat DEF Text
    <2>5. Reads(ended, FALSE, <<>>, Values(row, n))
      <3>1. Reads(ended, FALSE, <<>>, Append(Values(row, n - 1), Value(row[n])))
        BY <2>2, Signs, OneMore
      <3>. QED BY <2>3, <3>1
    <2>6. f[n + 1] = f[n] \o <<Comma>> \o next
      <3>1. f[n + 1] = LinkTo(row, style, n + 1, f[(n + 1) - 1])
        BY <1>2, <1>4
      <3>2. f[n + 1] = LinkTo(row, style, n + 1, f[n])
        BY <2>1, <3>1
      <3>. QED BY <2>1, <3>2 DEF LinkTo
    <2>7. Plain(row[n + 1])
      BY <1>4
    <2>. HIDE DEF ended, next
    <2>8. ended \o next \in Text /\ Reads(ended \o next, FALSE, row[n + 1], Values(row, n))
      BY <2>4, <2>5, <2>7, ReadsQuoted DEF next
    <2>9. f[n + 1] = ended \o next
      BY <2>4, <2>6
    <2>10. f[n + 1] \in Text
      BY <2>8, <2>9
    <2>11. Reads(f[n + 1], FALSE, row[n + 1], Values(row, n))
      BY <2>8, <2>9
    <2>12. (n + 1) - 1 = n
      OBVIOUS
    <2>. QED BY <2>10, <2>11, <2>12
  <1>. HIDE DEF Read
  <1>5. unread = {}
    <2>1. SUFFICES ASSUME unread # {} PROVE FALSE
      OBVIOUS
    <2>2. PICK n \in unread : \A m \in unread : n <= m
      <3>1. unread \in SUBSET Nat
        OBVIOUS
      <3>. HIDE DEF unread
      <3>. QED BY <2>1, <3>1, Least
    <2>3. n \in Nat /\ n \in 1..Len(row) /\ n # 1 /\ ~Read(n)
      BY <1>3, <2>2
    <2>4. n - 1 \in Nat /\ n - 1 \in 1..Len(row) /\ ~(n <= n - 1) /\ n - 1 + 1 = n
      BY <1>1, <2>3
    <2>5. Read(n - 1)
      BY <2>2, <2>4
    <2>6. Read(n - 1 + 1)
      BY <1>4, <2>3, <2>4, <2>5
    <2>. QED BY <2>3, <2>4, <2>6
  <1>6. \A n \in 1..Len(row) : n \in Nat
    BY <1>1
  <1>. QED BY <1>5, <1>6 DEF Read

\* The end of a row: a carriage return is a separator too, so one more field, empty,
\* comes after the last.
LEMMA EndOfRow ==
  ASSUME NEW s \in Text, NEW g \in Text, NEW fs, Reads(s, FALSE, g, fs), NEW style
  PROVE  LET w == s \o (IF style.crlf THEN <<CR>> ELSE <<>>)
             row == Append(fs, Value(g))
         IN  /\ w \in Text /\ row \in Seq(Text)
             /\ FieldsRead(w) = IF style.crlf THEN Append(row, Value(<<>>)) ELSE row
  <1>. DEFINE row == Append(fs, Value(g))
  <1>1. row = FieldsRead(s) /\ row \in Seq(Text)
    BY ReadsFields
  <1>2. CASE ~style.crlf
    <2>1. s \o <<>> = s
      BY ConcatEmptySeq DEF Text
    <2>. QED BY <1>1, <1>2, <2>1
  <1>3. CASE style.crlf
    <2>1. s \o <<CR>> = Append(s, CR) /\ Append(s, CR) \in Text
      BY Signs, AppendIsConcat, AppendProperties DEF Text
    <2>2. Reads(Append(s, CR), FALSE, <<>>, row)
      BY Signs, OneMore
    <2>3. FieldsRead(Append(s, CR)) = Append(row, Value(<<>>))
      <3>. HIDE DEF row
      <3>. QED BY <2>1, <2>2, ReadsFields
    <2>. QED BY <1>1, <1>3, <2>1, <2>3
  <1>. QED BY <1>2, <1>3

LEMMA WrittenFields ==
  ASSUME NEW row \in Seq(Text), \A k \in 1..Len(row) : Plain(row[k]), NEW style
  PROVE  LET w == WrittenRow(row, style)
             more == IF style.crlf THEN 1 ELSE 0
         IN  /\ w \in Text
             /\ Len(row) = 0 => Len(FieldsRead(w)) = 1 + more
             /\ Len(row) # 0 => /\ Len(FieldsRead(w)) = Len(row) + more
                                /\ \A k \in 1..Len(row) : FieldsRead(w)[k] = Value(row[k])
  <1>. DEFINE w == WrittenRow(row, style)
              more == IF style.crlf THEN 1 ELSE 0
              n == Len(row)
              end == IF style.crlf THEN <<CR>> ELSE <<>>
  <1>1. n \in Nat /\ \A k \in 1..n : row[k] \in Text
    BY LenProperties
  <1>2. PICK f : UpToValues(f, n, row, style) /\ w = f[n] \o end
    BY <1>1, WrittenUpTo
  <1>. HIDE DEF w
  <1>3. Value(<<>>) \in Text /\ <<>> \in Text
    <2>1. <<>> \in Text
      BY DEF Text
    <2>. QED BY <2>1, ValueType
  \* The fields of the line, from those of the text before its end.
  <1>4. ASSUME NEW g \in Text, NEW fs, Reads(f[n], FALSE, g, fs), f[n] \in Text
        PROVE  /\ w \in Text
               /\ Append(fs, Value(g)) \in Seq(Text)
               /\ Len(FieldsRead(w)) = Len(Append(fs, Value(g))) + more
               /\ \A k \in 1..Len(Append(fs, Value(g))) : FieldsRead(w)[k] = Append(fs, Value(g))[k]
    <2>. DEFINE r == Append(fs, Value(g))
    <2>1. w \in Text /\ r \in Seq(Text) /\ FieldsRead(w) = IF style.crlf THEN Append(r, Value(<<>>)) ELSE r
      BY <1>2, <1>4, EndOfRow
    <2>. HIDE DEF r
    <2>2. /\ Len(Append(r, Value(<<>>))) = Len(r) + 1
          /\ \A k \in 1..Len(r) : Append(r, Value(<<>>))[k] = r[k]
      BY <1>3, <2>1, AppendProperties
    <2>3. Len(r) \in Nat
      BY <2>1, LenProperties
    <2>4. CASE style.crlf
      BY <2>1, <2>2, <2>4 DEF r
    <2>5. CASE ~style.crlf
      BY <2>1, <2>3, <2>5 DEF r
    <2>. QED BY <2>4, <2>5
  <1>5. CASE n = 0
    <2>1. f[n] = <<>>
      <3>1. f = [k \in 0..n |-> LinkTo(row, style, k, f[k - 1])]
        BY <1>2 DEF UpToValues
      <3>2. 0 \in 0..n
        BY <1>1
      <3>3. f[0] = LinkTo(row, style, 0, f[0 - 1])
        BY <3>1, <3>2
      <3>. QED BY <1>5, <3>3 DEF LinkTo
    <2>2. Reads(f[n], FALSE, <<>>, <<>>) /\ f[n] \in Text
      BY <1>3, <2>1, ReadsNothing
    <2>3. Len(Append(<<>>, Value(<<>>))) = 1
      BY <1>3
    <2>4. w \in Text /\ Len(FieldsRead(w)) = 1 + more
      <3>. HIDE DEF more, n
      <3>. QED BY <1>3, <1>4, <2>2, <2>3
    <2>. QED BY <1>5, <2>4 DEF w
  <1>6. CASE n # 0
    <2>1. n \in 1..n /\ n - 1 \in Nat /\ n - 1 < n /\ n - 1 + 1 = n
      BY <1>1, <1>6
    <2>2. f[n] \in Text /\ Reads(f[n], FALSE, row[n], Values(row, n - 1))
      BY <1>2, <2>1, ReadsRow
    <2>3. Append(Values(row, n - 1), Value(row[n])) = Values(row, n)
      <3>1. Append(Values(row, n - 1), Value(row[n - 1 + 1])) = Values(row, n - 1 + 1)
        BY <2>1, ValuesMore
      <3>. QED BY <2>1, <3>1
    <2>4. row[n] \in Text
      BY <1>1, <2>1
    <2>5. Values(row, n) = [k \in 1..n |-> Value(row[k])]
      BY DEF Values
    <2>. DEFINE g == row[n]
                fs == Values(row, n - 1)
    <2>. HIDE DEF n, more
    <2>6. /\ w \in Text /\ Values(row, n) \in Seq(Text)
          /\ Len(FieldsRead(w)) = Len(Values(row, n)) + more
          /\ \A k \in 1..Len(Values(row, n)) : FieldsRead(w)[k] = Values(row, n)[k]
      <3>1. g \in Text /\ Append(fs, Value(g)) = Values(row, n)
        BY <2>3, <2>4
      <3>2. f[n] \in Text /\ Reads(f[n], FALSE, g, fs)
        BY <2>2
      <3>. HIDE DEF g, fs
      <3>3. /\ w \in Text
            /\ Append(fs, Value(g)) \in Seq(Text)
            /\ Len(FieldsRead(w)) = Len(Append(fs, Value(g))) + more
            /\ \A k \in 1..Len(Append(fs, Value(g))) : FieldsRead(w)[k] = Append(fs, Value(g))[k]
        BY <1>4, <3>1, <3>2
      <3>. QED BY <3>1, <3>3
    <2>7. Len(Values(row, n)) = n
      BY <1>1, <2>5, <2>6, LenProperties
    <2>8. Len(FieldsRead(w)) = n + more /\ \A k \in 1..n : FieldsRead(w)[k] = Value(row[k])
      BY <2>5, <2>6, <2>7
    <2>. QED BY <1>6, <2>6, <2>8 DEF n, more, w
  <1>. QED BY <1>5, <1>6

\* trim leaves what a value stands for.
LEMMA ValueMeant ==
  ASSUME NEW v, Plain(v)
  PROVE  Value(v) = Meant(v)
  <1>. DEFINE solid == {i \in DOMAIN v : v[i] \notin {Blank, CR}}
              from == CHOOSE i \in solid : \A j \in solid : i <= j
              to == CHOOSE i \in solid : \A j \in solid : j <= i
              inner == {i \in DOMAIN v : \E j, k \in DOMAIN v :
                          j <= i /\ i <= k /\ v[j] # Blank /\ v[k] # Blank}
  <1>1. v \in Text /\ v \in Seq(Tokens) /\ Len(v) \in Nat /\ DOMAIN v = 1..Len(v)
    BY LenProperties DEF Plain, Text
  <1>2. \A i \in DOMAIN v : i \in solid <=> v[i] # Blank
    BY <1>1 DEF Plain
  <1>3. solid \in SUBSET (1..Len(v))
    BY <1>1
  <1>4. Trim(v) = IF solid = {} THEN <<>> ELSE SubSeq(v, from, to)
    BY DEF Trim
  <1>5. Meant(v) = IF v = <<Null>> THEN <<>> ELSE At(v, inner)
    BY DEF Meant
  <1>6. \A i : i \in inner <=> i \in DOMAIN v /\ \E j, k \in solid : j <= i /\ i <= k
    <2>1. \A j \in DOMAIN v : v[j] # Blank <=> j \in solid
      BY <1>2
    <2>2. \A j \in solid : j \in DOMAIN v
      OBVIOUS
    <2>3. \A i : i \in inner <=> i \in DOMAIN v /\ \E j, k \in DOMAIN v :
                          j <= i /\ i <= k /\ v[j] # Blank /\ v[k] # Blank
      OBVIOUS
    <2>. HIDE DEF solid, inner
    <2>. QED BY <2>1, <2>2, <2>3
  <1>. HIDE DEF inner
  <1>7. CASE solid = {}
    <2>1. inner = {}
      BY <1>6, <1>7
    <2>2. {} \in SUBSET (DOMAIN v)
      OBVIOUS
    <2>3. At(v, {}) \in Seq(Tokens) /\ Len(At(v, {})) = Cardinality({})
      BY <1>1, <2>2, Kept
    <2>4. At(v, {}) = <<>>
      BY <2>3, FS_EmptySet, EmptySeq
    <2>. QED BY <1>4, <1>5, <1>7, <2>1, <2>4 DEF Value
  <1>8. CASE solid # {}
    <2>. HIDE DEF solid
    <2>1. \E i \in solid : \A j \in solid : i <= j
      <3>1. solid \in SUBSET Nat
        BY <1>3
      <3>. QED BY <1>8, <3>1, Least
    <2>2. \E i \in solid : \A j \in solid : j <= i
      BY <1>1, <1>3, <1>8, Greatest
    <2>3. from \in solid /\ to \in solid /\ \A j \in solid : from <= j /\ j <= to
      BY <2>1, <2>2
    <2>. HIDE DEF from, to
    <2>4. from \in 1..Len(v) /\ to \in 1..Len(v) /\ from <= to
      BY <1>3, <2>3
    <2>5. \A i : i \in inner <=> i \in from..to
      <3>1. ASSUME NEW i, i \in inner PROVE i \in from..to
        <4>1. PICK j \in solid, k \in solid : j <= i /\ i <= k
          BY <1>6, <3>1
        <4>2. i \in Nat /\ j \in Nat /\ k \in Nat /\ from \in Nat /\ to \in Nat
          BY <1>1, <1>3, <1>6, <2>4, <3>1
        <4>3. from <= j /\ k <= to
          BY <2>3
        <4>. QED BY <4>1, <4>2, <4>3
      <3>2. ASSUME NEW i, i \in from..to PROVE i \in inner
        <4>1. i \in 1..Len(v) /\ from <= i /\ i <= to
          BY <1>1, <2>4, <3>2
        <4>. QED BY <1>1, <1>6, <2>3, <4>1
      <3>. QED BY <3>1, <3>2
    <2>6. inner = from..to
      BY <2>5
    <2>7. At(v, from..to) = SubSeq(v, from, to)
      BY <1>1, <2>4, KeptBetween
    <2>. QED BY <1>4, <1>5, <1>8, <2>6, <2>7 DEF Value
  <1>. QED BY <1>7, <1>8

\* A table of the ones that may be uploaded, and the file that was written from it.
LEMMA WrittenTable ==
  ASSUME NEW t \in Tables, NEW style,
         style.crlf => \A r \in DOMAIN t : Len(t[r]) # Needed - 1
  PROVE  LinesRead(Written(t, style)) = RowsOf(t)
  <1>. DEFINE f == Written(t, style)
              long == {r \in DOMAIN t : LongEnough(t[r])}
              header == {r \in long : IsHeader(MeantRow(t[r])) /\ \A q \in long : r <= q}
              body == long \ header
              read == At(Rows(f), body)
              rows == At(t, body)
  <1>1. t \in Seq(Seq(Text)) /\ Needed \in Nat /\ Needed > 2
    BY CsvAssumption DEF Text
  <1>2. Len(t) \in Nat /\ DOMAIN t = 1..Len(t) /\ \A r \in 1..Len(t) : t[r] \in Seq(Text)
    BY <1>1, LenProperties
  <1>3. ASSUME NEW r \in DOMAIN t
        PROVE  t[r] \in Seq(Text) /\ Len(t[r]) \in Nat /\ \A k \in 1..Len(t[r]) : Plain(t[r][k])
    <2>1. t[r] \in Seq(Text)
      BY <1>2
    <2>2. Len(t[r]) \in Nat /\ DOMAIN t[r] = 1..Len(t[r]) /\ \A k \in 1..Len(t[r]) : t[r][k] \in Text
      BY <2>1, LenProperties
    <2>3. ASSUME NEW k \in 1..Len(t[r]) PROVE Plain(t[r][k])
      <3>1. t[r][k] \in Text /\ DOMAIN t[r][k] = 1..Len(t[r][k])
        BY <2>2, LenProperties DEF Text
      <3>2. \A i \in DOMAIN t[r][k] : t[r][k][i] \notin {Quote, CR}
        BY <2>2, CsvAssumption
      <3>. QED BY <3>1, <3>2 DEF Plain
    <2>. QED BY <2>1, <2>2, <2>3
  <1>4. DOMAIN f = DOMAIN t /\ \A r \in DOMAIN t : f[r] = WrittenRow(t[r], style)
    BY DEF Written
  <1>. HIDE DEF f
  \* Row by row: as long, and with the same values.
  <1>5. ASSUME NEW r \in DOMAIN t
        PROVE  /\ f[r] \in Text
               /\ Len(FieldsRead(f[r])) >= Needed <=> LongEnough(t[r])
               /\ LongEnough(t[r]) => /\ Taken(FieldsRead(f[r])) = MeantRow(t[r])
                                      /\ FieldsRead(f[r])[1] = MeantRow(t[r])[1]
    <2>. DEFINE row == t[r]
                read_row == FieldsRead(f[r])
                more == IF style.crlf THEN 1 ELSE 0
    <2>1. row \in Seq(Text) /\ Len(row) \in Nat /\ \A k \in 1..Len(row) : Plain(row[k])
      BY <1>3
    <2>2. f[r] = WrittenRow(row, style)
      BY <1>4
    <2>. HIDE DEF row
    <2>3. /\ f[r] \in Text
          /\ Len(row) = 0 => Len(read_row) = 1 + more
          /\ Len(row) # 0 => /\ Len(read_row) = Len(row) + more
                             /\ \A k \in 1..Len(row) : read_row[k] = Value(row[k])
      BY <2>1, <2>2, WrittenFields
    <2>4. read_row \in Seq(Text) /\ Len(read_row) \in Nat
      <3>1. read_row \in Seq(Text)
        BY <2>3, FieldsType
      <3>. QED BY <3>1, LenProperties
    <2>5. more \in {0, 1} /\ (more = 1 => Len(row) # Needed - 1)
      BY DEF row
    <2>. HIDE DEF read_row
    <2>6. Len(read_row) >= Needed <=> Len(row) >= Needed
      <3>. DEFINE a == Len(row)
                  b == Len(read_row)
      <3>1. a \in Nat /\ b \in Nat /\ (a = 0 => b = 1 + more) /\ (a # 0 => b = a + more)
        BY <2>1, <2>3, <2>4
      <3>2. more = 1 => a # Needed - 1
        BY <2>5
      <3>3. more = 0 \/ more = 1
        BY <2>5
      <3>. HIDE DEF a, b, more
      <3>4. b >= Needed <=> a >= Needed
        BY <1>1, <3>1, <3>2, <3>3
      <3>. QED BY <3>4 DEF a, b
    <2>7. ASSUME Len(row) >= Needed
          PROVE  Taken(read_row) = MeantRow(row) /\ read_row[1] = MeantRow(row)[1]
      <3>1. Needed \in 0..Len(read_row) /\ Len(row) # 0
        BY <1>1, <2>1, <2>4, <2>6, <2>7
      <3>2. \A k \in 1..Needed : read_row[k] = Meant(row[k])
        <4>1. \A k \in 1..Needed : k \in 1..Len(row)
          BY <1>1, <2>1, <2>7
        <4>2. \A k \in 1..Len(row) : Value(row[k]) = Meant(row[k])
          BY <2>1, ValueMeant
        <4>. QED BY <2>3, <3>1, <4>1, <4>2
      <3>3. /\ Taken(read_row) \in Seq(Text) /\ Len(Taken(read_row)) = Needed
            /\ \A k \in 1..Needed : Taken(read_row)[k] = read_row[k]
        BY <2>4, <3>1, Beginnings DEF Taken
      <3>4. Taken(read_row) = [k \in 1..Needed |-> Meant(row[k])]
        <4>. DEFINE taken == Taken(read_row)
        <4>1. taken \in Seq(Text) /\ Len(taken) = Needed /\ \A k \in 1..Needed : taken[k] = Meant(row[k])
          BY <3>2, <3>3
        <4>. HIDE DEF taken
        <4>2. taken \in [1..Needed -> Text]
          BY <4>1, LenProperties
        <4>3. taken = [k \in 1..Needed |-> Meant(row[k])]
          BY <4>1, <4>2
        <4>. QED BY <4>3 DEF taken
      <3>5. 1 \in 1..Needed
        BY <1>1
      <3>6. read_row[1] = Meant(row[1])
        BY <3>2, <3>5
      <3>. QED BY <3>4, <3>5, <3>6 DEF MeantRow
    <2>8. LongEnough(row) <=> Len(row) >= Needed
      BY DEF LongEnough
    <2>. QED BY <2>3, <2>6, <2>7, <2>8 DEF row, read_row
  <1>6. LongLines(f) = long
    <2>1. \A r : r \in LongLines(f) <=> r \in DOMAIN t /\ Len(FieldsRead(f[r])) >= Needed
      BY <1>4 DEF LongLines
    <2>2. \A r : r \in LongLines(f) <=> r \in long
      BY <1>5, <2>1
    <2>. HIDE DEF long
    <2>. QED BY <2>2
  <1>7. \A r \in long : r \in DOMAIN t /\ LongEnough(t[r])
    OBVIOUS
  <1>8. LeadingHeader(f) = header
    <2>1. \A r \in long : IsHeader(FieldsRead(f[r])) <=> IsHeader(MeantRow(t[r]))
      BY <1>5, <1>7 DEF IsHeader
    <2>2. LeadingHeader(f) = {r \in long : IsHeader(FieldsRead(f[r])) /\ \A q \in long : r <= q}
      BY <1>6 DEF LeadingHeader
    <2>. HIDE DEF long
    <2>. QED BY <2>1, <2>2
  <1>9. LinesRead(f) = [k \in DOMAIN read |-> Taken(read[k])]
    BY <1>6, <1>8 DEF LinesRead, Rows, Taken
  <1>10. RowsOf(t) = [k \in DOMAIN rows |-> MeantRow(rows[k])]
    BY DEF RowsOf
  <1>11. body \in SUBSET (DOMAIN t) /\ \A r \in body : r \in DOMAIN t /\ LongEnough(t[r])
    BY <1>7
  <1>. HIDE DEF body
  <1>12. /\ DOMAIN read = DOMAIN rows
         /\ \A k \in DOMAIN rows : \E r \in body : read[k] = FieldsRead(f[r]) /\ rows[k] = t[r]
    <2>1. /\ DOMAIN At(t, body) = 1..Cardinality(body)
          /\ DOMAIN At(Rows(f), body) = 1..Cardinality(body)
          /\ \A k \in 1..Cardinality(body) :
               \E r \in body : At(t, body)[k] = t[r] /\ At(Rows(f), body)[k] = Rows(f)[r]
      <3>. DEFINE S == Seq(Text)
                  u == Rows(f)
      <3>1. t \in Seq(S) /\ body \in SUBSET (DOMAIN t)
        BY <1>1, <1>11
      <3>. HIDE DEF S, u
      <3>2. /\ DOMAIN At(t, body) = 1..Cardinality(body)
            /\ DOMAIN At(u, body) = 1..Cardinality(body)
            /\ \A k \in 1..Cardinality(body) :
                 \E r \in body : At(t, body)[k] = t[r] /\ At(u, body)[k] = u[r]
        BY <3>1, KeptAlike
      <3>. QED BY <3>2 DEF u
    <2>2. \A r \in body : Rows(f)[r] = FieldsRead(f[r])
      BY <1>4, <1>11 DEF Rows
    <2>. QED BY <2>1, <2>2
  <1>. HIDE DEF read, rows
  <1>13. \A k \in DOMAIN rows : Taken(read[k]) = MeantRow(rows[k])
    BY <1>5, <1>11, <1>12
  <1>14. LinesRead(f) = RowsOf(t)
    BY <1>9, <1>10, <1>12, <1>13
  <1>. QED BY <1>14 DEF f

-----------------------------------------------------------------------------
(* The invariant.                                                          *)

\* The loop over the characters has the part of its line before pos, and the loop
\* over the lines what the lines before at amount to.
Reading == ~Done => Reads(SubSeq(line, 1, pos - 1), in_quotes, field, fields)
FirstAsRead == first <=> LongLines(SubSeq(file, 1, at - 1)) = {}

Inv == TypeOK /\ Reading /\ FirstAsRead /\ AddedAsRead

\* What the type says of the line that is read, and the parts of it.
LEMMA LineType ==
  ASSUME TypeOK, ~Done
  PROVE  /\ file \in Seq(Text) /\ at \in 1..Len(file) /\ line \in Text
         /\ Len(line) \in Nat /\ pos \in 1..Len(line) + 1 /\ Len(file) \in Nat
         /\ SubSeq(line, 1, pos - 1) \in Text
         /\ Scanning => /\ line[pos] \in Tokens
                        /\ SubSeq(line, 1, pos) = Append(SubSeq(line, 1, pos - 1), line[pos])
         /\ ~Scanning => SubSeq(line, 1, pos - 1) = line
  <1>1. file \in Seq(Text) /\ at \in 1..Len(file) + 1
    BY DEF TypeOK, Text
  <1>2. Len(file) \in Nat
    BY <1>1, LenProperties
  <1>3. at \in 1..Len(file)
    BY <1>1, <1>2 DEF Done
  <1>4. line \in Text
    BY <1>1, <1>3, LenProperties DEF line
  <1>5. Len(line) \in Nat /\ \A i \in 1..Len(line) : line[i] \in Tokens
    BY <1>4, LenProperties DEF Text
  <1>6. pos \in 1..Len(line) + 1
    BY DEF TypeOK
  <1>7. pos - 1 \in 0..Len(line) /\ pos - 1 + 1 = pos
    BY <1>5, <1>6
  <1>8. /\ SubSeq(line, 1, pos - 1) \in Text
        /\ pos - 1 < Len(line) =>
             SubSeq(line, 1, pos - 1 + 1) = Append(SubSeq(line, 1, pos - 1), line[pos - 1 + 1])
        /\ SubSeq(line, 1, Len(line)) = line
    BY <1>4, <1>7, Beginnings DEF Text
  <1>9. ASSUME Scanning
        PROVE  line[pos] \in Tokens /\ SubSeq(line, 1, pos) = Append(SubSeq(line, 1, pos - 1), line[pos])
    <2>1. pos \in 1..Len(line) /\ pos - 1 < Len(line)
      BY <1>5, <1>6, <1>9 DEF Scanning
    <2>. QED BY <1>5, <1>7, <1>8, <2>1
  <1>10. ASSUME ~Scanning PROVE SubSeq(line, 1, pos - 1) = line
    <2>1. pos - 1 = Len(line)
      BY <1>5, <1>6, <1>10 DEF Scanning
    <2>. QED BY <1>8, <2>1
  <1>. QED BY <1>1, <1>2, <1>3, <1>4, <1>5, <1>6, <1>8, <1>9, <1>10

LEMMA InitInv ==
  Init => Inv
  <1>. SUFFICES ASSUME Init PROVE Inv
    OBVIOUS
  <1>1. file \in Seq(Text)
    BY CsvAssumption DEF Init, Text
  <1>2. SubSeq(file, 1, 0) = <<>>
    BY SubSeqEmpty
  <1>3. Len(file) \in Nat
    BY <1>1, LenProperties
  <1>4. TypeOK
    <2>1. file \in Seq(Seq(Tokens)) /\ at \in 1..Len(file) + 1
      BY <1>1, <1>3 DEF Init, Text
    <2>2. pos \in 1..(IF Done THEN 1 ELSE Len(line) + 1)
      <3>1. CASE Done
        BY <3>1 DEF Init
      <3>2. CASE ~Done
        <4>1. line \in Text
          BY <1>1, <1>3, <3>2, LenProperties DEF Done, line, Init
        <4>2. Len(line) \in Nat
          BY <4>1, LenProperties DEF Text
        <4>. QED BY <3>2, <4>2 DEF Init
      <3>. QED BY <3>1, <3>2
    <2>3. field \in Seq(Tokens) /\ fields \in Seq(Seq(Tokens)) /\ added \in Seq([1..Needed -> Seq(Tokens)])
      BY DEF Init
    <2>. QED BY <2>1, <2>2, <2>3 DEF Init, TypeOK
  <1>5. Reading
    <2>1. SubSeq(line, 1, pos - 1) = <<>>
      BY SubSeqEmpty DEF Init
    <2>. QED BY <2>1, ReadsNothing DEF Init, Reading
  <1>6. DOMAIN (<<>>) = {}
    OBVIOUS
  <1>7. FirstAsRead
    <2>1. LongLines(<<>>) = {}
      BY <1>6 DEF LongLines
    <2>2. SubSeq(file, 1, at - 1) = <<>>
      BY <1>2 DEF Init
    <2>. QED BY <2>1, <2>2 DEF Init, FirstAsRead
  <1>8. AddedAsRead
    <2>1. LinesRead(<<>>) = <<>>
      <3>1. Body(<<>>) = {}
        BY <1>6 DEF Body, LongLines
      <3>2. Rows(<<>>) = <<>>
        BY <1>6 DEF Rows
      <3>3. At(<<>>, {}) \in Seq(Text) /\ Len(At(<<>>, {})) = Cardinality({})
        <4>1. <<>> \in Seq(Text) /\ {} \in SUBSET (DOMAIN (<<>>))
          OBVIOUS
        <4>. QED BY <4>1, Kept
      <3>4. At(<<>>, {}) = <<>>
        BY <3>3, FS_EmptySet, EmptySeq
      <3>5. LinesRead(<<>>) = Cut(At(Rows(<<>>), Body(<<>>)))
        BY DEF LinesRead, Cut, Rows, Body, Taken
      <3>6. Cut(<<>>) = <<>>
        BY <1>6 DEF Cut
      <3>. QED BY <3>1, <3>2, <3>4, <3>5, <3>6
    <2>2. SubSeq(file, 1, at - 1) = <<>>
      BY <1>2 DEF Init
    <2>. QED BY <2>1, <2>2 DEF Init, AddedAsRead
  <1>. QED BY <1>4, <1>5, <1>7, <1>8 DEF Inv

LEMMA CharacterInv ==
  ASSUME Inv, Character
  PROVE  Inv'
  <1>. DEFINE s == SubSeq(line, 1, pos - 1)
              c == line[pos]
  <1>1. Scanning /\ ~Done
    BY DEF Character, OnQuote, OnSeparator, OnCharacter, Scanning
  <1>2. TypeOK
    BY DEF Inv
  <1>3. /\ file' = file /\ at' = at /\ first' = first /\ added' = added /\ pos' = pos + 1
        /\ line' = line /\ Done' = Done
    BY DEF Character, line, Done
  <1>4. /\ Len(line) \in Nat /\ pos \in 1..Len(line) + 1 /\ s \in Text /\ c \in Tokens
        /\ SubSeq(line, 1, pos) = Append(s, c)
    BY <1>1, <1>2, LineType
  <1>5. pos \in 1..Len(line)
    BY <1>1, <1>4 DEF Scanning
  <1>6. SubSeq(line, 1, pos - 1)' = Append(s, c)
    <2>1. pos + 1 - 1 = pos
      BY <1>4
    <2>. QED BY <1>3, <1>4, <2>1
  <1>7. Reads(s, in_quotes, field, fields)
    BY <1>1 DEF Inv, Reading
  <1>8. in_quotes \in BOOLEAN /\ field \in Text /\ fields \in Seq(Text)
    BY <1>2 DEF TypeOK, Text
  <1>. HIDE DEF s, c
  <1>9. /\ c = Quote => Reads(Append(s, c), ~in_quotes, field, fields)
        /\ c \in Separators /\ ~in_quotes =>
             Reads(Append(s, c), in_quotes, <<>>, Append(fields, Value(field)))
        /\ c # Quote /\ ~(c \in Separators /\ ~in_quotes) =>
             Reads(Append(s, c), in_quotes, Append(field, c), fields)
    BY <1>4, <1>7, <1>8, OneMore
  <1>10. Value(field) \in Text /\ <<>> \in Text
    BY <1>8, ValueType DEF Text
  <1>11. /\ in_quotes' \in BOOLEAN /\ field' \in Text /\ fields' \in Seq(Text)
         /\ Reads(Append(s, c), in_quotes', field', fields')
    <2>1. CASE OnQuote
      BY <1>8, <1>9, <2>1 DEF OnQuote, c
    <2>2. CASE OnSeparator
      <3>1. c \in Separators /\ ~in_quotes
        BY <2>2 DEF OnSeparator, Ends, c
      <3>2. fields' = Append(fields, Value(field)) /\ field' = <<>> /\ in_quotes' = in_quotes
        BY <2>2 DEF OnSeparator
      <3>3. Append(fields, Value(field)) \in Seq(Text)
        BY <1>8, <1>10, AppendProperties
      <3>. QED BY <1>8, <1>9, <1>10, <3>1, <3>2, <3>3
    <2>3. CASE OnCharacter
      <3>1. c # Quote /\ ~(c \in Separators /\ ~in_quotes)
        BY <2>3 DEF OnCharacter, Ends, c
      <3>2. field' = Append(field, c) /\ in_quotes' = in_quotes /\ fields' = fields
        BY <2>3 DEF OnCharacter, c
      <3>3. Append(field, c) \in Text
        BY <1>4, <1>8, AppendProperties DEF Text
      <3>. QED BY <1>8, <1>9, <3>1, <3>2, <3>3
    <2>. QED BY <2>1, <2>2, <2>3 DEF Character
  <1>12. TypeOK'
    <2>1. pos' \in 1..(IF Done' THEN 1 ELSE Len(line') + 1)
      BY <1>1, <1>3, <1>4, <1>5
    <2>2. field' \in Seq(Tokens) /\ fields' \in Seq(Seq(Tokens))
      BY <1>11 DEF Text
    <2>. QED BY <1>2, <1>3, <1>11, <2>1, <2>2 DEF TypeOK
  <1>13. Reading'
    BY <1>6, <1>11 DEF Reading
  <1>14. FirstAsRead' /\ AddedAsRead'
    BY <1>3 DEF Inv, FirstAsRead, AddedAsRead
  <1>. QED BY <1>12, <1>13, <1>14 DEF Inv

LEMMA EndOfLineInv ==
  ASSUME Inv, EndOfLine
  PROVE  Inv'
  <1>. DEFINE g == SubSeq(file, 1, at - 1)
              row == Append(fields, Value(field))
              long == Len(row) >= Needed
              taken == long /\ ~(LongLines(g) = {} /\ IsHeader(row))
  <1>1. ~Done /\ ~Scanning
    <2>1. ~Done /\ pos > Len(line) /\ TypeOK
      BY DEF EndOfLine, Inv
    <2>2. Len(line) \in Nat /\ pos \in 1..Len(line) + 1
      BY <2>1, LineType
    <2>. QED BY <2>1, <2>2 DEF Scanning
  <1>2. TypeOK
    BY DEF Inv
  <1>3. /\ file' = file /\ at' = at + 1 /\ pos' = 1 /\ field' = <<>> /\ fields' = <<>>
        /\ in_quotes' = FALSE
    BY DEF EndOfLine, Fresh
  <1>4. /\ file \in Seq(Text) /\ at \in 1..Len(file) /\ Len(file) \in Nat /\ line \in Text
        /\ SubSeq(line, 1, pos - 1) = line
    BY <1>1, <1>2, LineType
  <1>5. g \in Seq(Text) /\ SubSeq(file, 1, at) = Append(g, line)
    <2>1. at - 1 \in 0..Len(file) /\ at - 1 < Len(file) /\ at - 1 + 1 = at
      BY <1>4
    <2>2. /\ g \in Seq(Text)
          /\ SubSeq(file, 1, at - 1 + 1) = Append(g, file[at - 1 + 1])
      BY <1>4, <2>1, Beginnings
    <2>. QED BY <2>1, <2>2 DEF line
  <1>6. row = FieldsRead(line)
    <2>1. Reads(line, in_quotes, field, fields)
      BY <1>1, <1>4 DEF Inv, Reading
    <2>. QED BY <1>4, <2>1, ReadsFields
  <1>7. line = <<>> => ~long
    <2>1. ASSUME line = <<>> PROVE Len(FieldsRead(line)) = 1
      <3>1. Cardinality(FieldEnds(line)) = 0
        BY <2>1, ReadsNothing, FS_EmptySet
      <3>2. Len(FieldsRead(line)) = Cardinality(FieldEnds(line)) + 1
        BY <1>4, FieldsType
      <3>. QED BY <3>1, <3>2
    <2>. QED BY <1>6, <2>1, CsvAssumption
  <1>8. SubSeq(file, 1, at - 1)' = Append(g, line)
    <2>1. at' - 1 = at
      BY <1>3, <1>4
    <2>2. SubSeq(file', 1, at' - 1) = SubSeq(file, 1, at)
      BY <1>3, <2>1
    <2>. HIDE DEF g
    <2>. QED BY <1>5, <2>2
  <1>9. first <=> LongLines(g) = {}
    BY DEF Inv, FirstAsRead
  <1>10. added = LinesRead(g)
    BY DEF Inv, AddedAsRead
  <1>11. first \in BOOLEAN
    BY <1>2 DEF TypeOK
  <1>12. /\ ~long => first' = first /\ added' = added
         /\ long => first' = FALSE
         /\ taken => added' = Append(added, Taken(row))
         /\ ~taken => added' = added
    <2>1. CASE ~long
      <3>1. first' = first /\ added' = added
        BY <2>1 DEF EndOfLine, LongEnough
      <3>. QED BY <2>1, <3>1
    <2>2. CASE long
      <3>1. ~(line = <<>> \/ ~LongEnough(row))
        BY <1>7, <2>2 DEF LongEnough
      <3>2. /\ first' = FALSE
            /\ added' = IF first /\ IsHeader(row) THEN added ELSE Append(added, Taken(row))
        BY <3>1 DEF EndOfLine
      <3>. HIDE DEF g, row, long
      <3>. QED BY <1>9, <2>2, <3>2
    <2>. QED BY <2>1, <2>2
  <1>13. /\ LinesRead(g) \in Seq([1..Needed -> Text])
         /\ taken => LinesRead(Append(g, line)) = Append(LinesRead(g), Taken(row))
         /\ ~taken => LinesRead(Append(g, line)) = LinesRead(g)
    <2>. HIDE DEF g
    <2>. QED BY <1>4, <1>5, <1>6, LinesMore
  <1>14. AddedAsRead'
    <2>. HIDE DEF g, row, taken
    <2>1. added' = LinesRead(Append(g, line))
      BY <1>10, <1>12, <1>13
    <2>. QED BY <1>8, <2>1 DEF AddedAsRead
  <1>15. FirstAsRead'
    <2>1. /\ long => LongLines(Append(g, line)) = LongLines(g) \cup {Len(g) + 1}
          /\ ~long => LongLines(Append(g, line)) = LongLines(g)
      <3>. HIDE DEF g
      <3>. QED BY <1>4, <1>5, <1>6, BodyMore
    <2>. HIDE DEF g, row, long
    <2>2. first' <=> LongLines(Append(g, line)) = {}
      BY <1>9, <1>11, <1>12, <2>1
    <2>. QED BY <1>8, <2>2 DEF FirstAsRead
  <1>16. ASSUME ~Done' PROVE line' \in Text
    <2>1. at + 1 \in 1..Len(file)
      BY <1>3, <1>4, <1>16 DEF Done
    <2>. QED BY <1>3, <1>4, <2>1, LenProperties DEF line
  <1>17. Reading'
    <2>1. SubSeq(line, 1, pos - 1)' = <<>>
      BY <1>3, SubSeqEmpty
    <2>. QED BY <1>3, <2>1, ReadsNothing DEF Reading
  <1>18. TypeOK'
    <2>1. file' \in Seq(Seq(Tokens)) /\ at' \in 1..Len(file') + 1
      BY <1>3, <1>4 DEF Text
    <2>2. pos' \in 1..(IF Done' THEN 1 ELSE Len(line') + 1)
      <3>1. CASE Done'
        BY <1>3, <3>1
      <3>2. CASE ~Done'
        <4>1. Len(line') \in Nat
          BY <1>16, <3>2, LenProperties DEF Text
        <4>. QED BY <1>3, <3>2, <4>1
      <3>. QED BY <3>1, <3>2
    <2>3. first' \in BOOLEAN
      BY <1>11, <1>12
    <2>4. added' \in Seq([1..Needed -> Text])
      <3>1. ASSUME taken PROVE Taken(row) \in [1..Needed -> Text]
        <4>1. row \in LongRow
          BY <1>4, <1>6, <3>1, FieldsType DEF LongRow
        <4>. QED BY <4>1, CutType
      <3>. DEFINE T == [1..Needed -> Text]
      <3>. HIDE DEF T, taken, row, g
      <3>2. added \in Seq(T) /\ (taken => Taken(row) \in T)
        BY <1>10, <1>13, <3>1 DEF T
      <3>3. taken => Append(added, Taken(row)) \in Seq(T)
        BY <3>2, AppendProperties
      <3>. QED BY <1>12, <3>2, <3>3 DEF T
    <2>5. field' \in Seq(Tokens) /\ fields' \in Seq(Seq(Tokens))
      BY <1>3
    <2>. QED BY <1>3, <2>1, <2>2, <2>3, <2>4, <2>5 DEF TypeOK, Text
  <1>. QED BY <1>14, <1>15, <1>17, <1>18 DEF Inv

-----------------------------------------------------------------------------

\* Whatever was uploaded and however far its reading has come, the loops have in hand
\* what the part read so far amounts to.
THEOREM Invariant == Spec => []Inv
  <1>1. Inv /\ [Next]_vars => Inv'
    <2>. SUFFICES ASSUME Inv, [Next]_vars PROVE Inv'
      OBVIOUS
    <2>1. CASE Character
      BY <2>1, CharacterInv
    <2>2. CASE EndOfLine
      BY <2>2, EndOfLineInv
    <2>3. CASE UNCHANGED vars
      BY <2>3 DEF vars, Inv, TypeOK, Reading, FirstAsRead, AddedAsRead, Done, line
    <2>. QED BY <2>1, <2>2, <2>3 DEF Next
  <1>. QED BY InitInv, <1>1, PTL DEF Spec

\* The reading of a file keeps within it, and adds rows of as many fields as an
\* airport is made of (main.cpp:1817-1855).
THEOREM TypeCorrect == Spec => []TypeOK
  <1>1. Inv => TypeOK
    BY DEF Inv
  <1>. QED BY Invariant, <1>1, PTL

\* parse_csv_line, "handles quoted fields and \N" (main.cpp:61): for any line, with
\* quotes, commas and carriage returns wherever they come, the loop has the fields of
\* what it has read.
THEOREM FieldsAsRead == Spec => []ScanAsRead
  <1>1. Inv => ScanAsRead
    <2>. SUFFICES ASSUME Inv, ~Done
                  PROVE  LET soFar == SubSeq(line, 1, pos - 1)
                         IN  /\ Append(fields, Value(field)) = FieldsRead(soFar)
                             /\ in_quotes = Open(soFar)
      BY DEF ScanAsRead
    <2>1. SubSeq(line, 1, pos - 1) \in Text
      BY LineType DEF Inv
    <2>2. Reads(SubSeq(line, 1, pos - 1), in_quotes, field, fields)
      BY DEF Inv, Reading
    <2>3. Append(fields, Value(field)) = FieldsRead(SubSeq(line, 1, pos - 1))
      BY <2>1, <2>2, ReadsFields
    <2>4. in_quotes = Open(SubSeq(line, 1, pos - 1))
      BY <2>2 DEF Reads
    <2>. QED BY <2>3, <2>4
  <1>. QED BY Invariant, <1>1, PTL

\* Whatever is uploaded, the rows added are those of the lines read so far: a quote left
\* open in one line does not reach the next, and a header is left out once, at the top.
THEOREM RowsAsRead == Spec => []AddedAsRead
  <1>1. Inv => AddedAsRead
    BY DEF Inv
  <1>. QED BY Invariant, <1>1, PTL

\* Any table, written with LF or CR LF and with all values quoted or only those with a
\* comma, comes in row by row and value by value, without its header: parse_csv_line and
\* trim undo the quotes, the separators and the carriage return (main.cpp:62-88, 1827-1852).
THEOREM TablesComeIn == Spec => []TableComesIn
  <1>1. Inv => TableComesIn
    <2>. SUFFICES ASSUME Inv, Done, NEW t \in Tables, NEW s \in Styles,
                         file = Written(t, s),
                         s.crlf => \A r \in DOMAIN t : Len(t[r]) # Needed - 1
                  PROVE  added = RowsOf(t)
      BY DEF TableComesIn
    <2>1. file \in Seq(Text) /\ at \in 1..Len(file) + 1 /\ added = LinesRead(SubSeq(file, 1, at - 1))
      BY DEF Inv, TypeOK, AddedAsRead, Text
    <2>2. at - 1 = Len(file)
      <3>1. Len(file) \in Nat
        BY <2>1, LenProperties
      <3>. QED BY <2>1, <3>1 DEF Done
    <2>3. SubSeq(file, 1, Len(file)) = file
      BY <2>1, SubSeqFull
    <2>4. added = LinesRead(file)
      BY <2>1, <2>2, <2>3
    <2>. QED BY <2>4, WrittenTable
  <1>. QED BY Invariant, <1>1, PTL
=============================================================================
