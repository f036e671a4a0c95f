----------------------------- MODULE LoaderProofs -----------------------------
(***************************************************************************)
(* Proofs about the start of the server, for any two directories.          *)
(*                                                                         *)
(* A load that fails for want of data finds its file missing or empty, so  *)
(* the first directory is only left when it is incomplete; the routes come *)
(* last, so none are in the store before the load that ends the start      *)
(* (Progress).  What the store has of a kind never goes away.              *)
(***************************************************************************)
EXTENDS Loader, PositionsProofs

\* What is in the store at each stage, and why the first directory was left.
Progress ==
  /\ stage \in {"airlines", "routes", "serving"} => DOMAIN airports_by_id # {}
  /\ stage \in {"routes", "serving"} => DOMAIN airlines_by_id # {}
  /\ stage \in Files => routes = <<>>
  /\ dir = "." => ~Complete("data")
  /\ stage = "exited" => ~Complete("data") /\ ~Complete(".")
  /\ stage = "serving" => routes # <<>> /\ routes = disk[dir]["routes"].rows

\* The store of one file of airports.
StoreOf(rows) ==
  LET loaded == Range(rows)
  IN  /\ airports_by_id = [i \in {a.id : a \in loaded} |-> CHOOSE a \in loaded : a.id = i]
      /\ airports_by_iata = [c \in {a.iata : a \in loaded} \ {NoCode} |->
                               CHOOSE a \in loaded : a.iata = c]
      /\ airports_by_icao = SetToBag({a \in loaded : a.icao # NoIcao})

NoAirports ==
  airports_by_id = <<>> /\ airports_by_iata = <<>> /\ airports_by_icao = EmptyBag

\* The first directory is only left after its airports were loaded if it has some; if
\* it has none, those of the second come into an empty store.
StoreInv ==
  /\ dir = "data" /\ stage # "airports" => disk["data"]["airports"].there
  /\ dir = "data" \/ ~disk["data"]["airports"].there =>
       IF stage = "airports" THEN NoAirports
       ELSE stage = "exited" \/ StoreOf(disk[dir]["airports"].rows)

Inv == TypeOK /\ Progress /\ StoreInv

-----------------------------------------------------------------------------
(* Merging the rows of a file into a map.                                  *)

\* The keys of the rows join those of the map, each row is under its key, and what was
\* not in the map is a row.
LEMMA MergedMap ==
  ASSUME NEW S, NEW rows \in Seq(S), NEW map, NEW key,
         \A k \in DOMAIN map : map[k][key] = k
  PROVE  /\ \A k : k \in DOMAIN Merged(map, rows, key)
                     <=> k \in DOMAIN map \/ \E i \in DOMAIN rows : rows[i][key] = k
         /\ \A k \in DOMAIN Merged(map, rows, key) :
              /\ Merged(map, rows, key)[k][key] = k
              /\ k \in DOMAIN map \/ Merged(map, rows, key)[k] \in Range(rows)
  <1>. DEFINE rowsOf(k) == {i \in DOMAIN rows : rows[i][key] = k}
              latest(k) == CHOOSE i \in rowsOf(k) : \A j \in rowsOf(k) : j <= i
              keys == DOMAIN map \cup {rows[i][key] : i \in DOMAIN rows}
  <1>1. Merged(map, rows, key) =
          [k \in keys |-> IF rowsOf(k) # {} THEN rows[latest(k)] ELSE map[k]]
    BY DEF Merged
  <1>2. ASSUME NEW k, rowsOf(k) # {} PROVE latest(k) \in rowsOf(k)
    <2>1. \E i \in rowsOf(k) : \A j \in rowsOf(k) : j <= i
      <3>1. Len(rows) \in Nat /\ rowsOf(k) \subseteq 1..Len(rows)
        BY LenProperties
      <3>. HIDE DEF rowsOf
      <3>. QED BY <1>2, <3>1, Greatest
    <2>. HIDE DEF rowsOf
    <2>. QED BY <2>1
  <1>3. \A k \in keys : rowsOf(k) = {} => k \in DOMAIN map
    OBVIOUS
  <1>. HIDE DEF latest
  <1>4. ASSUME NEW k \in keys
        PROVE  LET row == IF rowsOf(k) # {} THEN rows[latest(k)] ELSE map[k]
               IN  row[key] = k /\ (k \in DOMAIN map \/ row \in Range(rows))
    BY <1>2, <1>3 DEF Range
  <1>5. DOMAIN Merged(map, rows, key) = keys
    BY <1>1
  <1>6. \A k : k \in keys <=> k \in DOMAIN map \/ \E i \in DOMAIN rows : rows[i][key] = k
    OBVIOUS
  <1>. HIDE DEF rowsOf, keys
  <1>7. \A k \in keys : /\ Merged(map, rows, key)[k][key] = k
                        /\ k \in DOMAIN map \/ Merged(map, rows, key)[k] \in Range(rows)
    BY <1>1, <1>4
  <1>. QED BY <1>5, <1>6, <1>7

LEMMA WithCodeMap ==
  ASSUME NEW map
  PROVE  /\ DOMAIN WithCode(map) = DOMAIN map \ {NoCode}
         /\ \A c \in DOMAIN WithCode(map) : WithCode(map)[c] = map[c]
  BY DEF WithCode, Restrict

LEMMA NoRows ==
  ASSUME NEW S, NEW rows \in Seq(S), DOMAIN rows = {}
  PROVE  rows = <<>>
  <1>1. Len(rows) \in Nat /\ DOMAIN rows = 1..Len(rows)
    BY LenProperties
  <1>2. Len(rows) = 0
    <2>1. ~(1 \in 1..Len(rows))
      BY <1>1
    <2>. QED BY <1>1, <2>1
  <1>. QED BY <1>2, EmptySeq

LEMMA CopiesBag ==
  ASSUME NEW S, NEW rows \in Seq(S)
  PROVE  IsABag(Copies(rows))
  <1>. DEFINE filed == {i \in DOMAIN rows : rows[i].icao # NoIcao}
              of(a) == {i \in filed : rows[i] = a}
  <1>1. ASSUME NEW i \in filed PROVE Cardinality(of(rows[i])) \in Nat /\ Cardinality(of(rows[i])) > 0
    <2>1. Len(rows) \in Nat /\ of(rows[i]) \in SUBSET (1..Len(rows)) /\ i \in of(rows[i])
      BY LenProperties
    <2>. HIDE DEF of
    <2>2. IsFiniteSet(of(rows[i]))
      <3>1. IsFiniteSet(1..Len(rows))
        BY <2>1, FS_Interval
      <3>. QED BY <2>1, <3>1, FS_Subset
    <2>. QED BY <2>1, <2>2, FS_CardinalityType, FS_EmptySet
  <1>2. Copies(rows) = [a \in {rows[i] : i \in filed} |-> Cardinality(of(a))]
    BY DEF Copies
  <1>. HIDE DEF of, filed
  <1>. QED BY <1>1, <1>2 DEF IsABag

LEMMA BagsUnite ==
  ASSUME NEW b, NEW c, IsABag(b), IsABag(c)
  PROVE  IsABag(b (+) c)
  <1>1. b (+) c = [e \in DOMAIN b \cup DOMAIN c |->
                     (IF e \in DOMAIN b THEN b[e] ELSE 0) + (IF e \in DOMAIN c THEN c[e] ELSE 0)]
    BY Zenon DEF (+)
  <1>2. /\ \A e \in DOMAIN b : b[e] \in Nat /\ b[e] > 0
        /\ \A e \in DOMAIN c : c[e] \in Nat /\ c[e] > 0
    BY DEF IsABag
  <1>. QED BY <1>1, <1>2 DEF IsABag

-----------------------------------------------------------------------------
(* Types, and how far a load gets.                                         *)

\* The file that is loaded is one of those found at the start.
LEMMA FileRead ==
  ASSUME TypeOK, stage \in Files
  PROVE  /\ File = disk[dir][stage]
         /\ File.there \in BOOLEAN
         /\ File.rows \in Seq(Range(File.rows))
  BY DiskAssumption DEF TypeOK, File

LEMMA Returned ==
  ASSUME TypeOK, stage \in Files, NEW any, TryNext \/ Returns(any)
  PROVE  dir' \in Dirs /\ stage' \in Files \cup {"serving", "exited"}
  BY DEF TypeOK, Returns, TryNext, After, Files, Dirs

LEMMA StepType ==
  ASSUME TypeOK, [Next]_vars
  PROVE  TypeOK'
  <1>1. CASE Absent
    <2>1. dir' \in Dirs /\ stage' \in Files \cup {"serving", "exited"}
      BY <1>1, Returned DEF Absent
    <2>. QED BY <1>1, <2>1 DEF Absent, TypeOK, airports, airlines
  <1>2. CASE LoadAirports
    <2>0. stage \in Files
      BY <1>2 DEF LoadAirports, Files
    <2>1. dir' \in Dirs /\ stage' \in Files \cup {"serving", "exited"}
      BY <1>2, <2>0, Returned DEF LoadAirports
    <2>2. \A id \in DOMAIN airports_by_id' : airports_by_id'[id]["id"] = id
      BY <1>2, <2>0, FileRead, MergedMap DEF LoadAirports, TypeOK
    <2>3. \A c \in DOMAIN airports_by_iata' : c # NoCode /\ airports_by_iata'[c]["iata"] = c
      <3>. DEFINE map == Merged(airports_by_iata, File.rows, "iata")
      <3>1. \A c \in DOMAIN map : map[c]["iata"] = c
        BY <2>0, FileRead, MergedMap DEF TypeOK
      <3>2. airports_by_iata' = WithCode(map)
        BY <1>2 DEF LoadAirports
      <3>. HIDE DEF map
      <3>3. /\ DOMAIN WithCode(map) = DOMAIN map \ {NoCode}
            /\ \A c \in DOMAIN WithCode(map) : WithCode(map)[c] = map[c]
        BY WithCodeMap
      <3>. QED BY <3>1, <3>2, <3>3
    <2>4. IsABag(airports_by_icao')
      BY <1>2, <2>0, FileRead, CopiesBag, BagsUnite DEF LoadAirports, TypeOK
    <2>. QED BY <1>2, <2>1, <2>2, <2>3, <2>4 DEF LoadAirports, TypeOK, airlines
  <1>3. CASE LoadAirlines
    <2>0. stage \in Files
      BY <1>3 DEF LoadAirlines, Files
    <2>1. dir' \in Dirs /\ stage' \in Files \cup {"serving", "exited"}
      BY <1>3, <2>0, Returned DEF LoadAirlines
    <2>2. \A id \in DOMAIN airlines_by_id' : airlines_by_id'[id]["id"] = id
      BY <1>3, <2>0, FileRead, MergedMap DEF LoadAirlines, TypeOK
    <2>3. \A c \in DOMAIN airlines_by_iata' : c # NoCode /\ airlines_by_iata'[c]["iata"] = c
      <3>. DEFINE map == Merged(airlines_by_iata, File.rows, "iata")
      <3>1. \A c \in DOMAIN map : map[c]["iata"] = c
        BY <2>0, FileRead, MergedMap DEF TypeOK
      <3>2. airlines_by_iata' = WithCode(map)
        BY <1>3 DEF LoadAirlines
      <3>. HIDE DEF map
      <3>3. /\ DOMAIN WithCode(map) = DOMAIN map \ {NoCode}
            /\ \A c \in DOMAIN WithCode(map) : WithCode(map)[c] = map[c]
        BY WithCodeMap
      <3>. QED BY <3>1, <3>2, <3>3
    <2>. QED BY <1>3, <2>1, <2>2, <2>3 DEF LoadAirlines, TypeOK, airports
  <1>4. CASE LoadRoutes
    <2>1. dir' \in Dirs /\ stage' \in Files \cup {"serving", "exited"}
      BY <1>4, Returned DEF LoadRoutes, Files
    <2>. QED BY <1>4, <2>1 DEF LoadRoutes, TypeOK, airports, airlines
  <1>5. CASE UNCHANGED vars
    BY <1>5 DEF vars, airports, airlines, TypeOK
  <1>. QED BY <1>1, <1>2, <1>3, <1>4, <1>5 DEF Next

\* A load that fails moves on to the other directory, or ends the start; what the
\* store has of the kinds that were loaded stays.
LEMMA Failing ==
  ASSUME TypeOK, Progress, stage \in Files, TryNext,
         UNCHANGED <<disk, routes>>,
         ~File.there \/ File.rows = <<>>
  PROVE  Progress'
  <1>1. ~Complete(dir)
    BY DEF Complete, File
  <1>2. CASE dir = "data" /\ dir' = "." /\ stage' = "airports"
    BY <1>1, <1>2 DEF Progress, Complete, Files
  <1>3. CASE dir = "." /\ stage' = "exited" /\ dir' = dir
    BY <1>1, <1>3 DEF Progress, Complete, Files
  <1>. QED BY <1>2, <1>3 DEF TryNext, TypeOK, Dirs

LEMMA StepProgress ==
  ASSUME TypeOK, Progress, [Next]_vars
  PROVE  Progress'
  <1>1. CASE Absent
    BY <1>1, Failing DEF Absent
  <1>2. CASE LoadAirports
    <2>0. stage = "airports" /\ stage \in Files /\ UNCHANGED <<disk, airlines, routes>>
      BY <1>2 DEF LoadAirports, Files
    <2>1. \A i \in DOMAIN File.rows : File.rows[i]["id"] \in DOMAIN airports_by_id'
      <3>1. \A id \in DOMAIN airports_by_id : airports_by_id[id]["id"] = id
        BY DEF TypeOK
      <3>2. File.rows \in Seq(Range(File.rows))
        BY <2>0, FileRead
      <3>3. \A i \in DOMAIN File.rows :
              File.rows[i]["id"] \in DOMAIN Merged(airports_by_id, File.rows, "id")
        BY <3>1, <3>2, MergedMap
      <3>. QED BY <1>2, <3>3 DEF LoadAirports
    <2>2. CASE DOMAIN airports_by_id' # {}
      BY <1>2, <2>0, <2>2 DEF LoadAirports, Returns, Loads, After, Progress, Files, Complete
    <2>3. CASE DOMAIN airports_by_id' = {}
      <3>1. File.rows = <<>>
        <4>1. DOMAIN File.rows = {}
          BY <2>1, <2>3
        <4>2. File.rows \in Seq(Range(File.rows))
          BY <2>0, FileRead
        <4>. QED BY <4>1, <4>2, NoRows
      <3>. QED BY <1>2, <2>0, <2>3, <3>1, Failing DEF LoadAirports, Returns, Loads
    <2>. QED BY <2>2, <2>3
  <1>3. CASE LoadAirlines
    <2>0. stage = "airlines" /\ stage \in Files /\ UNCHANGED <<disk, airports, routes>>
      BY <1>3 DEF LoadAirlines, Files
    <2>1. \A i \in DOMAIN File.rows : File.rows[i]["id"] \in DOMAIN airlines_by_id'
      <3>1. \A id \in DOMAIN airlines_by_id : airlines_by_id[id]["id"] = id
        BY DEF TypeOK
      <3>2. File.rows \in Seq(Range(File.rows))
        BY <2>0, FileRead
      <3>3. \A i \in DOMAIN File.rows :
              File.rows[i]["id"] \in DOMAIN Merged(airlines_by_id, File.rows, "id")
        BY <3>1, <3>2, MergedMap
      <3>. QED BY <1>3, <3>3 DEF LoadAirlines
    <2>2. CASE DOMAIN airlines_by_id' # {}
      BY <1>3, <2>0, <2>2 DEF LoadAirlines, Returns, Loads, After, Progress, Files, Complete, airports
    <2>3. CASE DOMAIN airlines_by_id' = {}
      <3>1. File.rows = <<>>
        <4>1. DOMAIN File.rows = {}
          BY <2>1, <2>3
        <4>2. File.rows \in Seq(Range(File.rows))
          BY <2>0, FileRead
        <4>. QED BY <4>1, <4>2, NoRows
      <3>. QED BY <1>3, <2>0, <2>3, <3>1, Failing DEF LoadAirlines, Returns, Loads
    <2>. QED BY <2>2, <2>3
  <1>4. CASE LoadRoutes
    <2>0. stage = "routes" /\ stage \in Files /\ UNCHANGED <<disk, airports, airlines>>
      BY <1>4 DEF LoadRoutes, Files
    <2>1. routes' = File.rows
      <3>1. routes' = <<>> \o File.rows
        BY <1>4, <2>0 DEF LoadRoutes, Progress
      <3>. QED BY <2>0, <3>1, FileRead, ConcatEmptySeq
    <2>2. CASE routes' # <<>>
      BY <1>4, <2>0, <2>1, <2>2
      DEF LoadRoutes, Returns, Loads, After, Progress, Files, Complete, airports, airlines, File
    <2>3. CASE routes' = <<>>
      <3>1. UNCHANGED routes /\ TryNext
        BY <1>4, <2>0, <2>3 DEF LoadRoutes, Returns, Loads, Progress
      <3>. QED BY <2>0, <2>1, <2>3, <3>1, Failing
    <2>. QED BY <2>2, <2>3
  <1>5. CASE UNCHANGED vars
    BY <1>5 DEF vars, airports, airlines, Progress, Complete
  <1>. QED BY <1>1, <1>2, <1>3, <1>4, <1>5 DEF Next

-----------------------------------------------------------------------------
(* The airports of one file.                                               *)

\* A file merged into an empty map: its rows by their keys.
LEMMA MergedAlone ==
  ASSUME NEW S, NEW rows \in Seq(S), NEW map, DOMAIN map = {}, NEW key
  PROVE  /\ \A k : k \in DOMAIN Merged(map, rows, key) <=> \E a \in Range(rows) : a[key] = k
         /\ \A k \in DOMAIN Merged(map, rows, key) :
              Merged(map, rows, key)[k] \in Range(rows) /\ Merged(map, rows, key)[k][key] = k
  <1>1. \A k \in DOMAIN map : map[k][key] = k
    OBVIOUS
  <1>2. \A k : k \in DOMAIN Merged(map, rows, key)
                 <=> k \in DOMAIN map \/ \E i \in DOMAIN rows : rows[i][key] = k
    BY <1>1, MergedMap
  <1>3. \A k \in DOMAIN Merged(map, rows, key) :
              /\ Merged(map, rows, key)[k][key] = k
              /\ k \in DOMAIN map \/ Merged(map, rows, key)[k] \in Range(rows)
    BY <1>1, MergedMap
  <1>4. \A k : (\E i \in DOMAIN rows : rows[i][key] = k) <=> \E a \in Range(rows) : a[key] = k
    BY DEF Range
  <1>. QED BY <1>2, <1>3, <1>4

LEMMA CopiesAlone ==
  ASSUME NEW rows, rows \in Seq(Range(rows)),
         \A i, j \in DOMAIN rows : rows[i].id = rows[j].id => i = j
  PROVE  EmptyBag (+) Copies(rows) = SetToBag({a \in Range(rows) : a.icao # NoIcao})
  <1>. DEFINE filed == {i \in DOMAIN rows : rows[i].icao # NoIcao}
              of(a) == {i \in filed : rows[i] = a}
              named == {a \in Range(rows) : a.icao # NoIcao}
  <1>1. Copies(rows) = [a \in {rows[i] : i \in filed} |-> Cardinality(of(a))]
    BY DEF Copies
  <1>2. {rows[i] : i \in filed} = named
    BY DEF Range
  <1>3. ASSUME NEW i \in filed PROVE Cardinality(of(rows[i])) = 1
    <2>1. of(rows[i]) = {i}
      OBVIOUS
    <2>. QED BY <2>1, FS_Singleton
  <1>. HIDE DEF of
  <1>4. Copies(rows) = [a \in named |-> 1]
    BY <1>1, <1>2, <1>3
  <1>. HIDE DEF named
  <1>5. EmptyBag (+) Copies(rows) =
          [e \in DOMAIN EmptyBag \cup DOMAIN Copies(rows) |->
             (IF e \in DOMAIN EmptyBag THEN EmptyBag[e] ELSE 0)
             + (IF e \in DOMAIN Copies(rows) THEN Copies(rows)[e] ELSE 0)]
    BY Zenon DEF (+)
  <1>6. DOMAIN EmptyBag = {}
    BY DEF EmptyBag, SetToBag
  <1>7. EmptyBag (+) Copies(rows) = [a \in named |-> 1]
    BY <1>4, <1>5, <1>6
  <1>. QED BY <1>7 DEF named, SetToBag

\* In an empty store the rows of a file are filed as AirTravelDb starts with them.
LEMMA FirstLoad ==
  ASSUME TypeOK, NoAirports, LoadAirports, NEW rows, rows = File.rows
  PROVE  StoreOf(rows)'
  <1>1. /\ rows \in Seq(Range(rows))
        /\ \A i, j \in DOMAIN rows :
             rows[i].id = rows[j].id \/ (rows[i].iata = rows[j].iata /\ rows[i].iata # NoCode) => i = j
    <2>1. stage \in Files /\ stage = "airports"
      BY DEF LoadAirports, Files
    <2>. QED BY <2>1, FileRead, FileAssumption DEF TypeOK, File
  <1>2. airports_by_id' = [i \in {a.id : a \in Range(rows)} |-> CHOOSE a \in Range(rows) : a.id = i]
    <2>. DEFINE key == "id"
                map == Merged(airports_by_id, rows, key)
    <2>1. airports_by_id' = map /\ DOMAIN airports_by_id = {} /\ map = [k \in DOMAIN map |-> map[k]]
      BY DEF LoadAirports, NoAirports, Merged
    <2>2. \A a, b \in Range(rows) : a[key] = b[key] => a = b
      BY <1>1 DEF Range
    <2>. HIDE DEF key
    <2>3. \A k : k \in DOMAIN map <=> \E a \in Range(rows) : a[key] = k
      BY <1>1, <2>1, MergedAlone
    <2>4. \A k \in DOMAIN map : map[k] \in Range(rows) /\ map[k][key] = k
      BY <1>1, <2>1, MergedAlone
    <2>. HIDE DEF map
    <2>5. DOMAIN map = {a[key] : a \in Range(rows)}
      BY <2>3
    <2>6. \A k \in DOMAIN map : map[k] = CHOOSE a \in Range(rows) : a[key] = k
      BY <2>2, <2>4
    <2>. QED BY <2>1, <2>5, <2>6 DEF key
  <1>3. airports_by_iata' =
          [c \in {a.iata : a \in Range(rows)} \ {NoCode} |-> CHOOSE a \in Range(rows) : a.iata = c]
    <2>. DEFINE key == "iata"
                map == Merged(airports_by_iata, rows, key)
    <2>1. airports_by_iata' = WithCode(map) /\ DOMAIN airports_by_iata = {}
      BY DEF LoadAirports, NoAirports
    <2>2. \A a, b \in Range(rows) : a[key] = b[key] /\ a[key] # NoCode => a = b
      BY <1>1 DEF Range
    <2>. HIDE DEF key
    <2>3. \A k : k \in DOMAIN map <=> \E a \in Range(rows) : a[key] = k
      BY <1>1, <2>1, MergedAlone
    <2>4. \A k \in DOMAIN map : map[k] \in Range(rows) /\ map[k][key] = k
      BY <1>1, <2>1, MergedAlone
    <2>. HIDE DEF map
    <2>5. WithCode(map) = [c \in DOMAIN map \ {NoCode} |-> map[c]]
      BY DEF WithCode, Restrict
    <2>6. DOMAIN map = {a[key] : a \in Range(rows)}
      BY <2>3
    <2>7. \A c \in DOMAIN map \ {NoCode} : map[c] = CHOOSE a \in Range(rows) : a[key] = c
      BY <2>2, <2>4
    <2>. QED BY <2>1, <2>5, <2>6, <2>7 DEF key
  <1>4. airports_by_icao' = SetToBag({a \in Range(rows) : a.icao # NoIcao})
    <2>1. airports_by_icao' = EmptyBag (+) Copies(rows)
      BY DEF LoadAirports, NoAirports
    <2>. QED BY <1>1, <2>1, CopiesAlone
  <1>. QED BY <1>2, <1>3, <1>4 DEF StoreOf

LEMMA StepStore ==
  ASSUME TypeOK, Progress, StoreInv, [Next]_vars
  PROVE  StoreInv'
  <1>. DEFINE first == disk["data"]["airports"].there
  <1>1. CASE Absent
    <2>1. UNCHANGED <<disk, airports_by_id, airports_by_iata, airports_by_icao>>
      BY <1>1 DEF Absent, airports
    <2>2. CASE dir = "data" /\ dir' = "." /\ stage' = "airports"
      <3>1. CASE stage = "airports"
        BY <1>1, <2>1, <2>2, <3>1 DEF Absent, StoreInv, NoAirports, File
      <3>2. CASE stage # "airports"
        BY <2>1, <2>2, <3>2 DEF StoreInv
      <3>. QED BY <3>1, <3>2
    <2>3. CASE dir = "." /\ stage' = "exited" /\ dir' = dir
      BY <2>1, <2>3 DEF StoreInv
    <2>. QED BY <1>1, <2>2, <2>3 DEF Absent, TryNext, TypeOK, Dirs
  <1>2. CASE LoadAirports
    <2>1. stage = "airports" /\ File.there /\ UNCHANGED disk
      BY <1>2 DEF LoadAirports
    <2>2. CASE stage' = "airlines" /\ dir' = dir
      <3>1. CASE dir = "data" \/ ~first
        <4>1. StoreOf(disk[dir]["airports"].rows)'
          <5>1. PICK rows : rows = disk[dir]["airports"].rows
            OBVIOUS
          <5>2. NoAirports /\ rows = File.rows
            BY <2>1, <3>1, <5>1 DEF StoreInv, File
          <5>3. StoreOf(rows)'
            BY <1>2, <5>2, FirstLoad
          <5>4. rows = disk'[dir']["airports"].rows
            BY <2>1, <2>2, <5>1
          <5>. QED BY <5>3, <5>4
        <4>. QED BY <2>1, <2>2, <4>1 DEF StoreInv, File
      <3>2. CASE dir # "data" /\ first
        BY <2>1, <2>2, <3>2 DEF StoreInv
      <3>. QED BY <3>1, <3>2
    <2>3. CASE dir = "data" /\ dir' = "." /\ stage' = "airports"
      BY <2>1, <2>3 DEF StoreInv, File
    <2>4. CASE dir = "." /\ stage' = "exited" /\ dir' = dir
      BY <2>1, <2>4 DEF StoreInv
    <2>. QED BY <1>2, <2>1, <2>2, <2>3, <2>4 DEF LoadAirports, Returns, After, TryNext, TypeOK, Dirs
  <1>3. CASE LoadAirlines \/ LoadRoutes
    <2>1. /\ UNCHANGED <<disk, airports_by_id, airports_by_iata, airports_by_icao>>
          /\ stage \in {"airlines", "routes"}
      BY <1>3 DEF LoadAirlines, LoadRoutes, airports
    <2>2. CASE stage' \in {"routes", "serving"} /\ dir' = dir
      <3>1. ASSUME StoreOf(disk[dir]["airports"].rows) PROVE StoreOf(disk[dir]["airports"].rows)'
        BY <2>1, <2>2, <3>1 DEF StoreOf
      <3>. QED BY <2>1, <2>2, <3>1 DEF StoreInv
    <2>3. CASE dir = "data" /\ dir' = "." /\ stage' = "airports"
      BY <2>1, <2>3 DEF StoreInv
    <2>4. CASE dir = "." /\ stage' = "exited" /\ dir' = dir
      BY <2>1, <2>4 DEF StoreInv
    <2>. QED BY <1>3, <2>1, <2>2, <2>3, <2>4
             DEF LoadAirlines, LoadRoutes, Returns, After, TryNext, TypeOK, Dirs
  <1>4. CASE UNCHANGED vars
    BY <1>4 DEF vars, airports, StoreInv, StoreOf, NoAirports
  <1>. QED BY <1>1, <1>2, <1>3, <1>4 DEF Next

-----------------------------------------------------------------------------
(* The theorems.                                                           *)

LEMMA InitInv ==
  ASSUME Init
  PROVE  Inv
  <1>1. TypeOK
    <2>1. IsABag(EmptyBag)
      BY DEF EmptyBag, SetToBag, IsABag
    <2>. QED BY <2>1 DEF Init, TypeOK, Dirs, Files
  <1>2. Progress
    BY DEF Init, Progress, Files
  <1>3. StoreInv
    BY DEF Init, StoreInv, NoAirports
  <1>. QED BY <1>1, <1>2, <1>3 DEF Inv

\* However far the start has come, the store has the kinds that were loaded, and the
\* airports of one file when only one file of them was read.
THEOREM Invariant == Spec => []Inv
  <1>1. Inv /\ [Next]_vars => Inv'
    BY StepType, StepProgress, StepStore DEF Inv
  <1>. QED BY InitInv, <1>1, PTL DEF Spec

\* The maps file every row under its own id and code.
THEOREM TypeCorrect == Spec => []TypeOK
  BY Invariant, PTL DEF Inv

\* The routes served are those of one directory, each once.
THEOREM OneDirectory == Spec => []RoutesOfOneDirectory
  <1>1. Inv => RoutesOfOneDirectory
    BY DEF Inv, TypeOK, Progress, RoutesOfOneDirectory
  <1>. QED BY <1>1, Invariant, PTL

\* The server only exits, or serves less than every kind of data, when neither
\* directory is complete.
THEOREM CompleteIsServed == Spec => []CompleteSuffices
  <1>1. Inv => CompleteSuffices
    BY DEF Inv, Progress, CompleteSuffices
  <1>. QED BY <1>1, Invariant, PTL

\* With one file of airports read, the store is the one AirTravelDb starts from.
THEOREM StartsAsAirTravelDb == Spec => []StoreAsInAirTravelDb
  <1>1. Inv => StoreAsInAirTravelDb
    <2>. SUFFICES ASSUME Inv, stage = "serving",
                         Complete("data") \/ ~disk["data"]["airports"].there
                  PROVE  StoreOf(disk[dir]["airports"].rows)
      BY DEF StoreAsInAirTravelDb, StoreOf
    <2>1. dir = "data" \/ ~disk["data"]["airports"].there
      BY DEF Inv, TypeOK, Progress, Dirs
    <2>. QED BY <2>1 DEF Inv, StoreInv
  <1>. QED BY <1>1, Invariant, PTL
=============================================================================
