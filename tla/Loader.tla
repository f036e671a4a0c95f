------------------------------- MODULE Loader -------------------------------
(***************************************************************************)
(* The start of the server: Database::load_all reads airports, airlines    *)
(* and routes from data/, and main tries the current directory when that   *)
(* fails.  Nothing is undone in between, so the second try adds to what    *)
(* the first one left.                                                     *)
(*                                                                         *)
(* Abstracted: a file is the sequence of the records its lines give (the   *)
(* lines the parser drops are left out); airlines keep what identifies     *)
(* them; airports_by_icao is a bag of copies, as in AirTravelDb.           *)
(***************************************************************************)
EXTENDS Integers, Sequences, FiniteSets, Functions, Bags

CONSTANTS
  Disks,             \* directory -> kind of file -> file, as it may be found
  NoCode, NoIcao     \* empty strings

Files == {"airports", "airlines", "routes"}
Dirs == {"data", "."}

\* A file is there or not, and has its records.
ASSUME DiskAssumption ==
  \A d \in Disks : \A dir \in Dirs, f \in Files :
    d[dir][f].there \in BOOLEAN /\ d[dir][f].rows \in Seq(Range(d[dir][f].rows))

\* Within one file of airports ids and non-empty codes are unique, as in the shipped ones.
ASSUME FileAssumption ==
  \A d \in Disks : \A dir \in Dirs :
    LET rows == d[dir]["airports"].rows
    IN  \A i, j \in DOMAIN rows :
          rows[i].id = rows[j].id \/ (rows[i].iata = rows[j].iata /\ rows[i].iata # NoCode) => i = j

VARIABLES
  disk,
  dir,                \* data_dir
  stage,              \* the file to load next, "serving" or "exited"
  airports_by_id, airports_by_iata, airports_by_icao,
  airlines_by_id, airlines_by_iata,
  routes

airports == <<airports_by_id, airports_by_iata, airports_by_icao>>
airlines == <<airlines_by_id, airlines_by_iata>>
vars == <<disk, dir, stage, airports, airlines, routes>>

-----------------------------------------------------------------------------

\* map[row[key]] = row for one row after the other: the last row of a key stays.
Merged(map, rows, key) ==
  LET rowsOf(k) == {i \in DOMAIN rows : rows[i][key] = k}
      latest(k) == CHOOSE i \in rowsOf(k) : \A j \in rowsOf(k) : j <= i
  IN  [k \in DOMAIN map \cup {rows[i][key] : i \in DOMAIN rows} |->
         IF rowsOf(k) # {} THEN rows[latest(k)] ELSE map[k]]

\* What has no code is not filed by code.
BugWithCode(map) == map
WithCode(map) == Restrict(map, DOMAIN map \ {NoCode})

BugCopies(rows) == [a \in {rows[i] : i \in DOMAIN rows} |-> 1]
Copies(rows) ==
  LET filed == {i \in DOMAIN rows : rows[i].icao # NoIcao}
      count(a) == Cardinality({i \in filed : rows[i] = a})
  IN  [a \in {rows[i] : i \in filed} |-> count(a)]

File == disk[dir][stage]

\* load_all is a chain of &&: routes come last.
BugAfter(s) == [airports |-> "routes", routes |-> "airlines", airlines |-> "serving"][s]
After(s) == [airports |-> "airlines", airlines |-> "routes", routes |-> "serving"][s]

\* A load that returns false ends this try; main goes on to the current
\* directory, or exits.
BugTryNext == dir' = "." /\ stage' = "airports"
TryNext ==
  IF dir = "data"
  THEN dir' = "." /\ stage' = "airports"
  ELSE stage' = "exited" /\ UNCHANGED dir

\* A load returns whether the store has anything of its kind now.
BugLoads(any) == TRUE
Loads(any) == any
Returns(any) ==
  IF Loads(any) THEN stage' = After(stage) /\ UNCHANGED dir ELSE TryNext

Absent ==
  /\ stage \in Files
  /\ ~File.there
  /\ TryNext
  /\ UNCHANGED <<disk, airports, airlines, routes>>

LoadAirports ==
  /\ stage = "airports"
  /\ File.there
  /\ airports_by_id' = Merged(airports_by_id, File.rows, "id")
  /\ airports_by_iata' = WithCode(Merged(airports_by_iata, File.rows, "iata"))
  /\ airports_by_icao' = airports_by_icao (+) Copies(File.rows)
  /\ Returns(DOMAIN airports_by_id' # {})
  /\ UNCHANGED <<disk, airlines, routes>>

LoadAirlines ==
  /\ stage = "airlines"
  /\ File.there
  /\ airlines_by_id' = Merged(airlines_by_id, File.rows, "id")
  /\ airlines_by_iata' = WithCode(Merged(airlines_by_iata, File.rows, "iata"))
  /\ Returns(DOMAIN airlines_by_id' # {})
  /\ UNCHANGED <<disk, airports, routes>>

LoadRoutes ==
  /\ stage = "routes"
  /\ File.there
  /\ routes' = routes \o File.rows
  /\ Returns(routes' # <<>>)
  /\ UNCHANGED <<disk, airports, airlines>>

Init ==
  /\ disk \in Disks
  /\ dir = "data"
  /\ stage = "airports"
  /\ airports_by_id = <<>> /\ airports_by_iata = <<>> /\ airports_by_icao = EmptyBag
  /\ airlines_by_id = <<>> /\ airlines_by_iata = <<>>
  /\ routes = <<>>

Next == Absent \/ LoadAirports \/ LoadAirlines \/ LoadRoutes

\* main runs on; each load ends.
Spec == Init /\ [][Next]_vars /\ WF_vars(Next)

-----------------------------------------------------------------------------

TypeOK ==
  /\ disk \in Disks
  /\ dir \in Dirs
  /\ stage \in Files \cup {"serving", "exited"}
  /\ \A id \in DOMAIN airports_by_id : airports_by_id[id].id = id
  /\ \A c \in DOMAIN airports_by_iata : c # NoCode /\ airports_by_iata[c].iata = c
  /\ \A id \in DOMAIN airlines_by_id : airlines_by_id[id].id = id
  /\ \A c \in DOMAIN airlines_by_iata : c # NoCode /\ airlines_by_iata[c].iata = c
  /\ IsABag(airports_by_icao)

Complete(d) == \A f \in Files : disk[d][f].there /\ disk[d][f].rows # <<>>

\* No route is loaded twice and routes of two directories never mix, although
\* load_routes appends and the other loads do mix: only a load of the routes that
\* finds none leads to a second one.
RoutesOfOneDirectory ==
  stage = "serving" => \E d \in Dirs : routes = disk[d]["routes"].rows

\* A complete directory suffices: the server only exits, or serves a store that
\* lacks a kind of data, when neither directory is complete.
CompleteSuffices ==
  /\ stage = "exited" => ~Complete("data") /\ ~Complete(".")
  /\ stage = "serving" =>
       DOMAIN airports_by_id # {} /\ DOMAIN airlines_by_id # {} /\ routes # <<>>

\* The state AirTravelDb starts from: with data/ complete, or without airports in
\* data/, the store is the set of the airports of one file, each filed once under
\* its id, its code and its ICAO code (ids and codes are unique within a file).
StoreAsInAirTravelDb ==
  stage = "serving" /\ (Complete("data") \/ ~disk["data"]["airports"].there) =>
    LET loaded == Range(disk[dir]["airports"].rows)
    IN  /\ airports_by_id = [i \in {a.id : a \in loaded} |-> CHOOSE a \in loaded : a.id = i]
        /\ airports_by_iata = [c \in {a.iata : a \in loaded} \ {NoCode} |->
                                 CHOOSE a \in loaded : a.iata = c]
        /\ airports_by_icao = SetToBag({a \in loaded : a.icao # NoIcao})

\* The start comes to an end.
StartEnds == <>(stage \in {"serving", "exited"})
=============================================================================
