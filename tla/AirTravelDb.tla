----------------------------- MODULE AirTravelDb -----------------------------
(***************************************************************************)
(* The in-memory store of src/src/main.cpp (struct Database) and the       *)
(* handlers that change it: upload of destinations, admin save, delete and *)
(* redact.  Each handler runs to completion before the next one, which is  *)
(* what a server with one worker thread does (fly.toml gives the machine   *)
(* one cpu; Crow then starts one worker).  An upload is the only handler   *)
(* that changes the store in a loop; a step of it is one row, and no other *)
(* handler runs while rows are left.                                       *)
(*                                                                         *)
(* Abstracted: the vectors of airports_by_icao are one bag of copies (each *)
(* copy carries its key, the order is never read); routes are a set, which *)
(* the handlers only shrink; GET handlers do not change the store.         *)
(***************************************************************************)
EXTENDS AirportData, Sequences, Bags, FiniteSets

CONSTANTS
  MaxRows,           \* bound: rows of one uploaded file
  MaxCopies          \* bound: different, and equal, copies in airports_by_icao

ASSUME RowBoundAssumption == MaxRows \in Nat /\ MaxCopies \in Nat

VARIABLES
  airports_by_id,    \* id -> airport
  airports_by_iata,  \* code -> airport
  airports_by_icao,  \* bag of the copies filed under their ICAO code
  routes,
  next_upload_id,
  pending            \* rows the running upload has still to add

store == <<airports_by_id, airports_by_iata, airports_by_icao, routes, next_upload_id>>
vars == <<store, pending>>

-----------------------------------------------------------------------------

(* Operators named Bug... are the code with a mistake in it: each is put in *)
(* place of the operator after it, and a property has to notice.           *)

\* push_back of a copy, for airports that have an ICAO code.
FileUnderIcao(a) ==
  airports_by_icao' =
    IF a.icao = NoIcao THEN airports_by_icao ELSE airports_by_icao (+) SetToBag({a})

Store(a) ==
  /\ airports_by_id' = Put(airports_by_id, a.id, a)
  /\ airports_by_iata' = Put(airports_by_iata, a.iata, a)
  /\ FileUnderIcao(a)

BugNeverKnown(code) == FALSE
Known(code) == code # NoCode /\ code \in DOMAIN airports_by_iata

BugCountUp == next_upload_id + 1
BugCountStays == next_upload_id
NextId == next_upload_id - 1

OverwriteAirport(a) ==
  /\ Store([a EXCEPT !.id = airports_by_iata[a.iata].id])
  /\ UNCHANGED <<next_upload_id, routes>>

\* Without a code the airport gets a generated one, whoever else has it.
AddNewAirport(a) ==
  /\ next_upload_id' = NextId
  /\ Store([a EXCEPT
       !.id = next_upload_id,
       !.iata = IF a.iata = NoCode THEN GeneratedCode(-next_upload_id) ELSE a.iata])
  /\ UNCHANGED routes

AddAirport(a) == IF Known(a.iata) THEN OverwriteAirport(a) ELSE AddNewAirport(a)

BugKeepById(id) == airports_by_id
AirportsWithout(id) == Restrict(airports_by_id, DOMAIN airports_by_id \ {id})
BugKeepCopies(id) == airports_by_icao
CopiesWithout(id) ==
  Restrict(airports_by_icao, {a \in BagToSet(airports_by_icao) : a.id # id})
BugOnlySource(id) == {r \in routes : r.src_airport_id # id}
BugBothEnds(id) == {r \in routes : ~(r.src_airport_id = id /\ r.dest_airport_id = id)}
RoutesWithout(id) == {r \in routes : ~Touches(r, id)}

RemoveAirport(code) ==
  LET id == airports_by_iata[code].id
  IN  /\ airports_by_iata' = Restrict(airports_by_iata, DOMAIN airports_by_iata \ {code})
      /\ airports_by_id' = AirportsWithout(id)
      /\ airports_by_icao' = CopiesWithout(id)
      /\ routes' = RoutesWithout(id)
      /\ UNCHANGED next_upload_id

BugRedactOneMap(a) == airports_by_id
AirportsWith(a) ==
  IF a.id \in DOMAIN airports_by_id THEN Put(airports_by_id, a.id, a) ELSE airports_by_id

\* airports_by_icao keeps its copies as they are.
RedactAirport(code, fields) ==
  LET a == Redacting(airports_by_iata[code], fields)
  IN  /\ airports_by_iata' = Put(airports_by_iata, code, a)
      /\ airports_by_id' = AirportsWith(a)
      /\ UNCHANGED <<airports_by_icao, routes, next_upload_id>>

-----------------------------------------------------------------------------

Init ==
  /\ airports_by_id = [i \in LoadedIds |-> CHOOSE a \in LoadedAirports : a.id = i]
  /\ airports_by_iata = [c \in {a.iata : a \in LoadedAirports} \ {NoCode} |->
                           CHOOSE a \in LoadedAirports : a.iata = c]
  /\ airports_by_icao = SetToBag({a \in LoadedAirports : a.icao # NoIcao})
  /\ routes = LoadedRoutes
  /\ next_upload_id = -1
  /\ pending = <<>>

\* An upload arrives: the rows are those the parser accepts.
UploadBegin ==
  /\ pending = <<>>
  /\ \E n \in 1..MaxRows :
       /\ next_upload_id - n >= -MaxUploads - 1
       /\ pending' \in [1..n -> UploadRows]
  /\ UNCHANGED store

\* The body of the upload loop.
UploadRow ==
  /\ pending # <<>>
  /\ AddAirport(AirportOfRow(Head(pending)))
  /\ pending' = Tail(pending)

\* What a save starts from: a copy of the airport that exists, so that all that
\* the request does not give carries over, or an empty airport.
BugSaveBlank(iata) == Blank(iata)
SaveBase(iata) ==
  IF iata \in DOMAIN airports_by_iata THEN airports_by_iata[iata] ELSE Blank(iata)

RoomForCopy ==
  /\ Cardinality(BagToSet(airports_by_icao)) < MaxCopies
  /\ \A b \in BagToSet(airports_by_icao) : airports_by_icao[b] < MaxCopies

\* POST /api/admin/airport.  "given" holds the text fields of the body; a
\* request that is answered 400 changes nothing and is left out.
AdminSave(code, given) ==
  /\ pending = <<>>
  /\ next_upload_id >= -MaxUploads
  /\ RoomForCopy
  /\ LET iata == Upper[code]
         base == SaveBase(iata)
     IN  AddAirport([base EXCEPT !.iata = iata, !.text = Given(base, given)])
  /\ UNCHANGED pending

\* DELETE /api/admin/airport/<code>, and its 404.
AdminDelete(code) ==
  /\ pending = <<>>
  /\ IF Upper[code] \in DOMAIN airports_by_iata
     THEN RemoveAirport(Upper[code])
     ELSE UNCHANGED store
  /\ UNCHANGED pending

\* POST /api/admin/airport/<code>/redact, and its 404.
AdminRedact(code, fields) ==
  /\ pending = <<>>
  /\ IF Upper[code] \in DOMAIN airports_by_iata
     THEN RedactAirport(Upper[code], fields)
     ELSE UNCHANGED store
  /\ UNCHANGED pending

Save == \E code \in TypedCodes, fs \in SUBSET Fields :
          \E given \in [fs -> Texts] : AdminSave(code, given)
Delete == \E code \in Codes : AdminDelete(code)
Redact == \E code \in Codes, fs \in SUBSET Fields : AdminRedact(code, fs)

Next == UploadBegin \/ UploadRow \/ Save \/ Delete \/ Redact

Spec == Init /\ [][Next]_vars

-----------------------------------------------------------------------------

StoreType ==
  /\ DOMAIN airports_by_id \subseteq Int
  /\ airports_by_id \in [DOMAIN airports_by_id -> Airport]
  /\ DOMAIN airports_by_iata \subseteq Codes
  /\ airports_by_iata \in [DOMAIN airports_by_iata -> Airport]
  /\ IsABag(airports_by_icao)
  /\ BagToSet(airports_by_icao) \subseteq Airport
  /\ routes \subseteq LoadedRoutes
  /\ next_upload_id \in (-MaxUploads - 1)..(-1)

UploadType ==
  /\ pending \in Seq(UploadRows)
  /\ next_upload_id - Len(pending) >= -MaxUploads - 1

\* Types; next_upload_id covers the rows a running upload has still to add.
TypeOK == StoreType /\ UploadType

\* The two copies of an airport agree: what a lookup by code finds is filed
\* under that code and is the very record a lookup by its id finds, so searches
\* (over airports_by_id) and lookups (over airports_by_iata) show the same.
IataLeadsToId ==
  \A code \in DOMAIN airports_by_iata :
    LET a == airports_by_iata[code]
    IN  /\ a.iata = code
        /\ a.id \in DOMAIN airports_by_id
        /\ airports_by_id[a.id] = a

\* A code names one airport (main.cpp:136, "no duplicate"): every airport with a
\* code is the one a lookup by that code finds, so that it can be updated,
\* redacted and deleted.
OneAirportPerCode ==
  \A id \in DOMAIN airports_by_id :
    LET a == airports_by_id[id]
    IN  a.iata # NoCode => /\ a.iata \in DOMAIN airports_by_iata
                           /\ airports_by_iata[a.iata] = a

\* airports_by_icao never outlives an airport: each copy in it belongs to an
\* airport that is still in the store, although only remove_airport_by_iata
\* ever takes copies out.
IcaoCopiesLive ==
  \A a \in BagToSet(airports_by_icao) : a.id \in DOMAIN airports_by_id

\* A route whose end was a loaded airport keeps that airport as long as the
\* route is there: no delete leaves a route that points at the deleted id.
RouteEndsKnown ==
  \A r \in routes : \A id \in {r.src_airport_id, r.dest_airport_id} \cap LoadedIds :
    id \in DOMAIN airports_by_id

\* An id that was given out and then deleted never comes back, whatever is
\* uploaded, saved or deleted in between: ids come in from the counter, which
\* then passes them and never turns back.
DeletedIdStaysDeleted ==
  [][/\ next_upload_id' <= next_upload_id
     /\ \A id \in DOMAIN airports_by_id' \ DOMAIN airports_by_id :
          next_upload_id' < id /\ id <= next_upload_id]_vars

\* As long as a code names an airport it names the same id: add_airport
\* overwrites the airport, it does not put another one in its place.
CodeKeepsItsId ==
  [][\A code \in DOMAIN airports_by_iata \cap DOMAIN airports_by_iata' :
       airports_by_iata'[code].id = airports_by_iata[code].id]_vars

\* Only an upload moves an airport: a save carries lat, lon and altitude over
\* (main.cpp:1935) and a redaction leaves them.
PositionSurvivesSave ==
  [][\A code \in DOMAIN airports_by_iata \cap DOMAIN airports_by_iata' :
       airports_by_iata'[code].geo # airports_by_iata[code].geo => pending # <<>>]_vars

\* The store implements the registry: each handler step adds one airport under
\* a free code and a fresh id, overwrites one, removes one with its routes, or
\* leaves the registry as it is.
Registry == INSTANCE AirportRegistry WITH
  airports <- {airports_by_id[id] : id \in DOMAIN airports_by_id},
  used <- LoadedIds \cup {i \in -MaxUploads..-1 : i > next_upload_id}

ImplementsRegistry == Registry!Spec

-----------------------------------------------------------------------------
(* What comments of the code say and the code does not do.                 *)

\* main.cpp:156, "also remove any routes that touch it": when a code leaves the
\* store, no route that is left names it.
DeletedCodeLeavesRoutes ==
  [][\A code \in DOMAIN airports_by_iata \ DOMAIN airports_by_iata' :
       \A r \in routes' : r.src_airport # code /\ r.dest_airport # code]_vars
=============================================================================
