----------------------------- MODULE AirportData -----------------------------
(***************************************************************************)
(* The records of the store (struct Airport, Route and a row of an         *)
(* uploaded file), the data the files give at start, and what is assumed   *)
(* of both.                                                                *)
(*                                                                         *)
(* Abstracted: a code, a text or a position is an opaque value.            *)
(***************************************************************************)
EXTENDS Integers, Functions

CONSTANTS
  Codes,             \* non-empty IATA codes
  NoCode,            \* the empty string
  Upper,             \* toupper on codes
  GeneratedCode(_),  \* "U" + to_string(n)
  TypedCodes,        \* the codes that users put in an upload or a save
  Icaos, NoIcao,     \* non-empty ICAO codes, the empty string
  Fields,            \* the text fields of an airport: name, city, country
  Texts, NoText, Redacted,
  Geos, NoGeo,       \* lat, lon and altitude together, and their zeroes
  LoadedAirports,    \* what load_airports leaves in airports_by_id
  LoadedRoutes,      \* what load_routes leaves in routes
  UploadRows,        \* the rows an uploaded file may have
  MaxUploads         \* bound: ids handed out by add_airport

Airport ==
  [id : Int, iata : Codes \cup {NoCode}, icao : Icaos \cup {NoIcao},
   text : [Fields -> Texts], geo : Geos]

Route ==
  [src_airport : Codes \cup {NoCode}, dest_airport : Codes \cup {NoCode},
   src_airport_id : Int, dest_airport_id : Int]

Row == [iata : TypedCodes \cup {NoCode}, text : [Fields -> Texts], geo : Geos]

LoadedIds == {a.id : a \in LoadedAirports}

ASSUME CodeAssumption ==
  /\ NoCode \notin Codes
  /\ Upper \in [Codes -> Codes]
  /\ TypedCodes \subseteq Codes
  /\ \A n \in 1..MaxUploads : GeneratedCode(n) \in Codes
  /\ \A m, n \in 1..MaxUploads : GeneratedCode(m) = GeneratedCode(n) => m = n

ASSUME DataAssumption ==
  /\ NoIcao \notin Icaos
  /\ {NoText, Redacted} \subseteq Texts
  /\ NoGeo \in Geos
  /\ UploadRows \subseteq Row

\* The shipped data files satisfy this: ids and non-empty codes are unique.
ASSUME LoadAssumption ==
  /\ LoadedAirports \subseteq Airport
  /\ \A a \in LoadedAirports : a.id >= 0
  /\ \A a, b \in LoadedAirports : a.id = b.id => a = b
  /\ \A a, b \in LoadedAirports : a.iata = b.iata /\ a.iata # NoCode => a = b
  /\ LoadedRoutes \subseteq Route

ASSUME BoundAssumption == MaxUploads \in Nat

\* The codes the handlers store as users typed them: an upload keeps the code of
\* the row, a save stores it in upper case.
UserCodes == TypedCodes \cup {Upper[c] : c \in TypedCodes}

\* Nobody types, and no data file has, a code that add_airport generates.
\* Nothing in the code sees to that; the properties that need it say so.
GeneratedApart ==
  \A n \in 1..MaxUploads :
    GeneratedCode(n) \notin UserCodes \cup {a.iata : a \in LoadedAirports}

-----------------------------------------------------------------------------

\* map[k] = v, which inserts or overwrites.
Put(f, k, v) == [x \in DOMAIN f \cup {k} |-> IF x = k THEN v ELSE f[x]]

\* The airport the upload loop builds: a row has no id, ICAO code or altitude.
AirportOfRow(row) ==
  [id |-> 0, iata |-> row.iata, icao |-> NoIcao, text |-> row.text, geo |-> row.geo]

\* What a save of an unknown code starts from.
Blank(iata) ==
  [id |-> 0, iata |-> iata, icao |-> NoIcao, text |-> [f \in Fields |-> NoText], geo |-> NoGeo]


\* The texts the request gives, laid over those of the airport it starts from.
Given(base, given) ==
  [f \in Fields |-> IF f \in DOMAIN given THEN given[f] ELSE base.text[f]]

Redacting(a, fields) ==
  [a EXCEPT !.text = [f \in Fields |-> IF f \in fields THEN Redacted ELSE a.text[f]]]

Touches(r, id) == r.src_airport_id = id \/ r.dest_airport_id = id

=============================================================================
