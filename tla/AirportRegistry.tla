-------------------------- MODULE AirportRegistry --------------------------
(***************************************************************************)
(* What the airport store promises to its clients, whatever indexes it     *)
(* keeps: a set of airports in which a code names one airport, an update   *)
(* keeps the airport's id, a new airport gets an id nobody had before, and *)
(* removing an airport removes exactly the routes that carry its id.       *)
(* AirTravelDb (the Database struct and its handlers) implements it.       *)
(***************************************************************************)

CONSTANTS
  NoCode,          \* the empty IATA code
  LoadedAirports,  \* the airports the data files give
  LoadedRoutes     \* the routes the data files give

VARIABLES
  airports,  \* the airports a lookup by id, a search or a report can show
  routes,    \* the routes of the store
  used       \* every id an airport has had so far

vars == <<airports, routes, used>>

Init ==
  /\ airports = LoadedAirports
  /\ routes = LoadedRoutes
  /\ used = {a.id : a \in LoadedAirports}

\* A new airport: its code names no airport and its id is fresh.  The rest of
\* the record is the client's choice, hence read off the next state.
Register ==
  \E a \in airports' :
    /\ a.iata # NoCode
    /\ \A b \in airports : b.iata # a.iata
    /\ a.id \notin used
    /\ airports' = airports \cup {a}
    /\ used' = used \cup {a.id}
    /\ UNCHANGED routes

\* New contents for the airport a code names, which keeps its id.
Overwrite ==
  \E old \in airports : \E a \in airports' :
    /\ a.iata # NoCode
    /\ a.iata = old.iata
    /\ a.id = old.id
    /\ airports' = (airports \ {old}) \cup {a}
    /\ UNCHANGED <<routes, used>>

Remove ==
  \E a \in airports :
    /\ a.iata # NoCode
    /\ airports' = airports \ {a}
    /\ routes' = {r \in routes : r.src_airport_id # a.id /\ r.dest_airport_id # a.id}
    /\ UNCHANGED used

Next == Register \/ Overwrite \/ Remove

Spec == Init /\ [][Next]_vars

\* What clients may rely on: a code names one airport, an id names one airport, and
\* every id in use counts as used, so that no new airport gets it.
Promise ==
  /\ \A a, b \in airports : a.id = b.id \/ (a.iata = b.iata /\ a.iata # NoCode) => a = b
  /\ \A a \in airports : a.id \in used
=============================================================================
