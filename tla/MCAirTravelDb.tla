---------------------------- MODULE MCAirTravelDb ----------------------------
(***************************************************************************)
(* A small store for TLC: one airport with an ICAO code, one without, one  *)
(* without an IATA code; routes that carry ids, an unknown id (the 0 of a  *)
(* \N field) with the code of a loaded airport, and an id no airport has.  *)
(***************************************************************************)
EXTENDS AirTravelDb

MCUpper(codes) == [c \in codes |-> IF c = "new" THEN "NEW" ELSE c]

MCCodes == {"AAA", "BBB", "ZZZ", "NEW", "new", "U1", "U2"}
MCUpperCodes == MCUpper(MCCodes)
MCGeneratedCode(n) == <<"U1", "U2", "U3">>[n]

MCAirport(id, iata, icao) ==
  [id |-> id, iata |-> iata, icao |-> icao,
   text |-> [f \in Fields |-> "given"], geo |-> "here"]

MCLoadedAirports ==
  {MCAirport(1, "AAA", "IAAA"), MCAirport(2, "BBB", ""), MCAirport(3, "", "IXXX")}

MCRoute(src, src_id, dest, dest_id) ==
  [src_airport |-> src, src_airport_id |-> src_id,
   dest_airport |-> dest, dest_airport_id |-> dest_id]

MCLoadedRoutes ==
  {MCRoute("AAA", 1, "BBB", 2), MCRoute("BBB", 2, "ZZZ", 99),
   MCRoute("AAA", 0, "BBB", 2), MCRoute("AAA", 1, "ZZZ", 3)}

MCRow(iata) == [iata |-> iata, text |-> [f \in Fields |-> "given"], geo |-> "there"]

MCUploadRows == {MCRow(c) : c \in TypedCodes \cup {""}}
=============================================================================
