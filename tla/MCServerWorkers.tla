--------------------------- MODULE MCServerWorkers ---------------------------
(***************************************************************************)
(* A small server for TLC: the store of MCAirTravelDb in small, and one    *)
(* request of each kind that meets each branch of its handler.             *)
(***************************************************************************)
EXTENDS ServerWorkers

MCCodes == {"AAA", "BBB", "NEW", "U1", "U2", "U3", "U4", "U5", "U6", "U7", "U8"}
MCUpper == [c \in MCCodes |-> c]
MCGeneratedCode(n) == <<"U1", "U2", "U3", "U4", "U5", "U6", "U7", "U8">>[n]

MCAirport(id, iata, icao) ==
  [id |-> id, iata |-> iata, icao |-> icao,
   text |-> [f \in Fields |-> "given"], geo |-> "here"]

MCLoadedAirports == {MCAirport(1, "AAA", "IAAA"), MCAirport(2, "BBB", "")}

MCLoadedRoutes ==
  {[src_airport |-> "AAA", src_airport_id |-> 1, dest_airport |-> "BBB", dest_airport_id |-> 2],
   [src_airport |-> "BBB", src_airport_id |-> 2, dest_airport |-> "NEW", dest_airport_id |-> 9]}

MCRow(iata) == [iata |-> iata, text |-> [f \in Fields |-> "given"], geo |-> "there"]
MCUploadRows == {MCRow("AAA"), MCRow("NEW"), MCRow("")}

MCUpload(rows) == [op |-> "upload", rows |-> rows]
MCSave(code, given) == [op |-> "save", code |-> code, given |-> given]
MCDelete(code) == [op |-> "delete", code |-> code]
MCRedact(code, fields) == [op |-> "redact", code |-> code, fields |-> fields]

MCRequests ==
  {MCUpload(<<>>), MCUpload(<<MCRow("NEW"), MCRow("")>>), MCUpload(<<MCRow("AAA")>>),
   MCSave("AAA", [f \in Fields |-> ""]), MCSave("NEW", <<>>),
   MCDelete("AAA"), MCDelete("NEW"), MCRedact("AAA", Fields), MCRedact("NEW", Fields)}

\* Two clients who meet: each adds a code that is new, or the same airport is
\* redacted and deleted.
MCRacingRequests ==
  {MCUpload(<<MCRow("NEW")>>), MCUpload(<<MCRow("")>>), MCDelete("AAA"), MCRedact("AAA", Fields)}
=============================================================================
