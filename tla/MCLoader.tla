------------------------------ MODULE MCLoader ------------------------------
(* Each directory may lack a file, have it without records, or with some.  *)
(* The two directories give id 1 and the code AAA to different airports.   *)
EXTENDS Loader, TLC

MCAirport(id, iata, icao) == [id |-> id, iata |-> iata, icao |-> icao]
MCAirline(id, iata) == [id |-> id, iata |-> iata]

MCAbsent == [there |-> FALSE, rows |-> <<>>]
MCFile(rows) == [there |-> TRUE, rows |-> rows]
MCFiles(rows) == {MCAbsent, MCFile(<<>>), MCFile(rows)}

MCDirectory(as, ls, rs) ==
  {[airports |-> a, airlines |-> l, routes |-> r] :
     a \in MCFiles(as), l \in MCFiles(ls), r \in MCFiles(rs)}

MCData ==
  MCDirectory(<<MCAirport(1, "AAA", "IAAA"), MCAirport(3, "", "IXXX")>>,
              <<MCAirline(1, "LL"), MCAirline(2, "LL")>>, <<"r1", "r2">>)
MCCwd ==
  MCDirectory(<<MCAirport(2, "AAA", ""), MCAirport(1, "BBB", "IBBB")>>,
              <<MCAirline(1, "")>>, <<"r3">>)

MCDisks == {("data" :> d) @@ ("." :> c) : d \in MCData, c \in MCCwd}
=============================================================================
