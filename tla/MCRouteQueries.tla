--------------------------- MODULE MCRouteQueries ---------------------------
(* Two families of stores. In the first, every bag of up to four of the       *)
(* routes below: two airlines, two ways from AAA to CCC, a second route over  *)
(* BBB, a loop, a stop, ends without an id, a code or an airport, and an      *)
(* airport without a position. In the second, of at most one route, codes     *)
(* that are not as IATA has them: in lower case beside the same in upper case *)
(* and of four characters, alone in its texts or not.                         *)
EXTENDS RouteQueries, TLC

\* Texts that start with or contain ai or aaa start with or contain a.
WithA(texts) == IF {"ai", "aaa"} \cap texts = {} THEN texts ELSE texts \cup {"a"}
MCAirport(id, iata, icao, city, geo, starts, texts) ==
  [id |-> id, iata |-> iata, icao |-> icao, city |-> city, geo |-> geo,
   starts |-> WithA(starts), texts |-> WithA(starts \cup texts)]
MCAirports ==
  {MCAirport(1, "AAA", "IAAA", "P", 1, {"aaa"}, {"ai"}),
   MCAirport(2, "BBB", "", "P", 2, {"b"}, {"aaa"}), MCAirport(3, "CCC", "", "Q", 3, {"ai"}, {}),
   MCAirport(4, "DDD", "", "", 0, {}, {"b"}), MCAirport(5, "", "IFFF", "Q", 5, {"b"}, {})}
MCOddAirports ==
  {MCAirport(1, "EEE", "", "P", 1, {"b"}, {}), MCAirport(-1, "eee", "", "P", 2, {"ai"}, {}),
   MCAirport(-100, "U100", "", "Q", 3, {}, {}), MCAirport(-200, "U200", "", "", 4, {"b"}, {"u100"}),
   MCAirport(5, "", "IFFF", "Q", 5, {"b"}, {})}

\* Whichever way one goes, no two airports are equally far.
MCMiles == [g \in 0..5 |-> [h \in 0..5 |-> IF g > h THEN g * g - h * h ELSE h * h - g * g]]

MCAirline(id, iata, name, starts, texts) ==
  [id |-> id, iata |-> iata, name |-> name,
   starts |-> WithA(starts), texts |-> WithA(starts \cup texts)]
MCAirlines ==
  {MCAirline(1, "AI", "ai", {"ai"}, {}), MCAirline(2, "L", "ai", {"ai"}, {}),
   MCAirline(3, "", "b", {"b"}, {"ai", "aaa"}), MCAirline(4, "AAA", "b", {"aaa", "b"}, {})}
MCOddAirlines ==
  {MCAirline(1, "AI", "b", {"b"}, {}), MCAirline(2, "ai", "b", {"b"}, {}),
   MCAirline(3, "LONG", "b", {"b"}, {}), MCAirline(4, "", "long", {"long"}, {})}

MCRoute(airline, src, dest, ids, stops) ==
  [airline |-> airline, src |-> src, dest |-> dest, src_id |-> ids[1], dest_id |-> ids[2],
   stops |-> stops]
MCRoutes == <<
  MCRoute("L", "AAA", "BBB", <<1, 2>>, 0),
  MCRoute("M", "AAA", "BBB", <<1, 2>>, 0),
  MCRoute("L", "BBB", "CCC", <<2, 3>>, 0),
  MCRoute("L", "BBB", "CCC", <<2, 3>>, 1),
  MCRoute("L", "AAA", "AAA", <<1, 1>>, 0),
  MCRoute("L", "AAA", "DDD", <<1, 4>>, 0),
  MCRoute("M", "DDD", "CCC", <<4, 0>>, 0),
  MCRoute("L", "XXX", "BBB", <<9, 2>>, 0),
  MCRoute("L", "CCC", "XXX", <<3, 9>>, 0),
  MCRoute("M", "XXX", "", <<9, 5>>, 0)>>
MCOddRoutes == <<
  MCRoute("L", "EEE", "U100", <<1, 0>>, 0), MCRoute("l", "eee", "EEE", <<0, 1>>, 0)>>

MCBags(all, most) ==
  UNION {{s \in [1..n -> DOMAIN all] : \A i \in 1..n - 1 : s[i] <= s[i + 1]} : n \in 0..most}
MCStoresOf(airports, all, most, some) ==
  {[airports |-> airports, airlines |-> some, routes |-> [i \in DOMAIN b |-> all[b[i]]]] :
     b \in MCBags(all, most)}
MCStores ==
  MCStoresOf(MCAirports, MCRoutes, 4, MCAirlines) \cup MCStoresOf(MCOddAirports, MCOddRoutes, 1, MCOddAirlines)

MCTexts == {"", "A", "AI", "ai", "b", "AAA", "aaa", "eee", "IFFF", "U100"}
MCLow == [A |-> "a", AI |-> "ai", L |-> "l", M |-> "m", B |-> "b", AAA |-> "aaa", BBB |-> "bbb",
          CCC |-> "ccc", DDD |-> "ddd", EEE |-> "eee", IAAA |-> "iaaa", IFFF |-> "ifff",
          U100 |-> "u100", U200 |-> "u200", LONG |-> "long"]
MCWords == DOMAIN MCLow \cup {MCLow[t] : t \in DOMAIN MCLow} \cup {""}
MCLower == [t \in MCWords |-> IF t \in DOMAIN MCLow THEN MCLow[t] ELSE t]
MCUpper ==
  [t \in MCWords |-> IF \E u \in DOMAIN MCLow : MCLow[u] = t
                     THEN CHOOSE u \in DOMAIN MCLow : MCLow[u] = t ELSE t]
MCSize ==
  [t \in MCWords |-> LET u == MCUpper[t]
                     IN  CASE u = "" -> 0 [] u \in {"A", "L", "M", "B"} -> 1 [] u = "AI" -> 2
                           [] u \in {"IAAA", "IFFF", "U100", "U200", "LONG"} -> 4 [] OTHER -> 3]

\* Of the parts of the words, those that are typed.
MCHeads ==
  [t \in MCWords |-> {"", t} \cup (IF t \in {"AI", "AAA"} THEN {"A"} ELSE {})
                       \cup (IF t \in {"ai", "aaa"} THEN {"a"} ELSE {})]
MCParts ==
  [t \in MCWords |-> MCHeads[t] \cup (CASE t = "IAAA" -> {"A", "AAA"} [] t = "iaaa" -> {"a", "aaa"}
                                        [] OTHER -> {})]
MCRank == [AAA |-> 1, AI |-> 2, BBB |-> 3, CCC |-> 4, DDD |-> 5, EEE |-> 6, L |-> 7, LONG |-> 8,
           U100 |-> 9, U200 |-> 10, ai |-> 11, eee |-> 12]
MCCounts == {0, 1, 2, 3, 99}
=============================================================================
