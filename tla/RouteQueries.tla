---------------------------- MODULE RouteQueries ----------------------------
(***************************************************************************)
(* The queries that rank, cut and join what the store holds: top_cities,   *)
(* airlines_at, airline_airports, airline_routes, map/airports, onehop, the *)
(* two searches, suggestions, lookups and reports, and which of the results *)
(* of a search the page picks.                                             *)
(* Hash maps are listed in any order and std::sort leaves ties in any      *)
(* order, so an answer is any of several.                                  *)
(*                                                                         *)
(* Abstracted: what an airport or airline is searched by, its codes apart,  *)
(* is a set of lower-case texts, those its name, city and country contain   *)
(* (texts) and those its name or city starts with (starts); texts are       *)
(* compared by their size, case, parts and beginnings; distance is an      *)
(* opaque function of two positions.                                       *)
(***************************************************************************)
EXTENDS Integers, Sequences, FiniteSets, SequencesExt, Positions

CONSTANTS
  Stores,            \* [airports, airlines : sets, routes : sequence]
  AirlineCodes, Codes, NoCode, NoCity, NoGeo,
  Miles,             \* haversine_miles: position -> position -> Nat
  Texts,             \* what users type into a search field
  Lower, Upper,      \* tolower and toupper on texts and codes
  Size,              \* the number of their characters
  Parts, Heads,      \* the texts that they contain and start with
  Rank,              \* the order of strings, as a number for each code
  Counts,            \* the N that users ask for
  MaxTop, DefaultTop, MaxAirlines, MaxServed, MaxListed, MaxMap, MaxHops, MaxFound,
  MaxSuggested, MaxOffered

ASSUME LimitAssumption ==
  /\ {MaxTop, DefaultTop, MaxAirlines, MaxServed, MaxListed, MaxMap, MaxHops, MaxFound,
      MaxSuggested, MaxOffered} \subseteq Nat \ {0}
  /\ DefaultTop <= MaxTop
  /\ Counts \subseteq Int

Nothing == ""

\* As AirTravelDb leaves them: ids are unique, and so is each airport's code.
ASSUME StoreAssumption ==
  \A s \in Stores :
    /\ IsFiniteSet(s.airports) /\ IsFiniteSet(s.airlines) /\ s.routes \in Seq(Range(s.routes))
    /\ \A a, b \in s.airports :
         a.id = b.id \/ (a.iata = b.iata /\ a.iata # NoCode) => a = b
    /\ \A a \in s.airports : a.iata \in Codes \cup {NoCode}

\* Case does not outlast tolower, toupper leaves nothing out, and a text is a part of itself. Stored codes are
\* in any case (8z in airlines.dat; main.cpp:1840 keeps the case of an upload).
ASSUME TextAssumption ==
  /\ NoCode = Nothing
  /\ \A q \in Texts : Lower[Upper[q]] = Lower[q] /\ (q # Nothing => Upper[q] # Nothing)
  /\ \A s \in Stores :
       /\ \A al \in s.airlines : al.iata \in Parts[al.iata] /\ Lower[al.name] \in al.texts
       /\ \A a \in s.airports : \A c \in {a.iata, a.icao} : Lower[c] \in Parts[Lower[c]]

ASSUME DistanceAssumption ==
  \A s \in Stores : \A a, b \in s.airports : Miles[a.geo][b.geo] \in Nat

VARIABLES
  airports_by_id, airports_by_iata, airlines, routes,
  request,   \* the query being answered, <<>> for none
  answer     \* the entries it lists

store == <<airports_by_id, airports_by_iata, airlines, routes>>
vars == <<store, request, answer>>

-----------------------------------------------------------------------------

BugCut(s, n) == s
Cut(s, n) == SubSeq(s, 1, IF Len(s) <= n THEN Len(s) ELSE n)

\* std::sort of the entries of a hash map.
Ordered(entries, Before(_, _)) ==
  {s \in SetToSeqs(entries) : \A i, j \in DOMAIN s : i < j => ~Before(s[j], s[i])}

MoreRoutes(e, f) == e.count > f.count
BugCutFirst(count, n) ==
  {Cut(s, n) : s \in SetToSeqs({[of |-> k, count |-> count[k]] : k \in DOMAIN count})}
RankedAndCut(count, n) ==
  {Cut(s, n) : s \in Ordered({[of |-> k, count |-> count[k]] : k \in DOMAIN count}, MoreRoutes)}

Airports == {airports_by_id[id] : id \in DOMAIN airports_by_id}
Known(code) == code \in DOMAIN airports_by_iata

\* Most handlers raise a code to upper case only if it has the size of a code.
Raised(code, sizes) == IF Size[code] \in sizes THEN Upper[code] ELSE code

Lookup(code) ==
  LET c == Raised(code, {3}) IN IF Known(c) THEN <<airports_by_iata[c]>> ELSE <<>>

\* city_routes: the routes of an airline into each city; by the id of the route.
Into(airline, city) ==
  {i \in DOMAIN routes :
     /\ routes[i].airline = airline
     /\ routes[i].dest_id \in DOMAIN airports_by_id
     /\ airports_by_id[routes[i].dest_id].city = city}

Cities == {a.city : a \in Airports} \ {NoCity}

Top(n) == IF n <= 0 \/ n > MaxTop THEN DefaultTop ELSE n

TopCities(airline, n) ==
  LET served == {c \in Cities : Into(airline, c) # {}}
  IN  RankedAndCut([c \in served |-> Cardinality(Into(airline, c))], Top(n))

\* By the codes of the routes, as are all of the following but the map.
Touching(code) ==
  {i \in DOMAIN routes : routes[i].src = code \/ routes[i].dest = code}

OfAirline(airline) == {i \in DOMAIN routes : routes[i].airline = airline}

AirlinesAt(code) ==
  LET of(a) == OfAirline(a) \cap Touching(code)
  IN  RankedAndCut([a \in {b \in AirlineCodes : of(b) # {}} |-> Cardinality(of(a))], MaxAirlines)

\* airport_routes: a route counts at its start and at its end.
Ends(airline, code) ==
  Cardinality({i \in OfAirline(airline) : routes[i].src = code})
    + Cardinality({i \in OfAirline(airline) : routes[i].dest = code})

OnMap(code) == Known(code) /\ airports_by_iata[code].geo # NoGeo

BugDrop(s, n) == At(Cut(s, n), {i \in DOMAIN Cut(s, n) : OnMap(s[i].of)})
Drop(s, n) == Cut(At(s, {i \in DOMAIN s : OnMap(s[i].of)}), n)

AirlineAirports(airline) ==
  LET named == (UNION {{routes[i].src, routes[i].dest} : i \in OfAirline(airline)}) \ {NoCode}
  IN  {Drop(s, MaxServed) :
         s \in RankedAndCut([c \in named |-> Ends(airline, c)], Cardinality(named))}

BugTouches(r, code) == r.src = code
Touches(r, code) == r.src = code \/ r.dest = code

AirlineRoutes(airline, code) ==
  Cut(At(routes, {i \in OfAirline(airline) : Touches(routes[i], code)}), MaxListed)

\* The ranking is cut before the ids without an airport are left out.
MapAirports ==
  LET ids == UNION {{routes[i].src_id, routes[i].dest_id} : i \in DOMAIN routes}
      ends(id) == Cardinality({i \in DOMAIN routes : routes[i].src_id = id})
                    + Cardinality({i \in DOMAIN routes : routes[i].dest_id = id})
      named(e) == e.of \in DOMAIN airports_by_id /\ airports_by_id[e.of].iata # NoCode
  IN  {At(s, {i \in DOMAIN s : named(s[i])}) :
         s \in RankedAndCut([id \in {i \in ids : i > 0} |-> ends(id)], MaxMap)}

\* Connections from -> via -> to over non-stop routes; entries keep their routes.
NonStop(i) == routes[i].stops = 0 /\ routes[i].src # NoCode /\ routes[i].dest # NoCode
FirstLegs(from, to) ==
  {i \in DOMAIN routes : NonStop(i) /\ routes[i].src = from /\ routes[i].dest \notin {from, to}}
SecondLegs(from, to) ==
  {i \in DOMAIN routes : NonStop(i) /\ routes[i].dest = to /\ routes[i].src \notin {from, to}}

Between(c, d) == Miles[airports_by_iata[c].geo][airports_by_iata[d].geo]
Total(from, via, to) == Between(from, via) + Between(via, to)

Connections(from, to) ==
  {[via |-> routes[p[1]].dest, leg1 |-> p[1], leg2 |-> p[2],
    total |-> Total(from, routes[p[1]].dest, to)] :
     p \in {q \in FirstLegs(from, to) \X SecondLegs(from, to) :
              routes[q[1]].dest = routes[q[2]].src /\ Known(routes[q[1]].dest)}}

BugShorter(e, f) == e.total > f.total
Shorter(e, f) == e.total < f.total
OneHops(from, to) == {Cut(s, MaxHops) : s \in Ordered(Connections(from, to), Shorter)}

\* What a search finds: airlines by their codes as typed, the rest in any case.
AirlineHits(q) == {al \in airlines : q = Nothing \/ Lower[q] \in al.texts \/ q \in Parts[al.iata]}
AirportHits(q) ==
  {a \in Airports : q = Nothing \/ Lower[q] \in a.texts
     \/ \E c \in {a.iata, a.icao} : Lower[q] \in Parts[Lower[c]]}

Found(hits) == {Cut(s, MaxFound) : s \in SetToSeqs(hits)}

\* The page: the first of several results that has the code, if the text is short
\* enough for a code, else the first one.
BugPreferred(found, q, exact) == found[1]
Preferred(found, q, exact) ==
  IF Len(found) > 1 /\ Size[q] <= 3 /\ exact # {}
  THEN found[CHOOSE i \in exact : \A j \in exact : i <= j]
  ELSE found[1]

PickedAirline(found, q) ==
  Preferred(found, q, {i \in DOMAIN found : Upper[found[i].iata] = Upper[q]})
PickedAirport(found, q) ==
  Preferred(found, q, {i \in DOMAIN found : found[i].iata = Upper[q]})

\* Suggestions: what starts with the text typed; the value of an item fills the field.
\* The page looks an airport up by the same code.
AirlineItem(al) == [of |-> al, value |-> IF al.iata = NoCode THEN al.name ELSE al.iata]
BugAnyCode(a) == IF a.icao = NoCode THEN a.iata ELSE a.icao
AnyCode(a) == IF a.iata = NoCode THEN a.icao ELSE a.iata
AirportItem(a) == [of |-> a, value |-> AnyCode(a)]

StartingAirlines(q) ==
  {al \in airlines : q = Nothing \/ Lower[q] \in al.starts \/ Raised(q, 0..3) \in Heads[al.iata]}
StartingAirports(q) ==
  {a \in Airports : q = Nothing \/ Lower[q] \in a.starts
     \/ \E c \in {a.iata, a.icao} : Raised(q, 0..4) \in Heads[c]}
Suggested(items, q) ==
  {Cut(s, IF q = Nothing THEN MaxOffered ELSE MaxSuggested) : s \in SetToSeqs(items)}

\* Reports: all that have a code, by code.
ByCode(e, f) == Rank[e.iata] < Rank[f.iata]
Report(all) == Ordered({x \in all : x.iata # NoCode}, ByCode)

-----------------------------------------------------------------------------

Receive(what, args, answers) ==
  /\ request = <<>>
  /\ request' = <<what>> \o args
  /\ answer' \in answers
  /\ UNCHANGED store

AskTopCities ==
  \E a \in AirlineCodes, n \in Counts :
    LET code == Raised(a, {2}) IN Receive("top_cities", <<code, n>>, TopCities(code, n))
AskAirlinesAt ==
  \E c \in Codes : LET code == Raised(c, {3}) IN Receive("airlines_at", <<code>>, AirlinesAt(code))
AskAirlineAirports ==
  \E a \in AirlineCodes :
    LET code == Raised(a, 0..3) IN Receive("airline_airports", <<code>>, AirlineAirports(code))
AskAirlineRoutes ==
  \E a \in AirlineCodes, c \in Codes :
    Receive("airline_routes", <<Upper[a], Upper[c]>>, {AirlineRoutes(Upper[a], Upper[c])})
AskMap == Receive("map", <<>>, MapAirports)
AskOneHop ==
  \E c, d \in Codes :
    LET from == Raised(c, {3})
        to == Raised(d, {3})
    IN  Known(from) /\ Known(to) /\ Receive("onehop", <<from, to>>, OneHops(from, to))
AskAirlines == \E q \in Texts : Receive("airlines", <<q>>, Found(AirlineHits(q)))
AskAirports == \E q \in Texts : Receive("airports", <<q>>, Found(AirportHits(q)))
AskAirlineItems ==
  \E q \in Texts : Receive("suggest_airlines", <<q>>,
                          Suggested({AirlineItem(al) : al \in StartingAirlines(q)}, q))
AskAirportItems ==
  \E q \in Texts : Receive("suggest_airports", <<q>>,
                          Suggested({AirportItem(a) : a \in StartingAirports(q)}, q))
AskAirlineReport == Receive("report_airlines", <<>>, Report(airlines))
AskAirportReport == Receive("report_airports", <<>>, Report(Airports))
AskAirport == \E c \in Codes : Receive("airport", <<c>>, {Lookup(c)})

Reply ==
  /\ request # <<>>
  /\ request' = <<>>
  /\ answer' = <<>>
  /\ UNCHANGED store

Init ==
  /\ \E s \in Stores :
       /\ airports_by_id = [id \in {a.id : a \in s.airports} |->
                              CHOOSE a \in s.airports : a.id = id]
       /\ airports_by_iata = [c \in {a.iata : a \in s.airports} \ {NoCode} |->
                                CHOOSE a \in s.airports : a.iata = c]
       /\ airlines = s.airlines
       /\ routes = s.routes
  /\ request = <<>>
  /\ answer = <<>>

Next ==
  \/ AskTopCities \/ AskAirlinesAt \/ AskAirlineAirports \/ AskAirlineRoutes
  \/ AskMap \/ AskOneHop \/ AskAirlines \/ AskAirports
  \/ AskAirlineItems \/ AskAirportItems \/ AskAirlineReport \/ AskAirportReport \/ AskAirport
  \/ Reply

Spec == Init /\ [][Next]_vars

-----------------------------------------------------------------------------

Asked(what) == request # <<>> /\ request[1] = what
Listed == {answer[i].of : i \in DOMAIN answer}
CountOf(k) == answer[CHOOSE i \in DOMAIN answer : answer[i].of = k].count

\* The answer is a best-first list of the candidates: none is listed twice, and none
\* that is left out has more routes than one that is listed.
BestOf(candidates, number(_), limit) ==
  /\ Listed \subseteq candidates
  /\ Len(answer) = Cardinality(Listed)
  /\ Len(answer) = IF Cardinality(candidates) <= limit THEN Cardinality(candidates) ELSE limit
  /\ \A k \in Listed : CountOf(k) = number(k)
  /\ \A i, j \in DOMAIN answer : i < j => answer[i].count >= answer[j].count
  /\ \A k \in Listed, l \in candidates \ Listed : number(l) <= number(k)

TypeOK ==
  /\ \A id \in DOMAIN airports_by_id : airports_by_id[id].id = id
  /\ \A c \in DOMAIN airports_by_iata :
       airports_by_iata[c].iata = c /\ airports_by_iata[c] = airports_by_id[airports_by_iata[c].id]
  /\ Asked("map") => Len(answer) <= MaxMap
  /\ Asked("onehop") => \A i \in DOMAIN answer : answer[i].leg1 \in DOMAIN routes
  /\ request = <<>> => answer = <<>>

\* main.cpp:1538, "top N cities for airline": N cities, or as many as there are, and
\* no city left out has more routes than one listed; N out of range gives the default.
TopCitiesAreBest ==
  Asked("top_cities") =>
    LET number(c) == Cardinality(Into(request[2], c))
    IN  BestOf({c \in Cities : number(c) > 0}, number, Top(request[3]))

\* main.cpp:1694, "airports served by an airline, ordered by # routes": airports the
\* store does not know take no place of those it knows.
ServedAreBest ==
  Asked("airline_airports") =>
    LET number(c) == Ends(request[2], c)
    IN  BestOf({c \in Codes : OnMap(c) /\ number(c) > 0}, number, MaxServed)

\* The number of routes shown with an airport or an airline is the number of routes
\* that "Show" lists (airline_routes, which raises both codes) for codes in upper case,
\* except that a route from an airport to itself counts twice in airline_airports, as
\* long as the list is not cut.
CountsAgree ==
  LET loops(a, c) == {i \in OfAirline(a) : routes[i].src = c /\ routes[i].dest = c}
      listed(a, c) == Len(AirlineRoutes(Upper[a], Upper[c]))
      upper(a, c) == Upper[a] = a /\ Upper[c] = c
  IN  /\ Asked("airline_airports") => \A c \in Listed :
           upper(request[2], c) /\ listed(request[2], c) < MaxListed =>
             CountOf(c) = listed(request[2], c) + Cardinality(loops(request[2], c))
      /\ Asked("airlines_at") => \A a \in Listed :
           upper(a, request[2]) /\ listed(a, request[2]) < MaxListed =>
             CountOf(a) = listed(a, request[2])

\* main.cpp:2067, "airports for map (top by route count)": every airport on the map
\* has at least as many route ends as one that is not, and only ids without an
\* airport or a code take places from the map.
MapIsTop ==
  Asked("map") =>
    LET ends(id) == Cardinality({e \in (DOMAIN routes) \X {"src_id", "dest_id"} : routes[e[1]][e[2]] = id})
        used == {id \in UNION {{routes[i].src_id, routes[i].dest_id} : i \in DOMAIN routes} : id > 0}
        named == {id \in used \cap DOMAIN airports_by_id : airports_by_id[id].iata # NoCode}
        lost == MaxMap - Cardinality(used \ named)
    IN  /\ Listed \subseteq named
        /\ \A k \in Listed, l \in named \ Listed : ends(l) <= ends(k)
        /\ named \subseteq Listed \/ Len(answer) >= lost

\* main.cpp:1592, "S -> X -> D, both legs non-stop": what is listed are connections
\* over two non-stop routes that meet in a known airport, and a connection that is
\* not listed is no shorter than those that are, of which there are MaxHops.
OneHopsAreShortest ==
  Asked("onehop") =>
    LET from == request[2]
        to == request[3]
        flown == {p \in (DOMAIN routes) \X (DOMAIN routes) :
                    /\ routes[p[1]].src = from /\ routes[p[2]].dest = to
                    /\ routes[p[1]].dest = routes[p[2]].src
                    /\ routes[p[1]].dest \notin {from, to}
                    /\ routes[p[1]].stops = 0 /\ routes[p[2]].stops = 0
                    /\ Known(routes[p[1]].dest)}
        listed == {<<answer[i].leg1, answer[i].leg2>> : i \in DOMAIN answer}
        miles(p) == Total(from, routes[p[1]].dest, to)
    IN  /\ listed \subseteq flown
        /\ flown = listed \/ Len(answer) = MaxHops
        /\ \A p \in listed, r \in flown \ listed : miles(p) <= miles(r)

\* Whether the results of a search tell the page what was meant: they are not cut, and
\* there is only one, or the text is short enough for a code (main.cpp:709, 742).
Decided(hits, q) ==
  q # Nothing /\ Cardinality(hits) <= MaxFound /\ (Size[q] <= 3 \/ Cardinality(hits) = 1)

\* A search for the code of an airline, as it is stored, picks an airline with that
\* code, and one for the upper-case code of an airport, in any case, that airport, if
\* the results decide it: neither their order nor other names with the same letters
\* matter. Longer codes with several results are the page's first result, whatever it is.
ExactCodePicked ==
  LET q == request[2]
  IN  /\ Asked("airlines") /\ Decided(AirlineHits(q), q) =>
           \A al \in airlines : al.iata = q =>
             answer # <<>> /\ Upper[PickedAirline(answer, q).iata] = Upper[q]
      /\ Asked("airports") /\ Decided(AirportHits(q), q) =>
           \A a \in Airports : a.iata = Upper[q] =>
             answer # <<>> /\ PickedAirport(answer, q) = a

\* From a suggestion to what it stands for (main.cpp:1414, 1456, 673): the value of an
\* item, put into the field and searched for, finds that airline or airport, whatever
\* its case. From there on codes count: the page picks an airline with the code of the
\* one suggested, and an airport with an upper-case IATA code itself, if the results
\* decide it, and a lookup by that code leads to the airport.
SuggestionLeadsThere ==
  /\ Asked("suggest_airlines") => \A i \in DOMAIN answer :
       LET al == answer[i].of
           value == answer[i].value
           hits == AirlineHits(value)
       IN  /\ al \in hits
           /\ al.iata # NoCode /\ Decided(hits, value) =>
                \A found \in Found(hits) : Upper[PickedAirline(found, value).iata] = Upper[al.iata]
  /\ Asked("suggest_airports") => \A i \in DOMAIN answer :
       LET a == answer[i].of
           value == answer[i].value
           hits == AirportHits(value)
       IN  /\ a \in hits
           /\ a.iata # NoCode /\ Upper[a.iata] = a.iata =>
                /\ Lookup(value) = <<a>>
                /\ Decided(hits, value) => \A found \in Found(hits) : PickedAirport(found, value) = a

\* main.cpp:741, "If short code entered (like AA, 1E), prefer exact IATA match when
\* multiple results": a search for the code of an airline picks an airline that has it.
ShortCodePicked ==
  Asked("airlines") /\ Len(answer) > 1 /\ Size[request[2]] <= 3 =>
    \A al \in airlines : al.iata = request[2] /\ al.iata # NoCode =>
      Upper[PickedAirline(answer, request[2]).iata] = Upper[al.iata]
=============================================================================
