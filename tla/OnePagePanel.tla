---------------------------- MODULE OnePagePanel ----------------------------
(***************************************************************************)
(* The one-page UI of src/src/main.cpp: the results panel (#op-info), the  *)
(* marker and line layers of the map, and the requests that wait for an    *)
(* answer.  The page lets the user go on while requests run; each answer   *)
(* overwrites or extends what is there by then, in whatever order answers  *)
(* arrive.                                                                 *)
(*                                                                         *)
(* What the user does is numbered; what stands in the panel or on the map  *)
(* is the number of the action it belongs to.  A search of two legs asks a *)
(* second time when the first answer is in: an airport for its details, an *)
(* airline for its airports, a route for its one-hop connections.          *)
(*                                                                         *)
(* Abstracted: the contents of answers, the view of the map and its        *)
(* animations, the modal, the suggestion boxes.                            *)
(***************************************************************************)
EXTENDS Naturals

CONSTANT MaxActions    \* bound: numbered actions of the user

ASSUME PageAssumption == MaxActions \in Nat

VARIABLES
  last,      \* number of the user's last action
  open,      \* requests without an answer
  panel,     \* what #op-info shows
  markers,   \* actions with markers in markerLayer
  lines,     \* actions with lines in routeLineLayer
  overtaken, \* history: the actions with a request open when the last one began
  calm       \* history: the user never went on while a request was open

vars == <<last, open, panel, markers, lines, overtaken, calm>>

-----------------------------------------------------------------------------

\* "same" is a route search from an airport to itself, "list" the button of an
\* airline's airports that lists its routes there.
Kinds == {"airport", "airline", "route", "same", "list", "top", "admin", "upload"}

\* The searches that clear the map as they start, and those that say "Loading".
BugClearing == {"airport", "airline", "same", "list"}
Clearing == {"airport", "airline", "route", "same", "list"}
Loading == Kinds \ {"admin"}

Request(n, kind, leg) == [n |-> n, kind |-> kind, leg |-> leg]

\* setInfo: new contents, in which no button is wired.
Says(n, what) == [n |-> n, what |-> what, hops |-> {}, wired |-> 0]

\* innerHTML += ...: the panel is parsed again and its buttons lose their click
\* handlers; with connections to show, all of its buttons get those of action n.
BugWired(n) == [panel EXCEPT !.hops = @ \cup {n}]
Wired(n) == [panel EXCEPT !.hops = @ \cup {n}, !.wired = n]
Unwired == [panel EXCEPT !.wired = 0]

Drawn(ms, ls) == markers' = ms /\ lines' = ls
MapStays == UNCHANGED <<markers, lines>>

\* clearMapOverlays.
BugWiped == Drawn({}, lines)
Wiped == Drawn({}, {})

GoOn == calm' = (calm /\ open = {})

\* The next numbered action.
Act ==
  /\ last < MaxActions
  /\ last' = last + 1
  /\ overtaken' = {q.n : q \in open}
  /\ GoOn

-----------------------------------------------------------------------------
(* The user.                                                               *)

Ask(kind) ==
  /\ Act
  /\ kind = "list" => panel.what = "airline"
  /\ open' = open \cup {Request(last', kind, 1)}
  /\ panel' = IF kind \in Loading THEN Says(last', "loading") ELSE panel
  /\ IF kind \in Clearing THEN Wiped ELSE MapStays

\* An admin button without a code, an upload without a file.
Refuse ==
  /\ Act
  /\ panel' = Says(last', "error")
  /\ UNCHANGED open
  /\ MapStays

BugCleared(n) == panel
Cleared(n) == Says(n, "empty")

ClearMap ==
  /\ Act
  /\ panel' = Cleared(last')
  /\ UNCHANGED open
  /\ Wiped

\* A "Show" button of a one-hop connection draws a connection of the search it
\* is wired to.
ShowHop ==
  /\ panel.hops # {}
  /\ panel.wired # 0
  /\ Drawn({panel.wired}, {panel.wired})
  /\ UNCHANGED <<last, open, panel, overtaken>>
  /\ GoOn

-----------------------------------------------------------------------------
(* Answers.                                                                *)

Is(q, kind, leg) == q.kind = kind /\ q.leg = leg
Closed(q) == open' = open \ {q}
NextLeg(q) == open' = (open \ {q}) \cup {Request(q.n, q.kind, 2)}

\* The request fails; of one-hop connections nobody hears.
BugFailed(q) == IF q.leg = 2 THEN panel ELSE Says(q.n, "error")
Failed(q) == IF Is(q, "route", 2) THEN panel ELSE Says(q.n, "error")

Fail(q) ==
  /\ panel' = Failed(q)
  /\ Closed(q)
  /\ MapStays

BugNothing(q) == panel
Nothing(q) == Says(q.n, "error")

NoneFound(q) ==
  /\ Is(q, "airport", 1) \/ Is(q, "airline", 1)
  /\ panel' = Nothing(q)
  /\ Closed(q)
  /\ MapStays

\* The airport gets its marker; without a code there are no details to ask for.
AirportFound(q) ==
  /\ Is(q, "airport", 1)
  /\ Drawn(markers \cup {q.n}, lines)
  /\ \/ NextLeg(q) /\ UNCHANGED panel
     \/ Closed(q) /\ panel' = Says(q.n, "airport")

AirlineFound(q) ==
  /\ Is(q, "airline", 1)
  /\ NextLeg(q)
  /\ UNCHANGED panel
  /\ MapStays

\* drawRoute clears the lines, not the markers.
RouteFound(q) ==
  /\ Is(q, "route", 1)
  /\ Drawn(markers \cup {q.n}, {q.n})
  /\ panel' = Says(q.n, "route")
  /\ NextLeg(q)

OneHops(q) ==
  /\ Is(q, "route", 2)
  /\ panel' \in {Wired(q.n), Unwired}
  /\ Closed(q)
  /\ MapStays

\* Answers that end a search: they may bring markers, and lines with them.
Details(q) == Is(q, "airport", 2) /\ MapStays
AirportsServed(q) == Is(q, "airline", 2) /\ (MapStays \/ Drawn(markers \cup {q.n}, lines))
SameAirport(q) == Is(q, "same", 1) /\ Drawn(markers \cup {q.n}, lines)
RoutesListed(q) ==
  Is(q, "list", 1) /\ (MapStays \/ Drawn(markers \cup {q.n}, lines \cup {q.n}))
Told(q) == (Is(q, "top", 1) \/ Is(q, "admin", 1)) /\ MapStays
Uploaded(q) == Is(q, "upload", 1) /\ (Wiped \/ Drawn({q.n}, {}))

Result(q) ==
  /\ Details(q) \/ AirportsServed(q) \/ SameAirport(q) \/ RoutesListed(q) \/ Told(q) \/ Uploaded(q)
  /\ panel' = Says(q.n, q.kind)
  /\ Closed(q)

Answer(q) ==
  /\ Fail(q) \/ NoneFound(q) \/ AirportFound(q) \/ AirlineFound(q) \/ RouteFound(q)
       \/ OneHops(q) \/ Result(q)
  /\ UNCHANGED <<last, overtaken, calm>>

-----------------------------------------------------------------------------

Init ==
  /\ last = 0
  /\ open = {}
  /\ panel = Says(0, "empty")
  /\ markers = {}
  /\ lines = {}
  /\ overtaken = {}
  /\ calm = TRUE

Next ==
  \/ \E kind \in Kinds : Ask(kind)
  \/ Refuse
  \/ ClearMap
  \/ ShowHop
  \/ \E q \in open : Answer(q)

\* The server answers every request (ServerWorkers) or the browser reports that
\* it cannot be reached; the user need not do anything.
Spec ==
  /\ Init /\ [][Next]_vars
  /\ \A n \in 1..MaxActions : WF_vars(\E q \in open : q.n = n /\ Answer(q))

-----------------------------------------------------------------------------

Numbers == 0..last

\* Panel, map and requests are of actions taken, and a line never stands without the
\* markers at its ends, whichever answers draw and whatever clears (615, 640).
TypeOK ==
  /\ last \in 0..MaxActions
  /\ open \subseteq [n : 1..last, kind : Kinds, leg : {1, 2}]
  /\ panel \in [n : Numbers, what : Kinds \cup {"empty", "loading", "error"},
                hops : SUBSET Numbers, wired : Numbers]
  /\ markers \subseteq Numbers
  /\ lines \subseteq markers
  /\ overtaken \subseteq Numbers
  /\ calm \in BOOLEAN

\* Nothing leaves the panel at "Loading..." with nobody to replace it, however
\* answers, failures and further actions interleave.
QuietNotLoading == panel.what = "loading" => open # {}

\* "Loading..." is always replaced.
PanelSettles == panel.what = "loading" ~> panel.what # "loading"

\* main.cpp:695, "Search an airport, airplane, route, or top cities above.  The map
\* will zoom to the result and show details here": once the user's last action has
\* written to the panel (an admin button does when it is answered, all others when they
\* are pressed), the panel shows that action, or one whose requests it overtook: what
\* was answered, refused or cleared before does not come back, in whatever order
\* answers arrive.
LastOrOvertaken ==
  (\A q \in open : ~(q.n = last /\ q.kind = "admin")) => panel.n \in {last} \cup overtaken

\* main.cpp:844, "Wire up click handlers to visualize chosen hop on the map": the
\* buttons of the one-hop connections of a search show the connections of that
\* search.
HopsWired == \A n \in panel.hops : panel.wired = n

\* Of the same line: so they do for a user who never overtook a request.
CalmHops == calm => HopsWired

\* All markers and lines on the map are of one action.
OneSearchOnMap == \A m, n \in markers \cup lines : m = n

\* clearMapOverlays (main.cpp:615): so they are for a user who never overtook a request.
CalmMap == calm => OneSearchOnMap
=============================================================================
