-------------------------------- MODULE Pages --------------------------------
(***************************************************************************)
(* One field with its suggestion box and one area that shows answers, on   *)
(* each of the pages that main.cpp serves: /airlines and /airports         *)
(* ("search"), a card of /query ("query"), the fields of the one-page UI   *)
(* ("one-page", whose searches are OnePagePanel's), its reports in a modal *)
(* ("report"), and the sidebar of /tracker ("tracker").                    *)
(*                                                                         *)
(* The box asks the server when the user pauses; the area asks when a      *)
(* search is started.  Any number of requests are under way, and each      *)
(* answer overwrites what is shown.                                        *)
(*                                                                         *)
(* Abstracted: the lengths of the pauses, what answers contain.            *)
(***************************************************************************)
EXTENDS Naturals, FiniteSets

CONSTANTS
  Texts,      \* what a field may hold; the markers and the reports
  Empty,      \* the empty field
  NoText,
  Default,    \* what a card of /query asks for when its field is empty
  MaxAsks,    \* bound: requests for suggestions
  MaxRuns     \* bound: searches, reports and clicks on markers

ASSUME PagesAssumption ==
  /\ {Empty, Default} \subseteq Texts
  /\ NoText \notin Texts
  /\ MaxAsks \in Nat /\ MaxRuns \in Nat \ {0}

VARIABLES
  page,
  text,      \* what the field holds; the marker or the report last picked
  timers,    \* questions that wait for the user to pause
  asked,     \* number of the last request for suggestions
  asks,      \* those without an answer
  box,       \* the suggestion box and the text its list is for
  ran,       \* number of the last search
  runs,      \* those without an answer
  area,      \* what the area, the modal or the sidebar shows
  ready,     \* whether the tracker has its markers
  \* History, for the properties:
  raced,     \* the field or a later answer went ahead of an open question
  late,      \* the answer of a search came after that of a later one
  edited     \* the field changed since the last search

field == <<text, timers, asked, asks, box, raced>>
result == <<ran, runs, area, ready, late, edited>>
vars == <<page, field, result>>

Pages == {"search", "query", "one-page", "report", "tracker"}
HasField == page \in {"search", "query", "one-page"}

-----------------------------------------------------------------------------
(* Searches and their answers.                                             *)

BugWanted(t) == t
Wanted(t) == IF page = "query" /\ t = Empty THEN Default ELSE t
Shows(r, what) == [n |-> r.n, of |-> r.of, what |-> what, shown |-> TRUE]

\* runSearch, load, showModal and setSidebar with "Loading..."; then the request.
BugRun(t) ==
  LET r == [n |-> ran + 1, of |-> Wanted(text)]
  IN  /\ ran < MaxRuns
      /\ ran' = r.n
      /\ runs' = runs \cup {r}
      /\ area' = Shows(r, "loading")
      /\ late' = (late /\ runs # {})
      /\ edited' = FALSE
      /\ UNCHANGED ready
Run(t) ==
  LET r == [n |-> ran + 1, of |-> Wanted(t)]
  IN  /\ ran < MaxRuns
      /\ ran' = r.n
      /\ runs' = runs \cup {r}
      /\ area' = Shows(r, "loading")
      /\ late' = (late /\ runs # {})
      /\ edited' = FALSE
      /\ UNCHANGED ready

BugOutcomes(r) == {Shows(r, "answer"), area}
Outcomes(r) == {Shows(r, "answer"), Shows(r, "error")}

Done(r) ==
  /\ runs' = runs \ {r}
  /\ area' \in Outcomes(r)
  /\ late' = (late \/ (r.n < area.n /\ area.what # "loading"))
  /\ UNCHANGED <<page, field, ran, ready, edited>>

\* The box and Escape close the modal; a request that is under way opens it again.
CloseModal ==
  /\ page = "report"
  /\ area.shown
  /\ area' = [area EXCEPT !.shown = FALSE]
  /\ UNCHANGED <<page, field, ran, runs, ready, late, edited>>

\* /api/map/airports: without an answer the tracker has no markers to click.
Markers ==
  /\ ~ready
  /\ area.what = "empty"
  /\ \/ ready' = TRUE /\ UNCHANGED area
     \/ UNCHANGED ready /\ area' = [area EXCEPT !.what = "error"]
  /\ UNCHANGED <<page, field, ran, runs, late, edited>>

Press(t) ==
  /\ page \in {"report", "tracker"}
  /\ ready
  /\ text' = t
  /\ Run(t)
  /\ UNCHANGED <<page, timers, asked, asks, box, raced>>

-----------------------------------------------------------------------------
(* The field and its box.                                                  *)

\* clearTimeout.
BugCleared == timers
Cleared == {}

\* "input" and "focus" both ask, for what the field holds by then.
Show(t) ==
  /\ HasField
  /\ asked < MaxAsks
  /\ text' = t
  /\ timers' = Cleared \cup {t}
  /\ raced' = FALSE
  /\ edited' = (edited \/ t # text)
  /\ UNCHANGED <<page, asked, asks, box, ran, runs, area, ready, late>>

Pause(t) ==
  /\ asked < MaxAsks
  /\ timers' = timers \ {t}
  /\ asked' = asked + 1
  /\ asks' = asks \cup {[n |-> asked', of |-> t]}
  /\ UNCHANGED <<page, text, box, raced, result>>

Shut == [box EXCEPT !.open = FALSE]

\* A list with items opens the box; one without items empties and closes it; a
\* failure closes it.
Suggest(q) ==
  /\ asks' = asks \ {q}
  /\ box' \in {[n |-> q.n, open |-> TRUE, of |-> q.of], [n |-> q.n, open |-> FALSE, of |-> NoText],
               [Shut EXCEPT !.n = q.n]}
  /\ raced' = (raced \/ q.n < box.n)
  /\ UNCHANGED <<page, text, timers, asked, result>>

ClickAway ==
  /\ box.open
  /\ box' = Shut
  /\ UNCHANGED <<page, text, timers, asked, asks, raced, result>>

\* An item fills the field, without an "input" event; on "search" it also searches.
Choose(t) ==
  /\ box.open
  /\ text' = t
  /\ box' = Shut
  /\ raced' = (raced \/ timers # {} \/ asks # {})
  /\ IF page = "search" THEN Run(t) ELSE edited' = TRUE /\ UNCHANGED <<ran, runs, area, ready, late>>
  /\ UNCHANGED <<page, timers, asked, asks>>

\* Only "search" closes the box.
Submit ==
  /\ page \in {"search", "query"}
  /\ Run(text)
  /\ box' = IF page = "search" THEN Shut ELSE box
  /\ UNCHANGED <<page, text, timers, asked, asks, raced>>

-----------------------------------------------------------------------------

\* A page opened with a query in its address puts it into the field and searches at once.
Init ==
  /\ page \in Pages
  /\ \E t \in Texts :
       LET atOnce == page \in {"search", "query"} /\ t # Empty
           r == [n |-> 1, of |-> t]
       IN  /\ atOnce \/ t = Empty
           /\ text = t
           /\ ran = (IF atOnce THEN 1 ELSE 0)
           /\ runs = (IF atOnce THEN {r} ELSE {})
           /\ area = IF atOnce THEN Shows(r, "loading")
                     ELSE [n |-> 0, of |-> NoText, what |-> "empty", shown |-> page # "report"]
  /\ timers = {} /\ asked = 0 /\ asks = {}
  /\ box = [n |-> 0, open |-> FALSE, of |-> NoText]
  /\ ready = (page # "tracker")
  /\ raced = FALSE /\ late = FALSE /\ edited = FALSE

Next ==
  \/ \E t \in Texts : Press(t) \/ Show(t) \/ Choose(t)
  \/ \E t \in timers : Pause(t)
  \/ \E q \in asks : Suggest(q)
  \/ \E r \in runs : Done(r)
  \/ CloseModal \/ Markers \/ ClickAway \/ Submit

\* The server answers every request or the browser reports that it cannot be reached.
Spec ==
  /\ Init /\ [][Next]_vars
  /\ \A n \in 1..MaxRuns : WF_vars(\E r \in runs : r.n = n /\ Done(r))

-----------------------------------------------------------------------------

Questions(numbers) == [n : numbers, of : Texts]

\* A request for suggestions or a search carries the number of one made so far; on
\* /query no search is for the empty text.
TypeOK ==
  /\ page \in Pages /\ text \in Texts /\ timers \subseteq Texts
  /\ asked \in 0..MaxAsks /\ asks \subseteq Questions(1..asked)
  /\ box \in [n : 0..asked, open : BOOLEAN, of : Texts \cup {NoText}]
  /\ ran \in 0..MaxRuns /\ runs \subseteq Questions(1..ran)
  /\ page = "query" => \A r \in runs : r.of # Empty \/ Default = Empty
  /\ area \in [n : 0..ran, of : Texts \cup {NoText}, shown : BOOLEAN,
              what : {"empty", "loading", "answer", "error"}]
  /\ {ready, raced, late, edited} \subseteq BOOLEAN

\* The debounce (main.cpp:660): when the user pauses and the answers are in, an open
\* box offers suggestions for what the field holds, unless an item was chosen or a
\* later question answered while a question was open.
BoxOffersForText ==
  box.open /\ timers = {} /\ asks = {} /\ ~raced => box.of = text

\* runSearch and its callers (main.cpp:1131, 1156, 1163): when all answers are in, and
\* none came after that of a later search, the area shows what the field holds (the
\* marker or the report last picked), unless the field was changed since.
AreaIsOfField ==
  ran > 0 /\ runs = {} /\ ~late /\ ~edited => area.of = Wanted(text) /\ area.what # "loading"

\* "Loading..." is always replaced, by an answer or by an error (main.cpp:1142).
AreaSettles == area.what = "loading" ~> area.what # "loading"
=============================================================================
