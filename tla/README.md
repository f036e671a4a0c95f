# Air Travel Database in TLA+

This directory specifies `src/main.cpp`, the C++ web application that serves the
OpenFlights data: what its handlers do to the in-memory store, what the store
promises to the pages that use it, and what happens when several of them are at
work. TLC checks the specifications on small instances; TLAPS proves the main
results for all values of the constants. `PROJECT.json` is the index: components,
runs, mutants, the lines each definition stands for, findings, hazards, theorems.

Paths below are relative to the repository; line numbers are those of
`src/main.cpp`.

## 1. Inventory

| Component | State | Operations | Interacts with |
|---|---|---|---|
| Airport store (`Database`, 123-294) | `airports_by_id`, `airports_by_iata` (full copies of each airport), `airports_by_icao` (vectors of copies), `routes`, `next_upload_id`, the airlines | `add_airport` 136, `remove_airport_by_iata` 156, `redact_airport` 184, lookups 280 | called by every handler, shared by all worker threads |
| Start (`load_*` 203-278, `main` 298-323) | the store | load three files from `data/`, on failure again from `.` | files; leaves the store's first state |
| CSV parsing (62-106) | none | `trim`, `parse_csv_line`, `safe_stoi`, `safe_stod` | start and upload |
| Upload handler (1815-1862) | the rows left | one `add_airport` per accepted row | store; one-page UI |
| Admin handlers (1914-1994) | none | save (read, merge, `add_airport`), delete, redact | store; one-page UI |
| Worker threads (2164; Crow `http_server.h`) | a queue of connections per worker | run handlers, one at a time per worker | every handler |
| Route queries (1509-1726, 1865-1911, 2068-2092) | none | rank cities, airlines, airports; one-hop connections | read the store |
| Lookups, searches, suggestions, reports (1391-1506, 1569-1590, 1729-1812, 1997-2065) | none | scans with caps, lookups by code | read the store |
| One-page UI (490-1094) | results panel, marker and line layers, modal, open requests | searches, top N, clear map, admin buttons, upload, one-hop and airline routes | asks the APIs; answers arrive in any order |
| Suggestion boxes (655-680, 1144-1159) | a timer, the box | debounce, ask, show, choose | suggestion APIs |
| Tracker and smaller pages (1097-1388, 2095-2162) | panel or sidebar | fetch and show | APIs |
| Crow, Asio (vendored), scripts, deployment files | | | `fly.toml` gives one cpu and stops the idle machine |

What is hard, and what would make each component correct:

* **Store.** Each airport exists up to three times by value, so each operation has
  to keep the copies in step; ids come from a counter and codes from users, from the
  data files and from a generator. Correct means: lookups and searches agree; a code
  names one airport for good; ids are never reused; a delete leaves nothing behind.
* **Worker threads.** All handlers share the store and none takes a lock. With one
  worker a handler is atomic; with more, statements interleave. Correct means: an
  interleaving is equivalent to running the handlers one after the other, and every
  request is answered.
* **Start.** A load that fails half-way is followed by one from another directory on
  top of what was loaded. Correct means: the store comes from one directory.
* **CSV parsing.** Quotes, `\N`, carriage returns and headers. Correct means: the
  fields are those of the CSV reading of the line.
* **Queries.** Rankings cut at a limit, with ties and with ids no airport has. Correct
  means: the answer is a prefix of a ranking of what the store holds.
* **One-page UI, suggestion boxes, tracker.** Answers overtake each other, the user
  clicks on while requests run, and event handlers outlive the rows they were made
  for. Correct means: once all is quiet, the page shows the last thing asked for.
* **Restart.** The machine stops when idle (`fly.toml`) and the changes in memory are
  gone. Nothing is persisted, so nothing is recovered: a restart is `Loader` again.

The hazards, line by line, are in `PROJECT.json` under `hazards`.

## 2. Plan

1. `AirportData`, `AirTravelDb`: the store and the handlers that change it (done).
2. `AirportRegistry`: what the store promises, as an abstract specification; the
   store implements it (done, checked and proved).
3. `ServerWorkers`: the same handlers statement by statement under worker threads;
   with one worker they implement `AirTravelDb` (done, checked; the refinement proved).
4. `OnePagePanel`: results panel and map layers under overlapping requests; what
   holds for every user and what for one who waits (done, checked; safety proved).
5. `Loader`: the three loads and the two directories, as actions on the files; the
   store it leaves is the one `AirTravelDb` starts from (done, checked; safety proved).
6. `CsvUpload`: the reading loop of the upload, character by character, against a
   definition of fields and rows without a loop (done, checked; the two readings proved
   equal, and that a written table comes in as it was).
7. `RouteQueries`: rankings, one-hop search, searches and suggestions as the sets of
   answers they may give, over all small stores (done, checked; proved for any store).
8. `Pages`: the field with its debounced box and the area that shows answers, on each of
   the smaller pages, the reports' modal and the tracker (done, checked; safety proved).

Each proof is in a module of its own, named after the module it is about; `Positions` has
the one list operator that both queries and the CSV reader are stated with, and
`PositionsProofs` what it keeps. Every safety property that a passing run checks is the
statement of a theorem.

## 3. What is modelled

### AirportData
Records (`Airport`, `Route`, a row of an upload), the constants that stand for the data
files and for what users type, and the small operators the handlers share. Codes, texts
and positions are opaque values; `Upper` is `toupper` on codes and `GeneratedCode(n)` is
`"U" + to_string(n)`. The assumptions say what holds of the shipped files: ids are not
negative, ids and non-empty codes are unique. `GeneratedApart` says that nobody types a
generated code. It is not an assumption of the module: nothing in the code ensures it,
and properties that need it name it.

### AirTravelDb
`airports_by_id`, `airports_by_iata`, `routes` and `next_upload_id` are the fields of
`Database`. `airports_by_icao` is one bag of copies: each copy carries its ICAO code and
the order within a vector is never read. `pending` holds the rows that a running upload
has still to add. The routes are a set; handlers only remove from them.

| Action | Code |
|---|---|
| `UploadBegin`, `UploadRow` | the upload handler, one `add_airport` per step |
| `AdminSave` | the save handler: copy of what exists, given texts, `add_airport` |
| `AdminDelete` | `remove_airport_by_iata` or 404 |
| `AdminRedact` | `redact_airport` or 404 |

No other handler runs while an upload has rows left: this is the server with one worker.

### AirportRegistry
A set of airports, the routes and the ids used so far; `Register`, `Overwrite`, `Remove`.
It knows no index. `AirTravelDb` maps `airports` to the range of `airports_by_id` and
`used` to the loaded ids and those the counter has passed.

### ServerWorkers
Each worker has a queue of requests, a program counter, the request it serves and the
local variable `a` of its handler. A step is one access to a container of the store;
`next_upload_id--` is a read and a write. `settled` is a history variable: the store as
the last finished operation left it, which is what the refinement to `AirTravelDb` maps.
With more than one worker the accesses are data races and the language allows anything.
The module gives them the mildest outcome (each access takes effect at once), so the
violations it shows are real ones, and the project claims no property for more than one
worker.

### OnePagePanel
The panel (`#op-info`), the two layers of the map and the open requests of the page that
`/` serves. What the user does is numbered, and what stands in the panel or on the map is
the number of the action it belongs to; the contents of answers are left out.

| State | Code |
|---|---|
| `last` | number of the last search, button or refusal |
| `open` | promises of `fetch` without an outcome; `leg` 2 is the second request of a search |
| `panel` | what `setInfo` wrote last, the connections appended to it (`hops`), and whose click handlers their buttons have (`wired`, 0 for none) |
| `markers`, `lines` | the actions with something in `markerLayer`, `routeLineLayer`; `Wiped` is `clearMapOverlays` |

`Ask` is the start of each search (what it clears, whether it says "Loading..."); `Fail`
is its `catch`; the other answers have an action per handler, named in the module.
`innerHTML +=` parses the panel again, so handlers of buttons already there are lost:
`Wired` and `Unwired`. Markers and lines are cleared and drawn in different places; `TypeOK`
says that no line stands without the markers of its action. Two history variables: `overtaken`
are the actions that had a request open when the last one began, and bounds what the panel may
show, for every user (`LastOrOvertaken`); `calm` says that the user never went on while a
request was open, the condition of what holds of hop buttons and map.

### Pages
One field with its box and one area, on the page chosen at the start: `/airlines` or
`/airports`, a card of `/query`, the one-page fields, the reports, the tracker. The pages
repeat the same script with small differences, and the module has each of them as a guard:
choosing an item searches on `/airlines` and `/airports` only; only their form closes the
box; an empty field of `/query` asks for a default; the modal can be closed and an answer
opens it again; the tracker has nothing to click until the markers are there.

| State | Code |
|---|---|
| `text` | `input.value`; the marker or the report last picked |
| `timers` | callbacks of `setTimeout` not yet run, by the text they will ask about; `clearTimeout` keeps it at one |
| `asks`, `runs` | promises of `fetch` without an outcome, numbered |
| `box`, `area` | the suggestion list and the answer area, with the question they stand for |
| `ready` | whether `/api/map/airports` was answered |

`raced`, `late` and `edited` are history variables: what the user or the network did that
the code makes no promise about. The properties hold whenever they are false. The search that
the address asks for when a page is loaded counts as one for the text in the field.

### Positions
`At(s, positions)`: the entries of a list at some positions, in their order, which is what a
loop with a condition leaves (`if (...) out.push_back(...)`). It is written without
recursion, so that proofs can use it.

### CsvUpload
`Character` is one turn of the loop of `parse_csv_line`, `EndOfLine` the rest of the turn
of the `while (std::getline...)` loop of the upload handler: the size test, the header test
and the row that `add_airport` gets. A line is a sequence of tokens (quote, comma, carriage
return, blank, `\N`, words). `FieldsRead` and `LinesRead` say without a loop what the fields
and rows of a text are: which separators end a field, which characters are in the k-th one,
which lines are long enough; `At` picks them out. `Written` is what a spreadsheet program
makes of a table, `RowsOf` the airports the table stands for: `Meant` is a value without the
blanks around it, and none for `\N`.

### RouteQueries
The store is chosen at the start and a query is one step: `request` is what was asked,
`answer` what is listed. A query is the set of answers it may give: `std::sort` leaves
ties in any order and a hash map is listed in any order. Each limit is a constant. A
filtered list is `At` the positions that pass.

Names, cities and countries are the sets of texts they contain and start with; codes are
texts with a size, a case, parts and beginnings. `Raised` is the handlers' habit of putting a
code into upper case only if it has the size of one (1399, 1438, 1512, 1542, 1596, 1698, 2052;
each with its own sizes), `Lookup` the whole of `/api/airport`. `Preferred` is the page's choice
among the results of a search, `PickedAirline` and `PickedAirport` what it compares (705-709,
741-750): the first result with the code if there are several and the text has at most three
characters, else the first one. So for a longer code, such as the `U100` that an upload
generates, the page takes the first of several results, and the properties promise nothing
then (`Decided`). `AnyCode` is the code an airport goes by where it has no IATA code.

### Loader
`dir` is `data_dir`, `stage` the load that runs next: `load_all` is a chain of `&&` and a
load that returns false ends the try. A file is the sequence of records its lines give.
`Merged` is `map[key] = row` over the rows; `routes.push_back` appends. Nothing is undone
between the two tries, so the second one starts from what the first one left.

## 4. Runs

| Run | Configuration | Shows |
|---|---|---|
| `store` | `AirTravelDb.cfg` | the maps agree, ICAO copies and routes never outlive their airport, deleted ids stay deleted, only an upload moves an airport; here users type everything, generated and lower-case codes included |
| `store_codes_apart` | `AirTravelDbApart.cfg` | when nobody types a generated code: a code names one airport, keeps its id, and the store implements the registry |
| `one_worker` | `ServerWorkers.cfg` | one worker makes handlers atomic (refinement of `AirTravelDb`), a code names one airport once its handlers have returned, and every request is answered |
| `one_page` | `OnePagePanel.cfg` | four overlapping actions: "Loading..." always has a request behind it and goes away; the panel shows the last action or one it overtook, nothing older; no line stands on the map without its markers; for a user who overtook no request, Show buttons and map belong to one action |
| `pages` | `Pages.cfg` | on each page, an open box ends up with suggestions for the field, the area with the answer for it, "Loading..." goes away |
| `upload_file` | `CsvUpload.cfg` | at every character the loop has the fields of what it read; at every line the rows; tables written in four styles come in as they were |
| `queries` | `RouteQueries.cfg` | rankings are best-first and cut at the right end, the numbers agree with the lists behind them, one-hop connections are the shortest, exact short codes are picked unless results were cut, suggestions lead to what they stand for; codes are in any case and of three or four characters |
| `start` | `Loader.cfg` | 27 states of each directory (each file absent, empty or filled): one complete directory suffices, no route is loaded twice, the start ends, and the store is the one `AirTravelDb` assumes |

Runs that end in a violation show where the code departs from its own comments
(`findings` in `PROJECT.json`):

| Run | Departs from | How |
|---|---|---|
| `routes_after_delete` | 156 "remove any routes that touch it" | routes are matched by id, and many carry 0 or another id |
| `two_workers_code` | 136 "overwrite (no duplicate)" | two uploads look the code up before either inserts it |
| `hop_buttons` | 844 "Wire up click handlers to visualize chosen hop" | two route searches append their connections to one panel |
| `short_code` | 741 "prefer exact IATA match when multiple results" | results are cut before the page looks for the code; a code in lower case is not matched as a code |

Each of these runs checks one property. Other departures follow from properties that the
passing runs check only under a condition; without it TLC finds them in the same models:
`OneAirportPerCode` when users type generated codes (the constants of `AirTravelDb.cfg`:
the code `U2` uploaded first meets the one generated for the second row, against 136);
`LastOrOvertaken` without `overtaken` (an earlier search answers last and takes over the panel,
against 695); the lookup of `SuggestionLeadsThere` for airports without an IATA code (the
search finds them by ICAO code, 1790, the page goes on with that code, 708 and 716, and
`/api/airport` knows IATA codes only, 2053: "Request failed." for 1625 of the 7698 airports of
`data/airports.dat`, against `README.md` 8 "Search by name, city, or IATA/ICAO code"); with two
workers, two uploads that read the id
counter before either steps it, against 132 "-1, -2, -3, ...".

Read in the models and stated by no comment, so without a run: a save of a loaded airport
files a further copy under its ICAO code (144); an airport uploaded under a lower-case code
is out of reach of the admin handlers and of lookups (1840, 1929, 2052); a code of four or more
characters is not preferred among several results (709, 742); when the start falls back to `.`, the
airports and airlines of `data/` stay (313); with two workers, a redaction may write a
deleted airport back into one map (194); with CR LF, a row one value short is taken, the
carriage return being its last field (77); `/api/map/airports` lists fewer than its limit
when ids without an airport rank high (2085); a route from an airport to itself counts
twice in `airline_airports` and once elsewhere (1703); a box that was closed by choosing
opens again when an earlier question is answered late (671).

**Bounds.** `MaxUploads` (ids handed out) is 2, `MaxRows` (rows of an upload) 2,
`MaxCopies` (different copies, and equal copies of one airport, in `airports_by_icao` before
a save is refused) 4. Two new ids let a generated code
meet a typed one, one upload follow another, and an id be given out after one was
deleted; deletes, redactions and saves are unbounded. The store has an airport with an
ICAO code, one without, and one without an IATA code; its routes have matching ids, the
unknown id 0 next to a known code, and an id no airport has. In `ServerWorkers` the
bounds are `MaxRequests` (3 with one worker, where each branch of each handler is met after
each other handler; 2 with two workers, which is all a race needs) and `MaxRequestRows` (2
rows of one file: one that is followed by another). `MaxUploads` has room for the rows of
all requests, so that no handler meets a bound half-way.
When all requests are sent and answered the server waits, hence `CHECK_DEADLOCK FALSE`.

`MaxActions` of `OnePagePanel` is 4: a list of routes or a second route search needs one
action before it, a third one overtakes both, and one that overtakes nothing follows. `MaxActions` also
ends those runs, hence `CHECK_DEADLOCK FALSE`; so does `Loader`, whose program serves or
has exited, `CsvUpload`, whose file ends, and `Pages`. The directories of `MCLoader` give the
same id and the same code to different airports, and have an airport without an IATA code,
one without an ICAO code, and two airlines with one code.

`Pages`: three questions of the box (two to overtake each other and one to start afresh) and
two searches. `CsvUpload`: rows need 3 fields instead of 6; every line of up to five of
{quote, comma, CR, word} alone and of up to four before a good line, so that a quote can be
left open at the end of a line, and tables of one or two rows. `RouteQueries`: every bag of
up to four of ten routes (two airlines, two ways between two airports, a loop, a stop, ends
without id, code or airport) over five airports and four airlines; and, for searches,
suggestions and lookups, stores of at most one route with codes as uploads may leave them: `EEE`
beside `eee`, `AI` beside `ai`, and codes of four characters, one of them also in a name of
another airport and one not. The limits 10, 50, 60,
100, 200, 300, 500 and 600 become 1 to 4, so that each of them cuts.

**Fairness.** `ServerWorkers`: `WF_vars(Step(w))` for each worker. A worker is a thread
in `io_context::run` (Crow, `http_server.h` 176-191) that the system schedules; no handler
waits for another, and a handler's step, once enabled, stays so. Clients need not send
anything. `OnePagePanel`: weak fairness of the answers to each action's requests, since
the server answers each one (`one_worker`) or the browser reports that it cannot be
reached; the user has no fairness. `Pages`: the same for its searches; timers and
suggestions need none. `Loader`: `WF_vars(Next)`, the program runs on.

**Mutants.** The operators named `Bug...` put a mistake into the operator below
them (a map that is not written, a counter that goes the wrong way, a lookup that is
left out, a 404 that is never sent); each property fails for one of them.

## 5. Proofs

TLAPS proves each theorem for every value of the constants that satisfies the assumptions
below: any data files, requests, texts and number of actions. For each component an inductive
invariant `Inv` is proved first (`Invariant`, `OneWorkerInvariant`); TLC checked each of them on the
instance of its run before (that of `RouteQueries` on stores of up to two routes).

**AirTravelDbProofs**, for every upload and every sequence of requests:
`TypeCorrect`, `MapsAgree` (`IataLeadsToId`), `NoCopyOutlivesItsAirport`
(`IcaoCopiesLive`), `NoRouteToADeletedId` (`RouteEndsKnown`), `NoIdComesBack`
(`DeletedIdStaysDeleted`), `OnlyUploadsMove` (`PositionSurvivesSave`).

None of the invariants is inductive alone. `Inv` adds `IdsIssued`: an airport is filed
under its own id, and that id is above the counter. Without it a new airport could get an
id that is in use and then the two maps would part. The argument goes in two stages:
every handler has one of four effects (`Effect`: nothing, an airport written under a new
id, one written under the id its code has, one removed: lemmas `UploadRowEffect`,
`SaveEffect`, `StepEffect`), and each effect keeps `Inv` (`WrittenInv`, `RemovedInv`).

Its last part assumes `GeneratedApart` in each theorem and proves `OneCodeOneAirport`
(`OneAirportPerCode`), `CodesKeepIds` (`CodeKeepsItsId`) and `StoreImplementsRegistry`
(`ImplementsRegistry`). `ApartInv` adds that no code the counter has still to generate is
in use. The assumption is needed: with the constants of `AirTravelDb.cfg` TLC finds
`OneAirportPerCode` violated. `RegistryKeepsItsPromise` is about the abstract side alone:
the registry's actions keep `Promise`, so what the store implements is worth implementing.

**ServerWorkersProofs**, for a server with one worker (`Workers = {TheWorker}`):
`OneWorkerIsAtomic` (`ImplementsAirTravelDb`): the handlers, statement by statement,
implement the atomic ones. `Inv` has three parts. `Control`: which request is served at
which statement, and that requests sent are those answered, queued and served. `Progress`:
at each statement, what the local variable `a` holds and which containers the handler has
already written, in terms of the store that the last operation left. `Counted`: ids and
ICAO copies are at most what the requests so far account for; without it a step could map
to one that a bound of `AirTravelDb` forbids. Each statement has a lemma (`FindInv`,
`WriteIdInv`, ...); the statements that end an operation are steps of `AirTravelDb`
(`SeenAsBegin`, `SeenAsAdd`, `SeenAsDelete`, `SeenAsRedact`), all others stutter.
`OneWorkerKeepsCodesApart` takes over what `AirTravelDbProofs` has proved: with
`GeneratedApart` such a server keeps `NoDuplicateCode`, the comment of line 136 that the run
`two_workers_code` refutes for two workers. The lemma `OneWorkerIsProved` says that such a
server is a store of `AirTravelDbProofs`, so what is proved there holds of it:
`OneWorkerKeepsTheStore` (the invariants and action properties that need nothing of the
codes) and, with `GeneratedApart`, `OneWorkerImplementsRegistry`: statements without locks
implement `AirportRegistry`, by way of `AirTravelDb`.

**OnePagePanelProofs**, for any number of actions:

* `TypeCorrect` (and with it that lines have their markers) and `NothingHangs`
  (`QuietNotLoading`) for every user. The invariant adds `LoadingAsked`: a panel at "Loading..."
  belongs to an open request of the same action, and not to a one-hop request, whose failure
  writes nothing. "Some request is open" alone is not inductive: that request could be the
  one-hop request of an earlier search.
* `OldResultsGone` (`LastOrOvertaken`), also for every user: `RecentInv` adds that each open
  request is of the last action or of one it overtook, since only open requests write.
* `OwnHopsWired` (`CalmHops`) and `MapOfOneAction` (`CalmMap`), for a user who overtook no
  request so far: `Alone` says that at most one request is open and that it is the last
  action's, `Tidy` that what a search cleared is still clear and that connections are appended
  to a panel that has none. The run `hop_buttons` shows that the condition is needed.

**PagesProofs**, for any number of questions and searches: `TypeCorrect`, `BoxIsOfField`
(`BoxOffersForText`) and `AreaShowsLast` (`AreaIsOfField`). The properties speak of a page
where nothing is outstanding; the invariant has to say what leads there. `BoxAnswersLast`:
unless an answer or the field went ahead of a question, a waiting timer is for what the
field holds, and once none waits the last question is open or the box is as its answer left
it. `AreaAnswersLast` is the same for searches. Both need that no two open requests have one
number.

**LoaderProofs**, for any two directories: `TypeCorrect`, `OneDirectory`
(`RoutesOfOneDirectory`), `CompleteIsServed` (`CompleteSuffices`) and `StartsAsAirTravelDb`
(`StoreAsInAirTravelDb`). `Progress` says which kinds are in the store at each stage, that
there are no routes before the last load, and that a directory that was left was
incomplete; `StoreInv` that the airports are those of one file as long as one file was
read. The maps come from loops that overwrite: the lemma `MergedMap` says which keys
`Merged` has and that each of its entries is filed under its own key.

**RouteQueriesProofs**, for any store, any limits and any order of hash maps and ties:
`TypeCorrect`, `CitiesAreBest` (`TopCitiesAreBest`), `ServedFirst` (`ServedAreBest`),
`CountsMatch` (`CountsAgree`), `MapShowsTop` (`MapIsTop`), `HopsAreShortest`
(`OneHopsAreShortest`), `CodePicked` (`ExactCodePicked`), `SuggestionFound`
(`SuggestionLeadsThere`). Three of them follow the code's own conditions: it raises codes by
their size, so numbers and lookups are compared for upper-case codes, and it looks for the exact
code only if the text has at most three characters, so a pick is promised for those and for a
single result (`PickExact`, `AirlinePicked`, `AirportPicked`, `SuggestionBest`). That the search
for a suggestion finds what it stands for needs neither. A query is one step, so `Inv` only says that the answer is one the
store gives to the request (`OfStore`, `Answered`). The work is in lemmas about lists: what
a cut and a filter keep (`CutEntries`, `Kept`), that nothing left out of a cut ranking
outranks what is in it (`CutBest`, `KeptBest`), and how many entries two listings of one set
have (`SameSize`).

**CsvUploadProofs**, for any file: `TypeCorrect`, `FieldsAsRead` (`ScanAsRead`) and
`RowsAsRead` (`AddedAsRead`). `Reading` says that the loop has in hand the complete fields,
the characters of the last one and the parity of quotes of what it read; `FirstAsRead` that
`first` is true as long as no line was long enough. `OneMore` says how fields, last field and
parity change when a text gets one character longer, `LinesMore` the same for a file and a
line. This is an induction over the file that the loop itself carries out. `TablesComeIn`
(`TableComesIn`) is about a file that was written from a table. `WrittenRow` is a recursive
function over the values of a row; `UpToExists` shows that there is one. `ReadsText` follows
the loop over characters that end no field, `ReadsQuoted` over a value with or without its
quotes, `ReadsRow` from value to value, `EndOfRow` over the carriage return, each by the
least number for which it fails. `ValueMeant` says that `trim` leaves of a value what it
stands for, `WrittenTable` puts the rows together. Two details of the code matter here: a
`\N` inside a longer value belongs to it (78 compares the whole field), and an empty row
with CR LF has two fields, so more than two must be needed. **PositionsProofs** has the
lemmas on `At`, for lists, for lists that grow, for two lists and for a part without gaps
(`Kept`, `KeptMore`, `KeptAlike`, `KeptBetween`), and the least and greatest elements of
sets of numbers they rest on.

**Assumptions**, which TLC evaluates in every run of their modules:

* of `AirportData` and `AirTravelDb`: `CodeAssumption`, `DataAssumption`, `LoadAssumption`,
  `BoundAssumption`, `RowBoundAssumption` (types of the data; ids and non-empty codes of a
  data file are unique, as in the shipped ones);
* of `ServerWorkers`: `RequestAssumption` (requests are uploads, saves, deletes and
  redactions; `MaxUploads` has room for their rows), `FiniteAssumption` (finitely many
  airports are loaded);
* of `Loader`: `DiskAssumption`, `FileAssumption` (one file has no id or code twice);
* of `CsvUpload`: `CsvAssumption` (lines are sequences of tokens; more than two fields are
  needed, the code asks for six; table values have no quote and no carriage return);
* of `RouteQueries`: `LimitAssumption`, `StoreAssumption` (what `OneCodeOneAirport` and
  `MapsAgree` say of the store), `DistanceAssumption`, and `TextAssumption` (`tolower` undoes
  `toupper`, and a text is a part of itself). Nothing is assumed of the case or the size of
  stored codes: `airlines.dat` has `8z`, and an upload keeps lower case. An airport whose
  stored code of three characters is in lower case is found by the search but not by the
  lookup (2052), which `SuggestionLeadsThere` therefore promises for upper-case codes only;
* of `OnePagePanel` and `Pages`: `PageAssumption`, `PagesAssumption` (bounds are numbers; the
  empty text is a text).

The bounds are arbitrary numbers in the proofs.

**Only model-checked**: the liveness properties `EveryRequestAnswered`, `PanelSettles`,
`AreaSettles` and `StartEnds`, since the prover does not reason about `ENABLED`, which
fairness is defined with.

## 6. What is not modelled

* Distance (`haversine_miles`, `/api/distance`): floating-point trigonometry; `RouteQueries`
  takes the distance of two positions as an opaque number.
* `safe_stoi`, `safe_stod`: the conversion of digits. Only the default they fall back to is
  in the models (the route id 0).
* The lookup of an airline by code (2031): no page asks it. `getcode`, `getid`: constant
  answers.
* Text layout, logging (`debug.log`), styles; in the one-page UI the view of the map (`flyTo`
  and its `moveend` callbacks) and the filter inside the modal's table.
* A restart: nothing is persisted, so there is nothing to recover.
* Readers next to writers with several workers (281): undefined behaviour, any outcome.
* Download scripts and deployment files.
* Crow, Asio and the other headers under `vcpkg_installed/`: 98% of the lines of C++ in
  the repository, third-party, and used by this program only through the worker loop that
  `ServerWorkers` models. The program's own code is the 2166 lines of `main.cpp`, several
  hundred of which are styles and markup.
