---------------------------- MODULE ServerWorkers ----------------------------
(***************************************************************************)
(* The store of AirTravelDb under the worker threads of the web server.    *)
(* Crow hands each connection to one worker, which runs its handlers one   *)
(* after the other; app.multithreaded() (main.cpp:2164) starts as many     *)
(* workers as the machine has cores, less one, and at least one.  The      *)
(* handlers share the store and take no lock, so their statements          *)
(* interleave: a step here is one access to a container of the store.      *)
(*                                                                         *)
(* With one worker this module implements AirTravelDb, where a handler is  *)
(* one step.  With more the accesses are data races; of the outcomes the   *)
(* language allows only the mildest is modelled, in which each access      *)
(* takes effect at once.  So what is violated here is violated by the      *)
(* program, and nothing is claimed to hold for more than one worker.       *)
(***************************************************************************)
EXTENDS AirportData, Sequences, Bags, FiniteSets

CONSTANTS
  Workers,
  Requests,          \* the requests clients may send
  MaxRequests,       \* bound: requests sent
  MaxRequestRows     \* bound: rows of one uploaded file

Uploads == [op : {"upload"}, rows : Seq(UploadRows)]
Saves == [op : {"save"}, code : TypedCodes, given : UNION {[fs -> Texts] : fs \in SUBSET Fields}]
Deletes == [op : {"delete"}, code : Codes]
Redactions == [op : {"redact"}, code : Codes, fields : SUBSET Fields]

ASSUME RequestAssumption ==
  /\ \A q \in Requests : \/ q \in Uploads /\ Len(q.rows) <= MaxRequestRows
                         \/ q \in Saves \/ q \in Deletes \/ q \in Redactions
  /\ MaxRequests \in Nat /\ MaxRequestRows \in Nat \ {0}
  /\ MaxRequests * MaxRequestRows <= MaxUploads

ASSUME FiniteAssumption == IsFiniteSet(LoadedAirports)

VARIABLES
  airports_by_id, airports_by_iata, airports_by_icao, routes, next_upload_id,
  queue,      \* worker -> requests on its connections, in order of arrival
  pc,         \* worker -> the statement it is at
  job,        \* worker -> the request it serves; of an upload, the rows left
  a,          \* worker -> the local variable a of its handler
  sent, answered,
  settled     \* history: the store as the last finished operation left it

store == <<airports_by_id, airports_by_iata, airports_by_icao, routes, next_upload_id>>
server == <<queue, sent>>
vars == <<store, server, pc, job, a, answered, settled>>

Idle == [op |-> "none"]

-----------------------------------------------------------------------------
(* Steps of a worker.  At is the statement, Goto the one it leaves for.    *)

At(w, label) == pc[w] = label
Goto(w, label) == pc' = [pc EXCEPT ![w] = label]

\* An operation on the store ends.
Settle == settled' = store'

\* The handler returns: its response is written and the worker is free.
Answer(w) ==
  /\ Goto(w, "idle")
  /\ answered' = answered + 1
  /\ job' = [job EXCEPT ![w] = Idle]
  /\ a' = [a EXCEPT ![w] = Blank(NoCode)]

\* The code the request names is in no map: 404.
BugNotFound(w) ==
  Goto(w, "idle") /\ job' = [job EXCEPT ![w] = Idle] /\ UNCHANGED <<a, answered>>
NotFound(w) == Answer(w)

Local(w, label) == Goto(w, label) /\ UNCHANGED <<job, answered>>

Code(w) == Upper[job[w].code]

\* add_airport returns: the upload goes on to its next row, a save answers.
RowsLeft(w) == [job EXCEPT ![w].rows = Tail(@)]
AddReturns(w) ==
  IF job[w].op = "upload"
  THEN Goto(w, "next_row") /\ job' = RowsLeft(w) /\ UNCHANGED <<a, answered>>
  ELSE Answer(w)

Receive ==
  /\ sent < MaxRequests
  /\ \E w \in Workers, q \in Requests : queue' = [queue EXCEPT ![w] = Append(@, q)]
  /\ sent' = sent + 1
  /\ UNCHANGED <<store, pc, job, a, answered, settled>>

\* io_context::run takes the next request of its connections.
Take(w) ==
  /\ At(w, "idle")
  /\ queue[w] # <<>>
  /\ queue' = [queue EXCEPT ![w] = Tail(@)]
  /\ LET q == Head(queue[w])
     IN  /\ job' = [job EXCEPT ![w] = q]
         /\ Goto(w, CASE q.op = "upload" -> "next_row"
                      [] q.op = "save"   -> "copy_existing"
                      [] q.op = "delete" -> "find_deleted"
                      [] q.op = "redact" -> "copy_redacted")
  /\ UNCHANGED <<store, sent, a, answered, settled>>

-----------------------------------------------------------------------------
(* Upload and save, and add_airport, which both call.                      *)

NextRow(w) ==
  /\ At(w, "next_row")
  /\ IF job[w].rows = <<>>
     THEN Answer(w)
     ELSE Local(w, "find") /\ a' = [a EXCEPT ![w] = AirportOfRow(Head(job[w].rows))]
  /\ UNCHANGED <<store, server, settled>>

CopyExisting(w) ==
  /\ At(w, "copy_existing")
  /\ LET iata == Code(w)
         base == IF iata \in DOMAIN airports_by_iata THEN airports_by_iata[iata] ELSE Blank(iata)
     IN  a' = [a EXCEPT ![w] = [base EXCEPT !.iata = iata, !.text = Given(base, job[w].given)]]
  /\ Local(w, "find")
  /\ UNCHANGED <<store, server, settled>>

\* The code is looked up once; what follows relies on the answer.
Find(w) ==
  /\ At(w, "find")
  /\ IF a[w].iata # NoCode /\ a[w].iata \in DOMAIN airports_by_iata
     THEN Local(w, "write_id") /\ a' = [a EXCEPT ![w].id = airports_by_iata[a[w].iata].id]
     ELSE Local(w, "take_id") /\ UNCHANGED a
  /\ UNCHANGED <<store, server, settled>>

\* a.id = next_upload_id--: the counter is read, and written back in a step of
\* its own.
TakeId(w) ==
  /\ At(w, "take_id")
  /\ a' = [a EXCEPT ![w].id = next_upload_id,
                    ![w].iata = IF @ = NoCode THEN GeneratedCode(-next_upload_id) ELSE @]
  /\ Local(w, "step_id")
  /\ UNCHANGED <<store, server, settled>>

StepId(w) ==
  /\ At(w, "step_id")
  /\ next_upload_id' = a[w].id - 1
  /\ Local(w, "write_id")
  /\ UNCHANGED <<airports_by_id, airports_by_iata, airports_by_icao, routes, server, a, settled>>

WriteId(w) ==
  /\ At(w, "write_id")
  /\ airports_by_id' = Put(airports_by_id, a[w].id, a[w])
  /\ Local(w, "write_iata")
  /\ UNCHANGED <<airports_by_iata, airports_by_icao, routes, next_upload_id, server, a, settled>>

WriteIata(w) ==
  /\ At(w, "write_iata")
  /\ airports_by_iata' = Put(airports_by_iata, a[w].iata, a[w])
  /\ Local(w, "write_icao")
  /\ UNCHANGED <<airports_by_id, airports_by_icao, routes, next_upload_id, server, a, settled>>

WriteIcao(w) ==
  /\ At(w, "write_icao")
  /\ airports_by_icao' =
       IF a[w].icao = NoIcao THEN airports_by_icao ELSE airports_by_icao (+) SetToBag({a[w]})
  /\ AddReturns(w)
  /\ UNCHANGED <<airports_by_id, airports_by_iata, routes, next_upload_id, server>>
  /\ Settle

-----------------------------------------------------------------------------
(* Delete: remove_airport_by_iata, or its 404.                             *)

FindDeleted(w) ==
  /\ At(w, "find_deleted")
  /\ IF Code(w) \in DOMAIN airports_by_iata
     THEN Local(w, "erase_iata") /\ a' = [a EXCEPT ![w] = airports_by_iata[Code(w)]]
     ELSE NotFound(w)
  /\ UNCHANGED <<store, server, settled>>

EraseIata(w) ==
  /\ At(w, "erase_iata")
  /\ airports_by_iata' = Restrict(airports_by_iata, DOMAIN airports_by_iata \ {Code(w)})
  /\ Local(w, "erase_id")
  /\ UNCHANGED <<airports_by_id, airports_by_icao, routes, next_upload_id, server, a, settled>>

BugEraseId(w) ==
  /\ At(w, "erase_id")
  /\ Local(w, "erase_icao")
  /\ UNCHANGED <<store, server, a, settled>>
EraseId(w) ==
  /\ At(w, "erase_id")
  /\ airports_by_id' = Restrict(airports_by_id, DOMAIN airports_by_id \ {a[w].id})
  /\ Local(w, "erase_icao")
  /\ UNCHANGED <<airports_by_iata, airports_by_icao, routes, next_upload_id, server, a, settled>>

EraseIcao(w) ==
  /\ At(w, "erase_icao")
  /\ airports_by_icao' =
       Restrict(airports_by_icao, {b \in BagToSet(airports_by_icao) : b.id # a[w].id})
  /\ Local(w, "erase_routes")
  /\ UNCHANGED <<airports_by_id, airports_by_iata, routes, next_upload_id, server, a, settled>>

EraseRoutes(w) ==
  /\ At(w, "erase_routes")
  /\ routes' = {r \in routes : ~Touches(r, a[w].id)}
  /\ Answer(w)
  /\ UNCHANGED <<airports_by_id, airports_by_iata, airports_by_icao, next_upload_id, server>>
  /\ Settle

-----------------------------------------------------------------------------
(* Redact: redact_airport, or its 404.                                     *)

CopyRedacted(w) ==
  /\ At(w, "copy_redacted")
  /\ IF Code(w) \in DOMAIN airports_by_iata
     THEN /\ Local(w, "redact_iata")
          /\ a' = [a EXCEPT ![w] = Redacting(airports_by_iata[Code(w)], job[w].fields)]
     ELSE NotFound(w)
  /\ UNCHANGED <<store, server, settled>>

RedactIata(w) ==
  /\ At(w, "redact_iata")
  /\ airports_by_iata' = Put(airports_by_iata, Code(w), a[w])
  /\ Local(w, "redact_id")
  /\ UNCHANGED <<airports_by_id, airports_by_icao, routes, next_upload_id, server, a, settled>>

BugRedactId(w) ==
  /\ At(w, "redact_id")
  /\ Answer(w)
  /\ UNCHANGED <<airports_by_id, airports_by_iata, airports_by_icao, routes, next_upload_id, server>>
  /\ Settle
RedactId(w) ==
  /\ At(w, "redact_id")
  /\ airports_by_id' = IF a[w].id \in DOMAIN airports_by_id
                       THEN Put(airports_by_id, a[w].id, a[w]) ELSE airports_by_id
  /\ Answer(w)
  /\ UNCHANGED <<airports_by_iata, airports_by_icao, routes, next_upload_id, server>>
  /\ Settle

-----------------------------------------------------------------------------

Init ==
  /\ airports_by_id = [i \in LoadedIds |-> CHOOSE b \in LoadedAirports : b.id = i]
  /\ airports_by_iata = [c \in {b.iata : b \in LoadedAirports} \ {NoCode} |->
                           CHOOSE b \in LoadedAirports : b.iata = c]
  /\ airports_by_icao = SetToBag({b \in LoadedAirports : b.icao # NoIcao})
  /\ routes = LoadedRoutes
  /\ next_upload_id = -1
  /\ queue = [w \in Workers |-> <<>>]
  /\ pc = [w \in Workers |-> "idle"]
  /\ job = [w \in Workers |-> Idle]
  /\ a = [w \in Workers |-> Blank(NoCode)]
  /\ sent = 0
  /\ answered = 0
  /\ settled = store

Step(w) ==
  \/ Take(w) \/ NextRow(w) \/ CopyExisting(w)
  \/ Find(w) \/ TakeId(w) \/ StepId(w) \/ WriteId(w) \/ WriteIata(w) \/ WriteIcao(w)
  \/ FindDeleted(w) \/ EraseIata(w) \/ EraseId(w) \/ EraseIcao(w) \/ EraseRoutes(w)
  \/ CopyRedacted(w) \/ RedactIata(w) \/ RedactId(w)

Next == Receive \/ \E w \in Workers : Step(w)

\* A worker with something to do goes on: it is a thread that the system
\* schedules, no handler waits for another, and io_context::run returns only
\* when the server stops.  Clients need not send anything.
Spec == Init /\ [][Next]_vars /\ \A w \in Workers : WF_vars(Step(w))

-----------------------------------------------------------------------------

\* Every request that arrives is answered, whatever the others do: no path
\* through a handler leaves its worker stuck or its client without an answer.
EveryRequestAnswered ==
  \A n \in 1..MaxRequests : sent >= n ~> answered >= n

\* A single worker makes handlers atomic: what the store is between operations
\* goes through the steps of AirTravelDb, so all that is shown of it there
\* holds of the server.
TheWorker == CHOOSE w \in Workers : TRUE
Db == INSTANCE AirTravelDb WITH
  airports_by_id <- settled[1],
  airports_by_iata <- settled[2],
  airports_by_icao <- settled[3],
  routes <- settled[4],
  next_upload_id <- settled[5],
  pending <- IF job[TheWorker].op = "upload" THEN job[TheWorker].rows ELSE <<>>,
  MaxRows <- MaxRequestRows,
  MaxCopies <- Cardinality(LoadedAirports) + MaxRequests + 1

ImplementsAirTravelDb == Db!Spec

-----------------------------------------------------------------------------
(* What a comment of the code says, one worker keeps and several do not.   *)

AllIdle == \A w \in Workers : pc[w] = "idle"

\* main.cpp:136, "If IATA already exists, overwrite (no duplicate)": once every
\* handler has returned, a code names one airport, however uploads, saves and
\* deletes of that code went before.
NoDuplicateCode ==
  AllIdle => \A i, j \in DOMAIN airports_by_id :
    /\ airports_by_id[i].iata = airports_by_id[j].iata
    /\ airports_by_id[i].iata # NoCode
    => i = j
=============================================================================
