-------------------------- MODULE ServerWorkersProofs --------------------------
(***************************************************************************)
(* With one worker the handlers are atomic: the store between operations   *)
(* goes through the steps of AirTravelDb, for any requests.                *)
(*                                                                         *)
(* The invariant says, for each statement of a handler, what its local     *)
(* variable holds and how far the store is ahead of what the last          *)
(* operation left (Progress), in the terms of the operators of             *)
(* AirTravelDb.  Ids and copies are counted (Counted), so that a handler   *)
(* never meets a bound of AirTravelDb half-way.                            *)
(***************************************************************************)
EXTENDS ServerWorkers, FiniteSetTheorems, SequenceTheorems, TLAPS

OneWorker == Workers = {TheWorker}

\* What the one worker has in hand.
label == pc[TheWorker]
serving == job[TheWorker]
local == a[TheWorker]

\* The store between operations.
by_id == settled[1]
by_iata == settled[2]
by_icao == settled[3]
known_routes == settled[4]
counter == settled[5]

-----------------------------------------------------------------------------
(* Control: which request is served at which statement.                    *)

AddLabels == {"find", "take_id", "step_id", "write_id", "write_iata", "write_icao"}
DeleteLabels == {"find_deleted", "erase_iata", "erase_id", "erase_icao", "erase_routes"}
RedactLabels == {"copy_redacted", "redact_iata", "redact_id"}

ShortUploads == {q \in Uploads : Len(q.rows) <= MaxRequestRows}

Served(l, q) ==
  \/ l = "idle" /\ q = Idle
  \/ l = "next_row" /\ q \in ShortUploads
  \/ l = "copy_existing" /\ q \in Saves
  \/ l \in AddLabels /\ (q \in Saves \/ (q \in ShortUploads /\ q.rows # <<>>))
  \/ l \in DeleteLabels /\ q \in Deletes
  \/ l \in RedactLabels /\ q \in Redactions

Control ==
  /\ DOMAIN queue = Workers /\ DOMAIN pc = Workers /\ DOMAIN job = Workers /\ DOMAIN a = Workers
  /\ queue[TheWorker] \in Seq(Requests)
  /\ sent \in 0..MaxRequests /\ answered \in Nat
  /\ sent = answered + Len(queue[TheWorker]) + (IF label = "idle" THEN 0 ELSE 1)
  /\ Served(label, serving)

-----------------------------------------------------------------------------
(* Counting: what was handed out and filed by the requests so far.         *)

Shaped(b) ==
  b = [id |-> b.id, iata |-> b.iata, icao |-> b.icao, text |-> b.text, geo |-> b.geo]

Allowed(n) == n * MaxRequestRows
RowsToCome == IF serving.op = "upload" THEN Len(serving.rows) ELSE 0

Counted ==
  /\ settled = <<by_id, by_iata, by_icao, known_routes, counter>>
  /\ counter \in Int
  /\ RowsToCome - 1 - counter <= Allowed(answered + (IF serving.op = "upload" THEN 1 ELSE 0))
  /\ \A c \in DOMAIN by_iata : Shaped(by_iata[c])
  /\ IsABag(by_icao) /\ IsFiniteSet(BagToSet(by_icao))
  /\ Cardinality(BagToSet(by_icao)) <= Cardinality(LoadedAirports) + answered
  /\ \A b \in BagToSet(by_icao) : by_icao[b] <= 1 + answered

-----------------------------------------------------------------------------
(* Progress: the statements of a handler, one after the other.             *)

\* The airport add_airport is called with, and the one it files.
Requested ==
  LET iata == Upper[serving.code]
      base == IF iata \in DOMAIN by_iata THEN by_iata[iata] ELSE Blank(iata)
  IN  [base EXCEPT !.iata = iata, !.text = Given(base, serving.given)]
Called == IF serving.op = "upload" THEN AirportOfRow(Head(serving.rows)) ELSE Requested

IsKnown == Called.iata # NoCode /\ Called.iata \in DOMAIN by_iata
Renumbered == [Called EXCEPT !.id = by_iata[Called.iata].id]
Numbered ==
  [Called EXCEPT !.id = counter,
                 !.iata = IF Called.iata = NoCode THEN GeneratedCode(-counter) ELSE Called.iata]
Filed == IF IsKnown THEN Renumbered ELSE Numbered

Asked == Upper[serving.code]
Removed == by_iata[Asked].id

\* What the store is, container by container.
StoreIs(ids, iatas, icaos, rs, n) ==
  /\ airports_by_id = ids /\ airports_by_iata = iatas /\ airports_by_icao = icaos
  /\ routes = rs /\ next_upload_id = n

AddProgress ==
  LET n == IF IsKnown THEN counter ELSE counter - 1
      ids == Put(by_id, Filed.id, Filed)
      iatas == Put(by_iata, Filed.iata, Filed)
  IN  /\ label \in {"find", "take_id"} => local = Called
      /\ label \in {"take_id", "step_id"} => ~IsKnown
      /\ label \in {"step_id", "write_id", "write_iata", "write_icao"} => local = Filed
      /\ label = "write_id" => StoreIs(by_id, by_iata, by_icao, known_routes, n)
      /\ label = "write_iata" => StoreIs(ids, by_iata, by_icao, known_routes, n)
      /\ label = "write_icao" => StoreIs(ids, iatas, by_icao, known_routes, n)

DeleteProgress ==
  LET ids == Restrict(by_id, DOMAIN by_id \ {Removed})
      iatas == Restrict(by_iata, DOMAIN by_iata \ {Asked})
      icaos == Restrict(by_icao, {b \in BagToSet(by_icao) : b.id # Removed})
  IN  /\ label \in DeleteLabels \ {"find_deleted"} => Asked \in DOMAIN by_iata /\ local = by_iata[Asked]
      /\ label = "erase_id" => StoreIs(by_id, iatas, by_icao, known_routes, counter)
      /\ label = "erase_icao" => StoreIs(ids, iatas, by_icao, known_routes, counter)
      /\ label = "erase_routes" => StoreIs(ids, iatas, icaos, known_routes, counter)

RedactProgress ==
  /\ label \in {"redact_iata", "redact_id"} =>
       Asked \in DOMAIN by_iata /\ local = Redacting(by_iata[Asked], serving.fields)
  /\ label = "redact_id" =>
       StoreIs(by_id, Put(by_iata, Asked, local), by_icao, known_routes, counter)

QuietLabels ==
  {"idle", "next_row", "copy_existing", "find", "take_id", "step_id",
   "find_deleted", "erase_iata", "copy_redacted", "redact_iata"}

Progress ==
  /\ label \in QuietLabels => StoreIs(by_id, by_iata, by_icao, known_routes, counter)
  /\ AddProgress /\ DeleteProgress /\ RedactProgress

Inv == Control /\ Counted /\ Progress

-----------------------------------------------------------------------------
(* Requests and airports.                                                  *)

LEMMA RequestKinds ==
  /\ \A q \in Requests : q \in ShortUploads \/ q \in Saves \/ q \in Deletes \/ q \in Redactions
  /\ \A q \in ShortUploads : q.op = "upload"
  /\ \A q \in Saves : q.op = "save"
  /\ \A q \in Deletes : q.op = "delete"
  /\ \A q \in Redactions : q.op = "redact"
  /\ Idle.op = "none"
  <1>1. \A q \in Requests : q \in ShortUploads \/ q \in Saves \/ q \in Deletes \/ q \in Redactions
    BY RequestAssumption DEF ShortUploads
  <1>. QED BY <1>1 DEF ShortUploads, Uploads, Saves, Deletes, Redactions, Idle

\* The kind of the request follows from the statement.
LEMMA KindServed ==
  ASSUME Served(label, serving)
  PROVE  /\ label = "idle" => serving.op = "none" /\ serving = Idle
         /\ label = "next_row" => serving.op = "upload" /\ serving \in ShortUploads
         /\ label = "copy_existing" => serving.op = "save" /\ serving \in Saves
         /\ label \in AddLabels => \/ serving.op = "save" /\ serving \in Saves
                                   \/ /\ serving.op = "upload" /\ serving \in ShortUploads
                                      /\ serving.rows # <<>>
         /\ label \in DeleteLabels => serving.op = "delete" /\ serving \in Deletes
         /\ label \in RedactLabels => serving.op = "redact" /\ serving \in Redactions
  <1>. USE RequestKinds
  <1>1. label = "idle" => serving.op = "none" /\ serving = Idle
    BY DEF Served, AddLabels, DeleteLabels, RedactLabels
  <1>2. label = "next_row" => serving.op = "upload" /\ serving \in ShortUploads
    BY DEF Served, AddLabels, DeleteLabels, RedactLabels
  <1>3. label = "copy_existing" => serving.op = "save" /\ serving \in Saves
    BY DEF Served, AddLabels, DeleteLabels, RedactLabels
  <1>4. label \in AddLabels => \/ serving.op = "save" /\ serving \in Saves
                               \/ /\ serving.op = "upload" /\ serving \in ShortUploads
                                  /\ serving.rows # <<>>
    BY DEF Served, AddLabels, DeleteLabels, RedactLabels
  <1>5. label \in DeleteLabels => serving.op = "delete" /\ serving \in Deletes
    BY DEF Served, AddLabels, DeleteLabels, RedactLabels
  <1>6. label \in RedactLabels => serving.op = "redact" /\ serving \in Redactions
    BY DEF Served, AddLabels, DeleteLabels, RedactLabels
  <1>. QED BY <1>1, <1>2, <1>3, <1>4, <1>5, <1>6

\* The airport that is added has the fields of one; that of an upload has no ICAO code.
LEMMA CalledShape ==
  ASSUME Counted
  PROVE  /\ Shaped(Called) /\ Shaped(Renumbered) /\ Shaped(Numbered) /\ Shaped(Filed)
         /\ Filed.icao = Called.icao
         /\ serving.op = "upload" => Called.icao = NoIcao
  <1>1. ASSUME NEW row PROVE Shaped(AirportOfRow(row)) /\ AirportOfRow(row).icao = NoIcao
    BY DEF AirportOfRow, Shaped
  <1>2. Shaped(Requested)
    <2>. DEFINE iata == Upper[serving.code]
                base == IF iata \in DOMAIN by_iata THEN by_iata[iata] ELSE Blank(iata)
    <2>1. Shaped(base)
      BY DEF Counted, Shaped, Blank
    <2>2. Requested = [base EXCEPT !.iata = iata, !.text = Given(base, serving.given)]
      BY DEF Requested
    <2>. HIDE DEF iata, base
    <2>. QED BY <2>1, <2>2 DEF Shaped
  <1>3. Shaped(Called) /\ (serving.op = "upload" => Called.icao = NoIcao)
    BY <1>1, <1>2 DEF Called
  <1>4. Shaped(Renumbered) /\ Renumbered.icao = Called.icao
    BY <1>3 DEF Renumbered, Shaped
  <1>5. Shaped(Numbered) /\ Numbered.icao = Called.icao
    <2>. DEFINE c == IF Called.iata = NoCode THEN GeneratedCode(-counter) ELSE Called.iata
    <2>1. Numbered = [Called EXCEPT !.id = counter, !.iata = c]
      BY DEF Numbered
    <2>. HIDE DEF c
    <2>. QED BY <1>3, <2>1 DEF Shaped
  <1>. QED BY <1>3, <1>4, <1>5 DEF Filed

-----------------------------------------------------------------------------
(* A statement that ends no operation on the store.                        *)

\* What is computed from the request and the last operation stays.
LEMMA SameTerms ==
  ASSUME UNCHANGED <<job, settled>>
  PROVE  /\ serving' = serving /\ RowsToCome' = RowsToCome
         /\ by_id' = by_id /\ by_iata' = by_iata /\ by_icao' = by_icao
         /\ known_routes' = known_routes /\ counter' = counter
         /\ Called' = Called /\ (IsKnown' <=> IsKnown) /\ Filed' = Filed
         /\ Asked' = Asked /\ Removed' = Removed
  BY DEF serving, RowsToCome, by_id, by_iata, by_icao, known_routes, counter, Called, Requested,
         IsKnown, Filed, Renumbered, Numbered, Asked, Removed

LEMMA Silent ==
  ASSUME OneWorker, Control, Counted, UNCHANGED <<server, job, answered, settled>>,
         NEW l, Goto(TheWorker, l), DOMAIN a' = Workers,
         label # "idle", l # "idle", Served(l, serving)
  PROVE  Control' /\ Counted' /\ label' = l
  <1>1. /\ serving' = serving /\ RowsToCome' = RowsToCome
        /\ by_id' = by_id /\ by_iata' = by_iata /\ by_icao' = by_icao
        /\ known_routes' = known_routes /\ counter' = counter
    BY SameTerms
  <1>2. DOMAIN pc' = Workers /\ label' = l
    BY DEF Control, Goto, label, OneWorker
  <1>3. queue' = queue /\ sent' = sent /\ answered' = answered /\ job' = job
    BY DEF server
  <1>4. Control'
    BY <1>1, <1>2, <1>3 DEF Control
  <1>5. Counted'
    <2>1. settled' = settled
      OBVIOUS
    <2>. QED BY <1>1, <1>3, <2>1 DEF Counted
  <1>. QED BY <1>2, <1>4, <1>5

LEMMA StartRow ==
  ASSUME OneWorker, Inv, NextRow(TheWorker), serving.rows # <<>>
  PROVE  Inv' /\ UNCHANGED <<job, settled>>
  <1>1. /\ label = "next_row" /\ Goto(TheWorker, "find")
        /\ UNCHANGED <<server, job, answered, settled>> /\ UNCHANGED store
        /\ a' = [a EXCEPT ![TheWorker] = AirportOfRow(Head(serving.rows))]
    BY DEF NextRow, At, Local, label, serving
  <1>2. /\ Control /\ Counted /\ Progress /\ DOMAIN a = Workers
        /\ serving.op = "upload" /\ serving \in ShortUploads
    BY <1>1, KindServed DEF Inv, Control
  <1>3. Served("find", serving)
    BY <1>1, <1>2 DEF Served, AddLabels
  <1>4. Control' /\ Counted' /\ label' = "find"
    BY <1>1, <1>2, <1>3, Silent
  <1>5. local' = Called'
    BY <1>1, <1>2, SameTerms DEF local, Called, OneWorker
  <1>6. Progress'
    BY <1>1, <1>2, <1>4, <1>5, SameTerms
       DEF Progress, AddProgress, DeleteProgress, RedactProgress, StoreIs, store, QuietLabels, DeleteLabels
  <1>. QED BY <1>1, <1>4, <1>6 DEF Inv

LEMMA CopyExistingInv ==
  ASSUME OneWorker, Inv, CopyExisting(TheWorker)
  PROVE  Inv' /\ UNCHANGED <<job, settled>>
  <1>1. /\ label = "copy_existing" /\ Goto(TheWorker, "find")
        /\ UNCHANGED <<server, job, answered, settled>> /\ UNCHANGED store
    BY DEF CopyExisting, At, Local, label
  <1>2. /\ Control /\ Counted /\ Progress /\ DOMAIN a = Workers
        /\ serving.op = "save" /\ serving \in Saves
    BY <1>1, KindServed DEF Inv, Control
  <1>3. Served("find", serving)
    BY <1>1, <1>2 DEF Served, AddLabels
  <1>4. Control' /\ Counted' /\ label' = "find"
    <2>1. DOMAIN a' = Workers
      BY <1>2 DEF CopyExisting
    <2>. QED BY <1>1, <1>2, <1>3, <2>1, Silent
  <1>5. local' = Called'
    <2>1. airports_by_iata = by_iata
      BY <1>1, <1>2 DEF Progress, QuietLabels, StoreIs
    <2>2. local' = Requested
      BY <1>2, <2>1 DEF CopyExisting, Code, Requested, local, serving, OneWorker
    <2>. QED BY <1>1, <1>2, <2>2, SameTerms DEF Called
  <1>6. Progress'
    BY <1>1, <1>2, <1>4, <1>5, SameTerms
       DEF Progress, AddProgress, DeleteProgress, RedactProgress, StoreIs, store, QuietLabels, DeleteLabels
  <1>. QED BY <1>1, <1>4, <1>6 DEF Inv

LEMMA FindInv ==
  ASSUME OneWorker, Inv, Find(TheWorker)
  PROVE  Inv' /\ UNCHANGED <<job, settled>>
  <1>1. /\ label = "find" /\ UNCHANGED <<server, job, answered, settled>> /\ UNCHANGED store
    BY DEF Find, At, Local, label
  <1>2. /\ Control /\ Counted /\ Progress /\ DOMAIN a = Workers
        /\ serving \in Saves \/ (serving \in ShortUploads /\ serving.rows # <<>>)
    BY <1>1, KindServed DEF Inv, Control, AddLabels
  <1>3. airports_by_iata = by_iata /\ local = Called
    BY <1>1, <1>2 DEF Progress, AddProgress, QuietLabels, StoreIs
  <1>4. ASSUME NEW l \in {"write_id", "take_id"}, Goto(TheWorker, l), DOMAIN a' = Workers
        PROVE  Control' /\ Counted' /\ label' = l
    <2>1. Served(l, serving) /\ l # "idle" /\ label # "idle"
      BY <1>1, <1>2, <1>4 DEF Served, AddLabels
    <2>. QED BY <1>1, <1>2, <1>4, <2>1, Silent
  <1>5. CASE IsKnown
    <2>1. /\ Goto(TheWorker, "write_id")
          /\ a' = [a EXCEPT ![TheWorker].id = by_iata[Called.iata].id]
      BY <1>3, <1>5 DEF Find, Local, IsKnown, local
    <2>2. Control' /\ Counted' /\ label' = "write_id"
      BY <1>2, <1>4, <2>1
    <2>3. local' = Filed'
      <3>1. local' = [Called EXCEPT !.id = by_iata[Called.iata].id]
        BY <1>2, <1>3, <2>1 DEF local, OneWorker
      <3>. QED BY <1>1, <1>5, <3>1, SameTerms DEF Filed, Renumbered
    <2>4. Progress'
      BY <1>1, <1>2, <1>5, <2>2, <2>3, SameTerms
         DEF Progress, AddProgress, DeleteProgress, RedactProgress, StoreIs, store, QuietLabels, DeleteLabels
    <2>. QED BY <1>1, <2>2, <2>4 DEF Inv
  <1>6. CASE ~IsKnown
    <2>1. Goto(TheWorker, "take_id") /\ a' = a
      BY <1>3, <1>6 DEF Find, Local, IsKnown, local
    <2>2. Control' /\ Counted' /\ label' = "take_id"
      BY <1>2, <1>4, <2>1
    <2>3. local' = Called'
      BY <1>1, <1>3, <2>1, SameTerms DEF local
    <2>4. Progress'
      BY <1>1, <1>2, <1>6, <2>2, <2>3, SameTerms
         DEF Progress, AddProgress, DeleteProgress, RedactProgress, StoreIs, store, QuietLabels, DeleteLabels
    <2>. QED BY <1>1, <2>2, <2>4 DEF Inv
  <1>. QED BY <1>5, <1>6

LEMMA TakeIdInv ==
  ASSUME OneWorker, Inv, TakeId(TheWorker)
  PROVE  Inv' /\ UNCHANGED <<job, settled>>
  <1>1. /\ label = "take_id" /\ Goto(TheWorker, "step_id")
        /\ UNCHANGED <<server, job, answered, settled>>
    BY DEF TakeId, At, Local, label
  <1>2. Control /\ Counted /\ Progress /\ DOMAIN a = Workers
    BY DEF Inv, Control
  <1>3. /\ StoreIs(by_id, by_iata, by_icao, known_routes, counter)
        /\ StoreIs(by_id, by_iata, by_icao, known_routes, counter)' /\ ~IsKnown
    <2>1. StoreIs(by_id, by_iata, by_icao, known_routes, counter) /\ ~IsKnown
      BY <1>1, <1>2 DEF Progress, AddProgress, QuietLabels
    <2>2. UNCHANGED store
      BY DEF TakeId
    <2>. QED BY <1>1, <2>1, <2>2, SameTerms DEF StoreIs, store
  <1>4. local' = Filed'
    <2>. DEFINE t == [Called EXCEPT !.id = counter]
    <2>1. local = Called /\ next_upload_id = counter
      BY <1>1, <1>2, <1>3 DEF Progress, AddProgress, StoreIs
    <2>2. local' = [t EXCEPT !.iata = IF t.iata = NoCode THEN GeneratedCode(-counter) ELSE t.iata]
      BY <1>2, <2>1 DEF TakeId, local, OneWorker
    <2>3. t.iata = Called.iata
      <3>1. Shaped(Called)
        BY <1>2, CalledShape
      <3>. QED BY <3>1 DEF Shaped
    <2>4. Numbered = [t EXCEPT !.iata = IF Called.iata = NoCode THEN GeneratedCode(-counter) ELSE Called.iata]
      BY DEF Numbered
    <2>. HIDE DEF t
    <2>5. local' = Filed
      BY <1>3, <2>2, <2>3, <2>4 DEF Filed
    <2>. QED BY <1>1, <2>5, SameTerms
  <1>5. Served("step_id", serving)
    BY <1>1, <1>2, KindServed DEF Served, Control, AddLabels, DeleteLabels, RedactLabels
  <1>6. Control' /\ Counted' /\ label' = "step_id"
    <2>1. DOMAIN a' = Workers
      BY <1>2 DEF TakeId
    <2>. QED BY <1>1, <1>2, <1>5, <2>1, Silent
  <1>7. Progress'
    BY <1>1, <1>2, <1>3, <1>4, <1>6, SameTerms
       DEF Progress, AddProgress, DeleteProgress, RedactProgress, StoreIs, QuietLabels, DeleteLabels, AddLabels
  <1>. QED BY <1>1, <1>6, <1>7 DEF Inv

LEMMA StepIdInv ==
  ASSUME OneWorker, Inv, StepId(TheWorker)
  PROVE  Inv' /\ UNCHANGED <<job, settled>>
  <1>1. /\ label = "step_id" /\ Goto(TheWorker, "write_id")
        /\ UNCHANGED <<server, job, answered, settled>>
    BY DEF StepId, At, Local, label
  <1>2. Control /\ Counted /\ Progress /\ DOMAIN a = Workers
    BY DEF Inv, Control
  <1>3. local' = Filed' /\ ~IsKnown
    <2>1. local = Filed /\ ~IsKnown
      BY <1>1, <1>2 DEF Progress, AddProgress
    <2>2. local' = local
      BY DEF StepId, local
    <2>. QED BY <1>1, <2>1, <2>2, SameTerms
  <1>4. StoreIs(by_id, by_iata, by_icao, known_routes, counter - 1)'
    <2>1. StoreIs(by_id, by_iata, by_icao, known_routes, counter) /\ local = Filed /\ ~IsKnown
      BY <1>1, <1>2 DEF Progress, AddProgress, QuietLabels
    <2>2. local.id = counter
      <3>1. Shaped(Called) /\ local = Numbered
        BY <1>2, <2>1, CalledShape DEF Filed
      <3>. QED BY <3>1 DEF Numbered, Shaped
    <2>3. next_upload_id' = counter - 1
      BY <2>2 DEF StepId, local
    <2>4. UNCHANGED <<airports_by_id, airports_by_iata, airports_by_icao, routes>>
      BY DEF StepId
    <2>. QED BY <1>1, <2>1, <2>3, <2>4, SameTerms DEF StoreIs
  <1>5. Served("write_id", serving)
    BY <1>1, <1>2, KindServed DEF Served, Control, AddLabels, DeleteLabels, RedactLabels
  <1>6. Control' /\ Counted' /\ label' = "write_id"
    <2>1. DOMAIN a' = Workers
      BY <1>2 DEF StepId
    <2>. QED BY <1>1, <1>2, <1>5, <2>1, Silent
  <1>7. Progress'
    BY <1>1, <1>2, <1>3, <1>4, <1>6, SameTerms
       DEF Progress, AddProgress, DeleteProgress, RedactProgress, StoreIs, QuietLabels, DeleteLabels, AddLabels
  <1>. QED BY <1>1, <1>6, <1>7 DEF Inv

LEMMA WriteIdInv ==
  ASSUME OneWorker, Inv, WriteId(TheWorker)
  PROVE  Inv' /\ UNCHANGED <<job, settled>>
  <1>1. /\ label = "write_id" /\ Goto(TheWorker, "write_iata")
        /\ UNCHANGED <<server, job, answered, settled>>
    BY DEF WriteId, At, Local, label
  <1>2. Control /\ Counted /\ Progress /\ DOMAIN a = Workers
    BY DEF Inv, Control
  <1>3. local = Filed /\ local' = Filed'
    <2>1. local = Filed
      BY <1>1, <1>2 DEF Progress, AddProgress
    <2>2. local' = local
      BY DEF WriteId, local
    <2>. QED BY <1>1, <2>1, <2>2, SameTerms
  <1>4. /\ airports_by_id' = Put(airports_by_id, Filed.id, Filed)
        /\ UNCHANGED <<airports_by_iata, airports_by_icao, routes, next_upload_id>>
    BY <1>3 DEF WriteId, local
  <1>5. Served("write_iata", serving)
    BY <1>1, <1>2, KindServed DEF Served, Control, AddLabels, DeleteLabels, RedactLabels
  <1>6. Control' /\ Counted' /\ label' = "write_iata"
    <2>1. DOMAIN a' = Workers
      BY <1>2 DEF WriteId
    <2>. QED BY <1>1, <1>2, <1>5, <2>1, Silent
  <1>7. Progress'
    BY <1>1, <1>2, <1>3, <1>4, <1>6, SameTerms
       DEF Progress, AddProgress, DeleteProgress, RedactProgress, StoreIs, QuietLabels, DeleteLabels, AddLabels
  <1>. QED BY <1>1, <1>6, <1>7 DEF Inv

LEMMA WriteIataInv ==
  ASSUME OneWorker, Inv, WriteIata(TheWorker)
  PROVE  Inv' /\ UNCHANGED <<job, settled>>
  <1>1. /\ label = "write_iata" /\ Goto(TheWorker, "write_icao")
        /\ UNCHANGED <<server, job, answered, settled>>
    BY DEF WriteIata, At, Local, label
  <1>2. Control /\ Counted /\ Progress /\ DOMAIN a = Workers
    BY DEF Inv, Control
  <1>3. local = Filed /\ local' = Filed'
    <2>1. local = Filed
      BY <1>1, <1>2 DEF Progress, AddProgress
    <2>2. local' = local
      BY DEF WriteIata, local
    <2>. QED BY <1>1, <2>1, <2>2, SameTerms
  <1>4. /\ airports_by_iata' = Put(airports_by_iata, Filed.iata, Filed)
        /\ UNCHANGED <<airports_by_id, airports_by_icao, routes, next_upload_id>>
    BY <1>3 DEF WriteIata, local
  <1>5. Served("write_icao", serving)
    BY <1>1, <1>2, KindServed DEF Served, Control, AddLabels, DeleteLabels, RedactLabels
  <1>6. Control' /\ Counted' /\ label' = "write_icao"
    <2>1. DOMAIN a' = Workers
      BY <1>2 DEF WriteIata
    <2>. QED BY <1>1, <1>2, <1>5, <2>1, Silent
  <1>7. Progress'
    BY <1>1, <1>2, <1>3, <1>4, <1>6, SameTerms
       DEF Progress, AddProgress, DeleteProgress, RedactProgress, StoreIs, QuietLabels, DeleteLabels, AddLabels
  <1>. QED BY <1>1, <1>6, <1>7 DEF Inv

LEMMA EraseIataInv ==
  ASSUME OneWorker, Inv, EraseIata(TheWorker)
  PROVE  Inv' /\ UNCHANGED <<job, settled>>
  <1>1. /\ label = "erase_iata" /\ Goto(TheWorker, "erase_id")
        /\ UNCHANGED <<server, job, answered, settled>>
    BY DEF EraseIata, At, Local, label
  <1>2. Control /\ Counted /\ Progress /\ DOMAIN a = Workers
    BY DEF Inv, Control
  <1>3. /\ Asked \in DOMAIN by_iata /\ local = by_iata[Asked] /\ Code(TheWorker) = Asked
        /\ a' = a /\ local' = local
    BY <1>1, <1>2 DEF EraseIata, Progress, DeleteProgress, DeleteLabels, Code, Asked, serving, local
  <1>4. /\ airports_by_iata' = Restrict(airports_by_iata, DOMAIN airports_by_iata \ {Asked})
        /\ UNCHANGED <<airports_by_id, airports_by_icao, routes, next_upload_id>>
    BY <1>3 DEF EraseIata
  <1>5. Served("erase_id", serving)
    BY <1>1, <1>2, KindServed DEF Served, Control, AddLabels, DeleteLabels, RedactLabels
  <1>6. Control' /\ Counted' /\ label' = "erase_id"
    <2>1. DOMAIN a' = Workers
      BY <1>2 DEF EraseIata
    <2>. QED BY <1>1, <1>2, <1>5, <2>1, Silent
  <1>7. Progress'
    BY <1>1, <1>2, <1>3, <1>4, <1>6, SameTerms
       DEF Progress, AddProgress, DeleteProgress, RedactProgress, StoreIs, QuietLabels, DeleteLabels, AddLabels
  <1>. QED BY <1>1, <1>6, <1>7 DEF Inv

LEMMA EraseIdInv ==
  ASSUME OneWorker, Inv, EraseId(TheWorker)
  PROVE  Inv' /\ UNCHANGED <<job, settled>>
  <1>1. /\ label = "erase_id" /\ Goto(TheWorker, "erase_icao")
        /\ UNCHANGED <<server, job, answered, settled>>
    BY DEF EraseId, At, Local, label
  <1>2. Control /\ Counted /\ Progress /\ DOMAIN a = Workers
    BY DEF Inv, Control
  <1>3. /\ Asked \in DOMAIN by_iata /\ local = by_iata[Asked] /\ local.id = Removed
        /\ a' = a /\ local' = local
    BY <1>1, <1>2 DEF EraseId, Progress, DeleteProgress, DeleteLabels, Removed, local
  <1>4. /\ airports_by_id' = Restrict(airports_by_id, DOMAIN airports_by_id \ {Removed})
        /\ UNCHANGED <<airports_by_iata, airports_by_icao, routes, next_upload_id>>
    BY <1>3 DEF EraseId, local
  <1>5. Served("erase_icao", serving)
    BY <1>1, <1>2, KindServed DEF Served, Control, AddLabels, DeleteLabels, RedactLabels
  <1>6. Control' /\ Counted' /\ label' = "erase_icao"
    <2>1. DOMAIN a' = Workers
      BY <1>2 DEF EraseId
    <2>. QED BY <1>1, <1>2, <1>5, <2>1, Silent
  <1>7. Progress'
    BY <1>1, <1>2, <1>3, <1>4, <1>6, SameTerms
       DEF Progress, AddProgress, DeleteProgress, RedactProgress, StoreIs, QuietLabels, DeleteLabels, AddLabels
  <1>. QED BY <1>1, <1>6, <1>7 DEF Inv

LEMMA EraseIcaoInv ==
  ASSUME OneWorker, Inv, EraseIcao(TheWorker)
  PROVE  Inv' /\ UNCHANGED <<job, settled>>
  <1>1. /\ label = "erase_icao" /\ Goto(TheWorker, "erase_routes")
        /\ UNCHANGED <<server, job, answered, settled>>
    BY DEF EraseIcao, At, Local, label
  <1>2. Control /\ Counted /\ Progress /\ DOMAIN a = Workers
    BY DEF Inv, Control
  <1>3. /\ Asked \in DOMAIN by_iata /\ local = by_iata[Asked] /\ local.id = Removed
        /\ a' = a /\ local' = local
    BY <1>1, <1>2 DEF EraseIcao, Progress, DeleteProgress, DeleteLabels, Removed, local
  <1>4. /\ airports_by_icao' =
             Restrict(airports_by_icao, {b \in BagToSet(airports_by_icao) : b.id # Removed})
        /\ UNCHANGED <<airports_by_id, airports_by_iata, routes, next_upload_id>>
    BY <1>3 DEF EraseIcao, local
  <1>5. Served("erase_routes", serving)
    BY <1>1, <1>2, KindServed DEF Served, Control, AddLabels, DeleteLabels, RedactLabels
  <1>6. Control' /\ Counted' /\ label' = "erase_routes"
    <2>1. DOMAIN a' = Workers
      BY <1>2 DEF EraseIcao
    <2>. QED BY <1>1, <1>2, <1>5, <2>1, Silent
  <1>7. Progress'
    BY <1>1, <1>2, <1>3, <1>4, <1>6, SameTerms
       DEF Progress, AddProgress, DeleteProgress, RedactProgress, StoreIs, QuietLabels, DeleteLabels, AddLabels
  <1>. QED BY <1>1, <1>6, <1>7 DEF Inv

LEMMA RedactIataInv ==
  ASSUME OneWorker, Inv, RedactIata(TheWorker)
  PROVE  Inv' /\ UNCHANGED <<job, settled>>
  <1>1. /\ label = "redact_iata" /\ Goto(TheWorker, "redact_id")
        /\ UNCHANGED <<server, job, answered, settled>>
    BY DEF RedactIata, At, Local, label
  <1>2. Control /\ Counted /\ Progress /\ DOMAIN a = Workers
    BY DEF Inv, Control
  <1>3. /\ Asked \in DOMAIN by_iata /\ local = Redacting(by_iata[Asked], serving.fields)
        /\ a' = a /\ local' = local /\ Code(TheWorker) = Asked
    BY <1>1, <1>2 DEF RedactIata, Progress, RedactProgress, Code, Asked, serving, local
  <1>4. /\ airports_by_iata' = Put(airports_by_iata, Asked, local)
        /\ UNCHANGED <<airports_by_id, airports_by_icao, routes, next_upload_id>>
    BY <1>3 DEF RedactIata, local
  <1>5. Served("redact_id", serving)
    BY <1>1, <1>2, KindServed DEF Served, Control, AddLabels, DeleteLabels, RedactLabels
  <1>6. Control' /\ Counted' /\ label' = "redact_id"
    <2>1. DOMAIN a' = Workers
      BY <1>2 DEF RedactIata
    <2>. QED BY <1>1, <1>2, <1>5, <2>1, Silent
  <1>7. Progress'
    BY <1>1, <1>2, <1>3, <1>4, <1>6, SameTerms
       DEF Progress, AddProgress, DeleteProgress, RedactProgress, StoreIs, QuietLabels, DeleteLabels, AddLabels
  <1>. QED BY <1>1, <1>6, <1>7 DEF Inv

LEMMA DeleteFound ==
  ASSUME OneWorker, Inv, FindDeleted(TheWorker), Asked \in DOMAIN by_iata
  PROVE  Inv' /\ UNCHANGED <<job, settled>>
  <1>1. label = "find_deleted" /\ Control /\ Counted /\ Progress /\ DOMAIN a = Workers
    BY DEF FindDeleted, At, label, Inv, Control
  <1>2. airports_by_iata = by_iata /\ Code(TheWorker) = Asked
    BY <1>1 DEF Progress, QuietLabels, StoreIs, Code, Asked, serving
  <1>3. /\ Goto(TheWorker, "erase_iata") /\ UNCHANGED <<server, job, answered, settled>>
        /\ UNCHANGED store /\ a' = [a EXCEPT ![TheWorker] = by_iata[Asked]]
    BY <1>2 DEF FindDeleted, Local, serving
  <1>4. local' = by_iata[Asked] /\ DOMAIN a' = Workers
    BY <1>1, <1>3 DEF local, OneWorker
  <1>5. Served("erase_iata", serving)
    BY <1>1, KindServed DEF Served, Control, DeleteLabels, RedactLabels
  <1>6. Control' /\ Counted' /\ label' = "erase_iata"
    BY <1>1, <1>3, <1>4, <1>5, Silent
  <1>7. Progress'
    BY <1>1, <1>3, <1>4, <1>6, SameTerms
       DEF Progress, AddProgress, DeleteProgress, RedactProgress, StoreIs, store, QuietLabels, DeleteLabels
  <1>. QED BY <1>3, <1>6, <1>7 DEF Inv

LEMMA RedactFound ==
  ASSUME OneWorker, Inv, CopyRedacted(TheWorker), Asked \in DOMAIN by_iata
  PROVE  Inv' /\ UNCHANGED <<job, settled>>
  <1>1. label = "copy_redacted" /\ Control /\ Counted /\ Progress /\ DOMAIN a = Workers
    BY DEF CopyRedacted, At, label, Inv, Control
  <1>2. airports_by_iata = by_iata /\ Code(TheWorker) = Asked
    BY <1>1 DEF Progress, QuietLabels, StoreIs, Code, Asked, serving
  <1>3. /\ Goto(TheWorker, "redact_iata") /\ UNCHANGED <<server, job, answered, settled>>
        /\ UNCHANGED store /\ a' = [a EXCEPT ![TheWorker] = Redacting(by_iata[Asked], serving.fields)]
    BY <1>2 DEF CopyRedacted, Local, serving
  <1>4. local' = Redacting(by_iata[Asked], serving.fields) /\ DOMAIN a' = Workers
    BY <1>1, <1>3 DEF local, OneWorker
  <1>5. Served("redact_iata", serving)
    BY <1>1, KindServed DEF Served, Control, DeleteLabels, RedactLabels
  <1>6. Control' /\ Counted' /\ label' = "redact_iata"
    BY <1>1, <1>3, <1>4, <1>5, Silent
  <1>7. Progress'
    BY <1>1, <1>3, <1>4, <1>6, SameTerms
       DEF Progress, AddProgress, DeleteProgress, RedactProgress, StoreIs, store, QuietLabels, DeleteLabels
  <1>. QED BY <1>3, <1>6, <1>7 DEF Inv

-----------------------------------------------------------------------------
(* Requests that arrive, are taken and are answered.                       *)

LEMMA AllowedMore ==
  ASSUME NEW n \in Nat
  PROVE  /\ Allowed(n) \in Nat /\ Allowed(n + 1) = Allowed(n) + MaxRequestRows
         /\ n < MaxRequests => Allowed(n + 1) <= MaxUploads
  <1>1. MaxRequests \in Nat /\ MaxRequestRows \in Nat /\ MaxRequests * MaxRequestRows <= MaxUploads
    BY RequestAssumption
  <1>2. Allowed(n) \in Nat /\ Allowed(n + 1) = Allowed(n) + MaxRequestRows
    BY <1>1 DEF Allowed
  <1>3. ASSUME n < MaxRequests PROVE Allowed(n + 1) <= MaxUploads
    <2>1. PICK d \in Nat : MaxRequests = n + 1 + d
      <3>1. MaxRequests - (n + 1) \in Nat /\ MaxRequests = n + 1 + (MaxRequests - (n + 1))
        BY <1>1, <1>3
      <3>. QED BY <3>1
    <2>2. MaxRequests * MaxRequestRows = Allowed(n + 1) + d * MaxRequestRows /\ d * MaxRequestRows \in Nat
      BY <1>1, <2>1 DEF Allowed
    <2>3. Allowed(n + 1) \in Nat /\ MaxUploads \in Nat
      BY <1>1, <1>2, BoundAssumption
    <2>. QED BY <1>1, <2>2, <2>3
  <1>. QED BY <1>2, <1>3

\* What is counted only grows.
LEMMA CountedLater ==
  ASSUME Counted, UNCHANGED settled, answered \in Nat, answered' \in Nat, answered <= answered',
         RowsToCome' - 1 - counter <= Allowed(answered' + (IF serving'.op = "upload" THEN 1 ELSE 0))
  PROVE  Counted'
  <1>1. /\ by_id' = by_id /\ by_iata' = by_iata /\ by_icao' = by_icao
        /\ known_routes' = known_routes /\ counter' = counter /\ settled' = settled
    BY DEF by_id, by_iata, by_icao, known_routes, counter
  <1>2. Cardinality(BagToSet(by_icao)) \in Nat /\ Cardinality(LoadedAirports) \in Nat
    BY FiniteAssumption, FS_CardinalityType DEF Counted
  <1>3. Cardinality(BagToSet(by_icao)) <= Cardinality(LoadedAirports) + answered'
    BY <1>2 DEF Counted
  <1>4. \A b \in BagToSet(by_icao) : by_icao[b] <= 1 + answered'
    <2>1. \A b \in BagToSet(by_icao) : by_icao[b] \in Nat
      BY DEF Counted, IsABag, BagToSet
    <2>. QED BY <2>1 DEF Counted
  <1>. QED BY <1>1, <1>3, <1>4 DEF Counted

LEMMA ReceiveInv ==
  ASSUME OneWorker, Inv, Receive
  PROVE  Inv' /\ UNCHANGED <<job, settled>>
  <1>1. UNCHANGED <<store, pc, job, a, answered, settled>> /\ sent < MaxRequests /\ sent' = sent + 1
    BY DEF Receive
  <1>2. Control /\ Counted /\ Progress
    BY DEF Inv
  <1>3. PICK q \in Requests : queue' = [queue EXCEPT ![TheWorker] = Append(@, q)]
    BY DEF Receive, OneWorker
  <1>4. /\ DOMAIN queue' = Workers /\ queue'[TheWorker] = Append(queue[TheWorker], q)
    BY <1>2, <1>3 DEF Control, OneWorker
  <1>5. /\ Append(queue[TheWorker], q) \in Seq(Requests)
        /\ Len(Append(queue[TheWorker], q)) = Len(queue[TheWorker]) + 1
        /\ Len(queue[TheWorker]) \in Nat
    BY <1>2, AppendProperties, LenProperties DEF Control
  <1>6. label' = label /\ local' = local /\ answered' = answered
    BY <1>1 DEF label, local
  <1>7. Control'
    <2>. DEFINE k == Len(queue[TheWorker])
                busy == IF label = "idle" THEN 0 ELSE 1
    <2>5. sent \in 0..MaxRequests /\ answered \in Nat /\ sent = answered + k + busy
      BY <1>2 DEF Control
    <2>6. k \in Nat /\ busy \in Nat /\ MaxRequests \in Nat
      BY <1>5, RequestAssumption
    <2>7. Len(queue'[TheWorker]) = k + 1 /\ (IF label' = "idle" THEN 0 ELSE 1) = busy
      BY <1>4, <1>5, <1>6
    <2>. HIDE DEF k, busy
    <2>1. sent' \in 0..MaxRequests
      BY <1>1, <2>5, <2>6
    <2>2. sent' = answered' + Len(queue'[TheWorker]) + (IF label' = "idle" THEN 0 ELSE 1)
      BY <1>1, <1>6, <2>5, <2>6, <2>7
    <2>3. DOMAIN pc' = Workers /\ DOMAIN job' = Workers /\ DOMAIN a' = Workers
      BY <1>1, <1>2 DEF Control
    <2>4. Served(label', serving')
      BY <1>1, <1>2, <1>6, SameTerms DEF Control
    <2>. QED BY <1>2, <1>4, <1>5, <1>6, <2>1, <2>2, <2>3, <2>4 DEF Control
  <1>8. Counted'
    BY <1>1, <1>2, <1>6, SameTerms DEF Counted
  <1>9. Progress'
    BY <1>1, <1>2, <1>6, SameTerms
       DEF Progress, AddProgress, DeleteProgress, RedactProgress, StoreIs, store
  <1>. QED BY <1>1, <1>7, <1>8, <1>9 DEF Inv

\* A handler that returns leaves its worker idle.
LEMMA Answered ==
  ASSUME OneWorker, Control, Answer(TheWorker), UNCHANGED server, label # "idle"
  PROVE  /\ Control' /\ label' = "idle" /\ serving' = Idle /\ serving'.op = "none" /\ RowsToCome' = 0
         /\ answered \in Nat /\ answered' = answered + 1 /\ answered < MaxRequests
  <1>1. /\ DOMAIN pc' = Workers /\ DOMAIN job' = Workers /\ DOMAIN a' = Workers
        /\ label' = "idle" /\ serving' = Idle /\ answered' = answered + 1
    BY DEF Answer, Goto, Control, OneWorker, label, serving
  <1>2. serving'.op = "none" /\ RowsToCome' = 0
    BY <1>1, RequestKinds DEF RowsToCome
  <1>3. queue' = queue /\ sent' = sent
    BY DEF server
  <1>4. Len(queue[TheWorker]) \in Nat /\ answered \in Nat /\ sent \in 0..MaxRequests
    BY LenProperties DEF Control
  <1>5. sent = answered + Len(queue[TheWorker]) + 1
    BY DEF Control
  <1>6. answered < MaxRequests
    BY <1>4, <1>5, RequestAssumption
  <1>7. sent' = answered' + Len(queue'[TheWorker]) + (IF label' = "idle" THEN 0 ELSE 1)
    <2>. DEFINE k == Len(queue[TheWorker])
    <2>1. k \in Nat /\ sent = answered + k + 1 /\ Len(queue'[TheWorker]) = k
      BY <1>3, <1>4, <1>5
    <2>. HIDE DEF k
    <2>2. sent' = answered' + k + 0
      BY <1>1, <1>3, <1>4, <2>1
    <2>. QED BY <1>1, <2>1, <2>2
  <1>8. Control'
    <2>1. Served(label', serving')
      BY <1>1 DEF Served
    <2>2. DOMAIN queue' = Workers /\ queue'[TheWorker] \in Seq(Requests)
      BY <1>3 DEF Control
    <2>3. sent' \in 0..MaxRequests /\ answered' \in Nat
      BY <1>1, <1>3, <1>4
    <2>. QED BY <1>1, <1>7, <2>1, <2>2, <2>3 DEF Control
  <1>. QED BY <1>1, <1>2, <1>4, <1>6, <1>8

\* Without an operation on the store: an empty upload, or one at its end, and a 404.
LEMMA AnsweredOnly ==
  ASSUME OneWorker, Inv, Answer(TheWorker), UNCHANGED <<server, store, settled>>,
         label \in {"next_row", "find_deleted", "copy_redacted"},
         serving.op = "upload" => serving.rows = <<>>
  PROVE  Inv' /\ serving'.op = "none"
  <1>1. Control /\ Counted /\ Progress /\ label # "idle"
    BY DEF Inv
  <1>2. /\ Control' /\ label' = "idle" /\ serving'.op = "none" /\ RowsToCome' = 0
        /\ answered \in Nat /\ answered' = answered + 1
    BY <1>1, Answered
  <1>3. Counted'
    <2>1. RowsToCome = 0
      BY <1>1 DEF RowsToCome
    <2>2. counter \in Int /\ MaxRequestRows \in Nat
      BY <1>1, RequestAssumption DEF Counted
    <2>3. 0 - 1 - counter <= Allowed(answered + 1)
      <3>1. 0 - 1 - counter <= Allowed(answered) \/ 0 - 1 - counter <= Allowed(answered + 1)
        <4>1. answered + 0 = answered
          BY <1>2
        <4>. QED BY <1>1, <2>1, <4>1 DEF Counted
      <3>2. Allowed(answered) \in Nat /\ Allowed(answered + 1) = Allowed(answered) + MaxRequestRows
        BY <1>2, AllowedMore
      <3>. QED BY <2>2, <3>1, <3>2
    <2>4. RowsToCome' - 1 - counter <= Allowed(answered' + (IF serving'.op = "upload" THEN 1 ELSE 0))
      <3>1. answered' + 0 = answered + 1
        BY <1>2
      <3>. QED BY <1>2, <2>3, <3>1
    <2>5. answered' \in Nat /\ answered <= answered'
      BY <1>2
    <2>. QED BY <1>1, <1>2, <2>4, <2>5, CountedLater
  <1>4. Progress'
    <2>1. StoreIs(by_id, by_iata, by_icao, known_routes, counter)
      BY <1>1 DEF Progress, QuietLabels
    <2>2. StoreIs(by_id, by_iata, by_icao, known_routes, counter)'
      BY <2>1 DEF StoreIs, store, by_id, by_iata, by_icao, known_routes, counter
    <2>. QED BY <1>2, <2>2 DEF Progress, AddProgress, DeleteProgress, RedactProgress, DeleteLabels
  <1>. QED BY <1>2, <1>3, <1>4 DEF Inv

\* The rows AirTravelDb has still to add.
rows_left == IF serving.op = "upload" THEN serving.rows ELSE <<>>

LEMMA TakeInv ==
  ASSUME OneWorker, Inv, Take(TheWorker)
  PROVE  /\ Inv' /\ UNCHANGED settled /\ rows_left = <<>>
         /\ answered \in Nat /\ answered < MaxRequests /\ answered' = answered
         /\ serving'.op # "upload" \/ serving' \in ShortUploads
  <1>. DEFINE q == Head(queue[TheWorker])
              k == Len(queue[TheWorker])
              next == CASE q.op = "upload" -> "next_row"
                        [] q.op = "save"   -> "copy_existing"
                        [] q.op = "delete" -> "find_deleted"
                        [] q.op = "redact" -> "copy_redacted"
  <1>1. Control /\ Counted /\ Progress /\ label = "idle"
    BY DEF Inv, Take, At, label
  <1>2. serving.op = "none"
    BY <1>1, KindServed DEF Control
  <1>3. queue[TheWorker] \in Seq(Requests) /\ queue[TheWorker] # <<>>
    BY <1>1 DEF Control, Take
  <1>4. /\ q \in Requests /\ k \in Nat /\ k > 0
        /\ Tail(queue[TheWorker]) \in Seq(Requests) /\ Len(Tail(queue[TheWorker])) = k - 1
    BY <1>3, EmptySeq, LenProperties, HeadTailProperties
  <1>5. /\ UNCHANGED <<store, sent, a, answered, settled>>
        /\ DOMAIN queue' = Workers /\ queue'[TheWorker] = Tail(queue[TheWorker])
        /\ DOMAIN job' = Workers /\ serving' = q /\ DOMAIN pc' = Workers /\ label' = next
    BY <1>1 DEF Take, Goto, Control, OneWorker, serving, label
  <1>. HIDE DEF k, next
  <1>6. /\ Served(next, q)
        /\ next \in {"next_row", "copy_existing", "find_deleted", "copy_redacted"}
        /\ q.op = "upload" => q \in ShortUploads
    <2>1. q \in ShortUploads \/ q \in Saves \/ q \in Deletes \/ q \in Redactions
      BY <1>4, RequestKinds
    <2>. HIDE DEF q
    <2>2. CASE q \in ShortUploads
      <3>1. q.op = "upload" /\ next = "next_row"
        BY <2>2, RequestKinds DEF next, q
      <3>. QED BY <2>2, <3>1 DEF Served
    <2>3. CASE q \in Saves
      <3>1. q.op = "save" /\ next = "copy_existing"
        BY <2>3, RequestKinds DEF next, q
      <3>. QED BY <2>3, <3>1 DEF Served
    <2>4. CASE q \in Deletes
      <3>1. q.op = "delete" /\ next = "find_deleted"
        BY <2>4, RequestKinds DEF next, q
      <3>. QED BY <2>4, <3>1 DEF Served, DeleteLabels
    <2>5. CASE q \in Redactions
      <3>1. q.op = "redact" /\ next = "copy_redacted"
        BY <2>5, RequestKinds DEF next, q
      <3>. QED BY <2>5, <3>1 DEF Served, RedactLabels
    <2>. QED BY <2>1, <2>2, <2>3, <2>4, <2>5
  <1>7. /\ answered \in Nat /\ sent \in 0..MaxRequests /\ MaxRequests \in Nat
        /\ sent = answered + k + 0
    BY <1>1, RequestAssumption DEF Control, k
  <1>8. Control'
    <2>1. sent' = answered' + Len(queue'[TheWorker]) + (IF label' = "idle" THEN 0 ELSE 1)
      <3>1. answered' = answered /\ sent' = sent /\ Len(queue'[TheWorker]) = k - 1 /\ label' # "idle"
        BY <1>4, <1>5, <1>6
      <3>2. sent' = answered' + (k - 1) + 1
        BY <1>4, <1>7, <3>1
      <3>. QED BY <3>1, <3>2
    <2>2. sent' \in 0..MaxRequests /\ answered' \in Nat /\ queue'[TheWorker] \in Seq(Requests)
      BY <1>4, <1>5, <1>7
    <2>3. Served(label', serving') /\ DOMAIN a' = Workers
      BY <1>1, <1>5, <1>6 DEF Control
    <2>. QED BY <1>5, <2>1, <2>2, <2>3 DEF Control
  <1>9. Counted'
    <2>. DEFINE n == IF q.op = "upload" THEN Len(q.rows) ELSE 0
                one == IF q.op = "upload" THEN 1 ELSE 0
    <2>1. -1 - counter <= Allowed(answered) /\ counter \in Int
      <3>1. RowsToCome = 0 /\ answered + 0 = answered
        BY <1>2, <1>7 DEF RowsToCome
      <3>. QED BY <1>1, <1>2, <3>1 DEF Counted
    <2>2. Allowed(answered) \in Nat /\ Allowed(answered + 1) = Allowed(answered) + MaxRequestRows
      BY <1>7, AllowedMore
    <2>3. q.op = "upload" => Len(q.rows) \in Nat /\ Len(q.rows) <= MaxRequestRows
      BY <1>6, LenProperties DEF ShortUploads, Uploads
    <2>4. MaxRequestRows \in Nat
      BY RequestAssumption
    <2>5. n - 1 - counter <= Allowed(answered + one)
      <3>1. CASE q.op = "upload"
        BY <2>1, <2>2, <2>3, <2>4, <3>1
      <3>2. CASE q.op # "upload"
        <4>1. answered + one = answered /\ n = 0
          BY <1>7, <3>2
        <4>. QED BY <2>1, <4>1
      <3>. QED BY <3>1, <3>2
    <2>6. /\ RowsToCome' = n /\ answered' = answered /\ (IF serving'.op = "upload" THEN 1 ELSE 0) = one
      BY <1>5 DEF RowsToCome
    <2>. HIDE DEF n, one
    <2>7. RowsToCome' - 1 - counter <= Allowed(answered' + (IF serving'.op = "upload" THEN 1 ELSE 0))
      BY <2>5, <2>6
    <2>8. answered \in Nat /\ answered' \in Nat /\ answered <= answered'
      BY <1>7, <2>6
    <2>. QED BY <1>1, <1>5, <2>7, <2>8, CountedLater
  <1>10. Progress'
    <2>1. StoreIs(by_id, by_iata, by_icao, known_routes, counter)'
      BY <1>1, <1>5 DEF Progress, QuietLabels, StoreIs, store, by_id, by_iata, by_icao, known_routes, counter
    <2>2. label' \in {"next_row", "copy_existing", "find_deleted", "copy_redacted"}
      BY <1>5, <1>6
    <2>. QED BY <2>1, <2>2 DEF Progress, AddProgress, DeleteProgress, RedactProgress, DeleteLabels
  <1>. QED BY <1>2, <1>4, <1>5, <1>6, <1>7, <1>8, <1>9, <1>10 DEF Inv, rows_left

-----------------------------------------------------------------------------
(* Operations that end.                                                    *)

LEMMA BagMore ==
  ASSUME NEW B, IsABag(B), IsFiniteSet(BagToSet(B)), NEW b
  PROVE  LET C == B (+) SetToBag({b}) IN
         /\ IsABag(C) /\ IsFiniteSet(BagToSet(C))
         /\ Cardinality(BagToSet(C)) <= Cardinality(BagToSet(B)) + 1
         /\ \A n \in Nat : (\A x \in BagToSet(B) : B[x] <= n) => \A x \in BagToSet(C) : C[x] <= n + 1
  <1>. DEFINE C == B (+) SetToBag({b})
  <1>1. C = [e \in DOMAIN B \cup {b} |->
               (IF e \in DOMAIN B THEN B[e] ELSE 0) + (IF e = b THEN 1 ELSE 0)]
    BY Zenon DEF (+), SetToBag
  <1>2. \A e \in DOMAIN B : B[e] \in Nat /\ B[e] > 0
    BY DEF IsABag
  <1>. HIDE DEF C
  <1>3. IsABag(C)
    BY <1>1, <1>2 DEF IsABag
  <1>4. BagToSet(B) = DOMAIN B /\ BagToSet(C) = DOMAIN B \cup {b}
    BY <1>1 DEF BagToSet
  <1>5. /\ IsFiniteSet(DOMAIN B \cup {b}) /\ Cardinality(DOMAIN B) \in Nat
        /\ Cardinality(DOMAIN B \cup {b}) <= Cardinality(DOMAIN B) + 1
    <2>1. IsFiniteSet(DOMAIN B) /\ Cardinality(DOMAIN B) \in Nat
      BY <1>4, FS_CardinalityType
    <2>2. CASE b \in DOMAIN B
      <3>1. DOMAIN B \cup {b} = DOMAIN B
        BY <2>2
      <3>. QED BY <2>1, <3>1
    <2>3. CASE b \notin DOMAIN B
      <3>1. IsFiniteSet(DOMAIN B \cup {b}) /\ Cardinality(DOMAIN B \cup {b}) = Cardinality(DOMAIN B) + 1
        BY <2>1, <2>3, FS_AddElement
      <3>. QED BY <2>1, <3>1
    <2>. QED BY <2>2, <2>3
  <1>6. ASSUME NEW n \in Nat, \A x \in BagToSet(B) : B[x] <= n, NEW x \in BagToSet(C)
        PROVE  C[x] <= n + 1
    <2>1. C[x] = (IF x \in DOMAIN B THEN B[x] ELSE 0) + (IF x = b THEN 1 ELSE 0)
      BY <1>1, <1>4, <1>6
    <2>2. x \in DOMAIN B => B[x] \in Nat /\ B[x] <= n
      BY <1>2, <1>4, <1>6
    <2>. QED BY <2>1, <2>2
  <1>. QED BY <1>3, <1>4, <1>5, <1>6 DEF C

LEMMA BagLess ==
  ASSUME NEW B, IsABag(B), IsFiniteSet(BagToSet(B)), NEW S \in SUBSET BagToSet(B)
  PROVE  LET C == Restrict(B, S) IN
         /\ IsABag(C) /\ IsFiniteSet(BagToSet(C))
         /\ Cardinality(BagToSet(C)) <= Cardinality(BagToSet(B))
         /\ \A x \in BagToSet(C) : x \in BagToSet(B) /\ C[x] = B[x]
  <1>. DEFINE C == Restrict(B, S)
  <1>1. C = [x \in S |-> B[x]]
    BY DEF Restrict
  <1>. HIDE DEF C
  <1>2. BagToSet(C) = S /\ BagToSet(B) = DOMAIN B
    BY <1>1 DEF BagToSet
  <1>3. IsABag(C)
    BY <1>1, <1>2 DEF IsABag
  <1>4. IsFiniteSet(S) /\ Cardinality(S) <= Cardinality(BagToSet(B))
    BY FS_Subset
  <1>. QED BY <1>1, <1>2, <1>3, <1>4 DEF C

\* The store an operation leaves is the one the next starts from.
LEMMA SettledProgress ==
  ASSUME Settle, label' \in {"idle", "next_row"}
  PROVE  /\ Progress' /\ settled' = <<by_id', by_iata', by_icao', known_routes', counter'>>
         /\ by_id' = airports_by_id' /\ by_iata' = airports_by_iata' /\ by_icao' = airports_by_icao'
         /\ known_routes' = routes' /\ counter' = next_upload_id'
  <1>1. /\ settled' = <<by_id', by_iata', by_icao', known_routes', counter'>>
        /\ by_id' = airports_by_id' /\ by_iata' = airports_by_iata' /\ by_icao' = airports_by_icao'
        /\ known_routes' = routes' /\ counter' = next_upload_id'
    BY DEF Settle, store, by_id, by_iata, by_icao, known_routes, counter
  <1>2. StoreIs(by_id, by_iata, by_icao, known_routes, counter)'
    BY <1>1 DEF StoreIs
  <1>. QED BY <1>1, <1>2 DEF Progress, AddProgress, DeleteProgress, RedactProgress, DeleteLabels

\* add_airport has filed its airport.
Filing ==
  /\ by_id' = Put(by_id, Filed.id, Filed)
  /\ by_iata' = Put(by_iata, Filed.iata, Filed)
  /\ by_icao' = IF Filed.icao = NoIcao THEN by_icao ELSE by_icao (+) SetToBag({Filed})
  /\ known_routes' = known_routes
  /\ counter' = IF IsKnown THEN counter ELSE counter - 1

LEMMA FilingShapes ==
  ASSUME Counted, Filing
  PROVE  \A c \in DOMAIN by_iata' : Shaped(by_iata'[c])
  <1>1. Shaped(Filed) /\ \A c \in DOMAIN by_iata : Shaped(by_iata[c])
    BY CalledShape DEF Counted
  <1>. QED BY <1>1 DEF Filing, Put

LEMMA WriteIcaoInv ==
  ASSUME OneWorker, Inv, WriteIcao(TheWorker)
  PROVE  /\ Inv' /\ Filing
         /\ \/ /\ serving.op = "upload" /\ serving \in ShortUploads /\ serving.rows # <<>>
               /\ rows_left' = Tail(rows_left)
            \/ /\ serving.op = "save" /\ serving \in Saves /\ rows_left' = <<>>
               /\ answered \in Nat /\ answered < MaxRequests
  <1>1. /\ label = "write_icao" /\ Control /\ Counted /\ Progress
        /\ AddReturns(TheWorker) /\ Settle /\ UNCHANGED server
        /\ UNCHANGED <<airports_by_id, airports_by_iata, routes, next_upload_id>>
    BY DEF Inv, WriteIcao, At, label
  <1>2. \/ serving.op = "save" /\ serving \in Saves
        \/ serving.op = "upload" /\ serving \in ShortUploads /\ serving.rows # <<>>
    BY <1>1, KindServed DEF Control, AddLabels
  <1>3. /\ local = Filed
        /\ StoreIs(Put(by_id, Filed.id, Filed), Put(by_iata, Filed.iata, Filed), by_icao,
                   known_routes, IF IsKnown THEN counter ELSE counter - 1)
    BY <1>1 DEF Progress, AddProgress
  <1>4. airports_by_icao' = IF Filed.icao = NoIcao THEN by_icao ELSE by_icao (+) SetToBag({Filed})
    BY <1>3 DEF WriteIcao, StoreIs, local
  <1>5. ASSUME label' \in {"idle", "next_row"}
        PROVE  /\ Progress' /\ Filing
               /\ settled' = <<by_id', by_iata', by_icao', known_routes', counter'>>
    BY <1>1, <1>3, <1>4, <1>5, SettledProgress DEF StoreIs, Filing
  <1>6. counter \in Int /\ MaxRequestRows \in Nat \ {0}
    BY <1>1, RequestAssumption DEF Counted
  <1>7. CASE serving.op = "upload" /\ serving \in ShortUploads /\ serving.rows # <<>>
    <2>. DEFINE rest == Tail(serving.rows)
    <2>1. /\ Goto(TheWorker, "next_row") /\ UNCHANGED <<a, answered>>
          /\ job' = [job EXCEPT ![TheWorker].rows = Tail(@)]
      BY <1>1, <1>7 DEF AddReturns, RowsLeft, serving
    <2>2. /\ serving.rows \in Seq(UploadRows) /\ Len(serving.rows) <= MaxRequestRows
          /\ serving = [op |-> "upload", rows |-> serving.rows]
      BY <1>7 DEF ShortUploads, Uploads
    <2>3. /\ rest \in Seq(UploadRows) /\ Len(rest) = Len(serving.rows) - 1 /\ Len(serving.rows) \in Nat
      BY <1>7, <2>2, EmptySeq, LenProperties, HeadTailProperties
    <2>4. serving' = [op |-> "upload", rows |-> rest] /\ DOMAIN job' = Workers
      <3>1. serving' = [serving EXCEPT !.rows = rest] /\ DOMAIN job' = Workers
        BY <1>1, <2>1 DEF serving, Control, OneWorker
      <3>2. DOMAIN serving = {"op", "rows"} /\ serving.op = "upload"
        BY <2>2
      <3>. HIDE DEF rest
      <3>. QED BY <3>1, <3>2
    <2>. HIDE DEF rest
    <2>5. serving' \in ShortUploads /\ serving'.op = "upload" /\ serving'.rows = rest
      BY <1>6, <2>2, <2>3, <2>4 DEF ShortUploads, Uploads
    <2>6. label' = "next_row" /\ DOMAIN pc' = Workers
      BY <1>1, <2>1 DEF Goto, label, Control, OneWorker
    <2>7. Progress' /\ Filing /\ settled' = <<by_id', by_iata', by_icao', known_routes', counter'>>
      BY <1>5, <2>6
    <2>8. Control'
      <3>1. queue' = queue /\ sent' = sent /\ answered' = answered /\ a' = a
        BY <1>1, <2>1 DEF server
      <3>2. Served(label', serving')
        BY <2>5, <2>6 DEF Served
      <3>. QED BY <1>1, <2>4, <2>6, <3>1, <3>2 DEF Control
    <2>9. Counted'
      <3>1. by_icao' = by_icao
        BY <1>1, <1>7, <2>7, CalledShape DEF Filing
      <3>2. counter' \in Int /\ counter' >= counter - 1
        BY <1>6, <2>7 DEF Filing
      <3>3. RowsToCome = Len(serving.rows) /\ RowsToCome' = Len(rest) /\ answered' = answered
        BY <1>7, <2>1, <2>5 DEF RowsToCome
      <3>4. Len(serving.rows) - 1 - counter <= Allowed(answered + 1) /\ answered \in Nat
        BY <1>1, <1>7, <3>3 DEF Counted, Control
      <3>5. Len(rest) - 1 - counter' <= Allowed(answered + 1)
        <4>1. Allowed(answered + 1) \in Nat
          BY <3>4, AllowedMore
        <4>. QED BY <1>6, <2>3, <3>2, <3>4, <4>1
      <3>6. RowsToCome' - 1 - counter' <= Allowed(answered' + (IF serving'.op = "upload" THEN 1 ELSE 0))
        BY <2>5, <3>3, <3>5
      <3>7. \A c \in DOMAIN by_iata' : Shaped(by_iata'[c])
        BY <1>1, <2>7, FilingShapes
      <3>. QED BY <1>1, <2>7, <3>1, <3>2, <3>3, <3>6, <3>7 DEF Counted
    <2>10. rows_left' = Tail(rows_left)
      BY <1>7, <2>5 DEF rows_left, rest
    <2>. QED BY <1>7, <2>7, <2>8, <2>9, <2>10 DEF Inv
  <1>8. CASE serving.op = "save" /\ serving \in Saves
    <2>1. Answer(TheWorker)
      BY <1>1, <1>8 DEF AddReturns, serving
    <2>2. /\ Control' /\ label' = "idle" /\ serving' = Idle /\ serving'.op = "none"
          /\ RowsToCome' = 0 /\ answered \in Nat /\ answered' = answered + 1 /\ answered < MaxRequests
      BY <1>1, <2>1, Answered
    <2>3. Progress' /\ Filing /\ settled' = <<by_id', by_iata', by_icao', known_routes', counter'>>
      BY <1>5, <2>2
    <2>4. Counted'
      <3>1. counter' \in Int /\ counter' >= counter - 1
        BY <1>6, <2>3 DEF Filing
      <3>2. RowsToCome' - 1 - counter' <= Allowed(answered' + (IF serving'.op = "upload" THEN 1 ELSE 0))
        <4>1. 0 - 1 - counter <= Allowed(answered)
          <5>1. RowsToCome = 0 /\ answered + 0 = answered
            BY <1>8, <2>2 DEF RowsToCome
          <5>. QED BY <1>1, <1>8, <5>1 DEF Counted
        <4>2. Allowed(answered) \in Nat /\ Allowed(answered + 1) = Allowed(answered) + MaxRequestRows
          BY <2>2, AllowedMore
        <4>3. 0 - 1 - counter' <= Allowed(answered + 1)
          BY <1>6, <3>1, <4>1, <4>2
        <4>4. answered' + 0 = answered + 1
          BY <2>2
        <4>. QED BY <2>2, <4>3, <4>4
      <3>3. \A c \in DOMAIN by_iata' : Shaped(by_iata'[c])
        BY <1>1, <2>3, FilingShapes
      <3>4. /\ IsABag(by_icao') /\ IsFiniteSet(BagToSet(by_icao'))
            /\ Cardinality(BagToSet(by_icao')) <= Cardinality(LoadedAirports) + answered'
            /\ \A b \in BagToSet(by_icao') : by_icao'[b] <= 1 + answered'
        <4>1. /\ IsABag(by_icao) /\ IsFiniteSet(BagToSet(by_icao))
              /\ Cardinality(BagToSet(by_icao)) <= Cardinality(LoadedAirports) + answered
              /\ \A b \in BagToSet(by_icao) : by_icao[b] <= 1 + answered
          BY <1>1 DEF Counted
        <4>2. /\ Cardinality(BagToSet(by_icao)) \in Nat /\ Cardinality(LoadedAirports) \in Nat
              /\ 1 + answered \in Nat /\ \A b \in BagToSet(by_icao) : by_icao[b] \in Nat
          BY <2>2, <4>1, FiniteAssumption, FS_CardinalityType DEF IsABag, BagToSet
        <4>3. CASE Filed.icao = NoIcao
          <5>1. by_icao' = by_icao
            BY <2>3, <4>3 DEF Filing
          <5>. QED BY <2>2, <4>1, <4>2, <5>1
        <4>4. CASE Filed.icao # NoIcao
          <5>. DEFINE C == by_icao (+) SetToBag({Filed})
          <5>1. by_icao' = C
            BY <2>3, <4>4 DEF Filing
          <5>2. /\ IsABag(C) /\ IsFiniteSet(BagToSet(C))
                /\ Cardinality(BagToSet(C)) <= Cardinality(BagToSet(by_icao)) + 1
                /\ \A n \in Nat : (\A x \in BagToSet(by_icao) : by_icao[x] <= n)
                                    => \A x \in BagToSet(C) : C[x] <= n + 1
            BY <4>1, BagMore
          <5>. HIDE DEF C
          <5>3. \A x \in BagToSet(C) : C[x] <= 1 + answered + 1
            BY <4>1, <4>2, <5>2
          <5>4. Cardinality(BagToSet(C)) \in Nat
            BY <5>2, FS_CardinalityType
          <5>5. 1 + answered + 1 = 1 + answered'
            BY <2>2
          <5>6. Cardinality(BagToSet(C)) <= Cardinality(LoadedAirports) + answered'
            BY <2>2, <4>1, <4>2, <5>2, <5>4
          <5>. QED BY <5>1, <5>2, <5>3, <5>5, <5>6
        <4>. QED BY <4>3, <4>4
      <3>. QED BY <2>3, <3>1, <3>2, <3>3, <3>4 DEF Counted
    <2>5. rows_left' = <<>>
      BY <2>2 DEF rows_left
    <2>. QED BY <1>8, <2>2, <2>3, <2>4, <2>5 DEF Inv
  <1>. QED BY <1>2, <1>7, <1>8

\* A delete or a redaction answers; it hands out no id and files no copy.
LEMMA AnsweredWithLess ==
  ASSUME OneWorker, Inv, Answer(TheWorker), Settle, UNCHANGED server, label # "idle",
         serving.op \in {"delete", "redact"}, counter' = counter,
         \A c \in DOMAIN by_iata' : Shaped(by_iata'[c]),
         by_icao' = by_icao \/ \E S \in SUBSET BagToSet(by_icao) : by_icao' = Restrict(by_icao, S)
  PROVE  Inv' /\ rows_left = <<>> /\ rows_left' = <<>>
  <1>1. Control /\ Counted
    BY DEF Inv
  <1>2. /\ Control' /\ label' = "idle" /\ serving'.op = "none" /\ RowsToCome' = 0
        /\ answered \in Nat /\ answered' = answered + 1
    BY <1>1, Answered
  <1>3. Progress' /\ settled' = <<by_id', by_iata', by_icao', known_routes', counter'>>
    BY <1>2, SettledProgress
  <1>4. counter \in Int /\ MaxRequestRows \in Nat
    BY <1>1, RequestAssumption DEF Counted
  <1>5. RowsToCome' - 1 - counter' <= Allowed(answered' + (IF serving'.op = "upload" THEN 1 ELSE 0))
    <2>1. 0 - 1 - counter <= Allowed(answered)
      <3>1. RowsToCome = 0 /\ answered + 0 = answered /\ serving.op # "upload"
        BY <1>2 DEF RowsToCome
      <3>. QED BY <1>1, <3>1 DEF Counted
    <2>2. Allowed(answered) \in Nat /\ Allowed(answered + 1) = Allowed(answered) + MaxRequestRows
      BY <1>2, AllowedMore
    <2>3. 0 - 1 - counter <= Allowed(answered + 1)
      BY <1>4, <2>1, <2>2
    <2>4. answered' + 0 = answered + 1
      BY <1>2
    <2>. QED BY <1>2, <2>3, <2>4
  <1>6. /\ IsABag(by_icao') /\ IsFiniteSet(BagToSet(by_icao'))
        /\ Cardinality(BagToSet(by_icao')) <= Cardinality(LoadedAirports) + answered'
        /\ \A b \in BagToSet(by_icao') : by_icao'[b] <= 1 + answered'
    <2>1. /\ IsABag(by_icao) /\ IsFiniteSet(BagToSet(by_icao))
          /\ Cardinality(BagToSet(by_icao)) <= Cardinality(LoadedAirports) + answered
          /\ \A b \in BagToSet(by_icao) : by_icao[b] <= 1 + answered
      BY <1>1 DEF Counted
    <2>2. /\ Cardinality(BagToSet(by_icao)) \in Nat /\ Cardinality(LoadedAirports) \in Nat
          /\ \A b \in BagToSet(by_icao) : by_icao[b] \in Nat
      BY <2>1, FiniteAssumption, FS_CardinalityType DEF IsABag, BagToSet
    <2>3. CASE by_icao' = by_icao
      BY <1>2, <2>1, <2>2, <2>3
    <2>4. ASSUME NEW S \in SUBSET BagToSet(by_icao), by_icao' = Restrict(by_icao, S)
          PROVE  /\ IsABag(by_icao') /\ IsFiniteSet(BagToSet(by_icao'))
                 /\ Cardinality(BagToSet(by_icao')) <= Cardinality(LoadedAirports) + answered'
                 /\ \A b \in BagToSet(by_icao') : by_icao'[b] <= 1 + answered'
      <3>. DEFINE C == Restrict(by_icao, S)
                  m == Cardinality(BagToSet(by_icao))
                  m1 == Cardinality(BagToSet(C))
                  k == Cardinality(LoadedAirports)
      <3>1. /\ IsABag(C) /\ IsFiniteSet(BagToSet(C)) /\ m1 <= m
            /\ \A x \in BagToSet(C) : x \in BagToSet(by_icao) /\ C[x] = by_icao[x]
        BY <2>1, BagLess
      <3>2. by_icao' = C
        BY <2>4
      <3>3. m1 \in Nat /\ m \in Nat /\ k \in Nat /\ m <= k + answered
        BY <2>1, <2>2, <3>1, FS_CardinalityType
      <3>4. Cardinality(BagToSet(by_icao')) = m1
        BY <3>2
      <3>. HIDE DEF C, m, m1, k
      <3>5. m1 <= k + answered'
        BY <1>2, <3>1, <3>3
      <3>6. ASSUME NEW x \in BagToSet(C) PROVE C[x] <= 1 + answered'
        <4>1. C[x] \in Nat /\ C[x] <= 1 + answered
          BY <2>1, <2>2, <3>1
        <4>. QED BY <1>2, <4>1
      <3>7. k = Cardinality(LoadedAirports)
        BY DEF k
      <3>. QED BY <3>1, <3>2, <3>4, <3>5, <3>6, <3>7
    <2>. QED BY <2>3, <2>4
  <1>7. Counted'
    BY <1>2, <1>3, <1>4, <1>5, <1>6 DEF Counted
  <1>. QED BY <1>2, <1>3, <1>7 DEF Inv, rows_left

LEMMA EraseRoutesInv ==
  ASSUME OneWorker, Inv, EraseRoutes(TheWorker)
  PROVE  /\ Inv' /\ rows_left = <<>> /\ rows_left' = <<>>
         /\ serving \in Deletes /\ Asked \in DOMAIN by_iata
         /\ by_id' = Restrict(by_id, DOMAIN by_id \ {Removed})
         /\ by_iata' = Restrict(by_iata, DOMAIN by_iata \ {Asked})
         /\ by_icao' = Restrict(by_icao, {b \in BagToSet(by_icao) : b.id # Removed})
         /\ known_routes' = {r \in known_routes : ~Touches(r, Removed)}
         /\ counter' = counter
  <1>1. /\ label = "erase_routes" /\ Control /\ Counted /\ Progress
        /\ Answer(TheWorker) /\ Settle /\ UNCHANGED server
        /\ UNCHANGED <<airports_by_id, airports_by_iata, airports_by_icao, next_upload_id>>
    BY DEF Inv, EraseRoutes, At, label
  <1>2. serving \in Deletes /\ serving.op = "delete"
    BY <1>1, KindServed DEF Control, DeleteLabels
  <1>3. /\ Asked \in DOMAIN by_iata /\ local.id = Removed
        /\ StoreIs(Restrict(by_id, DOMAIN by_id \ {Removed}),
                   Restrict(by_iata, DOMAIN by_iata \ {Asked}),
                   Restrict(by_icao, {b \in BagToSet(by_icao) : b.id # Removed}),
                   known_routes, counter)
    BY <1>1 DEF Progress, DeleteProgress, DeleteLabels, Removed
  <1>4. routes' = {r \in known_routes : ~Touches(r, Removed)}
    BY <1>3 DEF EraseRoutes, StoreIs, local
  <1>5. label' = "idle"
    BY <1>1, Answered
  <1>6. /\ by_id' = Restrict(by_id, DOMAIN by_id \ {Removed})
        /\ by_iata' = Restrict(by_iata, DOMAIN by_iata \ {Asked})
        /\ by_icao' = Restrict(by_icao, {b \in BagToSet(by_icao) : b.id # Removed})
        /\ known_routes' = {r \in known_routes : ~Touches(r, Removed)}
        /\ counter' = counter
    BY <1>1, <1>3, <1>4, <1>5, SettledProgress DEF StoreIs
  <1>7. \A c \in DOMAIN by_iata' : Shaped(by_iata'[c])
    BY <1>1, <1>6 DEF Counted, Restrict
  <1>8. {b \in BagToSet(by_icao) : b.id # Removed} \in SUBSET BagToSet(by_icao)
    OBVIOUS
  <1>. QED BY <1>1, <1>2, <1>3, <1>6, <1>7, <1>8, AnsweredWithLess

LEMMA RedactIdInv ==
  ASSUME OneWorker, Inv, RedactId(TheWorker)
  PROVE  LET b == Redacting(by_iata[Asked], serving.fields) IN
         /\ Inv' /\ rows_left = <<>> /\ rows_left' = <<>>
         /\ serving \in Redactions /\ Asked \in DOMAIN by_iata
         /\ by_id' = IF b.id \in DOMAIN by_id THEN Put(by_id, b.id, b) ELSE by_id
         /\ by_iata' = Put(by_iata, Asked, b)
         /\ by_icao' = by_icao /\ known_routes' = known_routes /\ counter' = counter
  <1>. DEFINE b == Redacting(by_iata[Asked], serving.fields)
  <1>1. /\ label = "redact_id" /\ Control /\ Counted /\ Progress
        /\ Answer(TheWorker) /\ Settle /\ UNCHANGED server
        /\ UNCHANGED <<airports_by_iata, airports_by_icao, routes, next_upload_id>>
    BY DEF Inv, RedactId, At, label
  <1>2. serving \in Redactions /\ serving.op = "redact"
    BY <1>1, KindServed DEF Control, RedactLabels
  <1>3. /\ Asked \in DOMAIN by_iata /\ local = b
        /\ StoreIs(by_id, Put(by_iata, Asked, b), by_icao, known_routes, counter)
    BY <1>1 DEF Progress, RedactProgress
  <1>. HIDE DEF b
  <1>4. airports_by_id' = IF b.id \in DOMAIN by_id THEN Put(by_id, b.id, b) ELSE by_id
    BY <1>3 DEF RedactId, StoreIs, local
  <1>5. label' = "idle"
    BY <1>1, Answered
  <1>6. /\ by_id' = IF b.id \in DOMAIN by_id THEN Put(by_id, b.id, b) ELSE by_id
        /\ by_iata' = Put(by_iata, Asked, b)
        /\ by_icao' = by_icao /\ known_routes' = known_routes /\ counter' = counter
    BY <1>1, <1>3, <1>4, <1>5, SettledProgress DEF StoreIs
  <1>7. \A c \in DOMAIN by_iata' : Shaped(by_iata'[c])
    <2>1. Shaped(b)
      <3>1. Shaped(by_iata[Asked])
        BY <1>1, <1>3 DEF Counted
      <3>. QED BY <3>1 DEF Shaped, Redacting, b
    <2>. QED BY <1>1, <1>6, <2>1 DEF Counted, Put
  <1>8. Inv' /\ rows_left = <<>> /\ rows_left' = <<>>
    BY <1>1, <1>2, <1>6, <1>7, AnsweredWithLess
  <1>. QED BY <1>2, <1>3, <1>6, <1>8 DEF b

-----------------------------------------------------------------------------
(* The invariant.                                                          *)

LEMMA InitInv ==
  ASSUME OneWorker, Init
  PROVE  Inv
  <1>. DEFINE filed == {b \in LoadedAirports : b.icao # NoIcao}
  <1>1. /\ label = "idle" /\ serving = Idle /\ queue[TheWorker] = <<>>
        /\ DOMAIN queue = Workers /\ DOMAIN pc = Workers /\ DOMAIN job = Workers /\ DOMAIN a = Workers
        /\ sent = 0 /\ answered = 0 /\ settled = store
    BY DEF Init, OneWorker, label, serving
  <1>2. serving.op = "none"
    BY <1>1, RequestKinds
  <1>3. Control
    <2>1. Len(<<>>) = 0 /\ <<>> \in Seq(Requests) /\ 0 + 0 + 0 = 0 /\ 0 \in Nat
      OBVIOUS
    <2>2. sent \in 0..MaxRequests
      BY <1>1, RequestAssumption
    <2>. QED BY <1>1, <2>1, <2>2 DEF Control, Served
  <1>4. /\ by_id = airports_by_id /\ by_iata = airports_by_iata /\ by_icao = airports_by_icao
        /\ known_routes = routes /\ counter = next_upload_id
        /\ settled = <<by_id, by_iata, by_icao, known_routes, counter>>
    BY <1>1 DEF store, by_id, by_iata, by_icao, known_routes, counter
  <1>5. Counted
    <2>1. counter \in Int /\ counter = -1
      BY <1>4 DEF Init
    <2>2. RowsToCome - 1 - counter <= Allowed(answered + (IF serving.op = "upload" THEN 1 ELSE 0))
      <3>1. RowsToCome = 0
        BY <1>2 DEF RowsToCome
      <3>2. Allowed(0) \in Nat
        BY AllowedMore
      <3>3. answered + 0 = 0
        BY <1>1
      <3>4. 0 - 1 - counter <= Allowed(0)
        BY <2>1, <3>2
      <3>. QED BY <1>2, <3>1, <3>3, <3>4
    <2>3. \A c \in DOMAIN by_iata : Shaped(by_iata[c])
      <3>1. ASSUME NEW c \in DOMAIN by_iata PROVE by_iata[c] \in LoadedAirports
        BY <1>4 DEF Init
      <3>2. \A b \in LoadedAirports : Shaped(b)
        BY LoadAssumption DEF Airport, Shaped
      <3>. QED BY <3>1, <3>2
    <2>4. /\ IsABag(by_icao) /\ IsFiniteSet(BagToSet(by_icao))
          /\ Cardinality(BagToSet(by_icao)) <= Cardinality(LoadedAirports) + answered
          /\ \A b \in BagToSet(by_icao) : by_icao[b] <= 1 + answered
      <3>1. by_icao = [b \in filed |-> 1]
        BY <1>4 DEF Init, SetToBag
      <3>2. filed \in SUBSET LoadedAirports
        OBVIOUS
      <3>. HIDE DEF filed
      <3>3. IsFiniteSet(filed) /\ Cardinality(filed) <= Cardinality(LoadedAirports)
        BY <3>2, FiniteAssumption, FS_Subset
      <3>4. Cardinality(filed) \in Nat /\ Cardinality(LoadedAirports) \in Nat
        BY <3>3, FiniteAssumption, FS_CardinalityType
      <3>5. BagToSet(by_icao) = filed /\ IsABag(by_icao)
        BY <3>1 DEF BagToSet, IsABag
      <3>. QED BY <1>1, <3>1, <3>3, <3>4, <3>5
    <2>. QED BY <1>4, <2>1, <2>2, <2>3, <2>4 DEF Counted
  <1>6. Progress
    BY <1>1, <1>4 DEF Progress, AddProgress, DeleteProgress, RedactProgress, DeleteLabels, StoreIs
  <1>. QED BY <1>3, <1>5, <1>6 DEF Inv

-----------------------------------------------------------------------------
(* Each step as AirTravelDb sees it.                                       *)

LEMMA SeenAsNothing ==
  ASSUME UNCHANGED settled, rows_left' = rows_left
  PROVE  UNCHANGED Db!vars
  BY DEF Db!vars, Db!store, rows_left, serving

LEMMA SeenAsBegin ==
  ASSUME OneWorker, Inv, Take(TheWorker)
  PROVE  Inv' /\ (Db!Next \/ UNCHANGED Db!vars)
  <1>1. /\ Inv' /\ UNCHANGED settled /\ rows_left = <<>>
        /\ answered \in Nat /\ answered < MaxRequests /\ answered' = answered
        /\ serving'.op # "upload" \/ serving' \in ShortUploads
    BY TakeInv
  <1>2. CASE serving'.op # "upload" \/ serving'.rows = <<>>
    <2>1. rows_left' = rows_left
      BY <1>1, <1>2 DEF rows_left
    <2>. QED BY <1>1, <2>1, SeenAsNothing
  <1>3. CASE serving'.op = "upload" /\ serving'.rows # <<>>
    <2>. DEFINE rows == serving'.rows
                n == Len(rows)
    <2>1. rows_left' = rows
      BY <1>3 DEF rows_left
    <2>2. rows \in Seq(UploadRows) /\ n <= MaxRequestRows
      BY <1>1, <1>3 DEF ShortUploads, Uploads
    <2>3. n \in 1..MaxRequestRows /\ rows \in [1..n -> UploadRows]
      BY <1>3, <2>2, EmptySeq, LenProperties, RequestAssumption
    <2>4. counter - n >= -MaxUploads - 1
      <3>1. n - 1 - counter' <= Allowed(answered + 1) /\ counter' = counter /\ counter \in Int
        BY <1>1, <1>3 DEF Inv, Counted, RowsToCome, counter
      <3>2. Allowed(answered + 1) \in Nat /\ Allowed(answered + 1) <= MaxUploads
        BY <1>1, AllowedMore
      <3>. HIDE DEF n
      <3>. QED BY <2>3, <3>1, <3>2, RequestAssumption, BoundAssumption
    <2>. HIDE DEF rows, n
    <2>5. Db!UploadBegin
      BY <1>1, <2>1, <2>3, <2>4 DEF Db!UploadBegin, Db!store, rows_left, serving, counter
    <2>. QED BY <1>1, <2>5 DEF Db!Next
  <1>. QED BY <1>2, <1>3

\* AirTravelDb brings its own copies of the operators both modules use.
LEMMA SameOperators ==
  /\ \A f, k, v : Db!Put(f, k, v) = Put(f, k, v)
  /\ \A f, S : Db!Restrict(f, S) = Restrict(f, S)
  /\ \A row : Db!AirportOfRow(row) = AirportOfRow(row)
  /\ \A c : Db!Blank(c) = Blank(c)
  /\ \A b, given : Db!Given(b, given) = Given(b, given)
  /\ \A b, fs : Db!Redacting(b, fs) = Redacting(b, fs)
  /\ \A r, id : Db!Touches(r, id) <=> Touches(r, id)
  /\ \A B : Db!BagToSet(B) = BagToSet(B)
  /\ \A S : Db!SetToBag(S) = SetToBag(S)
  BY Zenon DEF Db!Put, Db!Restrict, Db!AirportOfRow, Db!Blank, Db!Given, Db!Redacting, Db!Touches,
     Db!BagToSet, Db!SetToBag, Put, Restrict, AirportOfRow, Blank, Given, Redacting, Touches,
     BagToSet, SetToBag

LEMMA SameCardinality ==
  \A S : Db!Cardinality(S) = Cardinality(S)
  BY Zenon DEF Db!Cardinality, Cardinality

LEMMA SameFiling ==
  ASSUME NEW b, Filing, b = Filed
  PROVE  Db!FileUnderIcao(b)
  BY Zenon, SameOperators DEF Filing, Db!FileUnderIcao, by_icao, Db!(+), (+)

\* What is filed is what add_airport files in one step.
LEMMA FilingAdds ==
  ASSUME Filing
  PROVE  Db!AddAirport(Called)
  <1>1. CASE IsKnown
    <2>1. Db!OverwriteAirport(Called)
      <3>1. Filed = Renumbered /\ Db!FileUnderIcao(Renumbered)
        BY <1>1, SameFiling DEF Filed
      <3>2. settled[1]' = Put(settled[1], Renumbered.id, Renumbered)
        BY <3>1 DEF Filing, by_id
      <3>3. settled[2]' = Put(settled[2], Renumbered.iata, Renumbered)
        BY <3>1 DEF Filing, by_iata
      <3>4. settled[4]' = settled[4] /\ settled[5]' = settled[5]
        BY <1>1 DEF Filing, known_routes, counter
      <3>5. Db!Store(Renumbered)
        BY <3>1, <3>2, <3>3, SameOperators DEF Db!Store
      <3>. QED BY <3>4, <3>5 DEF Db!OverwriteAirport, Renumbered, by_iata
    <2>. QED BY <1>1, <2>1 DEF Db!AddAirport, Db!Known, IsKnown, by_iata
  <1>2. CASE ~IsKnown
    <2>1. Db!AddNewAirport(Called)
      <3>1. Filed = Numbered /\ Db!FileUnderIcao(Numbered)
        BY <1>2, SameFiling DEF Filed
      <3>2. settled[1]' = Put(settled[1], Numbered.id, Numbered)
        BY <3>1 DEF Filing, by_id
      <3>3. settled[2]' = Put(settled[2], Numbered.iata, Numbered)
        BY <3>1 DEF Filing, by_iata
      <3>4. settled[4]' = settled[4] /\ settled[5]' = settled[5] - 1
        BY <1>2 DEF Filing, known_routes, counter
      <3>5. Db!Store(Numbered)
        BY <3>1, <3>2, <3>3, SameOperators DEF Db!Store
      <3>. QED BY <3>4, <3>5 DEF Db!AddNewAirport, Db!NextId, Numbered, counter
    <2>. QED BY <1>2, <2>1 DEF Db!AddAirport, Db!Known, IsKnown, by_iata
  <1>. QED BY <1>1, <1>2

LEMMA SeenAsAdd ==
  ASSUME OneWorker, Inv, WriteIcao(TheWorker)
  PROVE  Inv' /\ Db!Next
  <1>1. Inv' /\ Filing
    BY WriteIcaoInv
  <1>2. Db!AddAirport(Called)
    BY <1>1, FilingAdds
  <1>3. CASE serving.op = "upload" /\ serving.rows # <<>> /\ rows_left' = Tail(rows_left)
    <2>1. rows_left = serving.rows /\ Called = AirportOfRow(Head(serving.rows))
      BY <1>3 DEF rows_left, Called
    <2>2. Db!UploadRow
      BY <1>2, <1>3, <2>1, SameOperators DEF Db!UploadRow, rows_left, serving
    <2>. QED BY <1>1, <2>2 DEF Db!Next
  <1>4. CASE /\ serving.op = "save" /\ serving \in Saves /\ rows_left' = <<>>
             /\ answered \in Nat /\ answered < MaxRequests
    <2>1. rows_left = <<>> /\ Called = Requested /\ RowsToCome = 0 /\ answered + 0 = answered
      BY <1>4 DEF rows_left, Called, RowsToCome
    <2>2. counter >= -MaxUploads
      <3>1. 0 - 1 - counter <= Allowed(answered) /\ counter \in Int
        BY <1>4, <2>1 DEF Inv, Counted
      <3>2. /\ Allowed(answered) \in Nat /\ Allowed(answered + 1) = Allowed(answered) + MaxRequestRows
            /\ Allowed(answered + 1) <= MaxUploads
        BY <1>4, AllowedMore
      <3>3. MaxRequestRows \in Nat \ {0} /\ MaxUploads \in Nat
        BY RequestAssumption, BoundAssumption
      <3>. QED BY <3>1, <3>2, <3>3
    <2>3. Db!RoomForCopy
      <3>. DEFINE m == Cardinality(BagToSet(by_icao))
                  k == Cardinality(LoadedAirports)
      <3>1. /\ IsABag(by_icao) /\ IsFiniteSet(BagToSet(by_icao)) /\ m <= k + answered
            /\ \A b \in BagToSet(by_icao) : by_icao[b] <= 1 + answered
        BY DEF Inv, Counted
      <3>2. m \in Nat /\ k \in Nat /\ \A b \in BagToSet(by_icao) : by_icao[b] \in Nat
        BY <3>1, FiniteAssumption, FS_CardinalityType DEF IsABag, BagToSet
      <3>3. MaxRequests \in Nat
        BY RequestAssumption
      <3>. HIDE DEF m, k
      <3>4. m < k + MaxRequests + 1
        BY <1>4, <3>1, <3>2, <3>3
      <3>5. ASSUME NEW b \in BagToSet(by_icao) PROVE by_icao[b] < k + MaxRequests + 1
        BY <1>4, <3>1, <3>2, <3>3
      <3>. QED BY <3>4, <3>5, SameOperators, SameCardinality DEF Db!RoomForCopy, m, k, by_icao
    <2>4. /\ serving.code \in TypedCodes
          /\ \E fs \in SUBSET Fields : serving.given \in [fs -> Texts]
      BY <1>4 DEF Saves
    <2>5. Db!AdminSave(serving.code, serving.given)
      <3>1. rows_left = <<>> /\ rows_left' = <<>>
        BY <1>4, <2>1
      <3>2. Db!AddAirport(Requested)
        BY <1>2, <2>1
      <3>. QED BY <2>2, <2>3, <3>1, <3>2, SameOperators
           DEF Db!AdminSave, Db!SaveBase, Requested, counter, by_iata, rows_left, serving
    <2>6. Db!Save
      BY <2>4, <2>5 DEF Db!Save
    <2>. QED BY <1>1, <2>6 DEF Db!Next
  <1>. QED BY <1>3, <1>4, WriteIcaoInv

LEMMA SeenAsDelete ==
  ASSUME OneWorker, Inv, EraseRoutes(TheWorker)
  PROVE  Inv' /\ Db!Next
  <1>1. /\ Inv' /\ rows_left = <<>> /\ rows_left' = <<>>
        /\ serving \in Deletes /\ Asked \in DOMAIN by_iata
        /\ by_id' = Restrict(by_id, DOMAIN by_id \ {Removed})
        /\ by_iata' = Restrict(by_iata, DOMAIN by_iata \ {Asked})
        /\ by_icao' = Restrict(by_icao, {b \in BagToSet(by_icao) : b.id # Removed})
        /\ known_routes' = {r \in known_routes : ~Touches(r, Removed)}
        /\ counter' = counter
    BY EraseRoutesInv
  <1>2. Db!RemoveAirport(Asked)
    BY <1>1, SameOperators
       DEF Db!RemoveAirport, Db!AirportsWithout, Db!CopiesWithout, Db!RoutesWithout,
           by_id, by_iata, by_icao, known_routes, counter, Removed
  <1>3. Db!AdminDelete(serving.code)
    BY <1>1, <1>2 DEF Db!AdminDelete, rows_left, serving, Asked, by_iata
  <1>4. serving.code \in Codes
    BY <1>1 DEF Deletes
  <1>. QED BY <1>1, <1>3, <1>4 DEF Db!Next, Db!Delete

LEMMA SeenAsRedact ==
  ASSUME OneWorker, Inv, RedactId(TheWorker)
  PROVE  Inv' /\ Db!Next
  <1>. DEFINE b == Redacting(by_iata[Asked], serving.fields)
  <1>1. /\ Inv' /\ rows_left = <<>> /\ rows_left' = <<>>
        /\ serving \in Redactions /\ Asked \in DOMAIN by_iata
        /\ by_id' = IF b.id \in DOMAIN by_id THEN Put(by_id, b.id, b) ELSE by_id
        /\ by_iata' = Put(by_iata, Asked, b)
        /\ by_icao' = by_icao /\ known_routes' = known_routes /\ counter' = counter
    BY RedactIdInv
  <1>2. b = Db!Redacting(settled[2][Asked], serving.fields)
    BY SameOperators DEF by_iata
  <1>. HIDE DEF b
  <1>3. Db!RedactAirport(Asked, serving.fields)
    BY <1>1, <1>2, SameOperators
       DEF Db!RedactAirport, Db!AirportsWith, by_id, by_iata, by_icao, known_routes, counter
  <1>4. Db!AdminRedact(serving.code, serving.fields)
    BY <1>1, <1>3 DEF Db!AdminRedact, rows_left, serving, Asked, by_iata
  <1>5. serving.code \in Codes /\ serving.fields \in SUBSET Fields
    BY <1>1 DEF Redactions
  <1>. QED BY <1>1, <1>4, <1>5 DEF Db!Next, Db!Redact

\* An operation on the store shows at its last statement, and only there.
LEMMA StepSeen ==
  ASSUME OneWorker, Inv, [Next]_vars
  PROVE  Inv' /\ (Db!Next \/ UNCHANGED Db!vars)
  <1>1. ASSUME UNCHANGED <<job, settled>> PROVE UNCHANGED Db!vars
    <2>1. rows_left' = rows_left
      BY <1>1, SameTerms DEF rows_left
    <2>. QED BY <1>1, <2>1, SeenAsNothing
  <1>2. ASSUME Answer(TheWorker), UNCHANGED <<server, store, settled>>,
               label \in {"next_row", "find_deleted", "copy_redacted"},
               serving.op = "upload" => serving.rows = <<>>
        PROVE  Inv' /\ UNCHANGED Db!vars
    <2>1. Inv' /\ serving'.op = "none"
      BY <1>2, AnsweredOnly
    <2>2. rows_left' = rows_left
      BY <1>2, <2>1 DEF rows_left
    <2>. QED BY <1>2, <2>1, <2>2, SeenAsNothing
  <1>3. CASE Receive
    BY <1>1, <1>3, ReceiveInv
  <1>4. CASE UNCHANGED vars
    <2>1. /\ UNCHANGED <<store, queue, sent, pc, job, a, answered, settled>>
      BY <1>4 DEF vars, server
    <2>2. label' = label /\ local' = local
      BY <2>1 DEF label, local
    <2>3. Inv'
      <3>1. Control'
        BY <2>1, <2>2, SameTerms DEF Inv, Control
      <3>2. Counted'
        BY <2>1, <2>2, SameTerms DEF Inv, Counted
      <3>3. Progress'
        BY <2>1, <2>2, SameTerms
           DEF Inv, Progress, AddProgress, DeleteProgress, RedactProgress, StoreIs, store
      <3>. QED BY <3>1, <3>2, <3>3 DEF Inv
    <2>. QED BY <1>1, <2>1, <2>3
  <1>5. ASSUME Step(TheWorker) PROVE Inv' /\ (Db!Next \/ UNCHANGED Db!vars)
    <2>1. CASE Take(TheWorker)
      BY <2>1, SeenAsBegin
    <2>2. CASE NextRow(TheWorker)
      <3>1. CASE serving.rows = <<>>
        <4>1. /\ label = "next_row" /\ Answer(TheWorker) /\ UNCHANGED <<server, store, settled>>
          BY <2>2, <3>1 DEF NextRow, At, label, serving
        <4>. QED BY <1>2, <3>1, <4>1
      <3>2. CASE serving.rows # <<>>
        BY <1>1, <2>2, <3>2, StartRow
      <3>. QED BY <3>1, <3>2
    <2>3. CASE CopyExisting(TheWorker)
      BY <1>1, <2>3, CopyExistingInv
    <2>4. CASE Find(TheWorker)
      BY <1>1, <2>4, FindInv
    <2>5. CASE TakeId(TheWorker)
      BY <1>1, <2>5, TakeIdInv
    <2>6. CASE StepId(TheWorker)
      BY <1>1, <2>6, StepIdInv
    <2>7. CASE WriteId(TheWorker)
      BY <1>1, <2>7, WriteIdInv
    <2>8. CASE WriteIata(TheWorker)
      BY <1>1, <2>8, WriteIataInv
    <2>9. CASE WriteIcao(TheWorker)
      BY <2>9, SeenAsAdd
    <2>10. CASE FindDeleted(TheWorker)
      <3>1. CASE Asked \in DOMAIN by_iata
        BY <1>1, <2>10, <3>1, DeleteFound
      <3>2. CASE Asked \notin DOMAIN by_iata
        <4>1. label = "find_deleted"
          BY <2>10 DEF FindDeleted, At, label
        <4>2. serving.op = "delete"
          BY <4>1, KindServed DEF Inv, Control, DeleteLabels
        <4>3. Code(TheWorker) \notin DOMAIN airports_by_iata
          BY <3>2, <4>1 DEF Inv, Progress, QuietLabels, StoreIs, Code, Asked, serving
        <4>4. Answer(TheWorker) /\ UNCHANGED <<server, store, settled>>
          BY <2>10, <4>3 DEF FindDeleted, NotFound
        <4>. QED BY <1>2, <4>1, <4>2, <4>4
      <3>. QED BY <3>1, <3>2
    <2>11. CASE EraseIata(TheWorker)
      BY <1>1, <2>11, EraseIataInv
    <2>12. CASE EraseId(TheWorker)
      BY <1>1, <2>12, EraseIdInv
    <2>13. CASE EraseIcao(TheWorker)
      BY <1>1, <2>13, EraseIcaoInv
    <2>14. CASE EraseRoutes(TheWorker)
      BY <2>14, SeenAsDelete
    <2>15. CASE CopyRedacted(TheWorker)
      <3>1. CASE Asked \in DOMAIN by_iata
        BY <1>1, <2>15, <3>1, RedactFound
      <3>2. CASE Asked \notin DOMAIN by_iata
        <4>1. label = "copy_redacted"
          BY <2>15 DEF CopyRedacted, At, label
        <4>2. serving.op = "redact"
          BY <4>1, KindServed DEF Inv, Control, RedactLabels
        <4>3. Code(TheWorker) \notin DOMAIN airports_by_iata
          BY <3>2, <4>1 DEF Inv, Progress, QuietLabels, StoreIs, Code, Asked, serving
        <4>4. Answer(TheWorker) /\ UNCHANGED <<server, store, settled>>
          BY <2>15, <4>3 DEF CopyRedacted, NotFound
        <4>. QED BY <1>2, <4>1, <4>2, <4>4
      <3>. QED BY <3>1, <3>2
    <2>16. CASE RedactIata(TheWorker)
      BY <1>1, <2>16, RedactIataInv
    <2>17. CASE RedactId(TheWorker)
      BY <2>17, SeenAsRedact
    <2>. QED BY <1>5, <2>1, <2>2, <2>3, <2>4, <2>5, <2>6, <2>7, <2>8, <2>9, <2>10, <2>11, <2>12,
                <2>13, <2>14, <2>15, <2>16, <2>17 DEF Step
  <1>. QED BY <1>3, <1>4, <1>5 DEF Next, OneWorker

LEMMA InitSeen ==
  ASSUME OneWorker, Init
  PROVE  Db!Init
  <1>1. serving = Idle
    BY DEF Init, OneWorker, serving
  <1>2. rows_left = <<>>
    BY <1>1, RequestKinds DEF rows_left
  <1>3. settled = <<airports_by_id, airports_by_iata, airports_by_icao, routes, next_upload_id>>
    BY DEF Init, store
  <1>4. Db!LoadedIds = LoadedIds
    BY DEF Db!LoadedIds, LoadedIds
  <1>. QED BY <1>2, <1>3, <1>4, SameOperators DEF Init, Db!Init, rows_left, serving

-----------------------------------------------------------------------------

\* A server with one worker (main.cpp:2164 on a machine with one core): between
\* any two accesses of a handler to the store, the local variable a and the
\* containers are what the handler's statements so far make of the store that
\* the last operation left; no request is lost or answered twice, and ids and
\* copies are as many as the requests account for.
THEOREM OneWorkerInvariant ==
  ASSUME Workers = {TheWorker}
  PROVE  Spec => []Inv
  <1>1. Init => Inv
    BY InitInv DEF OneWorker
  <1>2. Inv /\ [Next]_vars => Inv'
    BY StepSeen DEF OneWorker
  <1>. QED BY <1>1, <1>2, PTL DEF Spec

\* With one worker the handlers are atomic, although they take no lock and their
\* statements touch the containers one at a time: the store between operations
\* goes through the steps of AirTravelDb, whatever the requests and their order.
THEOREM OneWorkerIsAtomic ==
  ASSUME Workers = {TheWorker}
  PROVE  Spec => ImplementsAirTravelDb
  <1>1. Init => Inv /\ Db!Init
    BY InitInv, InitSeen DEF OneWorker
  <1>2. Inv /\ [Next]_vars => Inv' /\ [Db!Next]_(Db!vars)
    BY StepSeen DEF OneWorker
  <1>. QED BY <1>1, <1>2, PTL DEF Spec, ImplementsAirTravelDb, Db!Spec

-----------------------------------------------------------------------------
(* What is proved of AirTravelDb holds of such a server: here the comment  *)
(* that two workers refute.                                                *)

Proved == INSTANCE AirTravelDbProofs WITH
  airports_by_id <- settled[1],
  airports_by_iata <- settled[2],
  airports_by_icao <- settled[3],
  routes <- settled[4],
  next_upload_id <- settled[5],
  pending <- IF job[TheWorker].op = "upload" THEN job[TheWorker].rows ELSE <<>>,
  MaxRows <- MaxRequestRows,
  MaxCopies <- Cardinality(LoadedAirports) + MaxRequests + 1

LEMMA DbAssumptions ==
  /\ MaxRequestRows \in Nat /\ Cardinality(LoadedAirports) + MaxRequests + 1 \in Nat
  /\ Proved!Airport = Airport /\ Proved!Route = Route /\ Proved!Row = Row
  /\ Proved!GeneratedApart = GeneratedApart
  BY RequestAssumption, FiniteAssumption, FS_CardinalityType
     DEF Proved!Airport, Proved!Route, Proved!Row, Proved!GeneratedApart, Proved!UserCodes,
         Airport, Route, Row, GeneratedApart, UserCodes

\* Db and Proved are one specification.
LEMMA SameInit == Db!Init => Proved!Init
  BY Zenon DEF Db!Init, Db!LoadedIds, Db!SetToBag,
               Proved!Init, Proved!LoadedIds, Proved!SetToBag

LEMMA SameNext == [Db!Next]_(Db!vars) => [Proved!Next]_(Proved!vars)
  BY Zenon DEF
    Db!Next, Db!vars, Db!store, Db!UploadBegin, Db!UploadRow, Db!Save, Db!Delete, Db!Redact,
    Db!AdminSave, Db!AdminDelete, Db!AdminRedact, Db!SaveBase, Db!RoomForCopy,
    Db!AddAirport, Db!OverwriteAirport, Db!AddNewAirport, Db!NextId, Db!Known, Db!Store,
    Db!FileUnderIcao, Db!RemoveAirport, Db!AirportsWithout, Db!CopiesWithout, Db!RoutesWithout,
    Db!RedactAirport, Db!AirportsWith, Db!Put, Db!Restrict, Db!AirportOfRow, Db!Blank, Db!Given,
    Db!Redacting, Db!Touches, Db!BagToSet, Db!SetToBag, Db!(+), Db!Cardinality,
    Proved!Next, Proved!vars, Proved!store, Proved!UploadBegin, Proved!UploadRow, Proved!Save,
    Proved!Delete, Proved!Redact, Proved!AdminSave, Proved!AdminDelete, Proved!AdminRedact,
    Proved!SaveBase, Proved!RoomForCopy, Proved!AddAirport, Proved!OverwriteAirport,
    Proved!AddNewAirport, Proved!NextId, Proved!Known, Proved!Store, Proved!FileUnderIcao,
    Proved!RemoveAirport, Proved!AirportsWithout, Proved!CopiesWithout, Proved!RoutesWithout,
    Proved!RedactAirport, Proved!AirportsWith, Proved!Put, Proved!Restrict, Proved!AirportOfRow,
    Proved!Blank, Proved!Given, Proved!Redacting, Proved!Touches, Proved!BagToSet,
    Proved!SetToBag, Proved!(+), Proved!Cardinality

\* With one worker, and generated codes apart from those that are typed, once
\* the handler has returned a code names one airport (main.cpp:136): the run of
\* two workers that finds two is a matter of the interleaving alone.
THEOREM OneWorkerKeepsCodesApart ==
  ASSUME Workers = {TheWorker}, GeneratedApart
  PROVE  Spec => []NoDuplicateCode
  <1>. USE DbAssumptions, BoundAssumption, LoadAssumption, DataAssumption, CodeAssumption
  <1>1. Init => Inv /\ Proved!ApartInv
    BY InitInv, InitSeen, SameInit, Proved!InitApart DEF OneWorker
  <1>2. Inv /\ Proved!ApartInv /\ [Next]_vars => Inv' /\ Proved!ApartInv'
    <2>1. ASSUME Inv, [Next]_vars PROVE Inv' /\ [Proved!Next]_(Proved!vars)
      BY <2>1, StepSeen, SameNext DEF OneWorker
    <2>. QED BY <2>1, Proved!StepApart
  <1>3. Inv /\ Proved!ApartInv => NoDuplicateCode
    <2>. SUFFICES ASSUME Inv, Proved!ApartInv, AllIdle,
                         NEW i \in DOMAIN airports_by_id, NEW j \in DOMAIN airports_by_id,
                         airports_by_id[i].iata = airports_by_id[j].iata,
                         airports_by_id[i].iata # NoCode
                  PROVE  i = j
      BY DEF NoDuplicateCode
    <2>1. airports_by_id = settled[1]
      BY DEF Inv, Progress, QuietLabels, StoreIs, AllIdle, label, by_id
    <2>2. settled[1][i] = settled[1][j]
      BY <2>1 DEF Proved!ApartInv, Proved!OneAirportPerCode
    <2>3. settled[1][i].id = i /\ settled[1][j].id = j
      BY <2>1 DEF Proved!ApartInv, Proved!Inv, Proved!StoreInv, Proved!IdsIssued
    <2>. QED BY <2>2, <2>3
  <1>. QED BY <1>1, <1>2, <1>3, PTL DEF Spec

LEMMA OneWorkerIsProved ==
  ASSUME Workers = {TheWorker}
  PROVE  Spec => Proved!Spec
  <1>1. Spec => Db!Spec
    BY OneWorkerIsAtomic DEF ImplementsAirTravelDb, OneWorker
  <1>2. Db!Spec => Proved!Spec
    BY SameInit, SameNext, PTL DEF Db!Spec, Proved!Spec
  <1>. QED BY <1>1, <1>2

\* With one worker, whatever is asked and in whatever order, the store that the handlers
\* leave behind, statement by statement, has one record of an airport in both its maps,
\* no copy and no route of a deleted airport (main.cpp:156-186), no deleted id comes back,
\* and only an upload moves an airport (main.cpp:1935).
THEOREM OneWorkerKeepsTheStore ==
  ASSUME Workers = {TheWorker}
  PROVE  Spec => /\ [](Proved!IataLeadsToId /\ Proved!IcaoCopiesLive /\ Proved!RouteEndsKnown)
                 /\ Proved!DeletedIdStaysDeleted /\ Proved!PositionSurvivesSave
  <1>. USE DbAssumptions, BoundAssumption, LoadAssumption, DataAssumption, CodeAssumption
  <1>1. Proved!Spec => []Proved!IataLeadsToId
    BY Proved!MapsAgree
  <1>2. Proved!Spec => []Proved!IcaoCopiesLive
    BY Proved!NoCopyOutlivesItsAirport
  <1>3. Proved!Spec => []Proved!RouteEndsKnown
    BY Proved!NoRouteToADeletedId
  <1>4. Proved!Spec => Proved!DeletedIdStaysDeleted
    BY Proved!NoIdComesBack
  <1>5. Proved!Spec => Proved!PositionSurvivesSave
    BY Proved!OnlyUploadsMove
  <1>. QED BY <1>1, <1>2, <1>3, <1>4, <1>5, OneWorkerIsProved, PTL

\* With one worker, and generated codes apart from those that are typed, the handlers,
\* statement by statement, do to the airports what the registry allows: each step adds
\* one under a free code and a fresh id, overwrites one, or removes one with its routes.
THEOREM OneWorkerImplementsRegistry ==
  ASSUME Workers = {TheWorker}, GeneratedApart
  PROVE  Spec => Proved!ImplementsRegistry
  <1>1. Proved!Spec => Proved!ImplementsRegistry
    BY DbAssumptions, BoundAssumption, LoadAssumption, DataAssumption, CodeAssumption,
       Proved!StoreImplementsRegistry
  <1>. QED BY <1>1, OneWorkerIsProved
==============================================================================
