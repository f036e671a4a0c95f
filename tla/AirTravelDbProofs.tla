-------------------------- MODULE AirTravelDbProofs --------------------------
(***************************************************************************)
(* Proofs about the store of AirTravelDb, for every value of its           *)
(* constants.  The inductive invariant is Inv: the two maps agree, the ids *)
(* in use are those handed out so far, and whatever carries an id (a copy, *)
(* a route) carries one that is in use.                                    *)
(*                                                                         *)
(* Every step changes the store in one of three ways (Effect): it writes   *)
(* one airport under a new id (AsNew), writes one under the id its code    *)
(* already has (AsKnown; overwriting and redacting both do that), or       *)
(* removes one.  The lemmas show that each handler has such an effect, and *)
(* that each effect keeps the invariant.                                   *)
(***************************************************************************)
EXTENDS AirTravelDb, TLAPS

\* The ids in use are the loaded ones and those handed out so far.
IdsIssued ==
  \A id \in DOMAIN airports_by_id : airports_by_id[id].id = id /\ id > next_upload_id

StoreInv == StoreType /\ IataLeadsToId /\ IdsIssued /\ IcaoCopiesLive /\ RouteEndsKnown

Inv == StoreInv /\ UploadType

\* b is filed under its id and its code; at most one copy goes to the ICAO bag.
Written(b) ==
  /\ b.iata \in Codes
  /\ airports_by_id' = Put(airports_by_id, b.id, b)
  /\ airports_by_iata' = Put(airports_by_iata, b.iata, b)
  /\ IsABag(airports_by_icao')
  /\ BagToSet(airports_by_icao') \subseteq BagToSet(airports_by_icao) \cup {b}
  /\ UNCHANGED routes

AsNew(b) ==
  /\ b.id = next_upload_id
  /\ -next_upload_id \in 1..MaxUploads
  /\ next_upload_id' = next_upload_id - 1

\* Where the code of a new airport comes from.
NewCode(c) ==
  \/ c \in UserCodes \ DOMAIN airports_by_iata
  \/ c = GeneratedCode(-next_upload_id)

AsKnown(b) ==
  /\ b.iata \in DOMAIN airports_by_iata
  /\ b.id = airports_by_iata[b.iata].id
  /\ UNCHANGED next_upload_id

Effect ==
  \/ UNCHANGED store
  \/ \E b \in Airport : Written(b) /\ AsNew(b) /\ NewCode(b.iata)
  \/ \E b \in Airport : Written(b) /\ AsKnown(b)
  \/ \E code \in DOMAIN airports_by_iata : RemoveAirport(code)

-----------------------------------------------------------------------------
(* What the operations of the store do to the maps.                        *)

\* Filing a copy keeps the bag a bag and adds no other copy.
LEMMA FileUnderIcaoBag ==
  ASSUME IsABag(airports_by_icao), NEW b, FileUnderIcao(b)
  PROVE  /\ IsABag(airports_by_icao')
         /\ BagToSet(airports_by_icao') \subseteq BagToSet(airports_by_icao) \cup {b}
  <1>1. CASE b.icao = NoIcao
    BY <1>1 DEF FileUnderIcao
  <1>2. CASE b.icao # NoIcao
    <2>1. airports_by_icao' =
            [e \in DOMAIN airports_by_icao \cup {b} |->
               (IF e \in DOMAIN airports_by_icao THEN airports_by_icao[e] ELSE 0)
                 + (IF e = b THEN 1 ELSE 0)]
      BY <1>2, Zenon DEF FileUnderIcao, (+), SetToBag
    <2>2. \A e \in DOMAIN airports_by_icao : airports_by_icao[e] \in Nat /\ airports_by_icao[e] > 0
      BY DEF IsABag
    <2>. QED BY <2>1, <2>2 DEF IsABag, BagToSet
  <1>. QED BY <1>1, <1>2

\* The maps after a write: b under its two keys, every other key as before.
LEMMA WrittenMaps ==
  ASSUME NEW b, Written(b)
  PROVE  /\ DOMAIN airports_by_id' = DOMAIN airports_by_id \cup {b.id}
         /\ airports_by_id'[b.id] = b
         /\ \A id \in DOMAIN airports_by_id : id # b.id => airports_by_id'[id] = airports_by_id[id]
         /\ DOMAIN airports_by_iata' = DOMAIN airports_by_iata \cup {b.iata}
         /\ airports_by_iata'[b.iata] = b
         /\ \A c \in DOMAIN airports_by_iata :
              c # b.iata => airports_by_iata'[c] = airports_by_iata[c]
         /\ routes' = routes
  BY DEF Written, Put

\* The maps after a removal: one airport is gone from both.
LEMMA RemovedMaps ==
  ASSUME StoreInv, NEW code \in DOMAIN airports_by_iata, RemoveAirport(code)
  PROVE  LET a == airports_by_iata[code] IN
         /\ a.id \in DOMAIN airports_by_id /\ airports_by_id[a.id] = a /\ a.iata = code
         /\ DOMAIN airports_by_id' = DOMAIN airports_by_id \ {a.id}
         /\ \A id \in DOMAIN airports_by_id' : airports_by_id'[id] = airports_by_id[id]
         /\ DOMAIN airports_by_iata' = DOMAIN airports_by_iata \ {code}
         /\ \A c \in DOMAIN airports_by_iata' : airports_by_iata'[c] = airports_by_iata[c]
         /\ routes' = {r \in routes : r.src_airport_id # a.id /\ r.dest_airport_id # a.id}
         /\ UNCHANGED next_upload_id
  <1>1. IataLeadsToId
    BY DEF StoreInv
  <1>. QED BY <1>1 DEF RemoveAirport, AirportsWithout, CopiesWithout, RoutesWithout, Touches, Restrict, IataLeadsToId

\* Adding an airport writes it, under a new id or the one its code has.
LEMMA AddAirportWrites ==
  ASSUME StoreType, NEW a \in Airport, AddAirport(a), next_upload_id >= -MaxUploads,
         a.iata \in UserCodes \cup {NoCode}
  PROVE  \E b \in Airport : Written(b) /\ ((AsNew(b) /\ NewCode(b.iata)) \/ AsKnown(b))
  <1>0. IsABag(airports_by_icao)
    BY DEF StoreType
  <1>1. CASE Known(a.iata) /\ OverwriteAirport(a)
    <2>. DEFINE b == [a EXCEPT !.id = airports_by_iata[a.iata].id]
    <2>1. a.iata \in Codes /\ airports_by_iata[a.iata].id \in Int
      BY <1>1 DEF Known, StoreType, Airport
    <2>2. b \in Airport /\ b.iata = a.iata /\ b.id = airports_by_iata[a.iata].id
      BY <2>1 DEF Airport
    <2>. HIDE DEF b
    <2>3. Written(b)
      BY <1>0, <1>1, <2>1, <2>2, FileUnderIcaoBag DEF OverwriteAirport, Store, Written, b
    <2>. QED BY <1>1, <2>2, <2>3 DEF Known, OverwriteAirport, AsKnown
  <1>2. CASE ~Known(a.iata) /\ AddNewAirport(a)
    <2>. DEFINE c == IF a.iata = NoCode THEN GeneratedCode(-next_upload_id) ELSE a.iata
                b == [a EXCEPT !.id = next_upload_id, !.iata = c]
    <2>1. next_upload_id \in Int /\ -next_upload_id \in 1..MaxUploads
      BY BoundAssumption DEF StoreType
    <2>2. c \in Codes /\ NewCode(c)
      BY <1>2, <2>1, CodeAssumption DEF Known, Airport, NewCode
    <2>. HIDE DEF c
    <2>3. b \in Airport /\ b.iata = c /\ b.id = next_upload_id
      BY <2>1, <2>2 DEF Airport
    <2>. HIDE DEF b
    <2>4. Written(b)
      BY <1>0, <1>2, <2>2, <2>3, FileUnderIcaoBag DEF AddNewAirport, Store, Written, b, c
    <2>. QED BY <1>2, <2>1, <2>2, <2>3, <2>4 DEF AddNewAirport, NextId, AsNew
  <1>. QED BY <1>1, <1>2 DEF AddAirport

\* A redaction writes the redacted airport under the keys it has.
LEMMA RedactWrites ==
  ASSUME StoreInv, NEW code \in DOMAIN airports_by_iata, NEW fields, RedactAirport(code, fields)
  PROVE  \E b \in Airport : Written(b) /\ AsKnown(b)
  <1>. DEFINE old == airports_by_iata[code]
              b == Redacting(old, fields)
  <1>1. old.iata = code /\ old.id \in DOMAIN airports_by_id
    BY DEF StoreInv, IataLeadsToId
  <1>2. b \in Airport /\ b.id = old.id /\ b.iata = code
    BY <1>1, DataAssumption DEF Redacting, Airport, StoreInv, StoreType
  <1>3. /\ airports_by_iata' = Put(airports_by_iata, code, b)
        /\ airports_by_id' = Put(airports_by_id, b.id, b)
        /\ UNCHANGED <<airports_by_icao, routes, next_upload_id>>
    BY <1>1, <1>2 DEF RedactAirport, AirportsWith
  <1>. HIDE DEF b
  <1>. QED BY <1>2, <1>3 DEF Written, AsKnown, StoreInv, StoreType

-----------------------------------------------------------------------------
(* The invariant of the store outlives each effect.                        *)

\* The id of b is in use under no other code: if it is new no airport has it,
\* and otherwise the two maps agree that its airport has the code of b.
LEMMA WrittenInv ==
  ASSUME StoreInv, NEW b \in Airport, Written(b), AsNew(b) \/ AsKnown(b)
  PROVE  StoreInv'
  <1>. USE CodeAssumption, BoundAssumption DEF StoreInv, StoreType
  <1>1. b.iata \in Codes /\ b.id \in Int
    BY DEF Written, Airport
  <1>2. /\ DOMAIN airports_by_id' = DOMAIN airports_by_id \cup {b.id}
        /\ airports_by_id'[b.id] = b
        /\ \A id \in DOMAIN airports_by_id : id # b.id => airports_by_id'[id] = airports_by_id[id]
        /\ DOMAIN airports_by_iata' = DOMAIN airports_by_iata \cup {b.iata}
        /\ airports_by_iata'[b.iata] = b
        /\ \A c \in DOMAIN airports_by_iata :
             c # b.iata => airports_by_iata'[c] = airports_by_iata[c]
        /\ routes' = routes
    BY WrittenMaps
  <1>3. StoreType'
    <2>1. /\ airports_by_id' \in [DOMAIN airports_by_id' -> Airport]
          /\ airports_by_iata' \in [DOMAIN airports_by_iata' -> Airport]
      BY DEF Written, Put
    <2>2. next_upload_id' \in (-MaxUploads - 1)..(-1)
      BY DEF AsNew, AsKnown
    <2>. QED BY <1>1, <1>2, <2>1, <2>2 DEF Written
  <1>4. \A c \in DOMAIN airports_by_iata : c # b.iata => airports_by_iata[c].id # b.id
    BY DEF AsNew, AsKnown, IataLeadsToId, IdsIssued
  <1>5. IataLeadsToId'
    BY <1>2, <1>4 DEF IataLeadsToId
  <1>6. IdsIssued'
    BY <1>1, <1>2 DEF AsNew, AsKnown, IdsIssued, IataLeadsToId
  <1>7. IcaoCopiesLive'
    BY <1>2 DEF Written, IcaoCopiesLive
  <1>8. RouteEndsKnown'
    BY <1>2 DEF RouteEndsKnown
  <1>. QED BY <1>3, <1>5, <1>6, <1>7, <1>8

\* A removal takes the same airport from both maps, and the copies and routes
\* that carry its id go with it.
LEMMA RemovedInv ==
  ASSUME StoreInv, NEW code \in DOMAIN airports_by_iata, RemoveAirport(code)
  PROVE  StoreInv'
  <1>. USE DEF StoreInv, StoreType
  <1>. DEFINE id == airports_by_iata[code].id
              copies == {a \in BagToSet(airports_by_icao) : a.id # id}
  <1>1. /\ DOMAIN airports_by_iata' = DOMAIN airports_by_iata \ {code}
        /\ \A c \in DOMAIN airports_by_iata' : airports_by_iata'[c] = airports_by_iata[c]
        /\ DOMAIN airports_by_id' = DOMAIN airports_by_id \ {id}
        /\ \A i \in DOMAIN airports_by_id' : airports_by_id'[i] = airports_by_id[i]
        /\ routes' = {r \in routes : r.src_airport_id # id /\ r.dest_airport_id # id}
        /\ next_upload_id' = next_upload_id
    BY RemovedMaps
  <1>2. IsABag(airports_by_icao') /\ BagToSet(airports_by_icao') = copies
    BY DEF RemoveAirport, AirportsWithout, CopiesWithout, RoutesWithout, Touches, Restrict, IsABag, BagToSet
  <1>3. StoreType'
    <2>1. /\ airports_by_iata' \in [DOMAIN airports_by_iata' -> Airport]
          /\ airports_by_id' \in [DOMAIN airports_by_id' -> Airport]
      BY DEF RemoveAirport, AirportsWithout, CopiesWithout, RoutesWithout, Touches, Restrict
    <2>. QED BY <1>1, <1>2, <2>1
  <1>4. \A c \in DOMAIN airports_by_iata : c # code => airports_by_iata[c].id # id
    BY DEF IataLeadsToId
  <1>5. IataLeadsToId'
    BY <1>1, <1>4 DEF IataLeadsToId
  <1>6. IdsIssued'
    BY <1>1 DEF IdsIssued
  <1>7. IcaoCopiesLive'
    BY <1>1, <1>2 DEF IcaoCopiesLive
  <1>8. RouteEndsKnown'
    BY <1>1 DEF RouteEndsKnown
  <1>. QED BY <1>3, <1>5, <1>6, <1>7, <1>8

-----------------------------------------------------------------------------
(* Each handler has one of the effects.                                    *)

LEMMA UploadRowEffect ==
  ASSUME Inv, UploadRow
  PROVE  Effect /\ UploadType'
  <1>. DEFINE row == Head(pending)
              a == AirportOfRow(row)
  <1>1. /\ row \in Row
        /\ Len(pending) >= 1
        /\ pending' \in Seq(UploadRows)
        /\ Len(pending') = Len(pending) - 1
    BY DataAssumption DEF Inv, UploadType, UploadRow
  <1>2. row.iata \in TypedCodes \cup {NoCode}
    BY <1>1 DEF Row
  <1>3. a \in Airport /\ a.iata \in UserCodes \cup {NoCode}
    BY <1>1, <1>2, CodeAssumption, DataAssumption DEF AirportOfRow, Row, Airport, UserCodes
  <1>4. next_upload_id \in Int /\ next_upload_id >= -MaxUploads
    BY <1>1, BoundAssumption DEF Inv, StoreInv, StoreType, UploadType
  <1>5. PICK b \in Airport : Written(b) /\ ((AsNew(b) /\ NewCode(b.iata)) \/ AsKnown(b))
    <2>1. AddAirport(a)
      BY DEF UploadRow
    <2>. HIDE DEF a
    <2>. QED BY <1>3, <1>4, <2>1, AddAirportWrites DEF Inv, StoreInv
  <1>6. next_upload_id' \in {next_upload_id, next_upload_id - 1}
    BY <1>5 DEF AsNew, AsKnown
  <1>7. UploadType'
    BY <1>1, <1>4, <1>6, BoundAssumption DEF Inv, UploadType
  <1>. QED BY <1>5, <1>7 DEF Effect

LEMMA SaveEffect ==
  ASSUME Inv, Save
  PROVE  Effect /\ UploadType'
  <1>1. PICK code \in TypedCodes, fs \in SUBSET Fields : \E given \in [fs -> Texts] : AdminSave(code, given)
    BY DEF Save
  <1>2. PICK given \in [fs -> Texts] : AdminSave(code, given)
    BY <1>1
  <1>. DEFINE iata == Upper[code]
              base == SaveBase(iata)
              text == Given(base, given)
              a == [base EXCEPT !.iata = iata, !.text = text]
  <1>3. iata \in UserCodes /\ iata \in Codes
    BY CodeAssumption DEF UserCodes
  <1>4. base \in Airport
    BY <1>3, DataAssumption DEF SaveBase, Blank, Inv, StoreInv, StoreType, Airport
  <1>5. text \in [Fields -> Texts]
    BY <1>4 DEF Given, Airport
  <1>6. a \in Airport /\ a.iata = iata
    <2>. HIDE DEF base, text, iata
    <2>. QED BY <1>3, <1>4, <1>5 DEF Airport
  <1>7. AddAirport(a) /\ next_upload_id >= -MaxUploads /\ UNCHANGED pending /\ pending = <<>>
    BY <1>2 DEF AdminSave
  <1>8. PICK b \in Airport : Written(b) /\ ((AsNew(b) /\ NewCode(b.iata)) \/ AsKnown(b))
    <2>. HIDE DEF a
    <2>. QED BY <1>3, <1>6, <1>7, AddAirportWrites DEF Inv, StoreInv
  <1>9. next_upload_id' \in {next_upload_id, next_upload_id - 1}
    BY <1>8 DEF AsNew, AsKnown
  <1>10. UploadType'
    BY <1>7, <1>9, BoundAssumption DEF Inv, StoreInv, StoreType, UploadType
  <1>. QED BY <1>8, <1>10 DEF Effect

LEMMA StepEffect ==
  ASSUME Inv, [Next]_vars
  PROVE  Effect /\ UploadType'
  <1>1. CASE UploadBegin
    <2>1. PICK n \in 1..MaxRows : /\ next_upload_id - n >= -MaxUploads - 1
                                  /\ pending' \in [1..n -> UploadRows]
      BY <1>1 DEF UploadBegin
    <2>2. pending' \in Seq(UploadRows) /\ Len(pending') = n
      BY <2>1, BoundAssumption
    <2>. QED BY <1>1, <2>1, <2>2 DEF UploadBegin, Effect, UploadType, store
  <1>2. CASE UploadRow
    BY <1>2, UploadRowEffect
  <1>3. CASE Save
    BY <1>3, SaveEffect
  <1>4. CASE Delete
    <2>1. PICK code \in Codes : AdminDelete(code)
      BY <1>4 DEF Delete
    <2>2. UNCHANGED <<pending, next_upload_id>>
      BY <2>1 DEF AdminDelete, RemoveAirport, store
    <2>. QED BY <2>1, <2>2 DEF AdminDelete, Effect, Inv, UploadType
  <1>5. CASE Redact
    <2>1. PICK code \in Codes, fields \in SUBSET Fields : AdminRedact(code, fields)
      BY <1>5 DEF Redact
    <2>2. UNCHANGED <<pending, next_upload_id>>
      BY <2>1 DEF AdminRedact, RedactAirport, store
    <2>. QED BY <2>1, <2>2, RedactWrites DEF AdminRedact, Effect, Inv, UploadType
  <1>6. CASE UNCHANGED vars
    BY <1>6 DEF vars, store, Effect, Inv, UploadType
  <1>. QED BY <1>1, <1>2, <1>3, <1>4, <1>5, <1>6 DEF Next

LEMMA InitInv == Init => Inv
  <1>. SUFFICES ASSUME Init PROVE Inv
    OBVIOUS
  <1>1. \A id \in LoadedIds : /\ airports_by_id[id] \in LoadedAirports
                              /\ airports_by_id[id].id = id
                              /\ id >= 0 /\ id \in Int
    BY LoadAssumption DEF Init, LoadedIds, Airport
  <1>. DEFINE codes == {a.iata : a \in LoadedAirports} \ {NoCode}
  <1>2. \A c \in codes : /\ airports_by_iata[c] \in LoadedAirports
                         /\ airports_by_iata[c].iata = c
                         /\ c \in Codes
    BY LoadAssumption DEF Init, Airport
  <1>3. /\ DOMAIN airports_by_id = LoadedIds
        /\ DOMAIN airports_by_iata = codes
        /\ DOMAIN airports_by_icao = {a \in LoadedAirports : a.icao # NoIcao}
        /\ \A a \in DOMAIN airports_by_icao : airports_by_icao[a] = 1
        /\ airports_by_id = [i \in LoadedIds |-> airports_by_id[i]]
        /\ airports_by_iata = [c \in codes |-> airports_by_iata[c]]
        /\ airports_by_icao = [a \in DOMAIN airports_by_icao |-> airports_by_icao[a]]
    BY DEF Init, SetToBag
  <1>4. StoreType
    <2>1. /\ airports_by_id \in [DOMAIN airports_by_id -> Airport]
          /\ airports_by_iata \in [DOMAIN airports_by_iata -> Airport]
      BY <1>1, <1>2, <1>3, LoadAssumption
    <2>2. IsABag(airports_by_icao) /\ BagToSet(airports_by_icao) \subseteq Airport
      BY <1>3, LoadAssumption DEF IsABag, BagToSet
    <2>3. routes \subseteq LoadedRoutes /\ next_upload_id \in (-MaxUploads - 1)..(-1)
      BY BoundAssumption DEF Init
    <2>. QED BY <1>1, <1>2, <1>3, <2>1, <2>2, <2>3 DEF StoreType
  <1>5. IataLeadsToId
    <2>1. \A a \in LoadedAirports : a.id \in LoadedIds /\ airports_by_id[a.id] = a
      BY <1>1, LoadAssumption DEF LoadedIds
    <2>. QED BY <1>2, <1>3, <2>1 DEF IataLeadsToId
  <1>6. IdsIssued
    BY <1>1, <1>3 DEF IdsIssued, Init
  <1>7. IcaoCopiesLive /\ RouteEndsKnown
    BY <1>3 DEF IcaoCopiesLive, RouteEndsKnown, LoadedIds, BagToSet
  <1>8. UploadType
    BY BoundAssumption DEF UploadType, Init
  <1>. QED BY <1>4, <1>5, <1>6, <1>7, <1>8 DEF Inv, StoreInv

LEMMA StepInv == Inv /\ [Next]_vars => Inv'
  <1>. SUFFICES ASSUME Inv, [Next]_vars PROVE Inv'
    OBVIOUS
  <1>1. Effect /\ UploadType'
    BY StepEffect
  <1>2. ASSUME UNCHANGED store PROVE StoreInv'
    BY <1>2 DEF store, Inv, StoreInv, StoreType, IataLeadsToId, IdsIssued,
       IcaoCopiesLive, RouteEndsKnown
  <1>3. ASSUME NEW b \in Airport, Written(b), AsNew(b) \/ AsKnown(b) PROVE StoreInv'
    BY <1>3, WrittenInv DEF Inv
  <1>4. ASSUME NEW code \in DOMAIN airports_by_iata, RemoveAirport(code) PROVE StoreInv'
    BY <1>4, RemovedInv DEF Inv
  <1>. QED BY <1>1, <1>2, <1>3, <1>4 DEF Effect, Inv

THEOREM Invariant == Spec => []Inv
  <1>. QED BY InitInv, StepInv, PTL DEF Spec

-----------------------------------------------------------------------------
(* What holds of every store, whatever codes users type.                   *)

\* The variables keep their types, and an upload never runs out of ids.
THEOREM TypeCorrect == Spec => []TypeOK
  <1>1. Inv => TypeOK
    BY DEF Inv, StoreInv, TypeOK
  <1>. QED BY <1>1, Invariant, PTL

\* The map by code and the map by id hold the same record of an airport.
THEOREM MapsAgree == Spec => []IataLeadsToId
  <1>1. Inv => IataLeadsToId
    BY DEF Inv, StoreInv
  <1>. QED BY <1>1, Invariant, PTL

\* No copy filed under an ICAO code outlives its airport.
THEOREM NoCopyOutlivesItsAirport == Spec => []IcaoCopiesLive
  <1>1. Inv => IcaoCopiesLive
    BY DEF Inv, StoreInv
  <1>. QED BY <1>1, Invariant, PTL

\* No route is left that carries the id of a deleted airport.
THEOREM NoRouteToADeletedId == Spec => []RouteEndsKnown
  <1>1. Inv => RouteEndsKnown
    BY DEF Inv, StoreInv
  <1>. QED BY <1>1, Invariant, PTL

\* A deleted id never comes back: a write brings in at most one id, and a new one
\* is the next upload id.
THEOREM NoIdComesBack == Spec => DeletedIdStaysDeleted
  <1>. DEFINE Fresh == /\ next_upload_id' <= next_upload_id
                       /\ \A id \in DOMAIN airports_by_id' \ DOMAIN airports_by_id :
                            next_upload_id' < id /\ id <= next_upload_id
  <1>1. ASSUME Inv, [Next]_vars PROVE Fresh
    <2>1. Effect /\ next_upload_id \in Int
      BY <1>1, StepEffect, BoundAssumption DEF Inv, StoreInv, StoreType
    <2>2. ASSUME UNCHANGED store PROVE Fresh
      BY <2>1, <2>2 DEF store
    <2>3. ASSUME NEW b \in Airport, Written(b), AsNew(b) \/ AsKnown(b) PROVE Fresh
      <3>1. b.id \in DOMAIN airports_by_id \/ AsNew(b)
        BY <1>1, <2>3 DEF AsKnown, Inv, StoreInv, IataLeadsToId
      <3>2. DOMAIN airports_by_id' = DOMAIN airports_by_id \cup {b.id}
        BY <2>3, WrittenMaps
      <3>3. next_upload_id' \in {next_upload_id, next_upload_id - 1}
        BY <2>3 DEF AsNew, AsKnown
      <3>. QED BY <2>1, <3>1, <3>2, <3>3 DEF AsNew
    <2>4. ASSUME NEW code \in DOMAIN airports_by_iata, RemoveAirport(code) PROVE Fresh
      BY <2>1, <2>4 DEF RemoveAirport, AirportsWithout, Restrict
    <2>. QED BY <2>1, <2>2, <2>3, <2>4 DEF Effect
  <1>2. Inv /\ [Next]_vars => [Fresh]_vars
    BY <1>1
  <1>. QED BY <1>2, Invariant, PTL DEF Spec, DeletedIdStaysDeleted
\* Only an upload moves an airport: what a save or a redaction writes under a known
\* code has the position it had.
THEOREM OnlyUploadsMove == Spec => PositionSurvivesSave
  <1>. DEFINE Moved == \A code \in DOMAIN airports_by_iata \cap DOMAIN airports_by_iata' :
                         airports_by_iata'[code].geo # airports_by_iata[code].geo => pending # <<>>
  <1>1. ASSUME Inv, [Next]_vars PROVE Moved
    <2>0. airports_by_iata \in [DOMAIN airports_by_iata -> Airport]
      BY <1>1 DEF Inv, StoreInv, StoreType
    <2>1. CASE UploadBegin
      BY <2>1 DEF UploadBegin, store
    <2>2. CASE UploadRow
      BY <2>2 DEF UploadRow
    <2>3. ASSUME NEW code \in TypedCodes, NEW given, AdminSave(code, given) PROVE Moved
      <3>. DEFINE iata == Upper[code]
                  base == SaveBase(iata)
                  a == [base EXCEPT !.iata = iata, !.text = Given(base, given)]
                  b == [a EXCEPT !.id = airports_by_iata[iata].id]
      <3>1. AddAirport(a)
        BY <2>3 DEF AdminSave
      <3>2. iata \in Codes /\ iata # NoCode
        BY CodeAssumption
      <3>3. base \in Airport /\ a.iata = iata /\ b.geo = base.geo
        BY <2>0, <3>2, DataAssumption DEF SaveBase, Blank, Airport
      <3>4. CASE iata \in DOMAIN airports_by_iata
        <4>1. airports_by_iata' = Put(airports_by_iata, b.iata, b) /\ b.iata = iata
          BY <3>1, <3>2, <3>3, <3>4 DEF AddAirport, Known, OverwriteAirport, Store
        <4>2. b.geo = airports_by_iata[iata].geo
          BY <3>3, <3>4 DEF SaveBase
        <4>. QED BY <4>1, <4>2 DEF Put
      <3>5. CASE iata \notin DOMAIN airports_by_iata
        <4>1. PICK c : airports_by_iata' = Put(airports_by_iata, iata, c)
          BY <3>1, <3>2, <3>3, <3>5 DEF AddAirport, Known, AddNewAirport, Store
        <4>. QED BY <3>5, <4>1 DEF Put
      <3>. QED BY <3>4, <3>5
    <2>4. ASSUME NEW code \in Codes, AdminDelete(code) PROVE Moved
      BY <2>4 DEF AdminDelete, RemoveAirport, Restrict, store
    <2>5. ASSUME NEW code \in Codes, NEW fields, AdminRedact(code, fields) PROVE Moved
      <3>1. CASE Upper[code] \in DOMAIN airports_by_iata
        <4>1. airports_by_iata[Upper[code]] \in Airport
          BY <2>0, <3>1
        <4>2. Redacting(airports_by_iata[Upper[code]], fields).geo = airports_by_iata[Upper[code]].geo
          BY <4>1 DEF Redacting, Airport
        <4>. QED BY <2>5, <3>1, <4>2 DEF AdminRedact, RedactAirport, Put
      <3>2. CASE Upper[code] \notin DOMAIN airports_by_iata
        BY <2>5, <3>2 DEF AdminRedact, store
      <3>. QED BY <3>1, <3>2
    <2>6. CASE UNCHANGED vars
      BY <2>6 DEF vars, store
    <2>. HIDE DEF Moved
    <2>. QED BY <1>1, <2>1, <2>2, <2>3, <2>4, <2>5, <2>6 DEF Next, Save, Delete, Redact
  <1>2. Inv /\ [Next]_vars => [Moved]_vars
    BY <1>1
  <1>. QED BY <1>2, Invariant, PTL DEF Spec, PositionSurvivesSave

-----------------------------------------------------------------------------
(* What the store promises when no user types a code that add_airport      *)
(* generates (GeneratedApart): a code names one airport and keeps its id,  *)
(* and the store implements AirportRegistry.  The codes still to be        *)
(* generated are free (FutureCodesFree), so an airport that gets a new id  *)
(* also gets a code that names no other airport.                           *)

FutureCodesFree ==
  \A n \in 1..MaxUploads :
    n >= -next_upload_id => GeneratedCode(n) \notin DOMAIN airports_by_iata

ApartInv == Inv /\ OneAirportPerCode /\ FutureCodesFree

-----------------------------------------------------------------------------
(* OneAirportPerCode and FutureCodesFree outlive each effect of a step.    *)

\* A new airport has a code that is free, and uses up the code generated for its
\* id if it takes that.
LEMMA NewApart ==
  ASSUME GeneratedApart, ApartInv,
         NEW b \in Airport, Written(b), AsNew(b), NewCode(b.iata)
  PROVE  /\ b.iata \notin DOMAIN airports_by_iata
         /\ OneAirportPerCode' /\ FutureCodesFree'
  <1>1. /\ next_upload_id \in Int
        /\ IdsIssued /\ OneAirportPerCode /\ FutureCodesFree
    BY BoundAssumption DEF ApartInv, Inv, StoreInv, StoreType
  <1>2. b.iata \notin DOMAIN airports_by_iata
    BY <1>1 DEF AsNew, NewCode, FutureCodesFree
  <1>3. b.iata # NoCode
    BY CodeAssumption DEF Written
  <1>4. /\ DOMAIN airports_by_id' = DOMAIN airports_by_id \cup {b.id}
        /\ airports_by_id'[b.id] = b
        /\ \A id \in DOMAIN airports_by_id : id # b.id => airports_by_id'[id] = airports_by_id[id]
        /\ DOMAIN airports_by_iata' = DOMAIN airports_by_iata \cup {b.iata}
        /\ airports_by_iata'[b.iata] = b
        /\ \A c \in DOMAIN airports_by_iata :
             c # b.iata => airports_by_iata'[c] = airports_by_iata[c]
    BY WrittenMaps
  <1>5. OneAirportPerCode'
    BY <1>1, <1>2, <1>4 DEF OneAirportPerCode
  <1>6. \A n \in 1..MaxUploads :
          n >= -next_upload_id' => n >= -next_upload_id /\ GeneratedCode(n) # b.iata
    BY <1>1, CodeAssumption, BoundAssumption DEF AsNew, NewCode, GeneratedApart
  <1>7. FutureCodesFree'
    BY <1>1, <1>4, <1>6 DEF FutureCodesFree
  <1>. QED BY <1>2, <1>5, <1>7

LEMMA KnownApart ==
  ASSUME ApartInv, NEW b \in Airport, Written(b), AsKnown(b)
  PROVE  OneAirportPerCode' /\ FutureCodesFree'
  <1>1. IdsIssued /\ OneAirportPerCode /\ FutureCodesFree
    BY DEF ApartInv, Inv, StoreInv
  <1>2. b.iata # NoCode
    BY CodeAssumption DEF Written
  <1>3. /\ DOMAIN airports_by_id' = DOMAIN airports_by_id \cup {b.id}
        /\ airports_by_id'[b.id] = b
        /\ \A id \in DOMAIN airports_by_id : id # b.id => airports_by_id'[id] = airports_by_id[id]
        /\ DOMAIN airports_by_iata' = DOMAIN airports_by_iata \cup {b.iata}
        /\ airports_by_iata'[b.iata] = b
        /\ \A c \in DOMAIN airports_by_iata :
             c # b.iata => airports_by_iata'[c] = airports_by_iata[c]
    BY WrittenMaps
  <1>4. \A id \in DOMAIN airports_by_id : id # b.id => airports_by_id[id].iata # b.iata
    BY <1>1, <1>2 DEF AsKnown, OneAirportPerCode, IdsIssued
  <1>5. OneAirportPerCode'
    BY <1>1, <1>3, <1>4 DEF AsKnown, OneAirportPerCode
  <1>6. FutureCodesFree'
    BY <1>1, <1>3 DEF AsKnown, FutureCodesFree
  <1>. QED BY <1>5, <1>6

LEMMA RemovedApart ==
  ASSUME ApartInv, NEW code \in DOMAIN airports_by_iata, RemoveAirport(code)
  PROVE  OneAirportPerCode' /\ FutureCodesFree'
  <1>. DEFINE a == airports_by_iata[code]
  <1>1. StoreInv
    BY DEF ApartInv, Inv
  <1>2. /\ DOMAIN airports_by_id' = DOMAIN airports_by_id \ {a.id}
        /\ \A id \in DOMAIN airports_by_id' : airports_by_id'[id] = airports_by_id[id]
        /\ DOMAIN airports_by_iata' = DOMAIN airports_by_iata \ {code}
        /\ \A c \in DOMAIN airports_by_iata' : airports_by_iata'[c] = airports_by_iata[c]
        /\ UNCHANGED next_upload_id
    BY <1>1, RemovedMaps
  <1>3. \A id \in DOMAIN airports_by_id : id # a.id => airports_by_id[id] # a
    BY <1>1 DEF StoreInv, IdsIssued
  <1>4. OneAirportPerCode'
    BY <1>2, <1>3 DEF ApartInv, OneAirportPerCode
  <1>. QED BY <1>2, <1>4 DEF ApartInv, FutureCodesFree

LEMMA InitApart ==
  ASSUME GeneratedApart, Init
  PROVE  ApartInv
  <1>1. Inv
    BY InitInv
  <1>2. DOMAIN airports_by_iata = {a.iata : a \in LoadedAirports} \ {NoCode}
    BY DEF Init
  <1>3. OneAirportPerCode
    <2>1. \A id \in DOMAIN airports_by_id : airports_by_id[id] \in LoadedAirports
      BY DEF Init, LoadedIds
    <2>2. \A c \in DOMAIN airports_by_iata :
            airports_by_iata[c] \in LoadedAirports /\ airports_by_iata[c].iata = c
      BY DEF Init
    <2>. QED BY <1>2, <2>1, <2>2, LoadAssumption DEF OneAirportPerCode
  <1>4. FutureCodesFree
    BY <1>2 DEF FutureCodesFree, GeneratedApart
  <1>. QED BY <1>1, <1>3, <1>4 DEF ApartInv

LEMMA StepApart ==
  ASSUME GeneratedApart, ApartInv, [Next]_vars
  PROVE  ApartInv'
  <1>1. Inv' /\ Effect
    BY StepInv, StepEffect DEF ApartInv
  <1>2. ASSUME UNCHANGED store PROVE OneAirportPerCode' /\ FutureCodesFree'
    BY <1>2 DEF store, ApartInv, OneAirportPerCode, FutureCodesFree
  <1>3. OneAirportPerCode' /\ FutureCodesFree'
    BY <1>1, <1>2, NewApart, KnownApart, RemovedApart DEF Effect
  <1>. QED BY <1>1, <1>3 DEF ApartInv

THEOREM ApartInvariant == ASSUME GeneratedApart PROVE Spec => []ApartInv
  <1>1. Init => ApartInv
    BY InitApart
  <1>2. ApartInv /\ [Next]_vars => ApartInv'
    BY StepApart
  <1>. QED BY <1>1, <1>2, PTL DEF Spec

-----------------------------------------------------------------------------

\* Every airport with a code is the one a lookup by that code finds: no
\* duplicate ever stays behind under another id.
THEOREM OneCodeOneAirport == ASSUME GeneratedApart PROVE Spec => []OneAirportPerCode
  <1>1. ApartInv => OneAirportPerCode
    BY DEF ApartInv
  <1>. QED BY <1>1, ApartInvariant, PTL

\* A code keeps the id of its airport until the airport is deleted.
THEOREM CodesKeepIds == ASSUME GeneratedApart PROVE Spec => CodeKeepsItsId
  <1>. DEFINE Kept == \A code \in DOMAIN airports_by_iata \cap DOMAIN airports_by_iata' :
                        airports_by_iata'[code].id = airports_by_iata[code].id
  <1>1. ASSUME ApartInv, [Next]_vars PROVE Kept
    <2>1. Effect /\ StoreInv
      BY <1>1, StepEffect DEF ApartInv, Inv
    <2>2. ASSUME UNCHANGED store PROVE Kept
      BY <2>2 DEF store
    <2>3. ASSUME NEW b \in Airport, Written(b),
                 b.iata \notin DOMAIN airports_by_iata \/ AsKnown(b)
          PROVE  Kept
      <3>1. /\ airports_by_iata'[b.iata] = b
            /\ \A c \in DOMAIN airports_by_iata :
                 c # b.iata => airports_by_iata'[c] = airports_by_iata[c]
        BY <2>3, WrittenMaps
      <3>. QED BY <2>3, <3>1 DEF AsKnown
    <2>4. ASSUME NEW code \in DOMAIN airports_by_iata, RemoveAirport(code) PROVE Kept
      BY <2>4 DEF RemoveAirport, Restrict
    <2>. QED BY <1>1, <2>1, <2>2, <2>3, <2>4, NewApart DEF Effect
  <1>2. ApartInv /\ [Next]_vars => [Kept]_vars
    BY <1>1
  <1>. QED BY <1>2, ApartInvariant, PTL DEF Spec, CodeKeepsItsId

-----------------------------------------------------------------------------
(* The store implements the registry: a new airport is a Register step, a  *)
(* known one an Overwrite, a removal a Remove.                             *)

Shown == {airports_by_id[id] : id \in DOMAIN airports_by_id}
UsedIds == LoadedIds \cup {i \in -MaxUploads..-1 : i > next_upload_id}

LEMMA InitRegistry == Init => Registry!Init
  <1>. SUFFICES ASSUME Init PROVE Registry!Init
    OBVIOUS
  <1>1. Shown = LoadedAirports
    <2>1. \A a \in LoadedAirports : a.id \in LoadedIds /\ airports_by_id[a.id] = a
      BY LoadAssumption DEF Init, LoadedIds
    <2>2. \A id \in DOMAIN airports_by_id : airports_by_id[id] \in LoadedAirports
      BY DEF Init, LoadedIds
    <2>3. DOMAIN airports_by_id = LoadedIds
      BY DEF Init
    <2>. QED BY <2>1, <2>2, <2>3 DEF Shown
  <1>2. UsedIds = LoadedIds
    BY BoundAssumption DEF Init, UsedIds
  <1>. QED BY <1>1, <1>2 DEF Init, Registry!Init, Shown, UsedIds, LoadedIds

LEMMA NewRegisters ==
  ASSUME GeneratedApart, ApartInv,
         NEW b \in Airport, Written(b), AsNew(b), NewCode(b.iata)
  PROVE  Registry!Register
  <1>1. /\ next_upload_id \in Int
        /\ DOMAIN airports_by_id \subseteq Int
        /\ IdsIssued /\ OneAirportPerCode
    BY BoundAssumption DEF ApartInv, Inv, StoreInv, StoreType
  <1>2. b.iata \notin DOMAIN airports_by_iata /\ b.iata # NoCode
    BY NewApart, CodeAssumption DEF Written
  <1>3. /\ DOMAIN airports_by_id' = DOMAIN airports_by_id \cup {b.id}
        /\ airports_by_id'[b.id] = b
        /\ \A id \in DOMAIN airports_by_id : id # b.id => airports_by_id'[id] = airports_by_id[id]
        /\ routes' = routes
    BY WrittenMaps
  <1>4. b.id \notin DOMAIN airports_by_id
    BY <1>1 DEF AsNew, IdsIssued
  <1>5. Shown' = Shown \cup {b} /\ b \in Shown'
    BY <1>3, <1>4 DEF Shown
  <1>6. \A a \in Shown : a.iata # b.iata
    BY <1>1, <1>2 DEF Shown, OneAirportPerCode
  <1>7. b.id \notin UsedIds /\ UsedIds' = UsedIds \cup {b.id}
    <2>1. \A id \in LoadedIds : id \in Int /\ id >= 0
      BY LoadAssumption DEF LoadedIds, Airport
    <2>. QED BY <1>1, <2>1, BoundAssumption DEF AsNew, UsedIds
  <1>. QED BY <1>2, <1>3, <1>5, <1>6, <1>7 DEF Registry!Register, Shown, UsedIds

LEMMA KnownOverwrites ==
  ASSUME ApartInv, NEW b \in Airport, Written(b), AsKnown(b)
  PROVE  Registry!Overwrite
  <1>. DEFINE old == airports_by_iata[b.iata]
  <1>1. /\ old.iata = b.iata
        /\ old.id = b.id
        /\ b.id \in DOMAIN airports_by_id
        /\ airports_by_id[b.id] = old
        /\ IdsIssued
    BY DEF ApartInv, Inv, StoreInv, IataLeadsToId, AsKnown
  <1>2. b.iata # NoCode
    BY CodeAssumption DEF Written
  <1>3. /\ DOMAIN airports_by_id' = DOMAIN airports_by_id \cup {b.id}
        /\ airports_by_id'[b.id] = b
        /\ \A id \in DOMAIN airports_by_id : id # b.id => airports_by_id'[id] = airports_by_id[id]
        /\ routes' = routes
    BY WrittenMaps
  <1>4. \A id \in DOMAIN airports_by_id : id # b.id => airports_by_id[id] # old
    BY <1>1 DEF IdsIssued
  <1>5. old \in Shown /\ b \in Shown' /\ Shown' = (Shown \ {old}) \cup {b}
    BY <1>1, <1>3, <1>4 DEF Shown
  <1>6. UsedIds' = UsedIds
    BY DEF AsKnown, UsedIds
  <1>. QED BY <1>1, <1>2, <1>3, <1>5, <1>6 DEF Registry!Overwrite, Shown, UsedIds

LEMMA RemovalRemoves ==
  ASSUME ApartInv, NEW code \in DOMAIN airports_by_iata, RemoveAirport(code)
  PROVE  Registry!Remove
  <1>. DEFINE a == airports_by_iata[code]
  <1>1. StoreInv /\ code # NoCode
    BY CodeAssumption DEF ApartInv, Inv, StoreInv, StoreType
  <1>2. /\ a.id \in DOMAIN airports_by_id /\ airports_by_id[a.id] = a /\ a.iata = code
        /\ DOMAIN airports_by_id' = DOMAIN airports_by_id \ {a.id}
        /\ \A id \in DOMAIN airports_by_id' : airports_by_id'[id] = airports_by_id[id]
        /\ routes' = {r \in routes : r.src_airport_id # a.id /\ r.dest_airport_id # a.id}
        /\ UNCHANGED next_upload_id
    BY <1>1, RemovedMaps
  <1>3. \A id \in DOMAIN airports_by_id : id # a.id => airports_by_id[id] # a
    BY <1>1 DEF StoreInv, IdsIssued
  <1>4. a \in Shown /\ Shown' = Shown \ {a}
    BY <1>2, <1>3 DEF Shown
  <1>5. UsedIds' = UsedIds
    BY <1>2 DEF UsedIds
  <1>. QED BY <1>1, <1>2, <1>4, <1>5 DEF Registry!Remove, Shown, UsedIds

\* The store implements the registry, for any codes, data files and bounds.
THEOREM StoreImplementsRegistry == ASSUME GeneratedApart PROVE Spec => ImplementsRegistry
  <1>1. ASSUME ApartInv, [Next]_vars PROVE [Registry!Next]_(Registry!vars)
    <2>1. Effect
      BY <1>1, StepEffect DEF ApartInv
    <2>2. ASSUME UNCHANGED store PROVE UNCHANGED Registry!vars
      BY <2>2 DEF store, Registry!vars
    <2>3. Registry!Next \/ UNCHANGED Registry!vars
      BY <1>1, <2>1, <2>2, NewRegisters, KnownOverwrites, RemovalRemoves DEF Effect, Registry!Next
    <2>. QED BY <2>3
  <1>2. ApartInv /\ [Next]_vars => [Registry!Next]_(Registry!vars)
    BY <1>1
  <1>. QED BY <1>2, InitRegistry, ApartInvariant, PTL
       DEF Spec, ImplementsRegistry, Registry!Spec

-----------------------------------------------------------------------------
(* The registry alone.                                                     *)

Promised(airports, used) ==
  /\ \A a, b \in airports : a.id = b.id \/ (a.iata = b.iata /\ a.iata # NoCode) => a = b
  /\ \A a \in airports : a.id \in used

LEMMA RegisterPromised ==
  ASSUME NEW A, NEW U, Promised(A, U), NEW x, x.id \notin U, \A b \in A : b.iata # x.iata
  PROVE  Promised(A \cup {x}, U \cup {x.id})
  BY DEF Promised

LEMMA OverwritePromised ==
  ASSUME NEW A, NEW U, Promised(A, U), NEW old \in A, NEW x,
         x.id = old.id, x.iata = old.iata
  PROVE  Promised((A \ {old}) \cup {x}, U)
  BY DEF Promised

\* The registry keeps what it is there for, from the data files on: of its airports no two
\* have one code or one id, and no id in use can be given out again.
THEOREM RegistryKeepsItsPromise == Registry!Spec => []Registry!Promise
  <1>. DEFINE A == {airports_by_id[id] : id \in DOMAIN airports_by_id}
              U == LoadedIds \cup {i \in -MaxUploads..-1 : i > next_upload_id}
  <1>1. Registry!Promise <=> Promised(A, U)
    BY DEF Registry!Promise, Promised
  <1>2. Registry!Init => Registry!Promise
    <2>1. Promised(LoadedAirports, {a.id : a \in LoadedAirports})
      BY LoadAssumption DEF Promised
    <2>2. Registry!Init => A = LoadedAirports /\ U = {a.id : a \in LoadedAirports}
      BY DEF Registry!Init
    <2>. HIDE DEF A, U
    <2>. QED BY <1>1, <2>1, <2>2
  <1>3. Registry!Promise /\ [Registry!Next]_(Registry!vars) => Registry!Promise'
    <2>. SUFFICES ASSUME Promised(A, U), [Registry!Next]_(Registry!vars)
                  PROVE  Promised(A', U')
      BY <1>1 DEF Registry!Promise, Promised
    <2>1. CASE Registry!Register
      <3>1. PICK x \in A' : /\ \A b \in A : b.iata # x.iata
                            /\ x.id \notin U
                            /\ A' = A \cup {x} /\ U' = U \cup {x.id}
        BY <2>1 DEF Registry!Register
      <3>. HIDE DEF A, U
      <3>. QED BY <3>1, RegisterPromised
    <2>2. CASE Registry!Overwrite
      <3>1. PICK old \in A, x \in A' : /\ x.iata = old.iata /\ x.id = old.id
                                      /\ A' = (A \ {old}) \cup {x} /\ U' = U
        BY <2>2 DEF Registry!Overwrite
      <3>. HIDE DEF A, U
      <3>. QED BY <3>1, OverwritePromised
    <2>3. CASE Registry!Remove
      <3>1. PICK x \in A : A' = A \ {x} /\ U' = U
        BY <2>3 DEF Registry!Remove
      <3>. HIDE DEF A, U
      <3>. QED BY <3>1 DEF Promised
    <2>4. CASE UNCHANGED Registry!vars
      <3>1. A' = A /\ U' = U
        BY <2>4 DEF Registry!vars
      <3>. HIDE DEF A, U
      <3>. QED BY <3>1
    <2>. QED BY <2>1, <2>2, <2>3, <2>4 DEF Registry!Next
  <1>. QED BY <1>2, <1>3, PTL DEF Registry!Spec
=============================================================================
