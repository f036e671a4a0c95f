------------------------- MODULE OnePagePanelProofs -------------------------
(***************************************************************************)
(* Proofs about the one-page UI, for any number of actions.  "Loading..."  *)
(* never stays: the panel that says so belongs to a request that is open   *)
(* and will write to the panel.  Open requests, and with them what may     *)
(* still be written, are of the last action or of one it overtook          *)
(* (RecentInv).  For a user who never overtook one, at most one request is  *)
(* open (Alone), and panel and map hold no traces of other actions (Tidy).  *)
(***************************************************************************)
EXTENDS OnePagePanel, TLAPS

\* Who replaces "Loading...": of one-hop connections a failure is not shown.
LoadingAsked ==
  panel.what = "loading" => \E q \in open : q.n = panel.n /\ ~Is(q, "route", 2)

Inv == TypeOK /\ LoadingAsked

-----------------------------------------------------------------------------
(* Types.                                                                  *)

LEMMA SaysType ==
  ASSUME NEW n \in Nat, n <= last',  last' \in Nat,
         NEW what \in Kinds \cup {"empty", "loading", "error"},
         panel' = Says(n, what)
  PROVE  /\ panel' \in [n : 0..last', what : Kinds \cup {"empty", "loading", "error"},
                        hops : SUBSET (0..last'), wired : 0..last']
         /\ panel'.what = what
         /\ panel'.n = n
  BY DEF Says

\* Every step of the user keeps the types, the last number grows with Ask.
LEMMA UserType ==
  ASSUME TypeOK,
         \/ \E kind \in Kinds : Ask(kind)
         \/ Refuse \/ ClearMap \/ ShowHop
  PROVE  TypeOK'
  <1>. USE PageAssumption
  <1>0. overtaken' \subseteq Numbers' /\ calm' \in BOOLEAN
    <2>1. last' \in {last, last + 1} /\ last \in Nat
      BY DEF Ask, Refuse, ClearMap, ShowHop, Act, TypeOK
    <2>2. overtaken' \in {overtaken, {q.n : q \in open}}
      BY DEF Ask, Refuse, ClearMap, ShowHop, Act
    <2>3. {q.n : q \in open} \subseteq Numbers'
      BY <2>1 DEF TypeOK, Numbers
    <2>4. overtaken \subseteq Numbers'
      BY <2>1 DEF TypeOK, Numbers
    <2>5. calm' \in BOOLEAN
      BY DEF Ask, Refuse, ClearMap, ShowHop, Act, GoOn
    <2>. QED BY <2>2, <2>3, <2>4, <2>5
  <1>1. ASSUME NEW kind \in Kinds, Ask(kind) PROVE TypeOK'
    <2>1. last' \in 0..MaxActions /\ last' = last + 1 /\ last \in Nat
      BY <1>1 DEF Ask, Act, TypeOK
    <2>2. open' \subseteq [n : 1..last', kind : Kinds, leg : {1, 2}]
      BY <1>1, <2>1 DEF Ask, Request, TypeOK
    <2>3. Numbers \subseteq Numbers'
      BY <2>1 DEF Numbers
    <2>4. markers' \subseteq Numbers' /\ lines' \subseteq markers'
      BY <1>1, <2>3 DEF Ask, TypeOK, Drawn, Wiped, MapStays
    <2>5. CASE panel' = panel
      BY <1>0, <2>1, <2>2, <2>3, <2>4, <2>5 DEF TypeOK
    <2>6. CASE panel' = Says(last', "loading")
      BY <1>0, <2>1, <2>2, <2>4, <2>6, SaysType DEF TypeOK, Numbers
    <2>. QED BY <1>1, <2>5, <2>6 DEF Ask
  <1>2. CASE Refuse
    <2>1. last' \in 0..MaxActions /\ last' = last + 1 /\ last \in Nat
      BY <1>2 DEF Refuse, Act, TypeOK
    <2>. QED BY <1>0, <1>2, <2>1, SaysType DEF Refuse, TypeOK, Numbers, MapStays
  <1>3. CASE ClearMap
    <2>1. last' \in 0..MaxActions /\ last' = last + 1 /\ last \in Nat
      BY <1>3 DEF ClearMap, Act, TypeOK
    <2>. QED BY <1>0, <1>3, <2>1, SaysType DEF ClearMap, Cleared, TypeOK, Numbers, Drawn, Wiped
  <1>4. CASE ShowHop
    BY <1>0, <1>4 DEF ShowHop, TypeOK, Numbers, Drawn
  <1>. QED BY <1>1, <1>2, <1>3, <1>4

\* What an answer does to the panel.
PanelAfter(q) ==
  \/ /\ panel' = panel
     /\ \/ Is(q, "route", 2) /\ Closed(q)
        \/ ~Is(q, "route", 1) /\ q.leg = 1 /\ NextLeg(q)
  \/ Is(q, "route", 2) /\ panel' \in {Wired(q.n), Unwired} /\ Closed(q)
  \/ Closed(q) /\ \E what \in Kinds \cup {"error"} : panel' = Says(q.n, what)
  \/ NextLeg(q) /\ Is(q, "route", 1) /\ panel' = Says(q.n, "route")

\* What an answer does to the map.
MapAfter(q) ==
  \/ MapStays
  \/ q.kind \in Clearing /\ markers' = markers \cup {q.n} /\ lines' \in {lines, {q.n}, lines \cup {q.n}}
  \/ markers' \in {{}, {q.n}} /\ lines' = {}

LEMMA AnswerEffect ==
  ASSUME TypeOK, NEW q \in open, Answer(q)
  PROVE  UNCHANGED last /\ PanelAfter(q) /\ MapAfter(q)
  <1>1. q.kind \in Kinds
    BY DEF TypeOK
  <1>2. CASE Fail(q)
    BY <1>2 DEF Answer, Fail, Failed, PanelAfter, MapAfter
  <1>3. CASE NoneFound(q)
    BY <1>3 DEF Answer, NoneFound, Nothing, PanelAfter, MapAfter
  <1>4. CASE AirportFound(q)
    BY <1>4 DEF Answer, AirportFound, PanelAfter, MapAfter, Drawn, Is, Kinds, Clearing
  <1>5. CASE AirlineFound(q)
    BY <1>5 DEF Answer, AirlineFound, PanelAfter, MapAfter, Is
  <1>6. CASE RouteFound(q)
    BY <1>6 DEF Answer, RouteFound, PanelAfter, MapAfter, Drawn, Is, Clearing
  <1>7. CASE OneHops(q)
    BY <1>7 DEF Answer, OneHops, PanelAfter, MapAfter
  <1>8. CASE Result(q)
    BY <1>1, <1>8 DEF Answer, Result, PanelAfter, MapAfter, Details, AirportsServed, SameAirport,
      RoutesListed, Told, Uploaded, Drawn, Wiped, Is, Clearing
  <1>. QED BY <1>2, <1>3, <1>4, <1>5, <1>6, <1>7, <1>8 DEF Answer

LEMMA AnswerType ==
  ASSUME TypeOK, NEW q \in open, Answer(q)
  PROVE  TypeOK'
  <1>1. last' = last /\ PanelAfter(q) /\ MapAfter(q)
    BY AnswerEffect
  <1>2. last \in Nat /\ q.n \in 1..last /\ q.kind \in Kinds
    BY PageAssumption DEF TypeOK
  <1>3. open' \subseteq [n : 1..last, kind : Kinds, leg : {1, 2}]
    BY <1>1, <1>2 DEF TypeOK, PanelAfter, Closed, NextLeg, Request
  <1>4. panel' \in [n : Numbers, what : Kinds \cup {"empty", "loading", "error"},
                    hops : SUBSET Numbers, wired : Numbers]
    <2>0. q.n \in Numbers /\ 0 \in Numbers
      BY <1>2 DEF Numbers
    <2>1. CASE panel' = panel \/ panel' \in {Wired(q.n), Unwired}
      <3>1. panel.hops \subseteq Numbers
        BY DEF TypeOK
      <3>2. panel.hops \cup {q.n} \in SUBSET Numbers
        BY <2>0, <3>1
      <3>3. panel' = panel \/ panel' = Wired(q.n) \/ panel' = Unwired
        BY <2>1
      <3>. QED BY <2>0, <3>2, <3>3 DEF TypeOK, Wired, Unwired
    <2>2. CASE \E what \in Kinds \cup {"error"} : panel' = Says(q.n, what)
      BY <1>1, <1>2, <2>2, SaysType DEF Numbers
    <2>3. "route" \in Kinds
      BY DEF Kinds
    <2>. QED BY <1>1, <2>1, <2>2, <2>3 DEF PanelAfter
  <1>5. markers' \subseteq Numbers /\ lines' \subseteq markers'
    <2>1. q.n \in Numbers /\ markers \subseteq Numbers /\ lines \subseteq markers
      BY <1>2 DEF TypeOK, Numbers
    <2>. QED BY <1>1, <2>1 DEF MapAfter, MapStays
  <1>6. overtaken' \subseteq Numbers /\ calm' \in BOOLEAN
    BY DEF Answer, TypeOK
  <1>. QED BY <1>1, <1>3, <1>4, <1>5, <1>6 DEF TypeOK, Numbers

-----------------------------------------------------------------------------
(* "Loading..." belongs to an open request.                                *)

LEMMA UserAsked ==
  ASSUME Inv,
         \/ \E kind \in Kinds : Ask(kind)
         \/ Refuse \/ ClearMap \/ ShowHop
  PROVE  LoadingAsked'
  <1>1. ASSUME NEW kind \in Kinds, Ask(kind) PROVE LoadingAsked'
    <2>. DEFINE r == Request(last', kind, 1)
    <2>1. r \in open' /\ r.n = last' /\ ~Is(r, "route", 2) /\ open \subseteq open'
      BY <1>1 DEF Ask, Request, Is
    <2>2. panel' = panel \/ panel'.n = last'
      BY <1>1 DEF Ask, Says
    <2>. QED BY <2>1, <2>2 DEF Inv, LoadingAsked, Is
  <1>2. CASE Refuse \/ ClearMap
    BY <1>2 DEF Refuse, ClearMap, Cleared, Says, LoadingAsked
  <1>3. CASE ShowHop
    BY <1>3 DEF ShowHop, Inv, LoadingAsked, Is
  <1>. QED BY <1>1, <1>2, <1>3

LEMMA AnswerAsked ==
  ASSUME Inv, NEW q \in open, Answer(q)
  PROVE  LoadingAsked'
  <1>1. PanelAfter(q)
    BY AnswerEffect DEF Inv
  <1>2. CASE panel'.what # "loading"
    BY <1>2 DEF LoadingAsked
  <1>3. CASE panel' = panel /\ Is(q, "route", 2) /\ Closed(q)
    BY <1>3 DEF Inv, LoadingAsked, Closed, Is
  <1>4. CASE panel' = panel /\ ~Is(q, "route", 1) /\ q.leg = 1 /\ NextLeg(q)
    <2>. DEFINE r == Request(q.n, q.kind, 2)
    <2>1. r \in open' /\ r.n = q.n /\ ~Is(r, "route", 2) /\ open \ {q} \subseteq open'
      BY <1>4 DEF NextLeg, Request, Is
    <2>. QED BY <1>4, <2>1 DEF Inv, LoadingAsked, Is
  <1>5. CASE Is(q, "route", 2) /\ panel' \in {Wired(q.n), Unwired} /\ Closed(q)
    <2>1. panel'.what = panel.what /\ panel'.n = panel.n
      BY <1>5 DEF Inv, TypeOK, Wired, Unwired
    <2>. QED BY <1>5, <2>1 DEF Inv, LoadingAsked, Closed, Is
  <1>6. CASE \E what \in Kinds \cup {"error"} : panel' = Says(q.n, what)
    BY <1>2, <1>6 DEF Says, Kinds
  <1>7. CASE panel' = Says(q.n, "route")
    BY <1>2, <1>7 DEF Says
  <1>. QED BY <1>1, <1>3, <1>4, <1>5, <1>6, <1>7 DEF PanelAfter

LEMMA StepInv == Inv /\ [Next]_vars => Inv'
  <1>1. CASE UNCHANGED vars
    BY <1>1 DEF Inv, TypeOK, Numbers, LoadingAsked, Is, vars
  <1>2. ASSUME Inv, NEW q \in open, Answer(q) PROVE Inv'
    BY <1>2, AnswerType, AnswerAsked DEF Inv
  <1>3. ASSUME Inv, Next, \A q \in open : ~Answer(q) PROVE Inv'
    BY <1>3, UserType, UserAsked DEF Inv, Next
  <1>. QED BY <1>1, <1>2, <1>3

LEMMA InitInv == Init => Inv
  BY PageAssumption DEF Init, Inv, TypeOK, Numbers, LoadingAsked, Says, Is

\* The types and the open request behind each "Loading..." hold throughout.
THEOREM Invariant == Spec => []Inv
  BY InitInv, StepInv, PTL DEF Spec

\* Panel, map and requests are of actions taken, and lines have their markers
\* (main.cpp:615-622, 640).
THEOREM TypeCorrect == Spec => []TypeOK
  <1>1. Inv => TypeOK
    BY DEF Inv
  <1>. QED BY Invariant, <1>1, PTL

\* The results panel is never left at "Loading..." without an open request that
\* replaces it (setInfoLoading, and what every answer and failure writes).
THEOREM NothingHangs == Spec => []QuietNotLoading
  <1>1. Inv => QuietNotLoading
    BY DEF Inv, LoadingAsked, QuietNotLoading
  <1>. QED BY Invariant, <1>1, PTL

-----------------------------------------------------------------------------
(* What is shown is recent.                                                *)

RecentInv ==
  /\ TypeOK
  /\ \A q \in open : q.n \in {last} \cup overtaken
  /\ LastOrOvertaken

LEMMA RecentInit == Init => RecentInv
  BY InitInv DEF Init, Inv, RecentInv, LastOrOvertaken, Says

LEMMA UserRecent ==
  ASSUME RecentInv,
         \/ \E kind \in Kinds : Ask(kind)
         \/ Refuse \/ ClearMap \/ ShowHop
  PROVE  RecentInv'
  <1>1. TypeOK'
    BY UserType DEF RecentInv
  <1>2. ASSUME NEW kind \in Kinds, Ask(kind) PROVE RecentInv'
    <2>. DEFINE r == Request(last', kind, 1)
    <2>1. open' = open \cup {r} /\ r.n = last' /\ r.kind = kind /\ overtaken' = {q.n : q \in open}
      BY <1>2 DEF Ask, Act, Request
    <2>2. kind = "admin" \/ panel'.n = last'
      BY <1>2 DEF Ask, Loading, Says
    <2>. HIDE DEF r
    <2>. QED BY <1>1, <2>1, <2>2 DEF RecentInv, LastOrOvertaken
  <1>3. CASE Refuse \/ ClearMap
    <2>1. open' = open /\ panel'.n = last' /\ overtaken' = {q.n : q \in open}
      BY <1>3 DEF Refuse, ClearMap, Act, Cleared, Says
    <2>. QED BY <1>1, <2>1 DEF RecentInv, LastOrOvertaken
  <1>4. CASE ShowHop
    BY <1>1, <1>4 DEF ShowHop, RecentInv, LastOrOvertaken
  <1>. QED BY <1>2, <1>3, <1>4

\* An answer writes to the panel or leaves the request of an admin button open.
LEMMA AnswerRecent ==
  ASSUME RecentInv, NEW q \in open, Answer(q)
  PROVE  RecentInv'
  <1>1. last' = last /\ overtaken' = overtaken /\ PanelAfter(q) /\ TypeOK'
    BY AnswerEffect, AnswerType DEF RecentInv, Answer
  <1>2. q.n \in {last} \cup overtaken
    BY DEF RecentInv
  <1>3. CASE Closed(q) /\ ~NextLeg(q)
    <2>1. open' = open \ {q}
      BY <1>3 DEF Closed
    <2>2. panel'.n = q.n \/ (panel'.n = panel.n /\ Is(q, "route", 2))
      <3>1. panel \in [n : Numbers, what : Kinds \cup {"empty", "loading", "error"},
                       hops : SUBSET Numbers, wired : Numbers]
        BY DEF RecentInv, TypeOK
      <3>2. Wired(q.n).n = panel.n /\ Unwired.n = panel.n
        BY <3>1 DEF Wired, Unwired
      <3>. QED BY <1>1, <1>3, <3>2 DEF PanelAfter, Says
    <2>. QED BY <1>1, <1>2, <2>1, <2>2 DEF RecentInv, LastOrOvertaken, Is
  <1>4. CASE NextLeg(q)
    <2>. DEFINE r == Request(q.n, q.kind, 2)
    <2>1. open' = (open \ {q}) \cup {r} /\ r.n = q.n /\ r.kind = q.kind
      BY <1>4 DEF NextLeg, Request
    <2>2. CASE panel'.n = panel.n
      BY <1>1, <1>2, <2>1, <2>2 DEF RecentInv, LastOrOvertaken
    <2>3. CASE panel'.n = q.n
      BY <1>1, <1>2, <2>1, <2>3 DEF RecentInv, LastOrOvertaken
    <2>4. panel'.n \in {panel.n, q.n}
      <3>1. panel \in [n : Numbers, what : Kinds \cup {"empty", "loading", "error"},
                       hops : SUBSET Numbers, wired : Numbers]
        BY DEF RecentInv, TypeOK
      <3>2. Wired(q.n).n = panel.n /\ Unwired.n = panel.n
        BY <3>1 DEF Wired, Unwired
      <3>. QED BY <1>1, <3>2 DEF PanelAfter, Says
    <2>. QED BY <2>2, <2>3, <2>4
  <1>. QED BY <1>1, <1>3, <1>4 DEF PanelAfter

LEMMA RecentStep == RecentInv /\ [Next]_vars => RecentInv'
  <1>1. CASE UNCHANGED vars
    BY <1>1 DEF RecentInv, TypeOK, Numbers, LastOrOvertaken, vars
  <1>2. ASSUME RecentInv, NEW q \in open, Answer(q) PROVE RecentInv'
    BY <1>2, AnswerRecent
  <1>3. ASSUME RecentInv, Next, \A q \in open : ~Answer(q) PROVE RecentInv'
    BY <1>3, UserRecent DEF Next
  <1>. QED BY <1>1, <1>2, <1>3

\* The results panel shows the last action or one whose requests it overtook
\* (main.cpp:695), for every user: results that were settled do not come back.
THEOREM OldResultsGone == Spec => []LastOrOvertaken
  <1>1. RecentInv => LastOrOvertaken
    BY DEF RecentInv
  <1>2. Spec => []RecentInv
    BY RecentInit, RecentStep, PTL DEF Spec
  <1>. QED BY <1>1, <1>2, PTL

-----------------------------------------------------------------------------
(* The user who overtakes no request.                                      *)

\* At most one request is open, and it is the last action's.
Alone ==
  calm =>
    /\ \A q, r \in open : q = r
    /\ \A q \in open : q.n = last

\* A search that draws has cleared the map, and connections are added
\* to a panel that has none.
Tidy ==
  calm =>
    /\ \A q \in open :
         /\ q.kind \in Clearing => markers \cup lines \subseteq {last}
         /\ Is(q, "route", 2) => panel.hops = {}
    /\ HopsWired
    /\ OneSearchOnMap

CalmInv == TypeOK /\ Alone /\ Tidy

LEMMA CalmInit == Init => CalmInv
  BY InitInv DEF Init, Inv, CalmInv, Alone, Tidy, HopsWired, OneSearchOnMap, Says

\* A step of the user is calm only when no request is open.
LEMMA CalmUser ==
  ASSUME CalmInv,
         \/ \E kind \in Kinds : Ask(kind)
         \/ Refuse \/ ClearMap \/ ShowHop
  PROVE  CalmInv'
  <1>1. TypeOK'
    BY UserType DEF CalmInv
  <1>2. calm' => calm /\ open = {}
    BY DEF Ask, Refuse, ClearMap, ShowHop, Act, GoOn
  <1>3. calm' => open = {} /\ HopsWired /\ OneSearchOnMap
    BY <1>2 DEF CalmInv, Tidy
  <1>4. ASSUME NEW kind \in Kinds, Ask(kind) PROVE CalmInv'
    <2>. DEFINE r == Request(last', kind, 1)
    <2>1. r.n = last' /\ r.kind = kind /\ r.leg = 1
      BY DEF Request
    <2>2. open = {} => open' = {r}
      BY <1>4 DEF Ask
    <2>3. kind \in Clearing => markers' = {} /\ lines' = {}
      BY <1>4 DEF Ask, Drawn, Wiped
    <2>. HIDE DEF r
    <2>4. Alone'
      BY <1>3, <2>1, <2>2 DEF Alone
    <2>5. calm' => HopsWired' /\ OneSearchOnMap'
      BY <1>3, <1>4 DEF Ask, HopsWired, Says, OneSearchOnMap, Drawn, Wiped, MapStays
    <2>6. Tidy'
      BY <1>3, <2>1, <2>2, <2>3, <2>5 DEF Tidy, Is
    <2>. QED BY <1>1, <2>4, <2>6 DEF CalmInv
  <1>5. CASE Refuse \/ ClearMap
    <2>1. open' = open /\ panel'.hops = {}
      BY <1>5 DEF Refuse, ClearMap, Cleared, Says
    <2>2. MapStays \/ (markers' = {} /\ lines' = {})
      BY <1>5 DEF Refuse, ClearMap, Drawn, Wiped
    <2>3. Alone'
      BY <1>3, <2>1 DEF Alone
    <2>4. Tidy'
      BY <1>3, <2>1, <2>2 DEF Tidy, HopsWired, OneSearchOnMap, MapStays
    <2>. QED BY <1>1, <2>3, <2>4 DEF CalmInv
  <1>6. CASE ShowHop
    <2>1. open' = open /\ panel' = panel
      BY <1>6 DEF ShowHop
    <2>2. markers' = {panel.wired} /\ lines' = {panel.wired}
      BY <1>6 DEF ShowHop, Drawn
    <2>3. Alone'
      BY <1>3, <2>1 DEF Alone
    <2>4. Tidy'
      BY <1>3, <2>1, <2>2 DEF Tidy, HopsWired, OneSearchOnMap
    <2>. QED BY <1>1, <2>3, <2>4 DEF CalmInv
  <1>. QED BY <1>4, <1>5, <1>6

\* After an answer to the only request there is none, or its second leg.
LEMMA AnswerAlone ==
  ASSUME CalmInv, NEW q \in open, Answer(q)
  PROVE  Alone'
  <1>1. last' = last /\ calm' = calm /\ PanelAfter(q)
    BY AnswerEffect DEF CalmInv, Answer
  <1>2. calm => open = {q} /\ q.n = last
    BY DEF CalmInv, Alone
  <1>3. CASE Closed(q)
    BY <1>1, <1>2, <1>3 DEF Closed, Alone
  <1>4. CASE NextLeg(q)
    BY <1>1, <1>2, <1>4 DEF NextLeg, Request, Alone
  <1>. QED BY <1>1, <1>3, <1>4 DEF PanelAfter

LEMMA AnswerTidy ==
  ASSUME CalmInv, NEW q \in open, Answer(q)
  PROVE  Tidy'
  <1>1. last' = last /\ calm' = calm /\ PanelAfter(q) /\ MapAfter(q)
    BY AnswerEffect DEF CalmInv, Answer
  <1>2. CASE ~calm
    BY <1>1, <1>2 DEF Tidy
  <1>3. CASE calm
    <2>1. open = {q} /\ q.n = last /\ HopsWired /\ OneSearchOnMap
      BY <1>3 DEF CalmInv, Alone, Tidy
    <2>2. q.kind \in Clearing => markers \cup lines \subseteq {last}
      BY <1>3 DEF CalmInv, Tidy
    <2>3. /\ OneSearchOnMap'
          /\ q.kind \in Clearing => markers' \cup lines' \subseteq {last}
      BY <1>1, <2>1, <2>2 DEF MapAfter, MapStays, OneSearchOnMap
    <2>4. CASE panel' = panel \/ \E what : panel' = Says(q.n, what)
      <3>1. HopsWired'
        BY <2>1, <2>4 DEF HopsWired, Says
      <3>2. CASE Closed(q)
        <4>1. open' = {}
          BY <2>1, <3>2 DEF Closed
        <4>. QED BY <2>3, <3>1, <4>1 DEF Tidy
      <3>3. CASE NextLeg(q) /\ ~Closed(q)
        <4>. DEFINE r == Request(q.n, q.kind, 2)
        <4>1. open' = {r} /\ r.kind = q.kind /\ r.leg = 2
          BY <2>1, <3>3 DEF NextLeg, Request
        <4>2. Is(r, "route", 2) => panel'.hops = {}
          BY <1>1, <3>3, <4>1 DEF PanelAfter, Is, Says
        <4>. QED BY <1>1, <2>3, <3>1, <4>1, <4>2 DEF Tidy
      <3>. QED BY <1>1, <3>2, <3>3 DEF PanelAfter
    <2>5. CASE Is(q, "route", 2) /\ panel' \in {Wired(q.n), Unwired} /\ Closed(q)
      <3>1. open' = {}
        BY <2>1, <2>5 DEF Closed
      <3>2. panel.hops = {}
        BY <1>3, <2>5 DEF CalmInv, Tidy
      <3>3. panel \in [n : Numbers, what : Kinds \cup {"empty", "loading", "error"},
                       hops : SUBSET Numbers, wired : Numbers]
        BY DEF CalmInv, TypeOK
      <3>4. HopsWired'
        BY <2>5, <3>2, <3>3 DEF HopsWired, Wired, Unwired
      <3>. QED BY <2>3, <3>1, <3>4 DEF Tidy
    <2>. QED BY <1>1, <2>4, <2>5 DEF PanelAfter
  <1>. QED BY <1>2, <1>3

LEMMA CalmStep == CalmInv /\ [Next]_vars => CalmInv'
  <1>1. CASE UNCHANGED vars
    BY <1>1 DEF CalmInv, TypeOK, Numbers, Alone, Tidy, HopsWired, OneSearchOnMap, Is,
      vars
  <1>2. ASSUME CalmInv, NEW q \in open, Answer(q) PROVE CalmInv'
    BY <1>2, AnswerType, AnswerAlone, AnswerTidy DEF CalmInv
  <1>3. ASSUME CalmInv, Next, \A q \in open : ~Answer(q) PROVE CalmInv'
    BY <1>3, CalmUser DEF Next
  <1>. QED BY <1>1, <1>2, <1>3

\* What a user who overtakes no request leaves in panel and map.
THEOREM CalmInvariant == Spec => []CalmInv
  BY CalmInit, CalmStep, PTL DEF Spec

\* For a user who overtook no request, the buttons of one-hop connections show the
\* connections of their own search (main.cpp:844).
THEOREM OwnHopsWired == Spec => []CalmHops
  <1>1. CalmInv => CalmHops
    BY DEF CalmInv, Tidy, CalmHops
  <1>. QED BY CalmInvariant, <1>1, PTL

\* For a user who overtook no request, markers and lines on the map are of one action.
THEOREM MapOfOneAction == Spec => []CalmMap
  <1>1. CalmInv => CalmMap
    BY DEF CalmInv, Tidy, CalmMap
  <1>. QED BY CalmInvariant, <1>1, PTL
=============================================================================
