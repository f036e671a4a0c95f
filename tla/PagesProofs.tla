------------------------------ MODULE PagesProofs ------------------------------
(***************************************************************************)
(* Proofs about the pages, for any texts and any number of requests.       *)
(*                                                                         *)
(* Requests and what is shown carry numbers.  As long as no answer went    *)
(* ahead of a question (raced) or of a search (late), the last one asked   *)
(* is still open, or what is shown is its answer (BoxInv, AreaInv).        *)
(***************************************************************************)
EXTENDS Pages, TLAPS

\* No two open requests have one number.
Numbered(open) == \A q, r \in open : q.n = r.n => q = r

\* The question that waits is for what the field holds; once none waits, the last
\* request is open and for that text, or the box is as its answer left it.
BoxAnswersLast ==
  ~raced =>
    /\ timers \subseteq {text}
    /\ timers = {} => \/ \E q \in asks : q.n = asked /\ q.of = text
                      \/ box.n = asked /\ (box.open => box.of = text)

BoxInv ==
  /\ Numbered(asks)
  /\ \A q \in asks : q.n # box.n
  /\ ~HasField => timers = {} /\ asks = {} /\ ~box.open
  /\ BoxAnswersLast

\* The last search is open, or the area shows its outcome.
AreaAnswersLast ==
  ran > 0 /\ ~late =>
    \/ \E r \in runs : r.n = ran /\ (~edited => r.of = Wanted(text))
    \/ /\ area.n = ran
       /\ area.what \in {"answer", "error"}
       /\ ~edited => area.of = Wanted(text)

AreaInv ==
  /\ Numbered(runs)
  /\ \A r \in runs : r.n = area.n => area.what = "loading"
  /\ area.what = "empty" => ran = 0
  /\ AreaAnswersLast

Inv == TypeOK /\ BoxInv /\ AreaInv

-----------------------------------------------------------------------------
(* A search that starts, from whatever it is started.                      *)

\* What Run does, whichever text the field holds then.
LEMMA RunType ==
  ASSUME TypeOK, NEW t \in Texts, Run(t)
  PROVE  /\ ran' = ran + 1 /\ ran' \in 1..MaxRuns
         /\ runs' = runs \cup {[n |-> ran + 1, of |-> Wanted(t)]}
         /\ Wanted(t) \in Texts
         /\ runs' \subseteq Questions(1..ran')
         /\ area' = [n |-> ran + 1, of |-> Wanted(t), what |-> "loading", shown |-> TRUE]
         /\ area' \in [n : 0..ran', of : Texts \cup {NoText}, shown : BOOLEAN,
                       what : {"empty", "loading", "answer", "error"}]
         /\ page = "query" => \A r \in runs' : r.of # Empty \/ Default = Empty
         /\ late' = (late /\ runs # {}) /\ late' \in BOOLEAN
         /\ edited' = FALSE /\ ready' = ready
  <1>1. ran \in Nat /\ ran' = ran + 1 /\ ran' \in 1..MaxRuns
    BY PagesAssumption DEF TypeOK, Run
  <1>2. Wanted(t) \in Texts /\ (page = "query" => Wanted(t) # Empty \/ Default = Empty)
    BY PagesAssumption DEF Wanted
  <1>3. /\ runs' = runs \cup {[n |-> ran + 1, of |-> Wanted(t)]}
        /\ area' = [n |-> ran + 1, of |-> Wanted(t), what |-> "loading", shown |-> TRUE]
        /\ late' = (late /\ runs # {}) /\ edited' = FALSE /\ ready' = ready
    BY DEF Run, Shows
  <1>4. late' \in BOOLEAN
    BY <1>3 DEF TypeOK
  <1>5. runs' \subseteq Questions(1..ran')
    BY <1>1, <1>2, <1>3 DEF TypeOK, Questions
  <1>6. area' \in [n : 0..ran', of : Texts \cup {NoText}, shown : BOOLEAN,
                   what : {"empty", "loading", "answer", "error"}]
    BY <1>1, <1>2, <1>3
  <1>7. page = "query" => \A r \in runs' : r.of # Empty \/ Default = Empty
    BY <1>2, <1>3 DEF TypeOK
  <1>. QED BY <1>1, <1>2, <1>3, <1>4, <1>5, <1>6, <1>7

\* A search that starts is the last one, and open.
LEMMA RunArea ==
  ASSUME TypeOK, AreaInv, NEW t \in Texts, Run(t), text' = t, page' = page
  PROVE  AreaInv'
  <1>1. ran \in Nat /\ \A r \in runs : r.n \in 1..ran
    BY PagesAssumption DEF TypeOK, Questions
  <1>2. /\ ran' = ran + 1
        /\ runs' = runs \cup {[n |-> ran + 1, of |-> Wanted(t)]}
        /\ area' = [n |-> ran + 1, of |-> Wanted(t), what |-> "loading", shown |-> TRUE]
    BY RunType
  <1>3. Wanted(text)' = Wanted(t)
    BY DEF Wanted
  <1>4. Numbered(runs)'
    BY <1>1, <1>2 DEF AreaInv, Numbered
  <1>5. \E r \in runs' : r.n = ran' /\ r.of = Wanted(text)'
    <2>. DEFINE r == [n |-> ran + 1, of |-> Wanted(t)]
    <2>1. r \in runs' /\ r.n = ran' /\ r.of = Wanted(t)
      BY <1>2
    <2>. QED BY <1>3, <2>1
  <1>6. AreaAnswersLast'
    BY <1>5, Zenon DEF AreaAnswersLast
  <1>. QED BY <1>1, <1>2, <1>4, <1>6 DEF AreaInv

-----------------------------------------------------------------------------
(* Each step keeps the types.                                              *)

LEMMA InitInv == Init => Inv
  <1>. SUFFICES ASSUME Init PROVE Inv
    OBVIOUS
  <1>1. PICK t \in Texts :
          LET atOnce == page \in {"search", "query"} /\ t # Empty
              r == [n |-> 1, of |-> t]
          IN  /\ atOnce \/ t = Empty
              /\ text = t
              /\ ran = (IF atOnce THEN 1 ELSE 0)
              /\ runs = (IF atOnce THEN {r} ELSE {})
              /\ area = IF atOnce THEN Shows(r, "loading")
                        ELSE [n |-> 0, of |-> NoText, what |-> "empty", shown |-> page # "report"]
    BY DEF Init
  <1>2. /\ timers = {} /\ asked = 0 /\ asks = {}
        /\ box = [n |-> 0, open |-> FALSE, of |-> NoText]
        /\ {ready, raced, late, edited} \subseteq BOOLEAN
        /\ page \in Pages
    BY DEF Init
  <1>3. \/ /\ page \in {"search", "query"} /\ t # Empty
           /\ ran = 1 /\ runs = {[n |-> 1, of |-> t]}
           /\ area = [n |-> 1, of |-> t, what |-> "loading", shown |-> TRUE]
        \/ /\ ran = 0 /\ runs = {}
           /\ area = [n |-> 0, of |-> NoText, what |-> "empty", shown |-> page # "report"]
    BY <1>1 DEF Shows
  <1>4. TypeOK
    <2>1. ran \in 0..MaxRuns /\ runs \subseteq Questions(1..ran)
      BY <1>3, PagesAssumption DEF Questions
    <2>2. page = "query" => \A r \in runs : r.of # Empty \/ Default = Empty
      BY <1>3
    <2>3. area \in [n : 0..ran, of : Texts \cup {NoText}, shown : BOOLEAN,
                    what : {"empty", "loading", "answer", "error"}]
      <3>1. CASE ran = 1 /\ area = [n |-> 1, of |-> t, what |-> "loading", shown |-> TRUE]
        BY <3>1
      <3>2. CASE /\ ran = 0
                 /\ area = [n |-> 0, of |-> NoText, what |-> "empty", shown |-> page # "report"]
        <4>1. PICK shown \in BOOLEAN : area = [n |-> 0, of |-> NoText, what |-> "empty", shown |-> shown]
          BY <3>2
        <4>. QED BY <3>2, <4>1
      <3>. QED BY <1>3, <3>1, <3>2
    <2>. QED BY <1>1, <1>2, <2>1, <2>2, <2>3, PagesAssumption DEF TypeOK, Questions
  <1>5. BoxInv
    BY <1>2 DEF BoxInv, Numbered, BoxAnswersLast
  <1>6. AreaInv
    <2>1. Numbered(runs) /\ (area.what = "empty" => ran = 0)
          /\ \A r \in runs : area.what = "loading"
      BY <1>3 DEF Numbered
    <2>2. AreaAnswersLast
      <3>1. CASE ran = 0
        BY <3>1 DEF AreaAnswersLast
      <3>2. CASE t # Empty /\ ran = 1 /\ runs = {[n |-> 1, of |-> t]}
        <4>1. Wanted(text) = t
          BY <1>1, <3>2 DEF Wanted
        <4>2. \E r \in runs : r.n = ran /\ r.of = Wanted(text)
          BY <3>2, <4>1
        <4>. QED BY <4>2 DEF AreaAnswersLast
      <3>. QED BY <1>3, <3>1, <3>2
    <2>. QED BY <2>1, <2>2 DEF AreaInv
  <1>. QED BY <1>4, <1>5, <1>6 DEF Inv

-----------------------------------------------------------------------------
(* Each step keeps the types.                                              *)

\* An answer gives the box its number, and its text if it opens the box.
LEMMA SuggestType ==
  ASSUME TypeOK, NEW q \in asks, Suggest(q)
  PROVE  /\ box' \in [n : 0..asked, open : BOOLEAN, of : Texts \cup {NoText}]
         /\ box'.n = q.n
         /\ box'.open => box'.of = q.of
  <1>1. q.n \in 0..asked /\ q.of \in Texts
    BY PagesAssumption DEF TypeOK, Questions
  <1>2. CASE box' = [n |-> q.n, open |-> TRUE, of |-> q.of]
    BY <1>1, <1>2
  <1>3. CASE box' = [n |-> q.n, open |-> FALSE, of |-> NoText]
    BY <1>1, <1>3
  <1>4. CASE box' = [Shut EXCEPT !.n = q.n]
    BY <1>1, <1>4 DEF Shut, TypeOK
  <1>. QED BY <1>2, <1>3, <1>4 DEF Suggest

LEMMA RunKeepsType ==
  ASSUME TypeOK, NEW t \in Texts, Run(t), text' = t,
         UNCHANGED <<page, timers, asked, asks>>,
         box' \in [n : 0..asked, open : BOOLEAN, of : Texts \cup {NoText}], raced' \in BOOLEAN
  PROVE  TypeOK'
  <1>1. /\ ran' \in 1..MaxRuns /\ runs' \subseteq Questions(1..ran')
        /\ page = "query" => \A r \in runs' : r.of # Empty \/ Default = Empty
        /\ area' \in [n : 0..ran', of : Texts \cup {NoText}, shown : BOOLEAN,
                      what : {"empty", "loading", "answer", "error"}]
    BY RunType, Zenon
  <1>2. {ready', late', edited'} \subseteq BOOLEAN
    BY RunType DEF TypeOK
  <1>3. ran' \in 0..MaxRuns
    BY <1>1, PagesAssumption
  <1>. QED BY <1>1, <1>2, <1>3 DEF TypeOK, Questions

LEMMA StepType ==
  ASSUME TypeOK, [Next]_vars
  PROVE  TypeOK'
  <1>. USE PagesAssumption
  <1>1. ASSUME NEW t \in Texts, Press(t) PROVE TypeOK'
    <2>1. box' \in [n : 0..asked, open : BOOLEAN, of : Texts \cup {NoText}] /\ raced' \in BOOLEAN
      BY <1>1 DEF Press, TypeOK
    <2>. QED BY <1>1, <2>1, RunKeepsType DEF Press
  <1>2. ASSUME NEW t \in Texts, Show(t) PROVE TypeOK'
    BY <1>2 DEF Show, Cleared, TypeOK
  <1>3. ASSUME NEW t \in Texts, Choose(t) PROVE TypeOK'
    <2>1. box' \in [n : 0..asked, open : BOOLEAN, of : Texts \cup {NoText}] /\ raced' \in BOOLEAN
      BY <1>3 DEF Choose, Shut, TypeOK
    <2>2. CASE page = "search"
      BY <1>3, <2>1, <2>2, RunKeepsType DEF Choose
    <2>3. CASE page # "search"
      BY <1>3, <2>1, <2>3 DEF Choose, TypeOK, Questions
    <2>. QED BY <2>2, <2>3
  <1>4. ASSUME NEW t \in timers, Pause(t) PROVE TypeOK'
    BY <1>4 DEF Pause, TypeOK, Questions, result
  <1>5. ASSUME NEW q \in asks, Suggest(q) PROVE TypeOK'
    <2>1. raced' \in BOOLEAN /\ UNCHANGED <<page, text, timers, asked, result>>
      BY <1>5 DEF Suggest, TypeOK
    <2>2. asks' \subseteq Questions(1..asked)
      BY <1>5 DEF Suggest, TypeOK
    <2>3. box' \in [n : 0..asked, open : BOOLEAN, of : Texts \cup {NoText}]
      BY <1>5, SuggestType
    <2>. QED BY <2>1, <2>2, <2>3 DEF TypeOK, Questions, result
  <1>6. ASSUME NEW r \in runs, Done(r) PROVE TypeOK'
    <2>1. late' \in BOOLEAN /\ UNCHANGED <<page, field, ran, ready, edited>>
      BY <1>6 DEF Done, TypeOK
    <2>2. runs' \subseteq runs
      BY <1>6 DEF Done
    <2>3. area' \in [n : 0..ran, of : Texts \cup {NoText}, shown : BOOLEAN,
                     what : {"empty", "loading", "answer", "error"}]
      <3>1. r.n \in 0..ran /\ r.of \in Texts
        BY PagesAssumption DEF TypeOK, Questions
      <3>2. PICK what \in {"answer", "error"} : area' = [n |-> r.n, of |-> r.of, what |-> what, shown |-> TRUE]
        BY <1>6 DEF Done, Outcomes, Shows
      <3>. QED BY <3>1, <3>2
    <2>. QED BY <2>1, <2>2, <2>3 DEF TypeOK, Questions, field
  <1>7. CASE CloseModal
    BY <1>7 DEF CloseModal, TypeOK, field
  <1>8. CASE Markers
    BY <1>8 DEF Markers, TypeOK, field
  <1>9. CASE ClickAway
    BY <1>9 DEF ClickAway, Shut, TypeOK, result
  <1>10. CASE Submit
    <2>1. box' \in [n : 0..asked, open : BOOLEAN, of : Texts \cup {NoText}]
      BY <1>10 DEF Submit, Shut, TypeOK
    <2>2. text \in Texts /\ Run(text) /\ text' = text /\ raced' \in BOOLEAN
          /\ UNCHANGED <<page, timers, asked, asks>>
      BY <1>10 DEF Submit, TypeOK
    <2>. QED BY <2>1, <2>2, RunKeepsType
  <1>11. CASE UNCHANGED vars
    BY <1>11 DEF vars, field, result, TypeOK
  <1>. QED BY <1>1, <1>2, <1>3, <1>4, <1>5, <1>6, <1>7, <1>8, <1>9, <1>10, <1>11 DEF Next

-----------------------------------------------------------------------------
(* The box.                                                                *)

LEMMA PauseBox ==
  ASSUME TypeOK, BoxInv, NEW t \in timers, Pause(t)
  PROVE  BoxInv'
  <1>. USE PagesAssumption
  <1>1. /\ asked \in Nat /\ box.n \in 0..asked
        /\ \A q \in asks : q.n \in 1..asked
    BY DEF TypeOK, Questions
  <1>2. /\ asks' = asks \cup {[n |-> asked + 1, of |-> t]}
        /\ timers' = timers \ {t} /\ asked' = asked + 1
        /\ UNCHANGED <<page, text, box, raced>>
    BY DEF Pause
  <1>3. Numbered(asks)' /\ \A q \in asks' : q.n # box'.n
    BY <1>1, <1>2 DEF BoxInv, Numbered
  <1>4. HasField'
    BY <1>2 DEF BoxInv, HasField
  <1>5. BoxAnswersLast'
    <2>1. CASE raced
      BY <1>2, <2>1 DEF BoxAnswersLast
    <2>2. CASE ~raced
      <3>1. timers \subseteq {text} /\ t = text
        BY <2>2 DEF BoxInv, BoxAnswersLast
      <3>2. \E q \in asks' : q.n = asked' /\ q.of = text'
        <4>. DEFINE q == [n |-> asked + 1, of |-> t]
        <4>1. q \in asks' /\ q.n = asked' /\ q.of = text'
          BY <1>2, <3>1
        <4>. QED BY <4>1
      <3>. QED BY <1>2, <3>1, <3>2 DEF BoxAnswersLast
    <2>. QED BY <2>1, <2>2
  <1>. QED BY <1>3, <1>4, <1>5 DEF BoxInv

\* An answer that leaves the box unraced is the last one asked for, or the last one
\* is still open.
LEMMA SuggestBox ==
  ASSUME TypeOK, BoxInv, NEW q \in asks, Suggest(q)
  PROVE  BoxInv'
  <1>. USE PagesAssumption
  <1>1. asked \in Nat /\ box.n \in 0..asked /\ \A p \in asks : p.n \in 1..asked
    BY DEF TypeOK, Questions
  <1>2. /\ asks' = asks \ {q}
        /\ box'.n = q.n
        /\ box'.open => box'.of = q.of
        /\ raced' = (raced \/ q.n < box.n)
        /\ UNCHANGED <<page, text, timers, asked>>
    BY SuggestType DEF Suggest
  <1>3. Numbered(asks)' /\ \A p \in asks' : p.n # box'.n
    BY <1>2 DEF BoxInv, Numbered
  <1>4. HasField'
    BY <1>2 DEF BoxInv, HasField
  <1>5. ASSUME ~raced' PROVE /\ timers' \subseteq {text'}
                             /\ timers' = {} => \/ \E p \in asks' : p.n = asked' /\ p.of = text'
                                                \/ box'.n = asked' /\ (box'.open => box'.of = text')
    <2>1. ~raced /\ ~(q.n < box.n) /\ timers \subseteq {text}
      BY <1>2, <1>5 DEF BoxInv, BoxAnswersLast
    <2>2. CASE timers # {}
      BY <1>2, <2>1, <2>2
    <2>3. CASE \E p \in asks : p.n = asked /\ p.of = text
      <3>1. PICK p \in asks : p.n = asked /\ p.of = text
        BY <2>3
      <3>2. CASE p = q
        BY <1>2, <2>1, <3>1, <3>2
      <3>3. CASE p # q
        BY <1>2, <2>1, <3>1, <3>3
      <3>. QED BY <3>2, <3>3
    <2>4. CASE box.n = asked
      BY <1>1, <2>1, <2>4 DEF BoxInv
    <2>. QED BY <2>1, <2>2, <2>3, <2>4 DEF BoxInv, BoxAnswersLast
  <1>6. BoxAnswersLast'
    BY <1>5 DEF BoxAnswersLast
  <1>. QED BY <1>3, <1>4, <1>6 DEF BoxInv

LEMMA ChooseBox ==
  ASSUME TypeOK, BoxInv, NEW t \in Texts, Choose(t)
  PROVE  BoxInv'
  <1>1. /\ box.open
        /\ text' = t
        /\ box'.n = box.n /\ ~box'.open
        /\ raced' = (raced \/ timers # {} \/ asks # {})
        /\ UNCHANGED <<page, timers, asked, asks>>
    BY DEF Choose, Shut, TypeOK
  <1>2. BoxAnswersLast'
    <2>1. ASSUME ~raced' PROVE timers = {} /\ asks = {} /\ box.n = asked
      BY <1>1, <2>1 DEF BoxInv, BoxAnswersLast
    <2>. QED BY <1>1, <2>1 DEF BoxAnswersLast
  <1>. QED BY <1>1, <1>2 DEF BoxInv, Numbered, HasField

LEMMA StepBox ==
  ASSUME TypeOK, BoxInv, [Next]_vars
  PROVE  BoxInv'
  <1>1. ASSUME NEW t \in Texts, Press(t) PROVE BoxInv'
    <2>1. /\ ~HasField /\ UNCHANGED <<page, timers, asked, asks, box, raced>>
      BY <1>1 DEF Press, HasField
    <2>2. BoxAnswersLast'
      BY <2>1 DEF BoxInv, BoxAnswersLast
    <2>. QED BY <2>1, <2>2 DEF BoxInv, Numbered, HasField
  <1>2. ASSUME NEW t \in Texts, Show(t) PROVE BoxInv'
    <2>1. /\ HasField /\ UNCHANGED <<page, asked, asks, box>>
          /\ text' = t /\ timers' = {t}
      BY <1>2 DEF Show, Cleared
    <2>2. BoxAnswersLast'
      BY <2>1 DEF BoxAnswersLast
    <2>. QED BY <2>1, <2>2 DEF BoxInv, Numbered, HasField
  <1>3. ASSUME NEW t \in Texts, Choose(t) PROVE BoxInv'
    BY <1>3, ChooseBox
  <1>4. ASSUME NEW t \in timers, Pause(t) PROVE BoxInv'
    BY <1>4, PauseBox
  <1>5. ASSUME NEW q \in asks, Suggest(q) PROVE BoxInv'
    BY <1>5, SuggestBox
  <1>6. CASE UNCHANGED <<page, field>>
    BY <1>6 DEF field, BoxInv, Numbered, HasField, BoxAnswersLast
  <1>7. CASE ClickAway \/ Submit
    <2>1. /\ UNCHANGED <<page, text, timers, asked, asks, raced>>
          /\ box'.n = box.n /\ (box'.open => box.open) /\ box'.of = box.of
      BY <1>7 DEF ClickAway, Submit, Shut, TypeOK
    <2>2. BoxAnswersLast'
      BY <2>1 DEF BoxInv, BoxAnswersLast
    <2>. QED BY <2>1, <2>2 DEF BoxInv, Numbered, HasField
  <1>8. CASE (\E r \in runs : Done(r)) \/ CloseModal \/ Markers \/ UNCHANGED vars
    BY <1>6, <1>8 DEF Done, CloseModal, Markers, vars, field
  <1>. QED BY <1>1, <1>2, <1>3, <1>4, <1>5, <1>7, <1>8 DEF Next

-----------------------------------------------------------------------------
(* The area.                                                               *)

\* An answer that does not come late is that of the last search, or the last one is
\* still open.
LEMMA DoneArea ==
  ASSUME TypeOK, AreaInv, NEW r \in runs, Done(r)
  PROVE  AreaInv'
  <1>. USE PagesAssumption
  <1>1. ran \in Nat /\ area.n \in 0..ran /\ \A p \in runs : p.n \in 1..ran
    BY DEF TypeOK, Questions
  <1>2. /\ runs' = runs \ {r}
        /\ area'.n = r.n /\ area'.of = r.of /\ area'.what \in {"answer", "error"}
        /\ late' = (late \/ (r.n < area.n /\ area.what # "loading"))
        /\ UNCHANGED <<page, text, ran, edited>>
    BY DEF Done, Outcomes, Shows, field
  <1>3. Numbered(runs)' /\ \A p \in runs' : p.n # area'.n
    BY <1>2 DEF AreaInv, Numbered
  <1>4. Wanted(text)' = Wanted(text)
    BY <1>2 DEF Wanted
  <1>5. ASSUME ran' > 0, ~late'
        PROVE  \/ \E p \in runs' : p.n = ran' /\ (~edited' => p.of = Wanted(text)')
               \/ /\ area'.n = ran' /\ area'.what \in {"answer", "error"}
                  /\ ~edited' => area'.of = Wanted(text)'
    <2>1. ran > 0 /\ ~late /\ ~(r.n < area.n /\ area.what # "loading")
      BY <1>2, <1>5
    <2>2. CASE \E p \in runs : p.n = ran /\ (~edited => p.of = Wanted(text))
      <3>1. PICK p \in runs : p.n = ran /\ (~edited => p.of = Wanted(text))
        BY <2>2
      <3>2. CASE p = r
        BY <1>2, <1>4, <3>1, <3>2
      <3>3. CASE p # r
        BY <1>2, <1>4, <3>1, <3>3
      <3>. QED BY <3>2, <3>3
    <2>3. CASE area.n = ran /\ area.what \in {"answer", "error"}
      BY <1>1, <2>1, <2>3 DEF AreaInv
    <2>. QED BY <2>1, <2>2, <2>3 DEF AreaInv, AreaAnswersLast
  <1>6. AreaAnswersLast'
    BY <1>5 DEF AreaAnswersLast
  <1>7. area'.what # "empty"
    BY <1>2
  <1>. QED BY <1>3, <1>6, <1>7 DEF AreaInv

LEMMA StepArea ==
  ASSUME TypeOK, AreaInv, [Next]_vars
  PROVE  AreaInv'
  <1>1. ASSUME NEW t \in Texts, Press(t) PROVE AreaInv'
    BY <1>1, RunArea DEF Press
  <1>2. ASSUME UNCHANGED <<page, ran, runs, area, late>>,
               edited' = TRUE \/ UNCHANGED <<text, edited>>
        PROVE  AreaInv'
    <2>1. AreaAnswersLast'
      BY <1>2 DEF AreaInv, AreaAnswersLast, Wanted
    <2>. QED BY <1>2, <2>1 DEF AreaInv, Numbered
  <1>3. ASSUME NEW t \in Texts, Show(t) PROVE AreaInv'
    <2>1. edited' = TRUE \/ UNCHANGED <<text, edited>>
      BY <1>3 DEF Show, TypeOK
    <2>. QED BY <1>2, <1>3, <2>1 DEF Show
  <1>4. ASSUME NEW t \in Texts, Choose(t) PROVE AreaInv'
    BY <1>2, <1>4, RunArea DEF Choose
  <1>5. CASE Submit
    BY <1>5, RunArea DEF Submit, TypeOK
  <1>6. ASSUME NEW r \in runs, Done(r) PROVE AreaInv'
    BY <1>6, DoneArea
  <1>7. CASE CloseModal \/ Markers
    <2>1. /\ UNCHANGED <<page, text, ran, runs, late, edited>>
          /\ area'.n = area.n /\ area'.of = area.of
          /\ area'.what = area.what \/ (area.what = "empty" /\ area'.what = "error")
      BY <1>7 DEF CloseModal, Markers, TypeOK, field
    <2>2. CASE area'.what = area.what
      <3>1. AreaAnswersLast'
        BY <2>1, <2>2 DEF AreaInv, AreaAnswersLast, Wanted
      <3>. QED BY <2>1, <2>2, <3>1 DEF AreaInv, Numbered
    <2>3. CASE area.what = "empty" /\ area'.what = "error"
      <3>1. ran' = 0 /\ runs' = {}
        BY <2>1, <2>3 DEF AreaInv, TypeOK, Questions
      <3>. QED BY <2>3, <3>1 DEF AreaInv, Numbered, AreaAnswersLast
    <2>. QED BY <2>1, <2>2, <2>3
  <1>8. CASE (\E t \in timers : Pause(t)) \/ (\E q \in asks : Suggest(q)) \/ ClickAway \/ UNCHANGED vars
    BY <1>2, <1>8 DEF Pause, Suggest, ClickAway, vars, field, result
  <1>. QED BY <1>1, <1>3, <1>4, <1>5, <1>6, <1>7, <1>8 DEF Next

THEOREM Invariant == Spec => []Inv
  <1>1. Inv /\ [Next]_vars => Inv'
    BY StepType, StepBox, StepArea DEF Inv
  <1>. QED BY <1>1, InitInv, PTL DEF Spec

-----------------------------------------------------------------------------

\* Requests and what is shown carry numbers of requests that were made.
THEOREM TypeCorrect == Spec => []TypeOK
  <1>1. Inv => TypeOK
    BY DEF Inv
  <1>. QED BY <1>1, Invariant, PTL

\* An open box with nothing outstanding offers what the field holds, unless the field
\* or a later answer went ahead of a question.
THEOREM BoxIsOfField == Spec => []BoxOffersForText
  <1>1. Inv => BoxOffersForText
    BY DEF Inv, BoxInv, BoxAnswersLast, BoxOffersForText
  <1>. QED BY <1>1, Invariant, PTL

\* The area shows the outcome of the last search once all are in, unless an answer
\* came late.
THEOREM AreaShowsLast == Spec => []AreaIsOfField
  <1>1. Inv => AreaIsOfField
    BY DEF Inv, AreaInv, AreaAnswersLast, AreaIsOfField
  <1>. QED BY <1>1, Invariant, PTL
=============================================================================
