------------------------------ MODULE CsvUpload ------------------------------
(***************************************************************************)
(* How POST /api/upload/destinations reads a file: lines by std::getline,  *)
(* fields by the loop of parse_csv_line, and the lines that become         *)
(* airports.  The loads of the data files split their lines the same way.  *)
(* What is added here are the rows that AirTravelDb uploads.               *)
(*                                                                         *)
(* Abstracted: a line is a sequence of quotes, commas, carriage returns,   *)
(* blanks and words; \N and the header's "name" are words.  Coordinates    *)
(* stay text.                                                              *)
(***************************************************************************)
EXTENDS Naturals, Sequences, FiniteSets, Positions

CONSTANTS
  Tokens,    \* what a line is made of: signs and words
  Files,     \* the files users upload: sequences of lines
  Tables,    \* tables a spreadsheet program may have written: sequences of rows
  Needed     \* fields a row must have (6 in the code)

Quote == "quote"
Comma == ","
CR == "cr"
Blank == " "
Null == "\\N"
Separators == {Comma, CR}

\* An empty line, with a carriage return two empty fields, is never long enough; a
\* table has no quotes and no carriage returns in its values.
ASSUME CsvAssumption ==
  /\ {Quote, Comma, CR} \subseteq Tokens
  /\ Files \subseteq Seq(Seq(Tokens)) /\ Tables \subseteq Seq(Seq(Seq(Tokens)))
  /\ \A t \in Tables : \A r \in DOMAIN t : \A v \in DOMAIN t[r] :
       \A i \in DOMAIN t[r][v] : t[r][v][i] \notin {Quote, CR}
  /\ Needed \in Nat /\ Needed > 2

VARIABLES
  file,
  at,          \* the line that is read
  pos,         \* i of parse_csv_line, counted from 1
  in_quotes, field, fields,
  first,       \* no line with enough fields was met yet
  added        \* rows handed to add_airport

vars == <<file, at, pos, in_quotes, field, fields, first, added>>

-----------------------------------------------------------------------------

Trim(s) ==
  LET solid == {i \in DOMAIN s : s[i] \notin {Blank, CR}}
      from == CHOOSE i \in solid : \A j \in solid : i <= j
      to == CHOOSE i \in solid : \A j \in solid : j <= i
  IN  IF solid = {} THEN <<>> ELSE SubSeq(s, from, to)

BugValue(s) == Trim(s)
Value(s) == IF s = <<Null>> THEN <<>> ELSE Trim(s)

Done == at > Len(file)
line == file[at]
Scanning == ~Done /\ pos <= Len(line)

OnQuote ==
  /\ Scanning
  /\ line[pos] = Quote
  /\ in_quotes' = ~in_quotes
  /\ UNCHANGED <<field, fields>>

BugEnds(c) == c \in Separators
Ends(c) == c \in Separators /\ ~in_quotes

OnSeparator ==
  /\ Scanning
  /\ Ends(line[pos])
  /\ fields' = Append(fields, Value(field))
  /\ field' = <<>>
  /\ UNCHANGED in_quotes

OnCharacter ==
  /\ Scanning
  /\ line[pos] # Quote
  /\ ~Ends(line[pos])
  /\ field' = Append(field, line[pos])
  /\ UNCHANGED <<in_quotes, fields>>

Character ==
  /\ OnQuote \/ OnSeparator \/ OnCharacter
  /\ pos' = pos + 1
  /\ UNCHANGED <<file, at, first, added>>

IsHeader(row) == row[1] \in {<<"name">>, <<"Name">>}

\* parse_csv_line starts afresh on the next line.
BugFresh == pos' = 1 /\ field' = <<>> /\ fields' = <<>> /\ UNCHANGED in_quotes
Fresh == pos' = 1 /\ field' = <<>> /\ fields' = <<>> /\ in_quotes' = FALSE

LongEnough(row) == Len(row) >= Needed

\* The fields an airport is made of.
BugTaken(row) == row
Taken(row) == SubSeq(row, 1, Needed)

EndOfLine ==
  LET row == Append(fields, Value(field)) IN
  /\ ~Done
  /\ pos > Len(line)
  /\ IF line = <<>> \/ ~LongEnough(row)
     THEN UNCHANGED <<first, added>>
     ELSE /\ first' = FALSE
          /\ added' = IF first /\ IsHeader(row) THEN added
                      ELSE Append(added, Taken(row))
  /\ at' = at + 1
  /\ Fresh
  /\ UNCHANGED file

Init ==
  /\ file \in Files
  /\ at = 1
  /\ pos = 1
  /\ in_quotes = FALSE
  /\ field = <<>>
  /\ fields = <<>>
  /\ first = TRUE
  /\ added = <<>>

Next == Character \/ EndOfLine

Spec == Init /\ [][Next]_vars

-----------------------------------------------------------------------------
(* What the fields of a line are, without a loop: a separator counts when  *)
(* an even number of quotes stands before it.                              *)

QuotesIn(s) == {i \in DOMAIN s : s[i] = Quote}
Open(s) == Cardinality(QuotesIn(s)) % 2 = 1

FieldEnds(s) == {i \in DOMAIN s : s[i] \in Separators /\ ~Open(SubSeq(s, 1, i))}

\* The characters of the k-th field: those before which k - 1 fields have ended.
InField(s, k) ==
  {i \in DOMAIN s \ FieldEnds(s) :
     s[i] # Quote /\ Cardinality({e \in FieldEnds(s) : e < i}) = k - 1}

FieldsRead(s) == [k \in 1..Cardinality(FieldEnds(s)) + 1 |-> Value(At(s, InField(s, k)))]

\* The rows of a file: lines with enough fields, without a leading header.
LongLines(f) == {i \in DOMAIN f : Len(FieldsRead(f[i])) >= Needed}
LeadingHeader(f) ==
  {i \in LongLines(f) : IsHeader(FieldsRead(f[i])) /\ \A j \in LongLines(f) : i <= j}

LinesRead(f) ==
  LET rows == At([i \in DOMAIN f |-> FieldsRead(f[i])], LongLines(f) \ LeadingHeader(f))
  IN  [r \in DOMAIN rows |-> SubSeq(rows[r], 1, Needed)]

-----------------------------------------------------------------------------
(* What a spreadsheet program writes for a table: values apart by commas,  *)
(* quoted when they have one (or all of them), lines that end in LF or in  *)
(* CR LF, of which getline leaves the CR.                                  *)

Styles == [quoteAll : BOOLEAN, crlf : BOOLEAN]

Quoted(v, style) ==
  IF style.quoteAll \/ \E i \in DOMAIN v : v[i] = Comma
  THEN <<Quote>> \o v \o <<Quote>> ELSE v

WrittenRow(row, style) ==
  LET upTo[n \in 0..Len(row)] ==
        CASE n = 0 -> <<>>
          [] n = 1 -> Quoted(row[1], style)
          [] OTHER -> upTo[n - 1] \o <<Comma>> \o Quoted(row[n], style)
  IN  upTo[Len(row)] \o (IF style.crlf THEN <<CR>> ELSE <<>>)

Written(table, style) == [r \in DOMAIN table |-> WrittenRow(table[r], style)]

\* What a value stands for: \N alone for none, any other for what it is between its
\* first and its last character that is not a blank.
Meant(v) ==
  LET inner == {i \in DOMAIN v : \E j, k \in DOMAIN v :
                  j <= i /\ i <= k /\ v[j] # Blank /\ v[k] # Blank}
  IN  IF v = <<Null>> THEN <<>> ELSE At(v, inner)

MeantRow(row) == [v \in 1..Needed |-> Meant(row[v])]

RowsOf(table) ==
  LET long == {r \in DOMAIN table : LongEnough(table[r])}
      header == {r \in long : IsHeader(MeantRow(table[r])) /\ \A q \in long : r <= q}
      rows == At(table, long \ header)
  IN  [r \in DOMAIN rows |-> MeantRow(rows[r])]

-----------------------------------------------------------------------------

TypeOK ==
  /\ file \in Seq(Seq(Tokens))
  /\ at \in 1..Len(file) + 1
  /\ pos \in 1..(IF Done THEN 1 ELSE Len(line) + 1)
  /\ in_quotes \in BOOLEAN
  /\ field \in Seq(Tokens) /\ fields \in Seq(Seq(Tokens))
  /\ first \in BOOLEAN
  /\ added \in Seq([1..Needed -> Seq(Tokens)])

\* parse_csv_line, "handles quoted fields and \N" (main.cpp:61): at each character of
\* a line the loop has the fields of what it has read, whatever quotes, commas and
\* carriage returns come in whatever order, an unclosed quote included.
ScanAsRead ==
  ~Done =>
    LET soFar == SubSeq(line, 1, pos - 1)
    IN  /\ Append(fields, Value(field)) = FieldsRead(soFar)
        /\ in_quotes = Open(soFar)

\* What is added at any time are the rows of the lines read so far: a quote left open
\* in one line does not reach the next, and a header is left out once, at the top.
AddedAsRead == added = LinesRead(SubSeq(file, 1, at - 1))

\* An uploaded table comes in as it was written, LF or CR LF, quoted or not.  The
\* one exception: the carriage return ends a field of its own, so with CR LF a row
\* one value short is taken.
TableComesIn ==
  Done =>
    \A t \in {u \in Tables : Len(u) = Len(file)}, s \in Styles :
      /\ file = Written(t, s)
      /\ s.crlf => \A r \in DOMAIN t : Len(t[r]) # Needed - 1
      => added = RowsOf(t)
=============================================================================
