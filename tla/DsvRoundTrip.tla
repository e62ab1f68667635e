---------------------------- MODULE DsvRoundTrip ----------------------------
(***************************************************************************)
(* Table::write_dsv() followed by DSV_Parser: which tables can be read back  *)
(* from the text that is written.  A table is its column names and the        *)
(* strings its cells are written as, a null cell being the empty string.     *)
(***************************************************************************)
EXTENDS DsvParser, FiniteSets

CONSTANT Tables   \* sequences of rows; the first row holds the column names

VARIABLE table

String == Seq(Char)

ASSUME TablesAssumption ==
  \A t \in Tables :
    /\ t \in Seq(Seq(String)) /\ t # <<>>
    /\ \A r \in DOMAIN t : t[r] # <<>> /\ Len(t[r]) = Len(t[1])

Holds(s, c) == \E i \in DOMAIN s : s[i] = c

NeedsQuotes(s) == Holds(s, Delimiter) \/ Holds(s, Newline)

\* A string with a separator or a newline is quoted, unless it has a quote.
write_escaped_string(s, outer) ==
  IF ~Holds(s, outer) /\ NeedsQuotes(s)
  THEN <<outer>> \o s \o <<outer>>
  ELSE s

\* Column names are always quoted with double quotes, cells with the quote they
\* begin with.
AlwaysDouble(s) == DOUBLE_QUOTE
OuterOfCell(s) == IF s # <<>> /\ s[1] = SINGLE_QUOTE THEN SINGLE_QUOTE ELSE DOUBLE_QUOTE

WrittenField(t, r, c) ==
  write_escaped_string(t[r][c], IF r = 1 THEN DOUBLE_QUOTE ELSE OuterOfCell(t[r][c]))

Written(t) == [r \in DOMAIN t |-> [c \in DOMAIN t[r] |-> WrittenField(t, r, c)]]

\* write_dsv(): a separator behind every field of a row, a newline behind the last.
RowText[fields \in Seq(String)] ==
  IF fields = <<>> THEN <<>>
  ELSE Head(fields)
       \o (<<IF Len(fields) = 1 THEN Newline ELSE Delimiter>> \o RowText[Tail(fields)])
RowsText[rows \in Seq(Seq(String))] ==
  IF rows = <<>> THEN <<>> ELSE RowText[Head(rows)] \o RowsText[Tail(rows)]
write_dsv(t) == RowsText[Written(t)]

\* The stream as getline() sees it: a newline ends a line, any other character is
\* the first one of the line behind it.
LinesOf[text \in Seq(Char)] ==
  IF text = <<>> THEN <<>>
  ELSE LET lines == LinesOf[Tail(text)]
       IN  IF Head(text) = Newline THEN << <<>> >> \o lines
           ELSE IF lines = <<>> THEN << <<Head(text)>> >>
           ELSE << <<Head(text)>> \o Head(lines) >> \o Tail(lines)

\* A stream that is written, or any stream, which is no table's.
NoTable == <<>>

WrittenInit ==
  /\ table \in Tables
  /\ row_str = LineOf(LinesOf[write_dsv(table)])
  /\ dsv_stream = Tail(LinesOf[write_dsv(table)])
  /\ state = "LineEnd"
  /\ idx = 0
  /\ field_beg = 0 /\ field_end = 0 /\ elem = <<>> /\ outer_quote_char = NULL_CHAR
  /\ row = <<>> /\ col_count = 0 /\ document = <<>>

RoundTripInit == WrittenInit \/ (Init /\ table = NoTable)

RoundTripNext == Next /\ UNCHANGED table

RoundTripSpec == RoundTripInit /\ [][RoundTripNext]_<<vars, table>>

----------------------------------------------------------------------------
Quoting(s, n) == Cardinality({i \in 1..n : s[i] = s[1]}) % 2 = 1

\* The parser takes the whole of s for one field: its separators and newlines
\* are inside quotes, and it does not end there.
SelfDelimiting(s) ==
  LET outside == {i \in DOMAIN s : ~(s[1] \in Quotes /\ Quoting(s, i))}
  IN  /\ \A i \in outside : s[i] \notin {Delimiter, Newline}
      /\ s # <<>> => Len(s) \in outside

\* Strings that the writer puts in quotes of its own.
Quotable(s, isName) ==
  NeedsQuotes(s) /\ ~Holds(s, DOUBLE_QUOTE) /\ (isName \/ s[1] # SINGLE_QUOTE)

\* No line of a text ends in a carriage return, neither behind the last string of
\* a row nor within quotes: the parser takes it for a part of the line's end.
EndsAreNewlines(text) ==
  \A i \in 1..(Len(text) - 1) : text[i] = CARRIAGE_RETURN => text[i + 1] # Newline

\* A row with one column and nothing in it is an empty line.
Readable(t) ==
  /\ \A r \in DOMAIN t :
       /\ t[r] # << <<>> >>
       /\ \A c \in DOMAIN t[r] : SelfDelimiting(t[r][c]) \/ Quotable(t[r][c], r = 1)
  /\ EndsAreNewlines(write_dsv(t))

\* write_dsv() does not escape quotes, leaves strings with quotes alone and never
\* quotes a cell that begins with a single quote, and no quotes keep a carriage
\* return at the end of a line.  Exactly the readable tables are read back, cell by
\* cell as they were written.
ReadBackExactlyIfReadable ==
  Done /\ table # NoTable =>
    (state = "ParseCompleted" /\ document = Written(table) <=> Readable(table))
=============================================================================
