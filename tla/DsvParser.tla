----------------------------- MODULE DsvParser ------------------------------
(***************************************************************************)
(* DSV_Parser: reads a stream line by line and cuts it into fields by        *)
(* positions in a buffer.  One action per iteration of the constructor's     *)
(* loop.  Positions are the code's, from 0: character i of the buffer is     *)
(* row_str[i + 1].  A thrown exception is the state "failed".                *)
(***************************************************************************)
EXTENDS Naturals, Sequences

CONSTANTS
  Delimiter,   \* ',' or tab
  Plain,       \* the characters that mean nothing to the parser
  Streams      \* the streams that are read: sequences of lines

DOUBLE_QUOTE == "double quote"
SINGLE_QUOTE == "single quote"
Newline == "newline"
CARRIAGE_RETURN == "carriage return"
Quotes == {DOUBLE_QUOTE, SINGLE_QUOTE}
NULL_CHAR == "none"

ASSUME CharactersAssumption ==
  /\ Delimiter \notin Quotes \cup {Newline, CARRIAGE_RETURN, NULL_CHAR}
  /\ Plain \cap (Quotes \cup {Newline, CARRIAGE_RETURN, NULL_CHAR, Delimiter}) = {}

CharInLine == Plain \cup Quotes \cup {Delimiter, CARRIAGE_RETURN}
Char == CharInLine \cup {Newline}

ASSUME StreamsAssumption == Streams \subseteq Seq(Seq(CharInLine))

VARIABLES
  dsv_stream,        \* the lines not yet read
  row_str,           \* the buffer
  idx,               \* the current position in it
  field_beg,         \* where the part of the field not yet in elem begins
  field_end,
  elem,              \* the part of the field that has left the buffer
  outer_quote_char,
  row,               \* the fields of the current record
  col_count,
  document,
  state              \* ParseState

buffer == <<dsv_stream, row_str>>
field == <<field_beg, field_end, elem, outer_quote_char>>
vars == <<buffer, idx, field, row, col_count, document, state>>

\* _get_line_from_file() for a stream that has a line: getline() drops the
\* newline and the code puts it back, without the carriage return before it.
WithoutReturn(line) ==
  IF line # <<>> /\ line[Len(line)] = CARRIAGE_RETURN
  THEN SubSeq(line, 1, Len(line) - 1)
  ELSE line

LineOf(stream) == Append(WithoutReturn(Head(stream)), Newline)

\* _initialize()
Init ==
  /\ \E s \in Streams :
       IF s = <<>>
       THEN state = "ParseCompleted" /\ row_str = <<>> /\ dsv_stream = <<>>
       ELSE state = "LineEnd" /\ row_str = LineOf(s) /\ dsv_stream = Tail(s)
  /\ idx = 0
  /\ field_beg = 0 /\ field_end = 0 /\ elem = <<>> /\ outer_quote_char = NULL_CHAR
  /\ row = <<>> /\ col_count = 0 /\ document = <<>>

Throw ==
  /\ state' = "failed"
  /\ UNCHANGED <<buffer, idx, field, row, col_count, document>>

----------------------------------------------------------------------------
\* _post_line_end() and _post_field_end() begin a new field, the former at the
\* beginning of the buffer and with no fields of the record before it.
Opening == state \in {"LineEnd", "FieldEnd"}
At == IF state = "LineEnd" THEN 0 ELSE idx
Fields == IF state = "LineEnd" THEN <<>> ELSE row

\* The part of the current field that elem has and the place where the rest of
\* it begins, after _field_start() if there is a field to begin.
Elem == IF Opening THEN <<>> ELSE elem
Beg == IF Opening THEN At ELSE field_beg
Outer == IF Opening THEN NULL_CHAR ELSE outer_quote_char

_curr_char == row_str[At + 1]
Chunk(beg, end) == SubSeq(row_str, beg + 1, end)

\* _field_end(), with field_end at the current position.
ClosedField == Elem \o Chunk(Beg, At)

_field_end ==
  /\ elem' = ClosedField
  /\ row' = Append(Fields, ClosedField)
  /\ field_end' = At /\ field_beg' = At + 1 /\ outer_quote_char' = Outer
  /\ idx' = At + 1

\* _line_end(): the record must be as long as the first one; then the next line
\* replaces the buffer.
RightLength == col_count = 0 \/ Len(Fields) + 1 = col_count

NextLine ==
  IF dsv_stream = <<>>
  THEN state' = "ParseCompleted" /\ UNCHANGED buffer
  ELSE state' = "LineEnd" /\ row_str' = LineOf(dsv_stream) /\ dsv_stream' = Tail(dsv_stream)

\* A delimiter or a newline outside quotes.
AtEnd == Opening \/ state \in {"FieldStart", "EscapeOn"}

Delimit ==
  /\ AtEnd /\ _curr_char = Delimiter
  /\ _field_end /\ state' = "FieldEnd"
  /\ UNCHANGED <<buffer, col_count, document>>

EmptyLine ==
  /\ state = "LineEnd" /\ _curr_char = Newline
  /\ Throw

EndLine ==
  /\ AtEnd /\ state # "LineEnd" /\ _curr_char = Newline
  /\ RightLength
  /\ _field_end
  /\ col_count' = Len(Fields) + 1
  /\ document' = Append(document, row')
  /\ NextLine

WrongLength ==
  /\ AtEnd /\ state # "LineEnd" /\ _curr_char = Newline
  /\ ~RightLength
  /\ Throw

\* _field_start(), and _front_quote() if the field begins with a quote.
StartField ==
  /\ Opening /\ _curr_char \notin {Delimiter, Newline}
  /\ elem' = <<>> /\ field_beg' = At /\ field_end' = At
  /\ row' = Fields /\ idx' = At + 1
  /\ IF _curr_char \in Quotes
     THEN outer_quote_char' = _curr_char /\ state' = "FrontQuote"
     ELSE outer_quote_char' = NULL_CHAR /\ state' = "FieldStart"
  /\ UNCHANGED <<buffer, col_count, document>>

InQuotes == state \in {"FrontQuote", "EscapeOff"}

\* _next() alone.
Skip ==
  /\ \/ state \in {"FieldStart", "EscapeOn"}
        /\ _curr_char \notin {Delimiter, Newline, outer_quote_char}
     \/ InQuotes /\ _curr_char \notin {Newline, outer_quote_char}
  /\ idx' = idx + 1
  /\ UNCHANGED <<buffer, field, row, col_count, document, state>>

\* _escape_on(): the quote ends the field or escapes the next quote.
EscapeOn ==
  /\ InQuotes /\ _curr_char = outer_quote_char
  /\ state' = "EscapeOn" /\ idx' = idx + 1
  /\ UNCHANGED <<buffer, field, row, col_count, document>>

\* _escape_off(): what precedes leaves the buffer, both quotes included.
EscapedWithoutQuote == elem \o Chunk(field_beg, idx)
Escaped == elem \o Chunk(field_beg, idx + 1)

EscapeOff ==
  /\ state = "EscapeOn" /\ _curr_char = outer_quote_char
  /\ elem' = Escaped
  /\ field_beg' = idx + 1
  /\ state' = "EscapeOff" /\ idx' = idx + 1
  /\ UNCHANGED <<buffer, field_end, outer_quote_char, row, col_count, document>>

\* _append_another_line_from_file(): a newline inside quotes.
ShiftedTooFar == idx
Shifted == idx - field_beg

AppendLine ==
  /\ InQuotes /\ _curr_char = Newline
  /\ dsv_stream # <<>>
  /\ row_str' = SubSeq(row_str, field_beg + 1, Len(row_str)) \o LineOf(dsv_stream)
  /\ dsv_stream' = Tail(dsv_stream)
  /\ idx' = Shifted + 1
  /\ field_beg' = 0 /\ field_end' = 0
  /\ UNCHANGED <<elem, outer_quote_char, row, col_count, document, state>>

NoMoreData ==
  /\ InQuotes /\ _curr_char = Newline
  /\ dsv_stream = <<>>
  /\ Throw

Done == state \in {"ParseCompleted", "failed"}

Next ==
  /\ ~Done
  /\ \/ Delimit \/ EndLine \/ WrongLength \/ EmptyLine
     \/ StartField \/ Skip \/ EscapeOn \/ EscapeOff
     \/ AppendLine \/ NoMoreData

Spec == Init /\ [][Next]_vars

----------------------------------------------------------------------------
\* Types, and the positions: _curr_char() is always a character of the buffer,
\* and the field at work begins at or before it.
TypeOK ==
  /\ dsv_stream \in Seq(Seq(CharInLine)) /\ row_str \in Seq(Char)
  /\ idx \in Nat /\ field_beg \in Nat /\ field_end \in Nat
  /\ elem \in Seq(Char)
  /\ outer_quote_char \in Quotes \cup {NULL_CHAR}
  /\ row \in Seq(Seq(Char)) /\ document \in Seq(Seq(Seq(Char)))
  /\ col_count \in Nat
  /\ state \in {"LineEnd", "FieldEnd", "FieldStart", "FrontQuote", "EscapeOn",
                "EscapeOff", "ParseCompleted", "failed"}
  /\ ~Done => At < Len(row_str)
  /\ ~Done /\ ~Opening => field_beg <= idx /\ field_end <= idx

\* The characters of the lines that have not been read yet, as LineOf leaves them.
Joined[stream \in Seq(Seq(CharInLine))] ==
  IF stream = <<>> THEN <<>> ELSE LineOf(stream) \o Joined[Tail(stream)]

\* What the positions, chunks and lines mean: the characters that remain to be
\* read, the records and the fields before them, and the field at work.
Remaining ==
  IF Done THEN <<>> ELSE SubSeq(row_str, At + 1, Len(row_str)) \o Joined[dsv_stream]
Records == IF state = "failed" THEN <<>> ELSE document
Record == IF Done THEN <<>> ELSE Fields
FieldSoFar == IF Done THEN <<>> ELSE ClosedField
QuoteOfField == IF Done THEN NULL_CHAR ELSE Outer
Unclosed == ~Done /\ InQuotes
Outcome == IF state = "ParseCompleted" THEN "complete"
           ELSE IF state = "failed" THEN "failed" ELSE "reading"

Text == INSTANCE DsvText WITH
  NoQuote  <- NULL_CHAR,
  Texts    <- Seq(Char),
  rest     <- Remaining,
  document <- Records,
  record   <- Record,
  field    <- FieldSoFar,
  quote    <- QuoteOfField,
  open     <- Unclosed,
  outcome  <- Outcome

\* Positions, chunks and buffered lines amount to the meaning of the text.
ImplementsText == Text!Spec
=============================================================================
