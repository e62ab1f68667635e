------------------------------ MODULE DsvText -------------------------------
(***************************************************************************)
(* What a delimiter-separated text means: the promise DSV_Parser makes.      *)
(* A text is a sequence of characters in which every line ends with Newline.  *)
(* A field that begins with a quote may hold delimiters and newlines behind   *)
(* an odd number of its quotes; every other delimiter ends a field and every  *)
(* other newline ends a record.  Fields keep their quotes.                   *)
(***************************************************************************)
EXTENDS Naturals, Sequences

CONSTANTS
  Delimiter, Newline, Quotes, NoQuote,
  Texts       \* the texts that are read

VARIABLES
  rest,      \* the characters still to be read
  document,  \* the records read
  record,    \* the fields of the current record
  field,     \* the characters of the current field
  quote,     \* the quote it began with, or NoQuote
  open,      \* TRUE while it holds an odd number of them
  outcome    \* "reading", "complete" or "failed"

vars == <<rest, document, record, field, quote, open, outcome>>

Init ==
  /\ rest \in Texts
  /\ document = <<>> /\ record = <<>>
  /\ field = <<>> /\ quote = NoQuote /\ open = FALSE
  /\ outcome = IF rest = <<>> THEN "complete" ELSE "reading"

\* One more character of the field.
Extend(c) ==
  LET opens == field = <<>> /\ c \in Quotes
  IN  /\ field' = Append(field, c)
      /\ quote' = IF opens THEN c ELSE quote
      /\ open' = IF opens \/ c = quote THEN ~open ELSE open

NewField == field' = <<>> /\ quote' = NoQuote /\ open' = FALSE

\* The exception leaves nothing behind.
Fail ==
  /\ outcome' = "failed"
  /\ rest' = <<>> /\ document' = <<>> /\ record' = <<>> /\ NewField

EndField ==
  /\ ~open /\ Head(rest) = Delimiter
  /\ rest' = Tail(rest)
  /\ record' = Append(record, field) /\ NewField
  /\ UNCHANGED <<document, outcome>>

\* Records have as many fields as the first one, and at least one character.
Blank == record = <<>> /\ field = <<>>
AsLongAsTheFirst == document # <<>> => Len(record) + 1 = Len(document[1])

EndRecord ==
  /\ ~open /\ Head(rest) = Newline
  /\ ~Blank /\ AsLongAsTheFirst
  /\ rest' = Tail(rest)
  /\ document' = Append(document, Append(record, field))
  /\ record' = <<>> /\ NewField
  /\ outcome' = IF rest' = <<>> THEN "complete" ELSE "reading"

BadRecord ==
  /\ ~open /\ Head(rest) = Newline
  /\ Blank \/ ~AsLongAsTheFirst
  /\ Fail

Character ==
  /\ open \/ Head(rest) \notin {Delimiter, Newline}
  /\ Tail(rest) # <<>>
  /\ rest' = Tail(rest) /\ Extend(Head(rest))
  /\ UNCHANGED <<document, record, outcome>>

\* The text ends inside quotes.
Unfinished == open /\ Tail(rest) = <<>> /\ Fail

Next ==
  /\ outcome = "reading"
  /\ EndField \/ EndRecord \/ BadRecord \/ Character \/ Unfinished

Spec == Init /\ [][Next]_vars
=============================================================================
