---------------------------- MODULE ReadUnknown -----------------------------
(***************************************************************************)
(* Table::read_unknown(): an input whose format is not known is given to the *)
(* reader its beginning calls for, otherwise it is read as CSV and, if that  *)
(* throws, as TSV.  A stream is read from a copy that is rewound between the  *)
(* attempts, a file is opened anew.  What matters of the text is how its     *)
(* lines split at commas and at tabs; what matters of the stream is its      *)
(* position and its eofbit and failbit.                                     *)
(***************************************************************************)
EXTENDS Naturals, Sequences, FiniteSets

CONSTANT Texts

Formats == {"csv", "tsv"}
Kinds == {"comment", "blank", "record"}
Line == [kind : Kinds, commas : Nat, tabs : Nat]
Magics == {"hdf5", "fits", "json5", "votable", "ipac", "none"}

\* magic: the format the beginning of the text calls for; terminated: its last
\* line ends with a newline; bad: the formats in which an element cannot be
\* converted to the type of its column.
UnknownText == [magic : Magics, lines : Seq(Line), terminated : BOOLEAN, bad : SUBSET Formats]

ASSUME TextsAssumption == Texts \subseteq UnknownText

VARIABLES
  text,
  source,    \* "stream" or "path"
  format,    \* the attempt at work
  progress,  \* "probing", "comments", "body", "over"
  at,        \* the lines that have been consumed
  eofbit, failbit,
  cols,      \* the fields of the first record
  comments,  \* the comments of the table: the indices of their lines
  outcome    \* "reading", "failed", or the format that was read

stream == <<at, eofbit, failbit>>
unknown_vars == <<text, source, format, progress, stream, cols, comments, outcome>>

UnknownInit ==
  /\ text \in Texts /\ source \in {"stream", "path"}
  /\ format = "csv" /\ progress = "probing"
  /\ at = 0 /\ eofbit = FALSE /\ failbit = FALSE
  /\ cols = 0 /\ comments = <<>> /\ outcome = "reading"

\* HDF5 and FITS are recognized in files only.
Recognized ==
  IF source = "path" THEN Magics \ {"none"} ELSE {"json5", "votable", "ipac"}

ReadRecognized ==
  /\ progress = "probing" /\ text.magic \in Recognized
  /\ progress' = "over" /\ outcome' = text.magic
  /\ UNCHANGED <<text, source, format, stream, cols, comments>>

\* Copying an empty stream sets the failbit of the copy.
StartCsv ==
  /\ progress = "probing" /\ text.magic \notin Recognized
  /\ progress' = "comments"
  /\ failbit' = (source = "stream" /\ text.lines = <<>>)
  /\ UNCHANGED <<text, source, format, at, eofbit, cols, comments, outcome>>

----------------------------------------------------------------------------
\* ss.seekg(0): clears the eofbit, and does nothing else if the failbit is set.
Seek ==
  /\ eofbit' = FALSE
  /\ at' = IF failbit THEN at ELSE 0
  /\ UNCHANGED failbit

\* A file is opened anew.
ReopenCleared == at' = at /\ eofbit' = FALSE /\ failbit' = FALSE  \* mutant
Reopen == at' = 0 /\ eofbit' = FALSE /\ failbit' = FALSE

\* What an exception leads to.  The comments stay in the table.
GiveUp ==
  IF format = "csv"
  THEN /\ format' = "tsv" /\ progress' = "comments" /\ cols' = 0
       /\ IF source = "path" THEN Reopen ELSE Seek
       /\ UNCHANGED <<text, source, comments, outcome>>
  ELSE /\ progress' = "over" /\ outcome' = "failed"
       /\ UNCHANGED <<text, source, format, stream, cols, comments>>

More == ~failbit /\ ~eofbit /\ at < Len(text.lines)
LineAhead == text.lines[at + 1]

\* Reading a line that no newline ends sets the eofbit.
GetLine ==
  /\ at' = at + 1
  /\ eofbit' = (at' = Len(text.lines) /\ ~text.terminated)
  /\ UNCHANGED failbit

WithCommentOfTheLast == IF format = "tsv" THEN Append(comments, at + 1) ELSE comments
WithComment == Append(comments, at + 1)

SkipLine ==
  /\ progress = "comments" /\ More /\ LineAhead.kind # "record"
  /\ GetLine
  /\ comments' = IF LineAhead.kind = "comment" THEN WithComment ELSE comments
  /\ UNCHANGED <<text, source, format, progress, cols, outcome>>

\* get() has nothing to return; neither has the parser's getline().
NothingLeft ==
  /\ progress = "comments" /\ failbit
  /\ GiveUp

BeginBody ==
  /\ progress = "comments" /\ More /\ LineAhead.kind = "record"
  /\ progress' = "body"
  /\ UNCHANGED <<text, source, format, stream, cols, comments, outcome>>

FieldsIn(line, f) == 1 + IF f = "csv" THEN line.commas ELSE line.tabs
RightCount == LineAhead.kind # "blank" /\ (cols = 0 \/ FieldsIn(LineAhead, format) = cols)

ReadRecord ==
  /\ progress = "body" /\ More /\ RightCount
  /\ GetLine
  /\ cols' = FieldsIn(LineAhead, format)
  /\ UNCHANGED <<text, source, format, progress, comments, outcome>>

\* The parser throws at the end of the line, before it asks for the next one:
\* seekg() will find the stream without its failbit.
BadRecord ==
  /\ progress = "body" /\ More /\ ~RightCount
  /\ GiveUp

Comment(line) == line.kind = "comment"
IsRecord(line) == line.kind = "record"
HeaderAt == CHOOSE i \in DOMAIN text.lines :
              IsRecord(text.lines[i]) /\ \A j \in 1..(i - 1) : ~IsRecord(text.lines[j])

\* A column name with a tab, or an element its column's type does not hold.
Rejected ==
  \/ format = "csv" /\ text.lines[HeaderAt].tabs > 0
  \/ format \in text.bad

\* The get() or getline() that finds no line sets both bits; of a body, the types
\* are inferred and the rows filled after that.
EndOfText == progress \in {"comments", "body"} /\ ~More /\ ~failbit

ReadToTheEnd ==
  /\ EndOfText
  /\ eofbit' = TRUE /\ failbit' = TRUE
  /\ UNCHANGED <<text, source, format, progress, at, cols, comments, outcome>>

Accept ==
  /\ progress = "body" /\ failbit /\ ~Rejected
  /\ progress' = "over" /\ outcome' = format
  /\ UNCHANGED <<text, source, format, stream, cols, comments>>

Reject ==
  /\ progress = "body" /\ failbit /\ Rejected
  /\ GiveUp

UnknownNext ==
  \/ ReadRecognized \/ StartCsv
  \/ SkipLine \/ NothingLeft \/ BeginBody
  \/ ReadRecord \/ BadRecord \/ ReadToTheEnd \/ Accept \/ Reject

UnknownSpec == UnknownInit /\ [][UnknownNext]_unknown_vars

----------------------------------------------------------------------------
\* The lines behind the leading comments and blank lines.
Leading == {i \in DOMAIN text.lines : \A j \in 1..i : ~IsRecord(text.lines[j])}
Body == DOMAIN text.lines \ Leading

\* The text is a table in format f: as many fields in every line, and elements
\* that their columns hold.
Uneven(f) ==
  \E i \in Body : \/ text.lines[i].kind = "blank"
                  \/ FieldsIn(text.lines[i], f) # FieldsIn(text.lines[HeaderAt], f)

ReadableAs(f) ==
  /\ Body # {} /\ ~Uneven(f)
  /\ f \notin text.bad
  /\ f = "csv" => text.lines[HeaderAt].tabs = 0

IsDsv == text.magic \notin Recognized

\* "If it can not guess the format of the input file, then it will try all of the
\* formats it understands."
AllFormatsTried == outcome = "failed" => \A f \in Formats : ~ReadableAs(f)

\* A file is read as CSV if it can be, otherwise as TSV if it can be, wherever the
\* attempt at CSV has ended.
FilesReadExactlyIf ==
  progress = "over" /\ IsDsv /\ source = "path" =>
    /\ outcome = "csv" <=> ReadableAs("csv")
    /\ outcome = "tsv" <=> ~ReadableAs("csv") /\ ReadableAs("tsv")

\* Of files and streams.  The copy of a stream is read as TSV only if the attempt
\* at CSV threw before the end of the text: otherwise seekg() does not rewind it.
ReadExactlyIf ==
  progress = "over" /\ IsDsv =>
    /\ outcome = "csv" <=> ReadableAs("csv")
    /\ outcome = "tsv" <=> /\ ~ReadableAs("csv") /\ ReadableAs("tsv")
                           /\ source = "path" \/ Uneven("csv")

\* The comments of a table are those of its text, once for each attempt.
CommentLines == {i \in Leading : Comment(text.lines[i])}
CommentsOncePerAttempt ==
  outcome \in Formats =>
    \A i \in DOMAIN text.lines :
      Cardinality({k \in DOMAIN comments : comments[k] = i}) =
        IF i \notin CommentLines THEN 0 ELSE IF outcome = "csv" THEN 1 ELSE 2
=============================================================================
