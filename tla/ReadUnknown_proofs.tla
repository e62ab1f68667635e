------------------------- MODULE ReadUnknown_proofs -------------------------
(***************************************************************************)
(* What read_unknown() makes of a text of any number of lines, whatever the   *)
(* reader of its second attempt finds in the stream and in the table that the *)
(* first one has left.                                                      *)
(*                                                                         *)
(* PositionInv says what the lines that have been consumed look like to the   *)
(* attempt at work; AttemptInv what is known of the text once CSV has failed,  *)
(* and in which state the second attempt finds the stream.                    *)
(***************************************************************************)
EXTENDS ReadUnknown, FiniteSetTheorems, TLAPS

Lines == DOMAIN text.lines
Size == Len(text.lines)

TypesInv ==
  /\ text \in Texts /\ source \in {"stream", "path"}
  /\ format \in Formats /\ progress \in {"probing", "comments", "body", "over"}
  /\ at \in 0..Size
  /\ eofbit \in BOOLEAN /\ failbit \in BOOLEAN
  /\ cols \in Nat
  /\ comments \in Seq(Nat)
  /\ progress = "probing" => format = "csv" /\ at = 0 /\ ~eofbit /\ comments = <<>>
  /\ progress \in {"probing", "comments"} => cols = 0
  /\ progress # "over" => outcome = "reading"

\* Line h is the header: the first record.
HeaderIs(h) ==
  /\ h \in Lines /\ IsRecord(text.lines[h])
  /\ \A j \in 1..(h - 1) : ~IsRecord(text.lines[j])

\* The lines from the header to the last one consumed split like the header.
BodyRead(h) ==
  /\ h - 1 <= at
  /\ cols = IF at < h THEN 0 ELSE FieldsIn(text.lines[h], format)
  /\ \A i \in h..at : /\ text.lines[i].kind # "blank"
                      /\ FieldsIn(text.lines[i], format) = FieldsIn(text.lines[h], format)
  /\ failbit => at = Size

\* The attempt stands behind the lines it has read; the second one may begin on a
\* stream that is not rewound.
InPlace == failbit => format = "csv"

PositionInv ==
  /\ eofbit => at = Size
  /\ progress = "comments" /\ InPlace => \A j \in 1..at : ~IsRecord(text.lines[j])
  /\ progress = "comments" /\ failbit /\ format = "csv" => at = Size
  /\ progress = "body" => \E h \in Lines : HeaderIs(h) /\ BodyRead(h)

\* A stream that has been read to its end as CSV is not rewound; one that has
\* not, and a file, is.
SecondAttempt ==
  /\ ~ReadableAs("csv")
  /\ \/ Body = {}
     \/ IF progress = "comments" /\ failbit
        THEN source = "stream" /\ ~Uneven("csv")
        ELSE source = "path" \/ Uneven("csv")

AttemptInv ==
  progress \in {"comments", "body"} /\ format = "tsv" => SecondAttempt

----------------------------------------------------------------------------
\* What a text is, and what is said of a text alone.
LEMMA TextType ==
  ASSUME TypesInv
  PROVE  /\ Size \in Nat /\ Lines = 1..Size
         /\ \A i \in Lines : /\ text.lines[i].kind \in Kinds
                             /\ text.lines[i].commas \in Nat /\ text.lines[i].tabs \in Nat
<1>1. text \in UnknownText
  BY TextsAssumption DEF TypesInv
<1>2. text.lines \in Seq(Line)
  BY <1>1 DEF UnknownText
<1>3. \A i \in Lines : text.lines[i] \in Line
  BY <1>2 DEF Lines
<1> QED
  BY <1>2, <1>3 DEF Lines, Size, Line

LEMMA FieldsType ==
  ASSUME TypesInv, NEW i \in Lines, NEW f
  PROVE  FieldsIn(text.lines[i], f) \in Nat /\ FieldsIn(text.lines[i], f) > 0
<1>1. text.lines[i].commas \in Nat /\ text.lines[i].tabs \in Nat
  BY TextType
<1>2. FieldsIn(text.lines[i], f) \in {1 + text.lines[i].commas, 1 + text.lines[i].tabs}
  BY DEF FieldsIn
<1> QED
  BY <1>1, <1>2

LEMMA SameText ==
  ASSUME text' = text
  PROVE  /\ HeaderAt' = HeaderAt /\ Leading' = Leading /\ Body' = Body
         /\ \A f : (Uneven(f)' <=> Uneven(f)) /\ (ReadableAs(f)' <=> ReadableAs(f))
         /\ CommentLines' = CommentLines
<1>1. HeaderAt' = HeaderAt
  BY Zenon DEF HeaderAt
<1>2. Leading' = Leading
  BY DEF Leading
<1>3. Body' = Body
  BY <1>2 DEF Body
<1>4. \A f : Uneven(f)' <=> Uneven(f)
  BY <1>1, <1>3 DEF Uneven
<1>5. \A f : ReadableAs(f)' <=> ReadableAs(f)
  BY <1>1, <1>3, <1>4 DEF ReadableAs
<1>6. CommentLines' = CommentLines
  BY <1>2 DEF CommentLines
<1> QED
  BY <1>1, <1>2, <1>3, <1>4, <1>5, <1>6

\* HeaderAt chooses the header, and the body begins with it.
LEMMA HeaderProperties ==
  ASSUME TypesInv, NEW h, HeaderIs(h)
  PROVE  /\ HeaderAt = h /\ h \in Body
         /\ \A i \in Lines : i \in Body <=> i >= h
         /\ \A i \in Lines : i \in Leading <=> i < h
<1>1. /\ Lines = 1..Size /\ Size \in Nat /\ h \in Lines
  BY TextType DEF HeaderIs
<1>2. \A i \in Lines :
        IsRecord(text.lines[i]) /\ (\A j \in 1..(i - 1) : ~IsRecord(text.lines[j])) => i = h
  BY <1>1 DEF HeaderIs
<1>3. HeaderAt = h
  BY <1>2, Zenon DEF HeaderAt, HeaderIs, Lines
<1>4. \A i \in Lines : i \in Leading <=> i < h
  BY <1>1 DEF Leading, Lines, HeaderIs
<1> QED
  BY <1>1, <1>3, <1>4 DEF Body, Lines

\* Without a record there is no table.
LEMMA NoRecord ==
  ASSUME TypesInv, \A j \in 1..Size : ~IsRecord(text.lines[j])
  PROVE  Body = {} /\ Leading = Lines
  BY TextType DEF Body, Leading, Lines

----------------------------------------------------------------------------
LEMMA InitTypes == UnknownInit => TypesInv /\ PositionInv /\ AttemptInv
<1> SUFFICES ASSUME UnknownInit PROVE TypesInv /\ PositionInv /\ AttemptInv
  OBVIOUS
<1>1. text \in UnknownText
  BY TextsAssumption DEF UnknownInit
<1>2. Len(text.lines) \in Nat
  BY <1>1 DEF UnknownText
<1>3. at \in 0..Size
  BY <1>2 DEF UnknownInit, Size
<1>4. eofbit \in BOOLEAN /\ failbit \in BOOLEAN
  BY Zenon DEF UnknownInit
<1>5. comments \in Seq(Nat)
  BY DEF UnknownInit
<1>6. TypesInv
  BY <1>3, <1>4, <1>5 DEF UnknownInit, TypesInv, Formats
<1> QED
  BY <1>6 DEF UnknownInit, PositionInv, AttemptInv

\* A step of the attempt at work, and the end of it.
LEMMA ThrowTypes ==
  ASSUME TypesInv, GiveUp, progress # "over"
  PROVE  TypesInv'
<1>1. Size \in Nat /\ at \in Nat
  BY TextType DEF TypesInv
<1>2. CASE format = "csv"
  <2>1. /\ format' = "tsv" /\ progress' = "comments" /\ cols' = 0
        /\ text' = text /\ source' = source /\ comments' = comments /\ outcome' = outcome
        /\ at' = 0 \/ at' = at
    BY <1>2 DEF GiveUp, Reopen, Seek
  <2>2. eofbit' \in BOOLEAN /\ failbit' \in BOOLEAN
    BY <1>2 DEF GiveUp, Reopen, Seek, TypesInv
  <2>3. at' \in 0..Size'
    BY <1>1, <2>1 DEF TypesInv, Size
  <2> QED
    BY <2>1, <2>2, <2>3 DEF TypesInv, Formats
<1>3. CASE format # "csv"
  BY <1>3 DEF GiveUp, TypesInv, stream, Size
<1> QED
  BY <1>2, <1>3

LEMMA NextTypes == TypesInv /\ [UnknownNext]_unknown_vars => TypesInv'
<1> SUFFICES ASSUME TypesInv, [UnknownNext]_unknown_vars PROVE TypesInv'
  OBVIOUS
<1>0. Size \in Nat /\ at \in Nat /\ Lines = 1..Size
  BY TextType DEF TypesInv
<1>1. CASE ReadRecognized
  BY <1>1 DEF ReadRecognized, TypesInv, stream, Size
<1>2. CASE StartCsv
  BY <1>2 DEF StartCsv, TypesInv, stream, Size
<1>3. CASE SkipLine
  <2>1. at + 1 \in 0..Size /\ comments \in Seq(Nat)
    BY <1>0, <1>3 DEF SkipLine, More, Size, TypesInv
  <2>2. comments' \in Seq(Nat)
    BY <1>0, <1>3, <2>1 DEF SkipLine, WithComment
  <2>3. /\ at' = at + 1 /\ eofbit' \in BOOLEAN /\ failbit' = failbit /\ progress = "comments"
        /\ text' = text /\ source' = source /\ format' = format /\ progress' = progress
        /\ cols' = cols /\ outcome' = outcome
    BY <1>3 DEF SkipLine, GetLine
  <2> QED
    BY <2>1, <2>2, <2>3 DEF TypesInv, Size
<1>4. CASE NothingLeft \/ BadRecord \/ Reject
  BY <1>4, ThrowTypes DEF NothingLeft, BadRecord, Reject
<1>5. CASE BeginBody
  BY <1>5 DEF BeginBody, TypesInv, stream, Size
<1>6. CASE ReadRecord
  <2>1. at + 1 \in 0..Size /\ at + 1 \in Lines
    BY <1>0, <1>6 DEF ReadRecord, More, Size
  <2>2. FieldsIn(LineAhead, format) \in Nat
    BY <2>1, FieldsType DEF LineAhead
  <2>3. /\ at' = at + 1 /\ eofbit' \in BOOLEAN /\ failbit' = failbit /\ progress = "body"
        /\ text' = text /\ source' = source /\ format' = format /\ progress' = progress
        /\ comments' = comments /\ outcome' = outcome /\ cols' = FieldsIn(LineAhead, format)
    BY <1>6 DEF ReadRecord, GetLine
  <2> QED
    BY <2>1, <2>2, <2>3 DEF TypesInv, Size
<1>7. CASE ReadToTheEnd
  BY <1>7 DEF ReadToTheEnd, EndOfText, TypesInv, Size
<1>8. CASE Accept
  BY <1>8 DEF Accept, TypesInv, stream, Size
<1>9. CASE UNCHANGED unknown_vars
  BY <1>9 DEF unknown_vars, TypesInv, stream, Size
<1> QED
  BY <1>1, <1>2, <1>3, <1>4, <1>5, <1>6, <1>7, <1>8, <1>9 DEF UnknownNext

----------------------------------------------------------------------------
\* Throwing from a stream whose failbit is not set, or from a file, begins the
\* text again; otherwise nothing is left to read.
LEMMA ThrowFromCsv ==
  ASSUME TypesInv, GiveUp, format = "csv", progress # "over"
  PROVE  /\ format' = "tsv" /\ progress' = "comments" /\ eofbit' = FALSE
         /\ text' = text /\ source' = source /\ comments' = comments /\ outcome' = outcome
         /\ failbit' = (failbit /\ source = "stream")
         /\ ~failbit' => at' = 0
  BY DEF GiveUp, Reopen, Seek, TypesInv

LEMMA ThrowFromTsv ==
  ASSUME TypesInv, GiveUp, format # "csv"
  PROVE  /\ progress' = "over" /\ outcome' = "failed"
         /\ UNCHANGED <<text, source, format, at, eofbit, failbit, cols, comments>>
  BY DEF GiveUp, stream

LEMMA ThrowPosition ==
  ASSUME TypesInv, PositionInv, GiveUp, progress # "over"
  PROVE  PositionInv'
<1>1. CASE format = "csv"
  BY <1>1, ThrowFromCsv DEF PositionInv, InPlace
<1>2. CASE format # "csv"
  BY <1>2, ThrowFromTsv DEF PositionInv, Size
<1> QED
  BY <1>1, <1>2

\* The end of the text is found behind its last line.
LEMMA EndAtSize ==
  ASSUME TypesInv, PositionInv, ReadToTheEnd
  PROVE  at = Size
<1>1. Size \in Nat /\ at \in 0..Size
  BY TextType DEF TypesInv
<1>2. ~(~failbit /\ ~eofbit /\ at < Size) /\ ~failbit
  BY DEF ReadToTheEnd, EndOfText, More, Size
<1> QED
  BY <1>1, <1>2 DEF PositionInv

LEMMA NextPosition == TypesInv /\ PositionInv /\ AttemptInv /\ [UnknownNext]_unknown_vars => PositionInv'
<1> SUFFICES ASSUME TypesInv, PositionInv, AttemptInv, [UnknownNext]_unknown_vars PROVE PositionInv'
  OBVIOUS
<1>0. Size \in Nat /\ at \in Nat /\ Lines = 1..Size
  BY TextType DEF TypesInv
<1>1. CASE ReadRecognized \/ Accept
  BY <1>1 DEF ReadRecognized, Accept, PositionInv, stream, Size
<1>2. CASE StartCsv
  <2>1. text.lines = <<>> => Size = 0
    BY DEF Size
  <2> QED
    BY <1>2, <2>1 DEF StartCsv, TypesInv, PositionInv, stream, Size
<1>3. CASE SkipLine
  <2>1. /\ at' = at + 1 /\ text' = text /\ progress' = "comments" /\ progress = "comments"
        /\ eofbit' = (at' = Size /\ ~text.terminated)
        /\ ~IsRecord(text.lines[at + 1]) /\ failbit' = failbit /\ ~failbit
    BY <1>3 DEF SkipLine, GetLine, Size, LineAhead, IsRecord, More
  <2>2. \A j \in 1..(at + 1) : ~IsRecord(text.lines[j])
    BY <1>0, <2>1 DEF PositionInv, InPlace
  <2> QED
    BY <2>1, <2>2 DEF PositionInv, Size
<1>4. CASE NothingLeft \/ BadRecord \/ Reject
  BY <1>4, ThrowPosition DEF NothingLeft, BadRecord, Reject
<1>5. CASE BeginBody
  <2>1. /\ progress' = "body" /\ at' = at /\ text' = text /\ format' = format /\ progress = "comments"
        /\ cols' = cols /\ failbit' = failbit /\ eofbit' = eofbit /\ ~failbit /\ at < Size
        /\ IsRecord(text.lines[at + 1])
    BY <1>5 DEF BeginBody, stream, More, LineAhead, IsRecord, Size
  <2>2. HeaderIs(at + 1)
    BY <1>0, <2>1 DEF PositionInv, InPlace, HeaderIs
  <2>3. cols = 0
    BY <2>1 DEF TypesInv
  <2> QED
    BY <1>0, <2>1, <2>2, <2>3 DEF PositionInv, HeaderIs, BodyRead, Size, Lines
<1>6. CASE ReadRecord
  <2>1. /\ at' = at + 1 /\ text' = text /\ progress' = "body" /\ progress = "body" /\ format' = format
        /\ eofbit' = (at' = Size /\ ~text.terminated)
        /\ failbit' = failbit /\ ~failbit /\ at < Size
        /\ cols' = FieldsIn(text.lines[at + 1], format)
        /\ text.lines[at + 1].kind # "blank"
        /\ cols = 0 \/ FieldsIn(text.lines[at + 1], format) = cols
    BY <1>6 DEF ReadRecord, GetLine, Size, LineAhead, More, RightCount
  <2>2. PICK h \in Lines : HeaderIs(h) /\ BodyRead(h)
    BY <2>1 DEF PositionInv
  <2>3. FieldsIn(text.lines[at + 1], format) = FieldsIn(text.lines[h], format)
    <3>1. CASE at < h
      BY <1>0, <2>2, <3>1 DEF BodyRead
    <3>2. CASE ~(at < h)
      BY <1>0, <2>1, <2>2, <3>2, FieldsType DEF BodyRead
    <3> QED
      BY <3>1, <3>2
  <2>4. /\ h - 1 <= at + 1 /\ ~(at + 1 < h) /\ h \in Nat
        /\ \A i \in h..(at + 1) : i \in h..at \/ i = at + 1
    BY <1>0, <2>2 DEF BodyRead
  <2>5. BodyRead(h)'
    BY <2>1, <2>2, <2>3, <2>4 DEF BodyRead
  <2>6. HeaderIs(h)' /\ h \in Lines'
    BY <2>1, <2>2 DEF HeaderIs, Lines
  <2> QED
    BY <2>1, <2>5, <2>6 DEF PositionInv, Size
<1>7. CASE ReadToTheEnd
  <2>1. /\ progress \in {"comments", "body"} /\ progress' = progress
        /\ text' = text /\ at' = at /\ format' = format
        /\ cols' = cols /\ eofbit' /\ failbit' /\ ~failbit
    BY <1>7 DEF ReadToTheEnd, EndOfText
  <2>2. at = Size
    BY <1>7, EndAtSize
  <2>3. CASE progress = "body"
    <3>1. PICK h \in Lines : HeaderIs(h) /\ BodyRead(h)
      BY <2>3 DEF PositionInv
    <3> QED
      BY <2>1, <2>2, <2>3, <3>1 DEF PositionInv, HeaderIs, BodyRead, Size, Lines
  <2>4. CASE progress = "comments"
    <3>1. \A j \in 1..at : ~IsRecord(text.lines[j])
      BY <2>1, <2>4 DEF PositionInv, InPlace
    <3> QED
      BY <2>1, <2>2, <2>4, <3>1 DEF PositionInv, Size
  <2>5. progress \in {"comments", "body"}
    BY <1>7 DEF ReadToTheEnd, EndOfText
  <2> QED
    BY <2>3, <2>4, <2>5
<1>8. CASE UNCHANGED unknown_vars
  BY <1>8 DEF unknown_vars, PositionInv, InPlace, HeaderIs, BodyRead, Size, Lines, stream
<1> QED
  BY <1>1, <1>2, <1>3, <1>4, <1>5, <1>6, <1>7, <1>8 DEF UnknownNext

----------------------------------------------------------------------------
\* A line that the attempt at work refuses makes the text unreadable for it.
LEMMA BadRecordUneven ==
  ASSUME TypesInv, PositionInv, BadRecord
  PROVE  Uneven(format) /\ ~failbit
<1>0. Size \in Nat /\ at \in Nat /\ Lines = 1..Size
  BY TextType DEF TypesInv
<1>1. /\ progress = "body" /\ ~failbit /\ at + 1 \in Lines
      /\ \/ text.lines[at + 1].kind = "blank"
         \/ cols # 0 /\ FieldsIn(text.lines[at + 1], format) # cols
  BY <1>0 DEF BadRecord, More, RightCount, LineAhead, Size
<1>2. PICK h \in Lines : HeaderIs(h) /\ BodyRead(h)
  BY <1>1 DEF PositionInv
<1>3. HeaderAt = h /\ \A i \in Lines : i \in Body <=> i >= h
  BY <1>2, HeaderProperties
<1>4. at + 1 \in Body
  BY <1>0, <1>1, <1>2, <1>3 DEF BodyRead
<1>5. cols # 0 => cols = FieldsIn(text.lines[h], format)
  BY <1>2 DEF BodyRead
<1>6. \/ text.lines[at + 1].kind = "blank"
      \/ FieldsIn(text.lines[at + 1], format) # FieldsIn(text.lines[HeaderAt], format)
  BY <1>1, <1>3, <1>5
<1> QED
  BY <1>1, <1>4, <1>6 DEF Uneven

\* A text that has been read to its end is even.
LEMMA ReadToTheEndEven ==
  ASSUME TypesInv, PositionInv, progress = "body", failbit
  PROVE  /\ ~Uneven(format) /\ Body # {}
         /\ ReadableAs(format) <=> ~Rejected
<1>1. PICK h \in Lines : HeaderIs(h) /\ BodyRead(h)
  BY DEF PositionInv
<1>2. HeaderAt = h /\ h \in Body /\ \A i \in Lines : i \in Body <=> i >= h
  BY <1>1, HeaderProperties
<1>3. /\ at = Size /\ Lines = 1..Size /\ Size \in Nat /\ h \in Lines
      /\ \A i \in h..at : /\ text.lines[i].kind # "blank"
                          /\ FieldsIn(text.lines[i], format) = FieldsIn(text.lines[h], format)
  BY <1>1, TextType DEF BodyRead
<1>4. \A i \in Body : i \in h..at
  BY <1>2, <1>3 DEF Body, Lines
<1>5. ~Uneven(format)
  BY <1>2, <1>3, <1>4 DEF Uneven
<1>6. text.lines[h].tabs \in Nat
  BY <1>3, TextType
<1> QED
  BY <1>2, <1>5, <1>6 DEF ReadableAs, Rejected

\* When the leading lines are all there is, no table is found.
LEMMA NothingLeftEmpty ==
  ASSUME TypesInv, PositionInv, progress = "comments",
         (NothingLeft /\ format = "csv") \/ ReadToTheEnd
  PROVE  Body = {} /\ Leading = Lines /\ at = Size
<1>0. Size \in Nat /\ at \in 0..Size /\ Lines = 1..Size
  BY TextType DEF TypesInv
<1>1. InPlace
  BY DEF InPlace, ReadToTheEnd, EndOfText
<1>2. at = Size
  <2>1. CASE NothingLeft /\ format = "csv"
    BY <2>1 DEF NothingLeft, PositionInv
  <2>2. CASE ReadToTheEnd
    BY <2>2, EndAtSize
  <2> QED
    BY <2>1, <2>2
<1>3. \A j \in 1..Size : ~IsRecord(text.lines[j])
  BY <1>1, <1>2 DEF PositionInv
<1> QED
  BY <1>2, <1>3, NoRecord

LEMMA ThrowAttempt ==
  ASSUME TypesInv, GiveUp, progress # "over", format = "csv",
         ~ReadableAs("csv"),
         \/ Body = {}
         \/ IF failbit THEN ~Uneven("csv") ELSE Uneven("csv")
  PROVE  AttemptInv'
<1>1. /\ format' = "tsv" /\ progress' = "comments" /\ text' = text /\ source' = source
      /\ failbit' = (failbit /\ source = "stream")
  BY ThrowFromCsv
<1>2. /\ Body' = Body /\ (Uneven("csv")' <=> Uneven("csv"))
      /\ (ReadableAs("csv")' <=> ReadableAs("csv"))
  BY <1>1, SameText
<1>3. source \in {"stream", "path"}
  BY DEF TypesInv
<1>4. SecondAttempt'
  BY <1>1, <1>2, <1>3 DEF SecondAttempt
<1> QED
  BY <1>1, <1>4 DEF AttemptInv

LEMMA NextAttempt == TypesInv /\ PositionInv /\ AttemptInv /\ [UnknownNext]_unknown_vars => AttemptInv'
<1> SUFFICES ASSUME TypesInv, PositionInv, AttemptInv, [UnknownNext]_unknown_vars PROVE AttemptInv'
  OBVIOUS
<1>1. CASE ReadRecognized \/ Accept
  BY <1>1 DEF ReadRecognized, Accept, AttemptInv
<1>2. CASE StartCsv
  BY <1>2 DEF StartCsv, TypesInv, AttemptInv
<1>3. CASE \/ SkipLine \/ BeginBody \/ ReadRecord \/ UNCHANGED unknown_vars
           \/ ReadToTheEnd /\ progress = "body"
  <2>1. /\ text' = text /\ source' = source /\ format' = format
        /\ \/ progress' = progress /\ failbit' = failbit
           \/ progress' = "body" /\ (progress = "body" \/ ~failbit)
        /\ progress' \in {"comments", "body"} => progress \in {"comments", "body"}
    BY <1>3 DEF SkipLine, BeginBody, ReadRecord, ReadToTheEnd, EndOfText, GetLine, More, unknown_vars, stream
  <2>2. /\ Body' = Body /\ (Uneven("csv")' <=> Uneven("csv"))
        /\ (ReadableAs("csv")' <=> ReadableAs("csv"))
    BY <2>1, SameText
  <2>3. SecondAttempt => SecondAttempt'
    BY <2>1, <2>2 DEF SecondAttempt
  <2> QED
    BY <2>1, <2>3 DEF AttemptInv
<1>3a. CASE ReadToTheEnd /\ progress = "comments"
  <2>1. Body = {} /\ text' = text
    BY <1>3a, NothingLeftEmpty DEF ReadToTheEnd
  <2>2. Body' = {} /\ ~ReadableAs("csv")'
    BY <2>1, SameText DEF ReadableAs
  <2> QED
    BY <2>2 DEF AttemptInv, SecondAttempt
<1>4. CASE (NothingLeft \/ BadRecord \/ Reject) /\ format # "csv"
  <2>1. progress' = "over"
    BY <1>4, ThrowFromTsv DEF NothingLeft, BadRecord, Reject
  <2> QED
    BY <2>1 DEF AttemptInv
<1>5. CASE NothingLeft /\ format = "csv"
  <2>1. Body = {}
    BY <1>5, NothingLeftEmpty DEF NothingLeft
  <2> QED
    BY <1>5, <2>1, ThrowAttempt DEF NothingLeft, ReadableAs
<1>6. CASE BadRecord /\ format = "csv"
  <2>1. Uneven("csv") /\ ~failbit
    BY <1>6, BadRecordUneven
  <2> QED
    BY <1>6, <2>1, ThrowAttempt DEF BadRecord, ReadableAs
<1>7. CASE Reject /\ format = "csv"
  <2>1. ~Uneven("csv") /\ ~ReadableAs("csv") /\ failbit
    BY <1>7, ReadToTheEndEven DEF Reject
  <2> QED
    BY <1>7, <2>1, ThrowAttempt DEF Reject
<1>8. CASE ReadToTheEnd
  <2>1. progress = "body" \/ progress = "comments"
    BY <1>8 DEF ReadToTheEnd, EndOfText
  <2> QED
    BY <1>3, <1>3a, <1>8, <2>1
<1>9. CASE NothingLeft \/ BadRecord \/ Reject
  BY <1>4, <1>5, <1>6, <1>7, <1>9
<1>10. CASE SkipLine \/ BeginBody \/ ReadRecord \/ UNCHANGED unknown_vars
  BY <1>3, <1>10
<1> QED
  BY <1>1, <1>2, <1>8, <1>9, <1>10 DEF UnknownNext

----------------------------------------------------------------------------
\* Of the end of the second attempt.
LEMMA FailureJustified ==
  ASSUME TypesInv, PositionInv, AttemptInv, NothingLeft \/ BadRecord \/ Reject, format = "tsv"
  PROVE  /\ ~ReadableAs("csv")
         /\ ~(ReadableAs("tsv") /\ (source = "path" \/ Uneven("csv")))
<1>1. SecondAttempt
  BY DEF AttemptInv, NothingLeft, BadRecord, Reject
<1>2. ~ReadableAs("csv")
  BY <1>1 DEF SecondAttempt
<1>4. CASE NothingLeft
  BY <1>1, <1>2, <1>4 DEF SecondAttempt, NothingLeft, ReadableAs
<1>5. CASE BadRecord
  BY <1>2, <1>5, BadRecordUneven DEF ReadableAs
<1>6. CASE Reject
  BY <1>2, <1>6, ReadToTheEndEven DEF Reject
<1> QED
  BY <1>2, <1>4, <1>5, <1>6

LEMMA AcceptJustified ==
  ASSUME TypesInv, PositionInv, AttemptInv, Accept
  PROVE  /\ format \in Formats /\ ReadableAs(format)
         /\ format = "tsv" => ~ReadableAs("csv") /\ (source = "path" \/ Uneven("csv"))
<1>1. ReadableAs(format)
  BY ReadToTheEndEven DEF Accept
<1>2. format = "tsv" => SecondAttempt
  BY DEF AttemptInv, Accept
<1>3. format = "tsv" => ~ReadableAs("csv") /\ (source = "path" \/ Uneven("csv"))
  BY <1>1, <1>2 DEF SecondAttempt, ReadableAs, Accept
<1> QED
  BY <1>1, <1>3 DEF TypesInv

LEMMA NextReads ==
  TypesInv /\ PositionInv /\ AttemptInv /\ ReadExactlyIf /\ [UnknownNext]_unknown_vars => ReadExactlyIf'
<1> SUFFICES ASSUME TypesInv, PositionInv, AttemptInv, ReadExactlyIf, [UnknownNext]_unknown_vars,
                    progress' = "over", IsDsv'
             PROVE  /\ outcome' = "csv" <=> ReadableAs("csv")'
                    /\ outcome' = "tsv" <=> /\ ~ReadableAs("csv")' /\ ReadableAs("tsv")'
                                            /\ source' = "path" \/ Uneven("csv")'
  BY DEF ReadExactlyIf
<1>1. text' = text /\ source' = source
  BY DEF UnknownNext, ReadRecognized, StartCsv, SkipLine, NothingLeft, BeginBody, ReadRecord, BadRecord,
         ReadToTheEnd, Accept, Reject, GiveUp, unknown_vars
<1>2. /\ (Uneven("csv")' <=> Uneven("csv")) /\ (ReadableAs("csv")' <=> ReadableAs("csv"))
      /\ (ReadableAs("tsv")' <=> ReadableAs("tsv"))
  BY <1>1, SameText
<1>3. IsDsv
  BY <1>1 DEF IsDsv, Recognized
<1>4. CASE UNCHANGED unknown_vars
  BY <1>2, <1>3, <1>4 DEF unknown_vars, ReadExactlyIf
<1>5. CASE (NothingLeft \/ BadRecord \/ Reject) /\ format = "tsv"
  <2>1. outcome' = "failed"
    BY <1>5, ThrowFromTsv DEF NothingLeft, BadRecord, Reject
  <2> QED
    BY <1>1, <1>2, <1>5, <2>1, FailureJustified
<1>6. CASE (NothingLeft \/ BadRecord \/ Reject) /\ format # "tsv"
  <2>1. format = "csv"
    BY <1>6 DEF TypesInv, Formats
  <2>2. progress' = "comments"
    BY <1>6, <2>1, ThrowFromCsv DEF NothingLeft, BadRecord, Reject
  <2> QED
    BY <2>2
<1>7. CASE Accept
  <2>1. outcome' = format
    BY <1>7 DEF Accept
  <2> QED
    BY <1>1, <1>2, <1>7, <2>1, AcceptJustified DEF Formats
<1>8. CASE ReadRecognized
  BY <1>3, <1>8 DEF ReadRecognized, IsDsv
<1>9. CASE StartCsv \/ SkipLine \/ BeginBody \/ ReadRecord \/ ReadToTheEnd
  BY <1>9 DEF StartCsv, SkipLine, BeginBody, ReadRecord, ReadToTheEnd, EndOfText
<1> QED
  BY <1>4, <1>5, <1>6, <1>7, <1>8, <1>9 DEF UnknownNext

\* Which of the two formats the reading of an unknown text ends with: a file is
\* read as CSV if it can be, otherwise as TSV if it can be; the copy of a stream
\* is read as TSV only if CSV failed before the end of the text.
THEOREM FormatReadIsDetermined == UnknownSpec => []ReadExactlyIf /\ []FilesReadExactlyIf
<1>1. UnknownInit => TypesInv /\ PositionInv /\ AttemptInv /\ ReadExactlyIf
  BY InitTypes DEF UnknownInit, ReadExactlyIf
<1>2. /\ TypesInv /\ PositionInv /\ AttemptInv /\ ReadExactlyIf
      /\ [UnknownNext]_unknown_vars
      => (TypesInv /\ PositionInv /\ AttemptInv /\ ReadExactlyIf)'
  BY NextTypes, NextPosition, NextAttempt, NextReads
<1>3. ReadExactlyIf => FilesReadExactlyIf
  BY DEF ReadExactlyIf, FilesReadExactlyIf
<1> QED
  BY <1>1, <1>2, <1>3, PTL DEF UnknownSpec

----------------------------------------------------------------------------
\* The comments of the table.
CountOf(s, i) == Cardinality({k \in DOMAIN s : s[k] = i})
Seen(i) == IF i <= at /\ Comment(text.lines[i]) THEN 1 ELSE 0
Leads(i) == IF i \in CommentLines THEN 1 ELSE 0

\* A first attempt has stored the comments it has come by, a second one those
\* and all that the first one has left.
CommentsInv ==
  /\ progress = "probing" => comments = <<>>
  /\ progress = "comments" /\ InPlace =>
       \A i \in Lines :
         CountOf(comments, i) = Seen(i) + IF format = "tsv" THEN Leads(i) ELSE 0
  /\ progress = "body" =>
       \A i \in Lines :
         CountOf(comments, i) = Leads(i) + IF format = "tsv" THEN Leads(i) ELSE 0
  /\ CommentsOncePerAttempt

LEMMA CountOfNone == \A i : CountOf(<<>>, i) = 0
<1>1. \A i : {k \in DOMAIN <<>> : (<<>>)[k] = i} = {}
  OBVIOUS
<1> QED
  BY <1>1, FS_EmptySet DEF CountOf

LEMMA CountOfAppend ==
  ASSUME NEW s \in Seq(Nat), NEW e \in Nat, NEW i
  PROVE  /\ CountOf(s, i) \in Nat
         /\ CountOf(Append(s, e), i) = CountOf(s, i) + IF e = i THEN 1 ELSE 0
<1> DEFINE S == {k \in DOMAIN s : s[k] = i}
<1> DEFINE n == Len(s) + 1
<1>1. Len(s) \in Nat /\ DOMAIN s = 1..Len(s)
  OBVIOUS
<1>2. IsFiniteSet(1..Len(s))
  BY <1>1, FS_Interval
<1>3. IsFiniteSet(S) /\ n \notin S
  <2>1. S \subseteq 1..Len(s)
    BY <1>1
  <2> QED
    BY <1>1, <1>2, <2>1, FS_Subset
<1>4. Cardinality(S) \in Nat /\ Cardinality(S \cup {n}) = Cardinality(S) + 1
  BY <1>3, FS_CardinalityType, FS_AddElement
<1>5. /\ Append(s, e) \in Seq(Nat) /\ DOMAIN Append(s, e) = 1..n
      /\ \A k \in 1..Len(s) : Append(s, e)[k] = s[k]
      /\ Append(s, e)[n] = e
  BY <1>1
<1>6. {k \in DOMAIN Append(s, e) : Append(s, e)[k] = i} = IF e = i THEN S \cup {n} ELSE S
  BY <1>1, <1>5
<1> HIDE DEF S, n
<1>7. CountOf(Append(s, e), i) = Cardinality(IF e = i THEN S \cup {n} ELSE S)
  BY <1>6 DEF CountOf
<1>8. CountOf(s, i) = Cardinality(S)
  BY DEF CountOf, S
<1> QED
  BY <1>4, <1>7, <1>8

LEMMA LeadsSame ==
  ASSUME text' = text, NEW i
  PROVE  Leads(i)' = Leads(i)
  BY SameText DEF Leads

\* At the header all of the leading comments have been seen.
LEMMA SeenAtHeader ==
  ASSUME TypesInv, NEW h, HeaderIs(h), at = h - 1, NEW i \in Lines
  PROVE  Seen(i) = Leads(i)
<1>1. Size \in Nat /\ at \in Nat /\ Lines = 1..Size /\ h \in Nat
  BY TextType DEF TypesInv, HeaderIs
<1>2. i <= at <=> i \in Leading
  BY <1>1, HeaderProperties
<1> QED
  BY <1>2 DEF Seen, Leads, CommentLines

\* The comments an attempt leaves when it throws.
LEMMA CommentsAtThrow ==
  ASSUME TypesInv, PositionInv, AttemptInv, CommentsInv, format = "csv",
         NothingLeft \/ BadRecord \/ Reject, NEW i \in Lines
  PROVE  CountOf(comments, i) = Leads(i)
<1>0. Size \in Nat /\ at \in Nat /\ Lines = 1..Size
  BY TextType DEF TypesInv
<1>1. CASE BadRecord \/ Reject
  <2>1. CountOf(comments, i) = Leads(i) + 0
    BY <1>1 DEF CommentsInv, BadRecord, Reject
  <2> QED
    BY <2>1 DEF Leads
<1>2. CASE NothingLeft
  <2>1. CountOf(comments, i) = Seen(i) + 0
    BY <1>2 DEF CommentsInv, InPlace, NothingLeft
  <2>2. at = Size /\ Leading = Lines
    BY <1>2, NothingLeftEmpty DEF NothingLeft
  <2>3. Seen(i) = Leads(i)
    BY <1>0, <2>2 DEF Seen, Leads, CommentLines
  <2> QED
    BY <2>1, <2>3 DEF Leads
<1> QED
  BY <1>1, <1>2

LEMMA NextComments ==
  ASSUME TypesInv, PositionInv, AttemptInv, CommentsInv, [UnknownNext]_unknown_vars
  PROVE  CommentsInv'
<1>0. Size \in Nat /\ at \in Nat /\ Lines = 1..Size /\ comments \in Seq(Nat)
  BY TextType DEF TypesInv
<1>1. text' = text /\ Lines' = Lines
  BY DEF UnknownNext, ReadRecognized, StartCsv, SkipLine, NothingLeft, BeginBody, ReadRecord, BadRecord,
         ReadToTheEnd, Accept, Reject, GiveUp, unknown_vars, Lines
<1>2. \A i : Leads(i)' = Leads(i)
  BY <1>1, LeadsSame
<1>3. CASE progress' = "probing"
  <2>1. UNCHANGED unknown_vars
    BY <1>3 DEF UnknownNext, ReadRecognized, StartCsv, SkipLine, NothingLeft, BeginBody, ReadRecord,
                BadRecord, ReadToTheEnd, EndOfText, Accept, Reject, GiveUp, unknown_vars
  <2>2. progress = "probing" /\ comments' = comments /\ outcome' = outcome
    BY <1>3, <2>1 DEF unknown_vars
  <2> QED
    BY <1>3, <2>2 DEF CommentsInv, CommentsOncePerAttempt, TypesInv, Formats
<1>4. ASSUME progress' = "over", progress # "over"
      PROVE  CommentsInv'
  <2>1. outcome' \in Formats => Accept
    <3>1. CASE ReadRecognized
      <4>1. text \in UnknownText /\ outcome' = text.magic
        BY <3>1, TextsAssumption DEF TypesInv, ReadRecognized
      <4> QED
        BY <4>1 DEF UnknownText, Magics, Formats
    <3>2. CASE NothingLeft \/ BadRecord \/ Reject
      BY <1>4, <3>2, ThrowFromCsv, ThrowFromTsv
         DEF NothingLeft, BadRecord, Reject, Formats
    <3> QED
      BY <1>4, <3>1, <3>2
         DEF UnknownNext, StartCsv, SkipLine, BeginBody, ReadRecord, ReadToTheEnd, EndOfText, unknown_vars
  <2>2. ASSUME Accept, NEW i \in Lines
        PROVE  CountOf(comments, i)' = IF i \notin CommentLines THEN 0
                                       ELSE IF outcome' = "csv" THEN 1 ELSE 2
    <3>1. /\ progress = "body" /\ comments' = comments /\ outcome' = format /\ format \in Formats
      BY <2>2 DEF Accept, TypesInv
    <3>2. CountOf(comments, i) = Leads(i) + IF format = "tsv" THEN Leads(i) ELSE 0
      BY <3>1 DEF CommentsInv
    <3>3. CountOf(comments, i)' = CountOf(comments, i)
      BY <3>1 DEF CountOf
    <3> QED
      BY <3>1, <3>2, <3>3 DEF Formats, Leads
  <2>3. CommentLines' = CommentLines
    BY <1>1, SameText
  <2>4. CommentsOncePerAttempt'
    BY <1>1, <2>1, <2>2, <2>3 DEF CommentsOncePerAttempt, CountOf, Lines
  <2> QED
    BY <1>4, <2>4 DEF CommentsInv
<1>5. CASE progress = "over"
  <2>1. UNCHANGED unknown_vars
    BY <1>5 DEF UnknownNext, ReadRecognized, StartCsv, SkipLine, NothingLeft, BeginBody, ReadRecord,
                BadRecord, ReadToTheEnd, EndOfText, Accept, Reject
  <2>2. CommentLines' = CommentLines
    BY <1>1, SameText
  <2> QED
    BY <1>1, <1>5, <2>1, <2>2 DEF CommentsInv, CommentsOncePerAttempt, unknown_vars, Lines
<1>6. ASSUME progress' \in {"comments", "body"}
      PROVE  CommentsInv'
  <2>1. outcome' = "reading"
    BY <1>6, NextTypes DEF TypesInv
  <2>2. CommentsOncePerAttempt'
    BY <2>1 DEF CommentsOncePerAttempt, Formats
  <2>3. SUFFICES ASSUME NEW i \in Lines,
                        progress' = "comments" => InPlace'
                 PROVE  CountOf(comments', i) =
                          (IF progress' = "body" THEN Leads(i) ELSE Seen(i)')
                            + IF format' = "tsv" THEN Leads(i) ELSE 0
    BY <1>1, <1>2, <1>6, <2>2, <2>3 DEF CommentsInv
  <2>4. CASE StartCsv
    BY <1>0, <2>4, CountOfNone
       DEF StartCsv, CommentsInv, Seen, TypesInv
  <2>5. CASE SkipLine
    <3>1. /\ progress = "comments" /\ progress' = "comments" /\ format' = format /\ at' = at + 1
          /\ ~failbit /\ at + 1 \in Lines
          /\ comments' = IF Comment(text.lines[at + 1]) THEN Append(comments, at + 1) ELSE comments
      BY <1>0, <2>5 DEF SkipLine, More, GetLine, WithComment, LineAhead, Comment, Size
    <3>2. CountOf(comments, i) = Seen(i) + IF format = "tsv" THEN Leads(i) ELSE 0
      BY <3>1 DEF CommentsInv, InPlace
    <3>3. CountOf(comments', i) =
            CountOf(comments, i) + IF Comment(text.lines[at + 1]) /\ i = at + 1 THEN 1 ELSE 0
      <4>1. /\ CountOf(comments, i) \in Nat
            /\ CountOf(Append(comments, at + 1), i) = CountOf(comments, i) + IF at + 1 = i THEN 1 ELSE 0
        <5>1. at + 1 \in Nat
          BY <1>0
        <5> QED
          BY <1>0, <5>1, CountOfAppend
      <4>2. CASE Comment(text.lines[at + 1])
        BY <3>1, <4>1, <4>2
      <4>3. CASE ~Comment(text.lines[at + 1])
        BY <3>1, <4>1, <4>3
      <4> QED
        BY <4>2, <4>3
    <3>4. Seen(i)' = Seen(i) + IF Comment(text.lines[at + 1]) /\ i = at + 1 THEN 1 ELSE 0
      BY <1>0, <1>1, <3>1 DEF Seen
    <3>5. Seen(i) \in Nat /\ Leads(i) \in Nat
      BY DEF Seen, Leads
    <3>6. CountOf(comments', i) = Seen(i)' + IF format = "tsv" THEN Leads(i) ELSE 0
      <4> DEFINE one == IF Comment(text.lines[at + 1]) /\ i = at + 1 THEN 1 ELSE 0
                 lead == IF format = "tsv" THEN Leads(i) ELSE 0
      <4>1. one \in Nat /\ lead \in Nat
        BY <3>5
      <4>2. CountOf(comments', i) = (Seen(i) + lead) + one /\ Seen(i)' = Seen(i) + one
        BY <3>2, <3>3, <3>4
      <4> HIDE DEF one, lead
      <4>3. CountOf(comments', i) = Seen(i)' + lead
        BY <3>5, <4>1, <4>2
      <4> QED
        BY <4>3 DEF lead
    <3> QED
      BY <3>1, <3>6
  <2>6. CASE BeginBody
    <3>1. /\ progress = "comments" /\ progress' = "body" /\ format' = format /\ comments' = comments
          /\ ~failbit /\ HeaderIs(at + 1)
      BY <1>0, <2>6 DEF BeginBody, More, LineAhead, IsRecord, PositionInv, InPlace, HeaderIs, Size
    <3>2. Seen(i) = Leads(i)
      BY <1>0, <3>1, SeenAtHeader
    <3> QED
      BY <3>1, <3>2 DEF CommentsInv, InPlace
  <2>7. CASE NothingLeft \/ BadRecord \/ Reject
    <3>1. format = "csv"
      BY <1>6, <2>7, ThrowFromTsv DEF NothingLeft, BadRecord, Reject
    <3>2. /\ progress' = "comments" /\ format' = "tsv" /\ comments' = comments /\ at' = 0
      BY <2>3, <2>7, <3>1, ThrowFromCsv DEF NothingLeft, BadRecord, Reject, InPlace
    <3>3. CountOf(comments, i) = Leads(i)
      BY <2>7, <3>1, CommentsAtThrow
    <3>4. Seen(i)' = 0 /\ Leads(i) \in Nat
      BY <1>0, <3>2 DEF Seen, Leads
    <3> QED
      BY <3>2, <3>3, <3>4
  <2>8. CASE ReadRecord \/ ReadToTheEnd
    BY <2>8 DEF ReadRecord, ReadToTheEnd, EndOfText, CommentsInv, InPlace, Seen
  <2>9. CASE UNCHANGED unknown_vars
    <3>1. Seen(i)' = Seen(i)
      BY <2>9 DEF unknown_vars, stream, Seen
    <3> QED
      BY <1>6, <2>3, <2>9, <3>1 DEF unknown_vars, stream, CommentsInv, InPlace
  <2> QED
    BY <1>6, <2>4, <2>5, <2>6, <2>7, <2>8, <2>9 DEF UnknownNext, ReadRecognized, Accept
<1>7. progress' \in {"probing", "comments", "body", "over"}
  BY NextTypes DEF TypesInv
<1> QED
  BY <1>3, <1>4, <1>5, <1>6, <1>7

\* A table that has been read holds the comments of its text, once for each of
\* the attempts that have been made.
THEOREM CommentsOfEveryAttempt == UnknownSpec => []CommentsOncePerAttempt
<1>1. UnknownInit => TypesInv /\ PositionInv /\ AttemptInv /\ CommentsInv
  BY InitTypes DEF UnknownInit, CommentsInv, CommentsOncePerAttempt, Formats
<1>2. /\ TypesInv /\ PositionInv /\ AttemptInv /\ CommentsInv
      /\ [UnknownNext]_unknown_vars
      => (TypesInv /\ PositionInv /\ AttemptInv /\ CommentsInv)'
  BY NextTypes, NextPosition, NextAttempt, NextComments
<1>3. CommentsInv => CommentsOncePerAttempt
  BY DEF CommentsInv
<1> QED
  BY <1>1, <1>2, <1>3, PTL DEF UnknownSpec
=============================================================================
