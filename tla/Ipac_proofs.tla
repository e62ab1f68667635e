---------------------------- MODULE Ipac_proofs ----------------------------
(***************************************************************************)
(* What holds of IPAC tables for every value of the constants.               *)
(*                                                                         *)
(* Of the reader, for every header and any number of lines: strings are      *)
(* whole, lengths are those of one of the two records, and nothing but nulls  *)
(* is read behind a blank line.  Each of the three needs its own              *)
(* strengthening of TypesInv: what the smallest widths bound (NarrowEnough),  *)
(* and what the two records hold while lines are still read                   *)
(* (RecordsWhileReading).                                                   *)
(*                                                                         *)
(* Of a trip, for every Table and every request: which rows come back.  The   *)
(* writer puts columns together of their places, one behind the other, so     *)
(* its lemmas are about FlattenSeq(), then about widths, then about what the  *)
(* reader makes of one text; TripInv relates what has been read to the file.  *)
(*                                                                         *)
(* At the end both are put together: by TripInv a file that was written is    *)
(* one the reader's proofs are about, so its three properties hold of trips.  *)
(***************************************************************************)
EXTENDS IpacRoundTrip, WellFoundedInduction, TLAPS

----------------------------------------------------------------------------
\* Lists.
LEMMA EmptyIsList == IsList(<<>>) /\ Len(<<>>) = 0
<1>1. \A s \in Seq({}) : Len(s) \in Nat /\ s = [k \in 1..Len(s) |-> s[k]]
  OBVIOUS
<1>2. <<>> \in Seq({}) /\ Len(<<>>) = 0
  OBVIOUS
<1> QED
  BY <1>1, <1>2 DEF IsList

LEMMA ListIsSeq == ASSUME NEW s, IsList(s) PROVE \E S : s \in Seq(S)
<1> DEFINE S == {s[i] : i \in 1..Len(s)}
<1>1. PICK n \in Nat : n = Len(s)
  BY DEF IsList
<1>2. s = [i \in 1..n |-> s[i]]
  BY <1>1 DEF IsList
<1>3. \A i \in 1..n : s[i] \in S
  BY <1>1
<1> HIDE DEF S
<1>4. s \in Seq(S)
  BY <1>2, <1>3
<1> QED
  BY <1>4

\* Append() adds behind what is there.
LEMMA AppendIs ==
  ASSUME NEW s, IsList(s), NEW x
  PROVE  /\ IsList(Append(s, x)) /\ Len(Append(s, x)) = Len(s) + 1 /\ Len(s) \in Nat
         /\ \A i \in 1..Len(s) : Append(s, x)[i] = s[i]
         /\ Append(s, x)[Len(s) + 1] = x
         /\ DOMAIN Append(s, x) = 1..(Len(s) + 1)
<1>1. PICK S : s \in Seq(S)
  BY ListIsSeq
<1>2. PICK T : T = S \cup {x}
  OBVIOUS
<1>3. s \in Seq(T) /\ x \in T
  BY <1>1, <1>2
<1>4. /\ Append(s, x) \in Seq(T) /\ Len(Append(s, x)) = Len(s) + 1 /\ Len(s) \in Nat
      /\ \A i \in 1..Len(s) : Append(s, x)[i] = s[i]
      /\ Append(s, x)[Len(s) + 1] = x
  BY <1>3
<1>5. \A y \in Seq(T) : Len(y) \in Nat /\ y = [k \in 1..Len(y) |-> y[k]] /\ DOMAIN y = 1..Len(y)
  OBVIOUS
<1> QED
  BY <1>4, <1>5 DEF IsList

----------------------------------------------------------------------------
\* The reader alone.
Cells == [null : BOOLEAN, chars : Nat, size : Nat]

\* What the reader relies on in a header and in a line, wherever they come from.
IsHeader(cols) ==
  /\ cols \in Seq(Column)
  /\ \A c \in DOMAIN cols : cols[c].char => cols[c].width > 0
IsLine(cols, es) == \A c \in DOMAIN cols : es[c].len \in Nat /\ es[c].len <= cols[c].width

TypesInv ==
  /\ IsHeader(columns)
  /\ state \in {"reading", "read", "failed"}
  /\ row_idx \in Nat
  /\ widths \in [DOMAIN columns -> Nat]
  /\ minimum_column_widths \in [DOMAIN columns -> Nat]
  /\ rows \in Seq([DOMAIN columns -> Cells])
  /\ IsList(text) /\ \A i \in 1..Len(text) : IsLine(columns, text[i])
  /\ Len(text) = Len(rows)
  /\ state = "reading" => widths = [c \in DOMAIN columns |-> columns[c].width]

\* No element is longer than what its column can be narrowed to, and no column
\* has to be wider than its header says.
NarrowEnough ==
  /\ \A i \in DOMAIN rows : \A c \in Strings : text[i][c].len <= minimum_column_widths[c]
  /\ \A c \in Strings : minimum_column_widths[c] <= columns[c].width
  /\ StringsAreWhole

LEMMA ColumnsType ==
  ASSUME IsHeader(columns)
  PROVE  /\ columns \in Seq(Column)
         /\ \A c \in DOMAIN columns :
              /\ columns[c].char \in BOOLEAN /\ columns[c].marked \in BOOLEAN
              /\ columns[c].width \in Nat
              /\ columns[c].char => columns[c].width > 0
<1>1. columns \in Seq(Column)
  BY DEF IsHeader
<1>2. \A c \in DOMAIN columns : columns[c] \in Column
  BY <1>1
<1> QED
  BY <1>1, <1>2 DEF Column, IsHeader

\* The lines of a file that nobody wrote.
LEMMA LinesOfAreLines ==
  ASSUME IsHeader(columns), NEW es \in LinesOf(columns)
  PROVE  IsLine(columns, es)
<1> SUFFICES ASSUME NEW c \in DOMAIN columns
             PROVE  es[c].len \in Nat /\ es[c].len <= columns[c].width
  BY DEF IsLine
<1>1. es[c] \in Elements(columns[c])
  BY DEF LinesOf
<1>2. es[c].len \in 0..columns[c].width
  BY <1>1 DEF Elements
<1> QED
  BY <1>2, ColumnsType

\* A string is stored with all of its characters unless it is null.
LEMMA StoredType ==
  ASSUME IsHeader(columns), NEW es, IsLine(columns, es), NEW c \in DOMAIN columns,
         NEW width \in Nat
  PROVE  /\ Stored(columns[c], es[c], width) \in Cells
         /\ LET cell == Stored(columns[c], es[c], width)
            IN  /\ ~cell.null => cell.chars = es[c].len
                /\ cell.size = IF cell.null THEN 0 ELSE width
<1> DEFINE null == IsNull(columns[c], es[c]) \/ (~columns[c].char /\ es[c].len = 0)
           cell == Stored(columns[c], es[c], width)
<1>1. cell = [null |-> null, chars |-> IF null THEN 0 ELSE es[c].len,
              size |-> IF null THEN 0 ELSE width]
  BY DEF Stored
<1>2. null \in BOOLEAN
  OBVIOUS
<1>3. es[c].len \in Nat
  BY DEF IsLine
<1> HIDE DEF null, cell
<1>4. cell \in Cells
  BY <1>1, <1>2, <1>3 DEF Cells
<1>5. (~cell.null => cell.chars = es[c].len) /\ cell.size = IF cell.null THEN 0 ELSE width
  BY <1>1
<1> QED
  BY <1>4, <1>5 DEF cell

----------------------------------------------------------------------------
\* A reader that has read nothing but a header, if that.
Fresh ==
  /\ IsHeader(columns) /\ state = "reading" /\ row_idx = 0
  /\ widths = [c \in DOMAIN columns |-> columns[c].width]
  /\ minimum_column_widths = [c \in DOMAIN columns |-> 1]
  /\ rows = <<>> /\ recorded = <<>> /\ own = <<>> /\ text = <<>>

LEMMA InitIsFresh == Init => Fresh
  BY HeadersAssumption DEF Init, Fresh, IsHeader

LEMMA FreshTypes == Fresh => TypesInv
<1> SUFFICES ASSUME Fresh PROVE TypesInv
  OBVIOUS
<1>1. widths \in [DOMAIN columns -> Nat]
  BY ColumnsType DEF Fresh
<1>2. minimum_column_widths \in [DOMAIN columns -> Nat]
  BY DEF Fresh
<1>3. IsList(text) /\ Len(text) = 0 /\ Len(rows) = 0
  BY EmptyIsList DEF Fresh
<1>4. \A i \in 1..Len(text) : IsLine(columns, text[i])
  <2>1. 1..0 = {}
    OBVIOUS
  <2> QED
    BY <1>3, <2>1
<1>5. rows \in Seq([DOMAIN columns -> Cells])
  BY DEF Fresh
<1> QED
  BY <1>1, <1>2, <1>3, <1>4, <1>5 DEF Fresh, TypesInv

\* What a line adds.
LEMMA ReadLineAdds ==
  ASSUME TypesInv, state = "reading", NEW es, IsLine(columns, es), ReadLine(es),
         NEW n, n = Len(rows) + 1
  PROVE  /\ columns' = columns /\ state' = state /\ widths' = widths
         /\ rows' \in Seq([DOMAIN columns -> Cells]) /\ Len(rows') = n
         /\ IsList(text') /\ Len(text') = n /\ \A i \in 1..n : IsLine(columns, text'[i])
         /\ \A i \in 1..Len(rows) : rows'[i] = rows[i] /\ text'[i] = text[i]
         /\ rows'[n] = [c \in DOMAIN columns |-> Stored(columns[c], es[c], widths[c])]
         /\ text'[n] = es
<1> DEFINE stored == [c \in DOMAIN columns |-> Stored(columns[c], es[c], widths[c])]
<1>1. \A c \in DOMAIN columns : Stored(columns[c], es[c], widths[c]) \in Cells
  <2> SUFFICES ASSUME NEW c \in DOMAIN columns
               PROVE  Stored(columns[c], es[c], widths[c]) \in Cells
    OBVIOUS
  <2>1. widths[c] \in Nat /\ IsHeader(columns)
    BY DEF TypesInv
  <2> QED
    BY <2>1, StoredType
<1>2. stored \in [DOMAIN columns -> Cells]
  BY <1>1
<1>3. /\ rows' = Append(rows, stored) /\ text' = Append(text, es)
      /\ columns' = columns /\ state' = state /\ widths' = widths
  BY DEF ReadLine
<1>4. /\ rows \in Seq([DOMAIN columns -> Cells]) /\ IsList(text)
      /\ \A i \in 1..Len(text) : IsLine(columns, text[i])
      /\ Len(text) = Len(rows) /\ Len(rows) \in Nat
  BY DEF TypesInv
<1> HIDE DEF stored
<1>5. /\ rows' \in Seq([DOMAIN columns -> Cells]) /\ Len(rows') = n
      /\ \A i \in 1..Len(rows) : rows'[i] = rows[i]
      /\ rows'[n] = stored
  BY <1>2, <1>3, <1>4
<1>6. /\ IsList(text') /\ Len(text') = n
      /\ \A i \in 1..Len(rows) : text'[i] = text[i]
      /\ text'[n] = es
  BY <1>3, <1>4, AppendIs
<1>7. ASSUME NEW i \in 1..n PROVE IsLine(columns, text'[i])
  <2>1. i = n \/ i \in 1..Len(rows)
    BY <1>4
  <2> QED
    BY <1>4, <1>6, <2>1
<1> QED
  BY <1>3, <1>5, <1>6, <1>7 DEF stored

LEMMA WidenedType ==
  ASSUME TypesInv, NEW es, IsLine(columns, es)
  PROVE  /\ Widened(es) \in [DOMAIN columns -> Nat]
         /\ \A c \in DOMAIN columns :
              es[c].len <= Widened(es)[c] /\ minimum_column_widths[c] <= Widened(es)[c]
              /\ Widened(es)[c] \in {es[c].len, minimum_column_widths[c]}
<1>1. IsHeader(columns) /\ \A c \in DOMAIN columns : minimum_column_widths[c] \in Nat
  BY DEF TypesInv
<1>2. \A c \in DOMAIN columns : es[c].len \in Nat
  BY DEF IsLine
<1> QED
  BY <1>1, <1>2 DEF Widened

LEMMA NarrowedType ==
  ASSUME NEW cell \in Cells, NEW width \in Nat
  PROVE  /\ Narrowed(cell, width) \in Cells
         /\ Narrowed(cell, width).null = cell.null
         /\ cell.chars <= width => Narrowed(cell, width) = cell
<1>1. cell.chars \in Nat /\ cell = [null |-> cell.null, chars |-> cell.chars, size |-> cell.size]
  BY DEF Cells
<1>2. cell.null \in BOOLEAN /\ cell.size \in Nat
  BY DEF Cells
<1>3. Narrowed(cell, width) = [null |-> cell.null, size |-> cell.size,
                               chars |-> IF cell.chars > width THEN width ELSE cell.chars]
  BY <1>1 DEF Narrowed, Cells
<1>4. (IF cell.chars > width THEN width ELSE cell.chars) \in Nat
  BY <1>1
<1> QED
  BY <1>1, <1>2, <1>3, <1>4 DEF Cells

\* What narrowing leaves.
LEMMA ShrinkLeaves ==
  ASSUME TypesInv, Shrink, columns' = columns, text' = text
  PROVE  /\ widths' \in [DOMAIN columns -> Nat]
         /\ rows' \in Seq([DOMAIN columns -> Cells]) /\ Len(rows') = Len(rows)
         /\ \A i \in 1..Len(rows) : \A c \in DOMAIN columns :
              /\ rows'[i][c].null = rows[i][c].null
              /\ rows[i][c].chars <= minimum_column_widths[c] => rows'[i][c] = rows[i][c]
<1>1. Shrunk \in [DOMAIN columns -> Nat]
  BY DEF Shrunk, TypesInv
<1>2. rows \in Seq([DOMAIN columns -> Cells])
  BY DEF TypesInv
<1> DEFINE cellOf(i, c) == IF columns[c].char THEN Narrowed(rows[i][c], Shrunk[c]) ELSE rows[i][c]
<1>3. \A i \in 1..Len(rows) : \A c \in DOMAIN columns :
        /\ cellOf(i, c) \in Cells /\ cellOf(i, c).null = rows[i][c].null
        /\ rows[i][c].chars <= minimum_column_widths[c] => cellOf(i, c) = rows[i][c]
  <2> SUFFICES ASSUME NEW i \in 1..Len(rows), NEW c \in DOMAIN columns
               PROVE  /\ cellOf(i, c) \in Cells /\ cellOf(i, c).null = rows[i][c].null
                      /\ rows[i][c].chars <= minimum_column_widths[c] => cellOf(i, c) = rows[i][c]
    OBVIOUS
  <2>1. rows[i] \in [DOMAIN columns -> Cells]
    BY <1>2
  <2>2. rows[i][c] \in Cells /\ Shrunk[c] \in Nat
    BY <1>1, <2>1
  <2>3. columns[c].char => Shrunk[c] = minimum_column_widths[c]
    BY DEF Shrunk
  <2> QED
    BY <2>2, <2>3, NarrowedType
<1>4. rows' = [i \in 1..Len(rows) |-> [c \in DOMAIN columns |-> cellOf(i, c)]]
  BY <1>2 DEF Shrink
<1> HIDE DEF cellOf
<1>5. \A i \in 1..Len(rows) : [c \in DOMAIN columns |-> cellOf(i, c)] \in [DOMAIN columns -> Cells]
  BY <1>3
<1>6. Len(rows) \in Nat
  BY <1>2
<1>7. rows' \in Seq([DOMAIN columns -> Cells]) /\ Len(rows') = Len(rows)
  BY <1>4, <1>5, <1>6
<1>8. \A i \in 1..Len(rows) : \A c \in DOMAIN columns : rows'[i][c] = cellOf(i, c)
  BY <1>4
<1>9. widths' = Shrunk
  BY DEF Shrink
<1> QED
  BY <1>1, <1>3, <1>7, <1>8, <1>9

\* The steps that read nothing.
TableStays == UNCHANGED <<columns, widths, minimum_column_widths, rows, recorded, own, text>>

\* What a step of the reader is, of whatever file.
ReaderStep ==
  \/ state = "reading" /\ \E es : IsLine(columns, es) /\ ReadLine(es)
  \/ EndOfFile
  \/ TableStays /\ state' \in {state, "failed"} /\ row_idx' \in {row_idx, row_idx + 1}

LEMMA NextIsReaderStep == IsHeader(columns) /\ [Next]_vars => ReaderStep
<1> SUFFICES ASSUME IsHeader(columns), [Next]_vars PROVE ReaderStep
  OBVIOUS
<1>1. CASE NextLine
  <2>1. \/ \E es \in LinesOf(columns) : ReadLine(es)
        \/ TableStays /\ state' \in {"reading", "failed"} /\ row_idx' \in {row_idx, row_idx + 1}
    BY <1>1 DEF NextLine, CannotInsert, Misaligned, Throw, BlankLine, TableStays
  <2>2. state = "reading"
    BY <1>1 DEF NextLine
  <2> QED
    BY <2>1, <2>2, LinesOfAreLines DEF ReaderStep
<1>2. CASE EndOfFile
  BY <1>2 DEF ReaderStep
<1>3. CASE UNCHANGED vars
  BY <1>3 DEF vars, TableStays, ReaderStep
<1> QED
  BY <1>1, <1>2, <1>3 DEF Next

LEMMA StepTypes == TypesInv /\ ReaderStep => TypesInv'
<1> SUFFICES ASSUME TypesInv, ReaderStep PROVE TypesInv'
  OBVIOUS
<1>1. ASSUME NEW es, IsLine(columns, es), ReadLine(es), state = "reading"
      PROVE  TypesInv'
  <2>1. minimum_column_widths' = Widened(es) /\ row_idx' = row_idx + 1
    BY <1>1 DEF ReadLine
  <2>2. /\ columns' = columns /\ state' = state /\ widths' = widths
        /\ rows' \in Seq([DOMAIN columns -> Cells])
        /\ Len(rows') = Len(rows) + 1 /\ Len(text') = Len(rows) + 1
        /\ IsList(text') /\ \A i \in 1..(Len(rows) + 1) : IsLine(columns, text'[i])
    BY <1>1, ReadLineAdds
  <2>3. Widened(es) \in [DOMAIN columns -> Nat]
    BY <1>1, WidenedType
  <2> QED
    BY <2>1, <2>2, <2>3 DEF TypesInv
<1>2. CASE EndOfFile
  <2>1. /\ columns' = columns /\ row_idx' = row_idx /\ text' = text /\ state' = "read"
        /\ minimum_column_widths' = minimum_column_widths
    BY <1>2 DEF EndOfFile
  <2>2. CASE NothingToShrink
    BY <2>1, <2>2 DEF NothingToShrink, TypesInv
  <2>3. CASE Shrink
    BY <2>1, <2>3, ShrinkLeaves DEF TypesInv
  <2> QED
    BY <1>2, <2>2, <2>3 DEF EndOfFile
<1>3. ASSUME TableStays, state' \in {state, "failed"}, row_idx' \in {row_idx, row_idx + 1}
      PROVE  TypesInv'
  BY <1>3 DEF TableStays, TypesInv
<1> QED
  BY <1>1, <1>2, <1>3 DEF ReaderStep

----------------------------------------------------------------------------
LEMMA FreshNarrow == Fresh => NarrowEnough
<1> SUFFICES ASSUME Fresh PROVE NarrowEnough
  OBVIOUS
<1>1. \A c \in Strings : minimum_column_widths[c] <= columns[c].width
  <2> SUFFICES ASSUME NEW c \in Strings PROVE minimum_column_widths[c] <= columns[c].width
    OBVIOUS
  <2>1. c \in DOMAIN columns /\ columns[c].char /\ IsHeader(columns)
    BY DEF Strings, Fresh
  <2>2. columns[c].width \in Nat /\ columns[c].width > 0
    BY <2>1, ColumnsType
  <2>3. minimum_column_widths[c] = 1
    BY <2>1 DEF Fresh
  <2> QED
    BY <2>2, <2>3
<1>2. DOMAIN rows = {}
  BY DEF Fresh
<1> QED
  BY <1>1, <1>2 DEF NarrowEnough, StringsAreWhole

LEMMA ReadLineNarrow ==
  ASSUME TypesInv, NarrowEnough, state = "reading", NEW es, IsLine(columns, es), ReadLine(es)
  PROVE  NarrowEnough'
<1> DEFINE n == Len(rows) + 1
<1>0. /\ IsHeader(columns) /\ Len(rows) \in Nat
      /\ rows \in Seq([DOMAIN columns -> Cells])
  BY DEF TypesInv
<1>1. /\ columns' = columns
      /\ rows' \in Seq([DOMAIN columns -> Cells]) /\ Len(rows') = n
      /\ \A i \in 1..Len(rows) : rows'[i] = rows[i] /\ text'[i] = text[i]
      /\ rows'[n] = [c \in DOMAIN columns |-> Stored(columns[c], es[c], widths[c])]
      /\ text'[n] = es
  BY ReadLineAdds
<1>2. minimum_column_widths' = Widened(es)
  BY DEF ReadLine
<1>3. Strings' = Strings /\ \A c \in Strings : c \in DOMAIN columns
  BY <1>1 DEF Strings
<1>4. DOMAIN rows' = 1..n /\ DOMAIN rows = 1..Len(rows) /\ n = Len(rows) + 1
  BY <1>0, <1>1
<1> HIDE DEF n
<1>5. \A i \in 1..n : i \in 1..Len(rows) \/ i = n
  BY <1>0, <1>4
<1>6. \A c \in DOMAIN columns :
        /\ es[c].len \in Nat /\ es[c].len <= columns[c].width
        /\ es[c].len <= Widened(es)[c] /\ minimum_column_widths[c] <= Widened(es)[c]
        /\ Widened(es)[c] \in {es[c].len, minimum_column_widths[c]}
        /\ Widened(es)[c] \in Nat /\ minimum_column_widths[c] \in Nat
  <2> SUFFICES ASSUME NEW c \in DOMAIN columns
               PROVE  /\ es[c].len \in Nat /\ es[c].len <= columns[c].width
                      /\ es[c].len <= Widened(es)[c] /\ minimum_column_widths[c] <= Widened(es)[c]
                      /\ Widened(es)[c] \in {es[c].len, minimum_column_widths[c]}
                      /\ Widened(es)[c] \in Nat /\ minimum_column_widths[c] \in Nat
    OBVIOUS
  <2>1. minimum_column_widths[c] \in Nat
    BY DEF TypesInv
  <2> QED
    BY <1>0, <2>1, WidenedType DEF IsLine
<1>7. ASSUME NEW i \in 1..n, NEW c \in Strings
      PROVE  text'[i][c].len <= Widened(es)[c]
  <2>1. CASE i = n
    BY <1>1, <1>3, <1>6, <2>1
  <2>2. CASE i \in 1..Len(rows)
    <3>1. text'[i][c].len <= minimum_column_widths[c] /\ text'[i] = text[i]
      BY <1>1, <1>4, <2>2 DEF NarrowEnough
    <3>2. IsLine(columns, text[i])
      BY <2>2 DEF TypesInv
    <3>3. text[i][c].len \in Nat
      BY <1>0, <1>3, <3>2 DEF IsLine
    <3> QED
      BY <1>3, <1>6, <3>1, <3>3
  <2> QED
    BY <1>5, <2>1, <2>2
<1>8. ASSUME NEW c \in Strings PROVE Widened(es)[c] <= columns[c].width
  BY <1>3, <1>6 DEF NarrowEnough
<1>9. ASSUME NEW i \in 1..n, NEW c \in Strings
      PROVE  ~rows'[i][c].null => rows'[i][c].chars = text'[i][c].len
  <2>1. CASE i = n
    <3>1. widths[c] \in Nat
      BY <1>3 DEF TypesInv
    <3> QED
      BY <1>0, <1>1, <1>3, <2>1, <3>1, StoredType
  <2>2. CASE i \in 1..Len(rows)
    BY <1>1, <1>4, <2>2 DEF NarrowEnough, StringsAreWhole
  <2> QED
    BY <1>5, <2>1, <2>2
<1> QED
  BY <1>1, <1>2, <1>3, <1>4, <1>7, <1>8, <1>9 DEF NarrowEnough, StringsAreWhole

LEMMA ShrinkNarrow ==
  ASSUME TypesInv, NarrowEnough, Shrink, columns' = columns, text' = text,
         minimum_column_widths' = minimum_column_widths
  PROVE  NarrowEnough'
<1>1. /\ Len(rows') = Len(rows) /\ rows \in Seq([DOMAIN columns -> Cells])
      /\ rows' \in Seq([DOMAIN columns -> Cells])
  BY ShrinkLeaves DEF TypesInv
<1>2. DOMAIN rows' = 1..Len(rows) /\ DOMAIN rows = 1..Len(rows)
  BY <1>1
<1>3. Strings' = Strings /\ \A c \in Strings : c \in DOMAIN columns
  BY DEF Strings
<1>4. ASSUME NEW i \in 1..Len(rows), NEW c \in Strings
      PROVE  ~rows'[i][c].null => rows'[i][c].chars = text'[i][c].len
  <2>1. /\ rows'[i][c].null = rows[i][c].null
        /\ rows[i][c].chars <= minimum_column_widths[c] => rows'[i][c] = rows[i][c]
    BY <1>3, ShrinkLeaves
  <2>2. /\ ~rows[i][c].null => rows[i][c].chars = text[i][c].len
        /\ text[i][c].len <= minimum_column_widths[c]
    BY <1>2 DEF NarrowEnough, StringsAreWhole
  <2> QED
    BY <2>1, <2>2
<1> QED
  BY <1>2, <1>3, <1>4 DEF NarrowEnough, StringsAreWhole

LEMMA StepNarrow == TypesInv /\ NarrowEnough /\ ReaderStep => NarrowEnough'
<1> SUFFICES ASSUME TypesInv, NarrowEnough, ReaderStep PROVE NarrowEnough'
  OBVIOUS
<1>1. ASSUME NEW es, IsLine(columns, es), ReadLine(es), state = "reading"
      PROVE  NarrowEnough'
  BY <1>1, ReadLineNarrow
<1>2. CASE EndOfFile
  <2>1. /\ columns' = columns /\ text' = text
        /\ minimum_column_widths' = minimum_column_widths
    BY <1>2 DEF EndOfFile
  <2>2. CASE NothingToShrink
    BY <2>1, <2>2 DEF NothingToShrink, NarrowEnough, StringsAreWhole, Strings
  <2>3. CASE Shrink
    BY <2>1, <2>3, ShrinkNarrow
  <2> QED
    BY <1>2, <2>2, <2>3 DEF EndOfFile
<1>3. CASE TableStays
  BY <1>3 DEF TableStays, NarrowEnough, StringsAreWhole, Strings
<1> QED
  BY <1>1, <1>2, <1>3 DEF ReaderStep

----------------------------------------------------------------------------
\* What the reader's lists and those of the Row hold before anything is narrowed.
RecordsWhileReading ==
  state = "reading" =>
    /\ own = IF GotDynamic THEN [i \in 1..Len(rows) |-> LengthsInFile(i)] ELSE <<>>
    /\ recorded = IF GotDynamic THEN [i \in 1..Len(rows) |-> LengthsAsStored(i)] ELSE <<>>

RecordsInv == RecordsWhileReading /\ LengthsDependOnShrinking

LEMMA AppendToFunction ==
  ASSUME NEW n \in Nat, NEW f, f = [i \in 1..n |-> f[i]], NEW x
  PROVE  /\ Len(f) = n
         /\ Append(f, x) = [i \in 1..(n + 1) |-> IF i = n + 1 THEN x ELSE f[i]]
<1> DEFINE S == {f[i] : i \in 1..n} \cup {x}
<1>1. \A i \in 1..n : f[i] \in S
  OBVIOUS
<1>2. x \in S
  OBVIOUS
<1> HIDE DEF S
<1>3. f \in [1..n -> S]
  BY <1>1
<1>4. f \in Seq(S) /\ Len(f) = n
  BY <1>3
<1>5. /\ Append(f, x) \in Seq(S) /\ Len(Append(f, x)) = n + 1
      /\ \A i \in 1..n : Append(f, x)[i] = f[i]
      /\ Append(f, x)[n + 1] = x
  BY <1>2, <1>4
<1>6. DOMAIN Append(f, x) = 1..(n + 1)
  <2> DEFINE a == Append(f, x)
  <2>1. a \in Seq(S) /\ Len(a) = n + 1
    BY <1>5
  <2> HIDE DEF a
  <2>2. DOMAIN a = 1..Len(a)
    BY <2>1
  <2> QED
    BY <2>1, <2>2 DEF a
<1>7. Append(f, x) = [i \in 1..(n + 1) |-> Append(f, x)[i]]
  BY <1>5, <1>6
<1>8. \A i \in 1..(n + 1) : Append(f, x)[i] = IF i = n + 1 THEN x ELSE f[i]
  BY <1>5
<1> QED
  BY <1>4, <1>7, <1>8

LEMMA FreshRecords == Fresh => RecordsInv
  BY DEF Fresh, RecordsInv, RecordsWhileReading, LengthsDependOnShrinking

LEMMA ReadLineRecords ==
  ASSUME TypesInv, RecordsInv, state = "reading", NEW es, IsLine(columns, es), ReadLine(es),
         NEW n, n = Len(rows) + 1
  PROVE  RecordsInv'
<1>0. /\ Len(rows) \in Nat
      /\ own = IF GotDynamic THEN [i \in 1..Len(rows) |-> LengthsInFile(i)] ELSE <<>>
      /\ recorded = IF GotDynamic THEN [i \in 1..Len(rows) |-> LengthsAsStored(i)] ELSE <<>>
  BY DEF TypesInv, RecordsInv, RecordsWhileReading
<1>1. /\ columns' = columns /\ widths' = widths /\ state' = state
      /\ Len(rows') = n
      /\ \A i \in 1..Len(rows) : rows'[i] = rows[i] /\ text'[i] = text[i]
      /\ rows'[n] = [c \in DOMAIN columns |-> Stored(columns[c], es[c], widths[c])]
      /\ text'[n] = es
  BY ReadLineAdds
<1>2. GotDynamic' = GotDynamic
  BY <1>1 DEF GotDynamic, Strings
<1>3. \A i \in 1..Len(rows) : LengthsInFile(i)' = LengthsInFile(i)
  BY <1>1 DEF LengthsInFile, Lengths
<1>4. \A i \in 1..Len(rows) : LengthsAsStored(i)' = LengthsAsStored(i)
  BY <1>1 DEF LengthsAsStored, Lengths
<1>5. LengthsInFile(n)' = Lengths([c \in DOMAIN columns |-> es[c].len])
  BY <1>1 DEF LengthsInFile, Lengths
<1>6. LengthsAsStored(n)' =
        Lengths([c \in DOMAIN columns |-> Stored(columns[c], es[c], widths[c]).size])
  <2>1. \A c \in DOMAIN columns :
          Stored(columns[c], es[c], widths[c]).size =
            IF rows'[n][c].null THEN 0 ELSE widths'[c]
    <3> SUFFICES ASSUME NEW c \in DOMAIN columns
                 PROVE  Stored(columns[c], es[c], widths[c]).size =
                          IF rows'[n][c].null THEN 0 ELSE widths'[c]
      OBVIOUS
    <3>1. widths[c] \in Nat /\ IsHeader(columns)
      BY DEF TypesInv
    <3>2. rows'[n][c] = Stored(columns[c], es[c], widths[c])
      BY <1>1
    <3> QED
      BY <1>1, <3>1, <3>2, StoredType
  <2>2. [c \in DOMAIN columns |-> IF rows'[n][c].null THEN 0 ELSE widths'[c]]
          = [c \in DOMAIN columns |-> Stored(columns[c], es[c], widths[c]).size]
    BY <2>1
  <2> QED
    BY <1>1, <2>2 DEF LengthsAsStored, Lengths
<1>7. CASE GotDynamic
  <2>1. /\ own' = Append(own, Lengths([c \in DOMAIN columns |-> es[c].len]))
        /\ recorded' = Append(recorded,
             Lengths([c \in DOMAIN columns |->
                        [d \in DOMAIN columns |-> Stored(columns[d], es[d], widths[d])][c].size]))
    BY <1>7 DEF ReadLine
  <2>2. recorded' = Append(recorded,
             Lengths([c \in DOMAIN columns |-> Stored(columns[c], es[c], widths[c]).size]))
    BY <2>1
  <2>3. own' = [i \in 1..n |-> LengthsInFile(i)']
    <3>1. own = [i \in 1..Len(rows) |-> LengthsInFile(i)]
      BY <1>0, <1>7
    <3>2. own = [i \in 1..Len(rows) |-> own[i]] /\ \A i \in 1..Len(rows) : own[i] = LengthsInFile(i)
      BY <3>1
    <3>3. own' = [i \in 1..n |-> IF i = n THEN Lengths([c \in DOMAIN columns |-> es[c].len])
                                          ELSE own[i]]
      BY <1>0, <2>1, <3>2, AppendToFunction
    <3>4. \A i \in 1..n : i = n \/ i \in 1..Len(rows)
      BY <1>0
    <3> QED
      BY <1>3, <1>5, <3>2, <3>3, <3>4
  <2>4. recorded' = [i \in 1..n |-> LengthsAsStored(i)']
    <3>1. recorded = [i \in 1..Len(rows) |-> LengthsAsStored(i)]
      BY <1>0, <1>7
    <3>2. /\ recorded = [i \in 1..Len(rows) |-> recorded[i]]
          /\ \A i \in 1..Len(rows) : recorded[i] = LengthsAsStored(i)
      BY <3>1
    <3>3. recorded' = [i \in 1..n |->
            IF i = n
            THEN Lengths([c \in DOMAIN columns |-> Stored(columns[c], es[c], widths[c]).size])
            ELSE recorded[i]]
      BY <1>0, <2>2, <3>2, AppendToFunction
    <3>4. \A i \in 1..n : i = n \/ i \in 1..Len(rows)
      BY <1>0
    <3> QED
      BY <1>4, <1>6, <3>2, <3>3, <3>4
  <2> QED
    BY <1>1, <1>2, <1>7, <2>3, <2>4 DEF RecordsInv, RecordsWhileReading, LengthsDependOnShrinking
<1>8. CASE ~GotDynamic
  <2>1. own' = own /\ recorded' = recorded
    BY <1>8 DEF ReadLine
  <2> QED
    BY <1>0, <1>1, <1>2, <1>8, <2>1 DEF RecordsInv, RecordsWhileReading, LengthsDependOnShrinking
<1> QED
  BY <1>7, <1>8

\* The widths change exactly if a string column is narrowed.
LEMMA EndOfFileRecords ==
  ASSUME TypesInv, NarrowEnough, RecordsInv, EndOfFile
  PROVE  RecordsInv'
<1>1. /\ state = "reading" /\ state' = "read" /\ columns' = columns /\ text' = text
  BY DEF EndOfFile
<1>2. /\ own = IF GotDynamic THEN [i \in 1..Len(rows) |-> LengthsInFile(i)] ELSE <<>>
      /\ recorded = IF GotDynamic THEN [i \in 1..Len(rows) |-> LengthsAsStored(i)] ELSE <<>>
  BY <1>1 DEF RecordsInv, RecordsWhileReading
<1>3. Strings' = Strings /\ GotDynamic' = GotDynamic
  BY <1>1 DEF Strings, GotDynamic
<1>4. /\ widths = [c \in DOMAIN columns |-> columns[c].width]
      /\ DOMAIN rows = 1..Len(rows) /\ IsHeader(columns)
      /\ \A c \in DOMAIN columns : minimum_column_widths[c] \in Nat
  BY <1>1 DEF TypesInv
<1>5. \A c \in DOMAIN columns : columns[c].width \in Nat
  BY <1>4, ColumnsType
<1>6. CASE NothingToShrink
  <2>1. widths' = widths /\ rows' = rows /\ recorded' = recorded
    BY <1>6 DEF NothingToShrink
  <2>2. ~\E c \in Strings : widths'[c] < columns'[c].width
    BY <1>1, <1>4, <1>5, <2>1 DEF Strings
  <2>3. \A i \in 1..Len(rows) : LengthsAsStored(i)' = LengthsAsStored(i)
    BY <1>1, <2>1 DEF LengthsAsStored, Lengths
  <2> QED
    BY <1>1, <1>2, <1>3, <1>4, <2>1, <2>2, <2>3
    DEF RecordsInv, RecordsWhileReading, LengthsDependOnShrinking
<1>7. CASE Shrink
  <2>1. widths' = Shrunk /\ Shrunk # widths /\ recorded' = own
    BY <1>7 DEF Shrink
  <2>2. PICK c \in DOMAIN columns : Shrunk[c] # widths[c]
    BY <1>4, <2>1 DEF Shrunk
  <2>3. columns[c].char /\ Shrunk[c] = minimum_column_widths[c]
    BY <2>2 DEF Shrunk
  <2>4. c \in Strings
    BY <2>3 DEF Strings
  <2>5. Shrunk[c] < columns[c].width
    BY <1>4, <1>5, <2>2, <2>3, <2>4 DEF NarrowEnough
  <2>6. GotDynamic' /\ \E d \in Strings' : widths'[d] < columns'[d].width
    BY <1>1, <1>3, <2>1, <2>4, <2>5 DEF GotDynamic
  <2>7. DOMAIN rows' = 1..Len(rows)
    BY <1>4, <1>7 DEF Shrink
  <2>8. \A i \in 1..Len(rows) : LengthsInFile(i)' = LengthsInFile(i)
    BY <1>1 DEF LengthsInFile, Lengths
  <2>9. recorded' = [i \in 1..Len(rows) |-> LengthsInFile(i)]
    BY <1>2, <1>3, <2>1, <2>6
  <2> QED
    BY <1>1, <2>6, <2>7, <2>8, <2>9
    DEF RecordsInv, RecordsWhileReading, LengthsDependOnShrinking
<1> QED
  BY <1>6, <1>7 DEF EndOfFile

LEMMA StutterRecords ==
  ASSUME RecordsInv, state' = state \/ state' = "failed",
         UNCHANGED <<columns, widths, rows, recorded, own, text>>
  PROVE  RecordsInv'
<1>1. Strings' = Strings /\ GotDynamic' = GotDynamic
  BY DEF Strings, GotDynamic
<1>2. \A i : LengthsInFile(i)' = LengthsInFile(i) /\ LengthsAsStored(i)' = LengthsAsStored(i)
  BY DEF LengthsInFile, LengthsAsStored, Lengths
<1> QED
  BY <1>1, <1>2 DEF RecordsInv, RecordsWhileReading, LengthsDependOnShrinking

LEMMA StepRecords == TypesInv /\ NarrowEnough /\ RecordsInv /\ ReaderStep => RecordsInv'
<1> SUFFICES ASSUME TypesInv, NarrowEnough, RecordsInv, ReaderStep PROVE RecordsInv'
  OBVIOUS
<1>1. ASSUME NEW es, IsLine(columns, es), ReadLine(es), state = "reading"
      PROVE  RecordsInv'
  <2>1. PICK n : n = Len(rows) + 1
    OBVIOUS
  <2> QED
    BY <1>1, <2>1, ReadLineRecords
<1>2. CASE EndOfFile
  BY <1>2, EndOfFileRecords
<1>3. ASSUME TableStays, state' \in {state, "failed"} PROVE RecordsInv'
  BY <1>3, StutterRecords DEF TableStays
<1> QED
  BY <1>1, <1>2, <1>3 DEF ReaderStep

\* The inductive invariant of the reader, for whatever file.
ReaderInv == TypesInv /\ NarrowEnough /\ RecordsInv

LEMMA Fresh_ReaderInv == Fresh => ReaderInv
  BY FreshTypes, FreshNarrow, FreshRecords DEF ReaderInv

LEMMA Step_ReaderInv == ReaderInv /\ ReaderStep => ReaderInv'
<1> SUFFICES ASSUME ReaderInv, ReaderStep PROVE ReaderInv'
  OBVIOUS
<1>1. TypesInv /\ NarrowEnough /\ RecordsInv
  BY DEF ReaderInv
<1>2. TypesInv' /\ NarrowEnough' /\ RecordsInv'
  BY <1>1, StepTypes, StepNarrow, StepRecords
<1> QED
  BY <1>2 DEF ReaderInv

LEMMA ReaderInvHolds == Spec => []ReaderInv
<1>1. Init => ReaderInv
  BY InitIsFresh, Fresh_ReaderInv
<1>2. ReaderInv /\ [Next]_vars => ReaderInv'
  BY NextIsReaderStep, Step_ReaderInv DEF ReaderInv, TypesInv
<1> QED
  BY <1>1, <1>2, PTL DEF Spec

\* Every string of the table has all the characters it has in the file, before
\* and after its column has been narrowed: the smallest widths are kept while
\* lines are read, over all lines.
THEOREM ReaderKeepsStringsWhole == Spec => []StringsAreWhole
<1>1. ReaderInv => StringsAreWhole
  BY DEF ReaderInv, NarrowEnough
<1> QED
  BY <1>1, ReaderInvHolds, PTL

\* Every row of the table has one length for each string column; if any column was
\* narrowed it is the reader's, otherwise the one that append_row() stored.
THEOREM ReaderChoosesOneRecord == Spec => []LengthsDependOnShrinking
<1>1. ReaderInv => LengthsDependOnShrinking
  BY DEF ReaderInv, RecordsInv
<1> QED
  BY <1>1, ReaderInvHolds, PTL

\* A line behind a blank one is stored only if its strings are null.
NullsBehindBlankLines ==
  row_idx > Len(rows) /\ Len(rows') > Len(rows) =>
    \A c \in Strings : IsNull(columns[c], text'[Len(text')][c])

LEMMA Step_NullsBehind == ReaderInv /\ ReaderStep => NullsBehindBlankLines
<1> SUFFICES ASSUME ReaderInv, ReaderStep PROVE NullsBehindBlankLines
  OBVIOUS
<1>0. TypesInv /\ RecordsInv
  BY DEF ReaderInv
<1>1. ASSUME NEW es, IsLine(columns, es), ReadLine(es), state = "reading",
             row_idx > Len(rows), NEW c \in Strings
      PROVE  IsNull(columns[c], text'[Len(text')][c])
  <2>1. text'[Len(text')] = es
    <3>1. Len(text') = Len(rows) + 1 /\ text'[Len(rows) + 1] = es
      BY <1>0, <1>1, ReadLineAdds
    <3> QED
      BY <3>1
  <2>2. c \in DOMAIN columns /\ columns[c].char /\ GotDynamic
    BY DEF Strings, GotDynamic
  <2>3. Inserts(columns[c], es[c])
    BY <1>1, <2>2 DEF ReadLine
  <2>4. Len(own) = Len(rows) /\ Len(rows) \in Nat
    <3>1. own = [i \in 1..Len(rows) |-> LengthsInFile(i)] /\ Len(rows) \in Nat
      BY <1>0, <1>1, <2>2 DEF RecordsInv, RecordsWhileReading, TypesInv
    <3>2. own = [i \in 1..Len(rows) |-> own[i]]
      BY <3>1
    <3> QED
      BY <3>1, <3>2, AppendToFunction
  <2>5. ~LengthFound
    BY <1>0, <1>1, <2>4 DEF LengthFound, TypesInv
  <2> QED
    BY <2>1, <2>2, <2>3, <2>5 DEF Inserts
<1>2. ASSUME ~\E es : IsLine(columns, es) /\ ReadLine(es) /\ state = "reading"
      PROVE  Len(rows') = Len(rows)
  <2>1. CASE EndOfFile
    BY <1>0, <2>1, ShrinkLeaves DEF EndOfFile, NothingToShrink
  <2>2. CASE TableStays
    BY <2>2 DEF TableStays
  <2> QED
    BY <1>2, <2>1, <2>2 DEF ReaderStep
<1>3. Len(rows) \in Nat
  BY <1>0 DEF TypesInv
<1> QED
  BY <1>1, <1>2, <1>3 DEF NullsBehindBlankLines

\* However many lines a file has and wherever blank ones are among them, a row that
\* comes behind a blank line and has a string in it is not read.
THEOREM BlankLinesLeaveNulls == Spec => OnlyNullsBehindBlankLines
<1>1. ReaderInv /\ [Next]_vars => [NullsBehindBlankLines]_vars
  BY NextIsReaderStep, Step_NullsBehind DEF ReaderInv, TypesInv
<1>2. OnlyNullsBehindBlankLines <=> [][NullsBehindBlankLines]_vars
  BY DEF OnlyNullsBehindBlankLines, NullsBehindBlankLines
<1> QED
  BY <1>1, <1>2, ReaderInvHolds, PTL DEF Spec

----------------------------------------------------------------------------
\* Induction, by the least number of which something is not true.
LEMMA LeastElement ==
  ASSUME NEW T, T \subseteq Nat, T # {}
  PROVE  \E x \in T : \A y \in T : x <= y
<1> DEFINE R == OpToRel(<, Nat)
<1>1. IsWellFoundedOn(R, Nat)
  BY NatLessThanWellFounded
<1>2. \A p \in Nat \X Nat : p[1] < p[2] => p \in R
  BY DEF OpToRel
<1> HIDE DEF R
<1>3. PICK x \in T : \A y \in T : <<y, x>> \notin R
  BY <1>1, WFMin
<1>4. \A y \in T : ~(y < x)
  BY <1>2, <1>3
<1> QED
  BY <1>4

----------------------------------------------------------------------------
\* FlattenSeq() puts sequences one behind the other.
\* f[i] is what has been put together of the first i.
Concat(ss, f) == f = [i \in 1..Len(ss) |-> IF i = 1 THEN ss[i] ELSE f[i - 1] \o ss[i]]
Chain(S, ss, n, f) ==
  /\ f \in [1..n -> Seq(S)]
  /\ \A i \in 1..n : f[i] = IF i = 1 THEN ss[i] ELSE f[i - 1] \o ss[i]

\* Every partial result is a sequence.
LEMMA ChainType ==
  ASSUME NEW S, NEW ss, NEW n, NEW f, Chain(S, ss, n, f)
  PROVE  \A i \in 1..n : f[i] \in Seq(S)
  BY DEF Chain

\* There are the partial results of any number of sequences.
LEMMA ChainExists ==
  ASSUME NEW S, NEW ss \in Seq(Seq(S)), NEW n \in 1..Len(ss)
  PROVE  \E f : Chain(S, ss, n, f)
<1> DEFINE T == {k \in Nat : k \in 1..Len(ss) /\ ~\E f : Chain(S, ss, k, f)}
<1> SUFFICES ASSUME T # {} PROVE FALSE
  OBVIOUS
<1>1. PICK k \in T : \A m \in T : k <= m
  BY LeastElement
<1>2. k \in 1..Len(ss) /\ ss[k] \in Seq(S) /\ Len(ss) \in Nat
  OBVIOUS
<1>3. k # 1
  <2> DEFINE g == [i \in 1..1 |-> ss[1]]
  <2> SUFFICES ASSUME k = 1 PROVE FALSE
    OBVIOUS
  <2>1. g \in [1..1 -> Seq(S)] /\ \A i \in 1..1 : i = 1 /\ g[i] = ss[1]
    BY <1>2
  <2> HIDE DEF g
  <2>2. Chain(S, ss, 1, g)
    BY <2>1 DEF Chain
  <2> QED
    BY <2>2
<1>4. k - 1 \in 1..Len(ss) /\ k - 1 \in Nat /\ k - 1 < k
  BY <1>2, <1>3
<1>5. PICK f : Chain(S, ss, k - 1, f)
  <2>1. k - 1 \notin T
    <3>1. k \in Nat /\ ~(k <= k - 1)
      BY <1>2
    <3> HIDE DEF T
    <3> QED
      BY <1>1, <3>1
  <2> HIDE DEF Chain
  <2> QED
    BY <1>4, <2>1
<1> DEFINE g == [i \in 1..k |-> IF i < k THEN f[i] ELSE f[k - 1] \o ss[k]]
<1>6. f[k - 1] \in Seq(S) /\ \A i \in 1..(k - 1) : f[i] \in Seq(S)
  BY <1>4, <1>5 DEF Chain
<1>7. f[k - 1] \o ss[k] \in Seq(S)
  BY <1>2, <1>6
<1>8. g \in [1..k -> Seq(S)]
  BY <1>2, <1>6, <1>7
<1>9. ASSUME NEW i \in 1..k
      PROVE  g[i] = IF i = 1 THEN ss[i] ELSE g[i - 1] \o ss[i]
  <2>1. CASE i < k
    <3>1. i \in 1..(k - 1)
      BY <2>1
    <3>2. f[i] = IF i = 1 THEN ss[i] ELSE f[i - 1] \o ss[i]
      BY <1>5, <3>1 DEF Chain
    <3>3. i # 1 => i - 1 \in 1..k /\ i - 1 < k
      BY <3>1
    <3>4. g[i] = f[i]
      BY <2>1
    <3>5. i # 1 => g[i - 1] = f[i - 1]
      BY <3>3
    <3> QED
      BY <3>2, <3>4, <3>5
  <2>2. CASE i = k
    <3>1. k - 1 \in 1..k /\ k - 1 < k /\ ~(k < k) /\ k \in 1..k
      BY <1>2, <1>4
    <3>2. g[k] = f[k - 1] \o ss[k] /\ g[k - 1] = f[k - 1]
      BY <3>1
    <3> QED
      BY <1>3, <2>2, <3>2
  <2> QED
    BY <2>1, <2>2
<1> HIDE DEF g
<1>10. Chain(S, ss, k, g)
  BY <1>8, <1>9 DEF Chain
<1> QED
  BY <1>10

\* The function by which FlattenSeq() is defined has those partial results.
LEMMA FlattenIs ==
  ASSUME NEW S, NEW ss \in Seq(Seq(S)), ss # <<>>
  PROVE  \E f : Chain(S, ss, Len(ss), f) /\ FlattenSeq(ss) = f[Len(ss)]
<1> DEFINE n == Len(ss)
<1>1. n \in Nat /\ n # 0 /\ n \in 1..n
  OBVIOUS
<1>2. PICK f : Chain(S, ss, n, f)
  BY <1>1, ChainExists
<1>3. f = [i \in 1..n |-> IF i = 1 THEN ss[i] ELSE f[i - 1] \o ss[i]]
  BY <1>2 DEF Chain
<1>4. Concat(ss, f)
  BY <1>3 DEF Concat
<1>5. ASSUME NEW g, Concat(ss, g)
      PROVE  g = f
  <2> DEFINE T == {k \in Nat : k \in 1..n /\ g[k] # f[k]}
  <2>1. g = [i \in 1..n |-> IF i = 1 THEN ss[i] ELSE g[i - 1] \o ss[i]]
    BY <1>5 DEF Concat
  <2>2. \A i \in 1..n : g[i] = IF i = 1 THEN ss[i] ELSE g[i - 1] \o ss[i]
    BY <2>1
  <2>3. \A i \in 1..n : f[i] = IF i = 1 THEN ss[i] ELSE f[i - 1] \o ss[i]
    BY <1>2 DEF Chain
  <2>4. ASSUME T # {} PROVE FALSE
    <3>1. PICK k \in T : \A m \in T : k <= m
      BY <2>4, LeastElement
    <3>2. k # 1
      BY <2>2, <2>3, <3>1
    <3>3. k - 1 \in 1..n /\ k - 1 \in Nat /\ ~(k <= k - 1)
      BY <3>1, <3>2, <1>1
    <3>4. g[k - 1] = f[k - 1]
      BY <3>1, <3>3
    <3> QED
      BY <2>2, <2>3, <3>1, <3>2, <3>4
  <2>5. \A i \in 1..n : g[i] = f[i]
    BY <2>4, <1>1
  <2> QED
    <3>1. f = [i \in 1..n |-> f[i]]
      BY <1>2 DEF Chain
    <3>2. DOMAIN g = 1..n
      BY <2>1
    <3>3. g = [i \in 1..n |-> g[i]]
      BY <2>1, <3>2
    <3> QED
      BY <2>5, <3>1, <3>3
<1>6. (CHOOSE g : Concat(ss, g)) = f
  BY <1>4, <1>5
<1>7. FlattenSeq(ss) = (CHOOSE g : Concat(ss, g))[n]
  BY <1>1 DEF FlattenSeq, Concat
<1> QED
  BY <1>2, <1>6, <1>7

\* Two sequences, one behind the other.
LEMMA Concatenated ==
  ASSUME NEW S, NEW s \in Seq(S), NEW t \in Seq(S)
  PROVE  /\ s \o t \in Seq(S) /\ Len(s \o t) = Len(s) + Len(t)
         /\ Len(s) \in Nat /\ Len(t) \in Nat
         /\ \A c \in 1..Len(s) : (s \o t)[c] = s[c]
         /\ \A c \in (Len(s) + 1)..(Len(s) + Len(t)) : (s \o t)[c] = t[c - Len(s)]
  OBVIOUS

LEMMA FlattenNothing ==
  ASSUME NEW ss, ss = <<>>
  PROVE  FlattenSeq(ss) = <<>>
<1>1. Len(ss) = 0
  OBVIOUS
<1> QED
  BY <1>1 DEF FlattenSeq

\* Element by element: what is put together of other elements.
Like(s, t, G) == Len(t) = Len(s) /\ \A j \in 1..Len(s) : t[j] = G[s[j]]

LEMMA LikeConcatenated ==
  ASSUME NEW S, NEW T, NEW s \in Seq(S), NEW r1 \in Seq(S), NEW t \in Seq(T), NEW r2 \in Seq(T),
         NEW G, Like(s, t, G), Like(r1, r2, G)
  PROVE  Like(s \o r1, t \o r2, G)
<1>1. /\ Len(s \o r1) = Len(s) + Len(r1) /\ Len(t \o r2) = Len(t) + Len(r2)
      /\ Len(t) = Len(s) /\ Len(r2) = Len(r1) /\ Len(s) \in Nat /\ Len(r1) \in Nat
  BY Concatenated DEF Like
<1>2. ASSUME NEW c \in 1..(Len(s) + Len(r1))
      PROVE  (t \o r2)[c] = G[(s \o r1)[c]]
  <2>1. CASE c \in 1..Len(s)
    <3>1. (s \o r1)[c] = s[c] /\ (t \o r2)[c] = t[c]
      BY <1>1, <2>1, Concatenated
    <3> QED
      BY <2>1, <3>1 DEF Like
  <2>2. CASE c \in (Len(s) + 1)..(Len(s) + Len(r1))
    <3>1. (s \o r1)[c] = r1[c - Len(s)]
      BY <2>2, Concatenated
    <3>2. (t \o r2)[c] = r2[c - Len(s)]
      BY <1>1, <2>2, Concatenated
    <3>3. c - Len(s) \in 1..Len(r1)
      BY <1>1, <2>2
    <3> QED
      BY <3>1, <3>2, <3>3 DEF Like
  <2> QED
    BY <1>1, <2>1, <2>2
<1> QED
  BY <1>1, <1>2 DEF Like

\* If the parts correspond element by element, so do the wholes.
LEMMA FlattenLike ==
  ASSUME NEW S, NEW T, NEW ss \in Seq(Seq(S)), NEW tt \in Seq(Seq(T)), NEW G,
         Len(tt) = Len(ss), \A i \in 1..Len(ss) : Like(ss[i], tt[i], G)
  PROVE  /\ FlattenSeq(ss) \in Seq(S) /\ FlattenSeq(tt) \in Seq(T)
         /\ Like(FlattenSeq(ss), FlattenSeq(tt), G)
<1> DEFINE n == Len(ss)
<1>1. n \in Nat
  OBVIOUS
<1>2. CASE n = 0
  <2>1. ss = <<>> /\ tt = <<>>
    BY <1>2
  <2>2. FlattenSeq(ss) = <<>> /\ FlattenSeq(tt) = <<>>
    BY <2>1, FlattenNothing
  <2>3. Len(<<>>) = 0 /\ <<>> \in Seq(S) /\ <<>> \in Seq(T)
    OBVIOUS
  <2> QED
    BY <2>2, <2>3 DEF Like
<1>3. CASE n # 0
  <2>1. ss # <<>> /\ tt # <<>> /\ n \in 1..n
    BY <1>1, <1>3
  <2>2. PICK f : Chain(S, ss, n, f) /\ FlattenSeq(ss) = f[n]
    BY <2>1, FlattenIs
  <2>3. PICK g : Chain(T, tt, n, g) /\ FlattenSeq(tt) = g[n]
    BY <2>1, FlattenIs
  <2>4. \A i \in 1..n : f[i] \in Seq(S) /\ g[i] \in Seq(T) /\ ss[i] \in Seq(S) /\ tt[i] \in Seq(T)
    <3>1. \A i \in 1..n : ss[i] \in Seq(S) /\ tt[i] \in Seq(T)
      OBVIOUS
    <3>2. \A i \in 1..n : f[i] \in Seq(S)
      BY <2>2, ChainType
    <3>3. \A i \in 1..n : g[i] \in Seq(T)
      BY <2>3, ChainType
    <3> QED
      BY <3>1, <3>2, <3>3
  <2> DEFINE Q == {k \in Nat : k \in 1..n /\ ~Like(f[k], g[k], G)}
  <2>5. ASSUME Q # {} PROVE FALSE
    <3>1. PICK k \in Q : \A m \in Q : k <= m
      BY <2>5, LeastElement
    <3>2. k \in Nat /\ k \in 1..n /\ ~Like(f[k], g[k], G)
      BY <3>1
    <3>3. CASE k = 1
      <4>1. f[1] = ss[1] /\ g[1] = tt[1]
        BY <3>2, <3>3, <2>2, <2>3 DEF Chain
      <4> QED
        BY <3>2, <3>3, <4>1
    <3>4. CASE k # 1
      <4>1. k - 1 \in 1..n /\ k - 1 \in Nat /\ ~(k <= k - 1)
        BY <3>2, <3>4, <1>1
      <4>2. Like(f[k - 1], g[k - 1], G)
        BY <3>1, <4>1
      <4>3. f[k] = f[k - 1] \o ss[k] /\ g[k] = g[k - 1] \o tt[k]
        BY <3>2, <3>4, <2>2, <2>3 DEF Chain
      <4>4. Like(f[k - 1] \o ss[k], g[k - 1] \o tt[k], G)
        BY <2>4, <3>2, <4>1, <4>2, LikeConcatenated
      <4> QED
        BY <3>2, <4>3, <4>4
    <3> QED
      BY <3>3, <3>4
  <2>6. Like(f[n], g[n], G)
    BY <2>1, <2>5, <1>1
  <2> QED
    BY <2>1, <2>2, <2>3, <2>4, <2>6
<1> QED
  BY <1>2, <1>3

Occurs(x, s) == \E j \in 1..Len(s) : s[j] = x

LEMMA OccursConcatenated ==
  ASSUME NEW S, NEW s \in Seq(S), NEW t \in Seq(S), NEW x
  PROVE  Occurs(x, s \o t) <=> Occurs(x, s) \/ Occurs(x, t)
<1>1. /\ Len(s \o t) = Len(s) + Len(t) /\ Len(s) \in Nat /\ Len(t) \in Nat
      /\ \A c \in 1..Len(s) : (s \o t)[c] = s[c]
      /\ \A c \in (Len(s) + 1)..(Len(s) + Len(t)) : (s \o t)[c] = t[c - Len(s)]
  BY Concatenated
<1>2. ASSUME NEW j \in 1..Len(t)
      PROVE  j + Len(s) \in 1..Len(s \o t) /\ (s \o t)[j + Len(s)] = t[j]
  <2>1. j + Len(s) \in (Len(s) + 1)..(Len(s) + Len(t)) /\ (j + Len(s)) - Len(s) = j
    BY <1>1
  <2> QED
    BY <1>1, <2>1
<1>3. ASSUME NEW c \in 1..Len(s \o t)
      PROVE  \/ c \in 1..Len(s) /\ (s \o t)[c] = s[c]
             \/ c - Len(s) \in 1..Len(t) /\ (s \o t)[c] = t[c - Len(s)]
  BY <1>1
<1>4. \A c \in 1..Len(s) : c \in 1..Len(s \o t)
  BY <1>1
<1>5. Occurs(x, s \o t) => Occurs(x, s) \/ Occurs(x, t)
  BY <1>3 DEF Occurs
<1>6. Occurs(x, s) => Occurs(x, s \o t)
  BY <1>1, <1>4 DEF Occurs
<1>7. Occurs(x, t) => Occurs(x, s \o t)
  BY <1>2 DEF Occurs
<1> QED
  BY <1>5, <1>6, <1>7

\* What occurs in the whole is what occurs in a part.
LEMMA FlattenHas ==
  ASSUME NEW S, NEW ss \in Seq(Seq(S)), NEW x
  PROVE  Occurs(x, FlattenSeq(ss)) <=> \E i \in 1..Len(ss) : Occurs(x, ss[i])
<1> DEFINE n == Len(ss)
<1>1. n \in Nat
  OBVIOUS
<1>2. CASE n = 0
  <2>1. ss = <<>>
    BY <1>2
  <2>2. FlattenSeq(ss) = <<>>
    BY <2>1, FlattenNothing
  <2>3. Len(<<>>) = 0 /\ 1..0 = {}
    OBVIOUS
  <2> QED
    BY <1>2, <2>2, <2>3 DEF Occurs
<1>3. CASE n # 0
  <2>1. ss # <<>> /\ n \in 1..n
    BY <1>1, <1>3
  <2>2. PICK f : Chain(S, ss, n, f) /\ FlattenSeq(ss) = f[n]
    BY <2>1, FlattenIs
  <2>4. \A i \in 1..n : f[i] \in Seq(S) /\ ss[i] \in Seq(S)
    <3>1. \A i \in 1..n : ss[i] \in Seq(S)
      OBVIOUS
    <3> QED
      BY <2>2, <3>1, ChainType
  <2> DEFINE Upto(k) == Occurs(x, f[k]) <=> \E i \in 1..k : Occurs(x, ss[i])
             Q == {k \in Nat : k \in 1..n /\ ~Upto(k)}
  <2>5. ASSUME Q # {} PROVE FALSE
    <3>1. PICK k \in Q : \A m \in Q : k <= m
      BY <2>5, LeastElement
    <3>2. k \in Nat /\ k \in 1..n /\ ~Upto(k)
      BY <3>1
    <3>3. CASE k = 1
      <4>0. f[1] = ss[1]
        BY <3>2, <3>3, <2>2 DEF Chain
      <4>1. f[1] = ss[1] /\ 1..1 = {1}
        BY <4>0
      <4> QED
        BY <3>2, <3>3, <4>1
    <3>4. CASE k # 1
      <4>1. k - 1 \in 1..n /\ k - 1 \in Nat /\ ~(k <= k - 1)
        BY <3>2, <3>4, <1>1
      <4>2. Upto(k - 1)
        <5>1. k - 1 \notin Q
          <6> HIDE DEF Q
          <6> QED
            BY <3>1, <4>1
        <5> HIDE DEF Upto
        <5> QED
          BY <4>1, <5>1
      <4>3. f[k] = f[k - 1] \o ss[k]
        BY <3>2, <3>4, <2>2 DEF Chain
      <4>4. Occurs(x, f[k]) <=> Occurs(x, f[k - 1]) \/ Occurs(x, ss[k])
        <5>1. f[k - 1] \in Seq(S) /\ ss[k] \in Seq(S)
          BY <2>4, <3>2, <4>1
        <5> QED
          BY <4>3, <5>1, OccursConcatenated
      <4>5. 1..k = 1..(k - 1) \cup {k}
        BY <3>2, <4>1
      <4> QED
        BY <3>2, <4>2, <4>4, <4>5
    <3> QED
      BY <3>3, <3>4
  <2>6. Upto(n)
    <3>1. n \notin Q
      BY <2>5
    <3> HIDE DEF Upto
    <3> QED
      BY <1>1, <2>1, <3>1
  <2> QED
    BY <2>2, <2>6
<1> QED
  BY <1>2, <1>3

----------------------------------------------------------------------------
\* What is written, place by place.
LEMMA ToSetIs ==
  ASSUME NEW S, NEW s \in Seq(S), NEW x
  PROVE  x \in ToSet(s) <=> Occurs(x, s)
<1>1. DOMAIN s = 1..Len(s)
  OBVIOUS
<1> QED
  BY <1>1 DEF ToSet, Occurs

LEMMA OccursAlone == ASSUME NEW x, NEW a PROVE Occurs(x, <<a>>) <=> x = a
<1>1. Len(<<a>>) = 1 /\ <<a>>[1] = a /\ 1..1 = {1}
  OBVIOUS
<1> QED
  BY <1>1 DEF Occurs

LEMMA OccursNowhere == ASSUME NEW x PROVE ~Occurs(x, <<>>)
<1>1. Len(<<>>) = 0 /\ 1..0 = {}
  OBVIOUS
<1> QED
  BY <1>1 DEF Occurs

\* The columns that are written are those asked for that the Table has.
LEMMA ValidIdsAre ==
  ASSUME NEW t, IsTable(t), NEW ids \in Seq(Nat)
  PROVE  /\ ValidIds(t, ids) \in Seq(DOMAIN t.fields)
         /\ \A id : Occurs(id, ValidIds(t, ids)) <=> Occurs(id, ids) /\ id \in DOMAIN t.fields
<1> DEFINE D == DOMAIN t.fields
           ss == [i \in 1..Len(ids) |-> IF ids[i] \in D THEN <<ids[i]>> ELSE <<>>]
<1>1. Len(ids) \in Nat /\ DOMAIN ids = 1..Len(ids)
  OBVIOUS
<1>2. ValidIds(t, ids) = FlattenSeq(ss)
  BY <1>1 DEF ValidIds, is_valid_col_idx
<1>3. \A i \in 1..Len(ids) : ss[i] = IF ids[i] \in D THEN <<ids[i]>> ELSE <<>>
  OBVIOUS
<1>4. \A i \in 1..Len(ids) : ss[i] \in Seq(D)
  <2> SUFFICES ASSUME NEW i \in 1..Len(ids) PROVE ss[i] \in Seq(D)
    OBVIOUS
  <2>1. PICK E : E = D
    OBVIOUS
  <2>2. PICK a : a = ids[i]
    OBVIOUS
  <2>3. ss[i] = IF a \in E THEN <<a>> ELSE <<>>
    BY <1>3, <2>1, <2>2, Zenon
  <2>4. <<>> \in Seq(E) /\ (a \in E => <<a>> \in Seq(E))
    OBVIOUS
  <2>5. ss[i] \in Seq(E)
    BY <2>3, <2>4
  <2> QED
    BY <2>1, <2>5
<1>5. DOMAIN ss = 1..Len(ids) /\ ss = [i \in 1..Len(ids) |-> ss[i]]
  OBVIOUS
<1> HIDE DEF D, ss
<1>6. ss \in Seq(Seq(D)) /\ Len(ss) = Len(ids)
  BY <1>1, <1>4, <1>5
<1>7. FlattenSeq(ss) \in Seq(D)
  <2> DEFINE G == [x \in D |-> x]
  <2>1. \A i \in 1..Len(ss) : ss[i] \in Seq(D)
    BY <1>6
  <2>2. \A s \in Seq(D) : Like(s, s, G)
    BY DEF Like
  <2> HIDE DEF G
  <2> QED
    BY <1>6, <2>1, <2>2, FlattenLike
<1>8. ASSUME NEW id
      PROVE  Occurs(id, FlattenSeq(ss)) <=> Occurs(id, ids) /\ id \in D
  <2>1. Occurs(id, FlattenSeq(ss)) <=> \E i \in 1..Len(ss) : Occurs(id, ss[i])
    BY <1>6, FlattenHas
  <2>2. ASSUME NEW i \in 1..Len(ss)
        PROVE  Occurs(id, ss[i]) <=> ids[i] = id /\ id \in D
    <3>1. CASE ids[i] \in D
      <4>1. ss[i] = <<ids[i]>>
        BY <1>3, <1>6, <2>2, <3>1
      <4>2. Occurs(id, <<ids[i]>>) <=> id = ids[i]
        BY OccursAlone
      <4> QED
        BY <3>1, <4>1, <4>2
    <3>2. CASE ids[i] \notin D
      <4>1. ss[i] = <<>>
        BY <1>3, <1>6, <2>2, <3>2
      <4> QED
        BY <3>2, <4>1, OccursNowhere
    <3> QED
      BY <3>1, <3>2
  <2> QED
    BY <1>6, <2>1, <2>2 DEF Occurs
<1> QED
  BY <1>2, <1>7, <1>8 DEF D

\* The places of a file: one column is made of each string, as many of an array as it
\* may have elements.
SizeOf(t, id) == IF t.fields[id].type = "char" THEN 1 ELSE t.fields[id].size
HeadsOf(t, ids) ==
  FlattenSeq([i \in DOMAIN ids |->
    [j \in 1..(IF t.fields[ids[i]].type = "char" THEN 1 ELSE t.fields[ids[i]].size) |-> <<ids[i], j>>]])

\* The heading and the text at a place.
HeadingAt(t, w, p) ==
  [name |-> NameOf(t.fields[p[1]], p[2] - 1), type |-> ActiveType(t, p[1]),
   unit |-> t.fields[p[1]].unit, null |-> NullText(t.fields[p[1]]),
   width |-> WidthAt(w, p[1]), barred |-> t.fields[p[1]].bar = "null"]
TextAt(t, cells, p) ==
  IF cells[p[1]].null THEN NullText(t.fields[p[1]])
  ELSE IF p[2] \in DOMAIN cells[p[1]].texts THEN cells[p[1]].texts[p[2]] ELSE Zero

Places(t) == (DOMAIN t.fields) \X Nat

LEMMA FieldFacts ==
  ASSUME NEW t, IsTable(t), NEW id \in DOMAIN t.fields
  PROVE  /\ IsField(t.fields[id]) /\ t.fields[id].size \in Nat \ {0}
         /\ SizeOf(t, id) \in Nat \ {0}
  BY DEF IsTable, IsField, SizeOf

\* Types are widened for the file; the number of columns made of one stays.
LEMMA Sizes ==
  ASSUME NEW t, IsTable(t), ~Unsupported(t), NEW id \in DOMAIN t.fields
  PROVE  /\ EffectiveSize(t, id) = SizeOf(t, id)
         /\ ActiveType(t, id) = "char" => SizeOf(t, id) = 1
         /\ t.fields[id].type = "char" => ActiveType(t, id) = "char"
         /\ ActiveType(t, id) \in DOMAIN TYPE_NAME
<1>1. Large(t, id) => t.fields[id].size = 1
  BY FieldFacts DEF Unsupported
<1>2. t.fields[id].type \in DOMAIN TYPE_NAME
  BY FieldFacts DEF IsField
<1>3. "char" \in DOMAIN TYPE_NAME /\ "int64" \in DOMAIN TYPE_NAME
  BY DEF TYPE_NAME
<1> QED
  BY <1>1, <1>2, <1>3 DEF EffectiveSize, ActiveType, SizeOf, Large

\* The places of a column.
PlacesOf(t, id) == [j \in 1..SizeOf(t, id) |-> <<id, j>>]

LEMMA PlacesOfColumn ==
  ASSUME NEW t, IsTable(t), NEW id \in DOMAIN t.fields
  PROVE  /\ PlacesOf(t, id) \in Seq(Places(t)) /\ Len(PlacesOf(t, id)) = SizeOf(t, id)
         /\ SizeOf(t, id) \in Nat
         /\ \A j \in 1..SizeOf(t, id) : PlacesOf(t, id)[j] = <<id, j>>
<1>1. PICK n \in Nat : n = SizeOf(t, id)
  BY FieldFacts
<1>2. PICK P : P = Places(t)
  OBVIOUS
<1>3. \A j \in 1..n : <<id, j>> \in P
  BY <1>1, <1>2 DEF Places
<1>4. PlacesOf(t, id) = [j \in 1..n |-> <<id, j>>]
  BY <1>1 DEF PlacesOf
<1>5. [j \in 1..n |-> <<id, j>>] \in Seq(P) /\ Len([j \in 1..n |-> <<id, j>>]) = n
  BY <1>1, <1>3
<1> QED
  BY <1>1, <1>2, <1>4, <1>5

\* The places asked for are those of one column behind those of another.
LEMMA HeadsAre ==
  ASSUME NEW t, IsTable(t), NEW ids \in Seq(DOMAIN t.fields)
  PROVE  \E ss \in Seq(Seq(Places(t))) :
           /\ HeadsOf(t, ids) = FlattenSeq(ss) /\ Len(ss) = Len(ids)
           /\ \A i \in 1..Len(ids) : ss[i] = PlacesOf(t, ids[i])
<1> DEFINE ss == [i \in 1..Len(ids) |-> PlacesOf(t, ids[i])]
<1>1. Len(ids) \in Nat /\ DOMAIN ids = 1..Len(ids)
  OBVIOUS
<1>2. \A i \in 1..Len(ids) : PlacesOf(t, ids[i]) \in Seq(Places(t))
  <2> SUFFICES ASSUME NEW i \in 1..Len(ids) PROVE PlacesOf(t, ids[i]) \in Seq(Places(t))
    OBVIOUS
  <2>1. ids[i] \in DOMAIN t.fields
    OBVIOUS
  <2> QED
    BY <2>1, PlacesOfColumn
<1>3. HeadsOf(t, ids) = FlattenSeq(ss)
  BY <1>1 DEF HeadsOf, PlacesOf, SizeOf
<1>4. PICK U : U = Seq(Places(t))
  OBVIOUS
<1>5. ss \in Seq(U) /\ Len(ss) = Len(ids) /\ \A i \in 1..Len(ids) : ss[i] = PlacesOf(t, ids[i])
  BY <1>1, <1>2, <1>4
<1> HIDE DEF ss
<1> QED
  BY <1>3, <1>4, <1>5

\* What is written column by column is at the place of the same number.
LEMMA PlacedLike ==
  ASSUME NEW t, IsTable(t), NEW ids \in Seq(DOMAIN t.fields),
         NEW T, NEW tt \in Seq(Seq(T)), NEW G, Len(tt) = Len(ids),
         \A i \in 1..Len(ids) : /\ Len(tt[i]) = SizeOf(t, ids[i])
                                /\ \A j \in 1..SizeOf(t, ids[i]) : tt[i][j] = G[<<ids[i], j>>]
  PROVE  /\ HeadsOf(t, ids) \in Seq(Places(t)) /\ FlattenSeq(tt) \in Seq(T)
         /\ Like(HeadsOf(t, ids), FlattenSeq(tt), G)
<1>1. PICK ss \in Seq(Seq(Places(t))) :
        /\ HeadsOf(t, ids) = FlattenSeq(ss) /\ Len(ss) = Len(ids)
        /\ \A i \in 1..Len(ids) : ss[i] = PlacesOf(t, ids[i])
  BY HeadsAre
<1>2. \A i \in 1..Len(ss) : Like(ss[i], tt[i], G)
  <2> SUFFICES ASSUME NEW i \in 1..Len(ids) PROVE Like(ss[i], tt[i], G)
    BY <1>1
  <2>1. ids[i] \in DOMAIN t.fields
    OBVIOUS
  <2>2. PICK p : p = PlacesOf(t, ids[i])
    OBVIOUS
  <2>3. Len(p) = SizeOf(t, ids[i]) /\ \A j \in 1..SizeOf(t, ids[i]) : p[j] = <<ids[i], j>>
    BY <2>1, <2>2, PlacesOfColumn
  <2>4. ss[i] = p
    BY <1>1, <2>2
  <2> QED
    BY <2>3, <2>4 DEF Like
<1>3. PICK P : P = Places(t)
  OBVIOUS
<1>4. ss \in Seq(Seq(P)) /\ Len(tt) = Len(ss)
  BY <1>1, <1>3
<1>5. /\ FlattenSeq(ss) \in Seq(P) /\ FlattenSeq(tt) \in Seq(T)
      /\ Like(FlattenSeq(ss), FlattenSeq(tt), G)
  BY <1>2, <1>4, FlattenLike
<1> QED
  BY <1>1, <1>3, <1>5

\* The places of the columns asked for, and no others.
LEMMA HeadsHave ==
  ASSUME NEW t, IsTable(t), NEW ids \in Seq(DOMAIN t.fields), NEW p
  PROVE  /\ HeadsOf(t, ids) \in Seq(Places(t))
         /\ Occurs(p, HeadsOf(t, ids))
              <=> \E id \in DOMAIN t.fields : \E j \in 1..SizeOf(t, id) :
                    Occurs(id, ids) /\ p = <<id, j>>
<1>1. PICK ss \in Seq(Seq(Places(t))) :
        /\ HeadsOf(t, ids) = FlattenSeq(ss) /\ Len(ss) = Len(ids)
        /\ \A i \in 1..Len(ids) : ss[i] = PlacesOf(t, ids[i])
  BY HeadsAre
<1>2. \A i \in 1..Len(ids) : ids[i] \in DOMAIN t.fields
  OBVIOUS
<1>3. \A i \in 1..Len(ids) :
        Occurs(p, ss[i]) <=> \E j \in 1..SizeOf(t, ids[i]) : p = <<ids[i], j>>
  <2> SUFFICES ASSUME NEW i \in 1..Len(ids)
               PROVE  Occurs(p, ss[i]) <=> \E j \in 1..SizeOf(t, ids[i]) : p = <<ids[i], j>>
    OBVIOUS
  <2>2. PICK s : s = PlacesOf(t, ids[i])
    OBVIOUS
  <2>3. Len(s) = SizeOf(t, ids[i]) /\ \A j \in 1..SizeOf(t, ids[i]) : s[j] = <<ids[i], j>>
    BY <1>2, <2>2, PlacesOfColumn
  <2>4. ss[i] = s
    BY <1>1, <2>2
  <2> QED
    BY <2>3, <2>4 DEF Occurs
<1>4. Occurs(p, HeadsOf(t, ids)) <=> \E i \in 1..Len(ids) : Occurs(p, ss[i])
  BY <1>1, FlattenHas
<1>5. HeadsOf(t, ids) \in Seq(Places(t))
  <2> DEFINE G == [x \in Places(t) |-> x]
  <2>1. \A i \in 1..Len(ss) : ss[i] \in Seq(Places(t))
    BY <1>1
  <2>2. \A s \in Seq(Places(t)) : Like(s, s, G)
    BY DEF Like
  <2> HIDE DEF G
  <2> QED
    BY <1>1, <2>1, <2>2, FlattenLike
<1> QED
  BY <1>2, <1>3, <1>4, <1>5 DEF Occurs

\* There is one heading for each place.
LEMMA HeadingsAre ==
  ASSUME NEW t, IsTable(t), ~Unsupported(t), NEW ids \in Seq(DOMAIN t.fields), NEW w
  PROVE  /\ IsList(Headings(t, ids, w)) /\ Len(Headings(t, ids, w)) = Len(HeadsOf(t, ids))
         /\ \A c \in 1..Len(HeadsOf(t, ids)) :
              Headings(t, ids, w)[c] = HeadingAt(t, w, HeadsOf(t, ids)[c])
<1> DEFINE P == Places(t)
           T == {HeadingAt(t, w, p) : p \in P}
           G == [p \in P |-> HeadingAt(t, w, p)]
           of(id) == [j \in 1..SizeOf(t, id) |-> HeadingAt(t, w, <<id, j>>)]
           tt == [i \in 1..Len(ids) |-> of(ids[i])]
<1>1. Len(ids) \in Nat /\ DOMAIN ids = 1..Len(ids) /\ \A i \in 1..Len(ids) : ids[i] \in DOMAIN t.fields
  OBVIOUS
<1>2. Headings(t, ids, w) = FlattenSeq(tt)
  <2>1. ASSUME NEW i \in 1..Len(ids)
        PROVE  [j \in 1..EffectiveSize(t, ids[i]) |->
                  [name |-> NameOf(t.fields[ids[i]], j - 1), type |-> ActiveType(t, ids[i]),
                   unit |-> t.fields[ids[i]].unit, null |-> NullText(t.fields[ids[i]]),
                   width |-> WidthAt(w, ids[i]), barred |-> t.fields[ids[i]].bar = "null"]]
               = of(ids[i])
    <3>1. EffectiveSize(t, ids[i]) = SizeOf(t, ids[i])
      BY <1>1, Sizes
    <3> QED
      BY <3>1 DEF HeadingAt
  <2> HIDE DEF of
  <2> QED
    BY <1>1, <2>1 DEF Headings
<1>3. ASSUME NEW id \in DOMAIN t.fields
      PROVE  /\ of(id) \in Seq(T) /\ Len(of(id)) = SizeOf(t, id)
             /\ \A j \in 1..SizeOf(t, id) : of(id)[j] = G[<<id, j>>]
  <2>1. PICK n \in Nat : n = SizeOf(t, id)
    BY PlacesOfColumn
  <2>2. \A j \in 1..n : <<id, j>> \in P
    BY DEF Places
  <2>3. \A j \in 1..n : HeadingAt(t, w, <<id, j>>) \in T /\ HeadingAt(t, w, <<id, j>>) = G[<<id, j>>]
    BY <2>2
  <2>4. of(id) = [j \in 1..n |-> HeadingAt(t, w, <<id, j>>)]
    BY <2>1
  <2> HIDE DEF T, G, of
  <2>5. of(id) \in Seq(T) /\ Len(of(id)) = n
    BY <2>3, <2>4
  <2>6. \A j \in 1..n : of(id)[j] = HeadingAt(t, w, <<id, j>>)
    BY <2>4
  <2> QED
    BY <2>1, <2>3, <2>5, <2>6
<1> HIDE DEF of, T, G, P
<1>4. PICK U : U = Seq(T)
  OBVIOUS
<1>5. tt \in Seq(U) /\ Len(tt) = Len(ids)
  BY <1>1, <1>3, <1>4
<1>6. \A i \in 1..Len(ids) : tt[i] = of(ids[i])
  OBVIOUS
<1> HIDE DEF tt
<1>7. \A i \in 1..Len(ids) : /\ Len(tt[i]) = SizeOf(t, ids[i])
                             /\ \A j \in 1..SizeOf(t, ids[i]) : tt[i][j] = G[<<ids[i], j>>]
  BY <1>1, <1>3, <1>6
<1>8. /\ HeadsOf(t, ids) \in Seq(P) /\ FlattenSeq(tt) \in Seq(T)
      /\ Like(HeadsOf(t, ids), FlattenSeq(tt), G)
  BY <1>4, <1>5, <1>7, PlacedLike DEF P
<1>9. \A c \in 1..Len(HeadsOf(t, ids)) :
        HeadsOf(t, ids)[c] \in P /\ G[HeadsOf(t, ids)[c]] = HeadingAt(t, w, HeadsOf(t, ids)[c])
  BY <1>8 DEF G
<1>10. IsList(FlattenSeq(tt))
  BY <1>8 DEF IsList
<1> QED
  BY <1>2, <1>8, <1>9, <1>10 DEF Like

\* The text at a place.
TextsAt(t, cells, id) == [j \in 1..SizeOf(t, id) |-> TextAt(t, cells, <<id, j>>)]

\* A column writes one text for each of its places, whatever the length of its array.
LEMMA TextsAre ==
  ASSUME NEW t, IsTable(t), ~Unsupported(t), NEW i \in DOMAIN t.rows, NEW id \in DOMAIN t.fields,
         NEW cells, cells = t.rows[i]
  PROVE  Texts(t, id, cells) = TextsAt(t, cells, id)
<1> DEFINE f == t.fields[id]
           cell == cells[id]
           x == Texts(t, id, cells)
           n == SizeOf(t, id)
<1> SUFFICES x = [j \in 1..n |-> TextAt(t, cells, <<id, j>>)]
  BY Zenon DEF TextsAt
<1>1. IsCell(f, cell)
  BY DEF IsTable
<1>2. x = IF cell.null THEN [j \in 1..EffectiveSize(t, id) |-> NullText(f)]
          ELSE IF f.type = "char" THEN cell.texts ELSE Numbers(f, cell)
  BY DEF Texts
<1>3. EffectiveSize(t, id) = n
  BY Sizes
<1>4. \A j : TextAt(t, cells, <<id, j>>) =
               IF cell.null THEN NullText(f)
               ELSE IF j \in DOMAIN cell.texts THEN cell.texts[j] ELSE Zero
  BY DEF TextAt
<1>5. CASE cell.null
  <2>1. \A j \in 1..n : TextAt(t, cells, <<id, j>>) = NullText(f)
    BY <1>4, <1>5
  <2> HIDE DEF n, x, f, cell
  <2> QED
    BY <1>2, <1>3, <1>5, <2>1 DEF x, n
<1>6. CASE ~cell.null /\ f.type = "char"
  <2>1. n = 1
    BY <1>6 DEF SizeOf
  <2>2. PICK s : s = cell.texts
    OBVIOUS
  <2>3. Len(s) = 1 /\ s = [j \in 1..1 |-> s[j]]
    BY <1>1, <1>6, <2>2 DEF IsCell, IsList
  <2>4. 1 \in DOMAIN s
    BY <2>3
  <2>5. \A j \in 1..1 : TextAt(t, cells, <<id, j>>) = s[j]
    BY <1>4, <1>6, <2>2, <2>4
  <2>6. x = s
    BY <1>2, <1>6, <2>2
  <2> HIDE DEF n, x, f, cell
  <2>7. s = [j \in 1..1 |-> TextAt(t, cells, <<id, j>>)]
    BY <2>3, <2>5
  <2> QED
    BY <2>1, <2>6, <2>7 DEF x, n
<1>7. CASE ~cell.null /\ f.type # "char"
  <2>1. n = f.size
    BY <1>7 DEF SizeOf
  <2>2. x = [j \in 1..f.size |-> IF j \in DOMAIN cell.texts THEN cell.texts[j] ELSE Zero]
    BY <1>2, <1>7 DEF Numbers
  <2> HIDE DEF n, x, f, cell
  <2> QED
    BY <1>4, <1>7, <2>1, <2>2 DEF x, n
<1> QED
  BY <1>1, <1>5, <1>6, <1>7 DEF IsCell

\* There is one text for each place.
LEMMA RecordIs ==
  ASSUME NEW t, IsTable(t), ~Unsupported(t), NEW ids \in Seq(DOMAIN t.fields),
         NEW i \in DOMAIN t.rows, NEW cells, cells = t.rows[i],
         NEW r, r = write_single_record(t, ids, cells)
  PROVE  /\ IsList(r) /\ Len(r) = Len(HeadsOf(t, ids))
         /\ \A c \in 1..Len(HeadsOf(t, ids)) : r[c] = TextAt(t, cells, HeadsOf(t, ids)[c])
<1> DEFINE P == Places(t)
           T == {TextAt(t, cells, p) : p \in P}
           G == [p \in P |-> TextAt(t, cells, p)]
           of(id) == TextsAt(t, cells, id)
           tt == [k \in 1..Len(ids) |-> of(ids[k])]
<1>1. Len(ids) \in Nat /\ DOMAIN ids = 1..Len(ids) /\ \A k \in 1..Len(ids) : ids[k] \in DOMAIN t.fields
  OBVIOUS
<1>2. r = FlattenSeq(tt)
  <2>0. \A id \in DOMAIN t.fields : Texts(t, id, cells) = of(id)
    <3> SUFFICES ASSUME NEW id \in DOMAIN t.fields PROVE Texts(t, id, cells) = of(id)
      OBVIOUS
    <3> HIDE DEF of
    <3>1. Texts(t, id, cells) = TextsAt(t, cells, id)
      BY TextsAre
    <3> QED
      BY <3>1 DEF of
  <2>1. \A k \in 1..Len(ids) : Texts(t, ids[k], cells) = of(ids[k])
    <3> HIDE DEF of
    <3> QED
      BY <1>1, <2>0
  <2> HIDE DEF of
  <2> QED
    BY <1>1, <2>1 DEF write_single_record
<1>3. ASSUME NEW id \in DOMAIN t.fields
      PROVE  /\ of(id) \in Seq(T) /\ Len(of(id)) = SizeOf(t, id)
             /\ \A j \in 1..SizeOf(t, id) : of(id)[j] = G[<<id, j>>]
  <2>1. PICK n \in Nat : n = SizeOf(t, id)
    BY PlacesOfColumn
  <2>2. \A j \in 1..n : <<id, j>> \in P
    BY DEF Places
  <2>3. \A j \in 1..n : TextAt(t, cells, <<id, j>>) \in T /\ TextAt(t, cells, <<id, j>>) = G[<<id, j>>]
    BY <2>2
  <2>4. of(id) = [j \in 1..n |-> TextAt(t, cells, <<id, j>>)]
    BY <2>1 DEF TextsAt
  <2> HIDE DEF T, G, of
  <2>5. of(id) \in Seq(T) /\ Len(of(id)) = n
    BY <2>3, <2>4
  <2>6. \A j \in 1..n : of(id)[j] = TextAt(t, cells, <<id, j>>)
    BY <2>4
  <2> QED
    BY <2>1, <2>3, <2>5, <2>6
<1> HIDE DEF of, T, G, P
<1>4. PICK U : U = Seq(T)
  OBVIOUS
<1>5. tt \in Seq(U) /\ Len(tt) = Len(ids)
  BY <1>1, <1>3, <1>4
<1>6. \A k \in 1..Len(ids) : tt[k] = of(ids[k])
  OBVIOUS
<1> HIDE DEF tt
<1>7. \A k \in 1..Len(ids) : /\ Len(tt[k]) = SizeOf(t, ids[k])
                             /\ \A j \in 1..SizeOf(t, ids[k]) : tt[k][j] = G[<<ids[k], j>>]
  BY <1>1, <1>3, <1>6
<1>8. /\ HeadsOf(t, ids) \in Seq(P) /\ FlattenSeq(tt) \in Seq(T)
      /\ Like(HeadsOf(t, ids), FlattenSeq(tt), G)
  BY <1>4, <1>5, <1>7, PlacedLike DEF P
<1>9. \A c \in 1..Len(HeadsOf(t, ids)) :
        HeadsOf(t, ids)[c] \in P /\ G[HeadsOf(t, ids)[c]] = TextAt(t, cells, HeadsOf(t, ids)[c])
  BY <1>8 DEF G
<1>10. IsList(FlattenSeq(tt))
  <2>1. \A s \in Seq(T) : Len(s) \in Nat /\ s = [k \in 1..Len(s) |-> s[k]]
    OBVIOUS
  <2> QED
    BY <1>8, <2>1 DEF IsList
<1> QED
  BY <1>2, <1>8, <1>9, <1>10 DEF Like

----------------------------------------------------------------------------
\* How wide the columns are.
LEMMA MaxIs ==
  ASSUME NEW S, S \subseteq Nat, S # {}, NEW b \in Nat, \A x \in S : x <= b
  PROVE  Max(S) \in S /\ \A x \in S : x <= Max(S)
<1> DEFINE U == {u \in Nat : \A x \in S : x <= u}
<1>1. PICK u \in U : \A v \in U : u <= v
  <2>1. b \in U /\ U \subseteq Nat
    OBVIOUS
  <2> HIDE DEF U
  <2> QED
    BY <2>1, LeastElement
<1>2. u \in Nat /\ \A x \in S : x <= u
  BY <1>1
<1>3. u \in S
  <2> SUFFICES ASSUME u \notin S PROVE FALSE
    OBVIOUS
  <2>0. \A x \in S : x \in Nat /\ x <= u /\ x # u
    BY <1>2
  <2>1. \A x \in S : x < u /\ x <= u - 1
    BY <1>2, <2>0
  <2>2. u - 1 \in Nat
    <3>1. PICK x \in S : TRUE
      OBVIOUS
    <3>2. x \in Nat /\ x <= u /\ x # u
      BY <2>0
    <3> QED
      BY <1>2, <3>2
  <2>3. u - 1 \in U
    BY <2>1, <2>2
  <2> HIDE DEF U
  <2> QED
    BY <1>1, <1>2, <2>3
<1>4. \E x \in S : \A y \in S : x >= y
  BY <1>2, <1>3
<1>5. Max(S) \in S /\ \A y \in S : Max(S) >= y
  BY <1>4, Zenon DEF Max
<1> QED
  BY <1>5

LEMMA MinOfTwo ==
  ASSUME NEW a \in Nat, NEW b \in Nat
  PROVE  Min({a, b}) \in Nat /\ Min({a, b}) <= a /\ Min({a, b}) <= b
<1>1. \E x \in {a, b} : \A y \in {a, b} : x =< y
  <2>1. CASE a <= b
    <3>1. \A y \in {a, b} : a =< y
      BY <2>1
    <3> QED
      BY <3>1
  <2>2. CASE b <= a
    <3>1. \A y \in {a, b} : b =< y
      BY <2>2
    <3> QED
      BY <3>1
  <2> QED
    BY <2>1, <2>2
<1>2. Min({a, b}) \in {a, b} /\ \A y \in {a, b} : Min({a, b}) =< y
  BY <1>1, Zenon DEF Min
<1> QED
  BY <1>2

\* Of finitely many numbers one bounds the others.
LEMMA BoundOf ==
  ASSUME NEW n \in Nat, NEW F, \A i \in 1..n : F[i] \in Nat
  PROVE  \E b \in Nat : \A i \in 1..n : F[i] <= b
<1> DEFINE Q == {k \in Nat : k <= n /\ ~\E b \in Nat : \A i \in 1..k : F[i] <= b}
<1>0. SUFFICES ASSUME Q # {} PROVE FALSE
  <2>1. n \notin Q /\ n <= n
    BY <1>0
  <2> QED
    BY <2>1
<1>1. PICK k \in Q : \A m \in Q : k <= m
  BY <1>0, LeastElement
<1>2. CASE k = 0
  <2>1. \A i \in 1..0 : F[i] <= 0
    OBVIOUS
  <2> QED
    BY <1>1, <1>2, <2>1
<1>3. CASE k # 0
  <2>1. k - 1 \in Nat /\ ~(k <= k - 1) /\ k - 1 <= n /\ k \in 1..n
    BY <1>1, <1>3
  <2>2. PICK b \in Nat : \A i \in 1..(k - 1) : F[i] <= b
    BY <1>1, <2>1
  <2>3. PICK x \in Nat : x = F[k]
    BY <2>1
  <2>4. \A i \in 1..k : i \in 1..(k - 1) \/ i = k
    BY <2>1
  <2>5. \A i \in 1..(k - 1) : F[i] \in Nat
    BY <2>1
  <2>6. \A i \in 1..k : F[i] <= b + x
    <3> SUFFICES ASSUME NEW i \in 1..k PROVE F[i] <= b + x
      OBVIOUS
    <3>1. CASE i = k
      BY <2>3, <3>1
    <3>2. CASE i \in 1..(k - 1)
      <4>1. F[i] \in Nat /\ F[i] <= b
        BY <2>2, <2>5, <3>2
      <4> QED
        BY <4>1
    <3> QED
      BY <2>4, <3>1, <3>2
  <2>7. b + x \in Nat
    OBVIOUS
  <2> QED
    BY <1>1, <2>6, <2>7
<1> QED
  BY <1>2, <1>3

LEMMA TypeNames ==
  ASSUME NEW type \in DOMAIN TYPE_NAME
  PROVE  /\ to_ipac_string(type) \in {"int", "long", "float", "double", "char"}
         /\ Len(to_ipac_string(type)) \in Nat
         /\ to_ipac_string(type) = "char" <=> type = "char"
<1>1. /\ to_ipac_string(type) \in {"int", "long", "float", "double", "char"}
      /\ to_ipac_string(type) = "char" <=> type = "char"
  BY DEF to_ipac_string, TYPE_NAME
<1> QED
  BY <1>1, WordsAssumption

\* A column without a null value of its own writes "null".
LEMMA NullTextFacts ==
  ASSUME NEW f, IsField(f)
  PROVE  /\ NullText(f).len \in Nat \ {0} /\ NullText(f).core \in Nat
         /\ NullText(f).core <= NullText(f).len
         /\ NullText(f).word \in {"marker", "null"}
         /\ f.null_text > 0 /\ ~f.null_blank => NullText(f).core > 0
         /\ f.null_text = 0 => NullText(f).core > 0 /\ NullText(f).word = "null"
         /\ f.null_text > 0 => NullText(f).word = "marker"
<1>1. Len(DEFAULT_NULL_VALUE) \in Nat \ {0}
  BY WordsAssumption
<1> QED
  BY <1>1 DEF NullText, IsField

\* The header of a column holds its name, type, unit and null value.
LEMMA HeaderWidthHolds ==
  ASSUME NEW f, IsField(f)
  PROVE  /\ HeaderWidth(f) \in Nat \ {0}
         /\ Len(to_ipac_string(f.type)) <= HeaderWidth(f)
         /\ Len(NameOf(f, f.size - 1)) <= HeaderWidth(f)
         /\ Len(f.unit) <= HeaderWidth(f) /\ NullText(f).len <= HeaderWidth(f)
<1>1. PICK a \in Nat : a = Len(to_ipac_string(f.type))
  BY TypeNames DEF IsField
<1>2. PICK b \in Nat : b = Len(NameOf(f, f.size - 1))
  BY DEF IsField
<1>3. PICK c \in Nat : c = Len(f.unit)
  BY DEF IsField
<1>4. PICK d \in Nat \ {0} : d = NullText(f).len
  BY NullTextFacts
<1> DEFINE S == {a, b, c, d}
<1>5. HeaderWidth(f) = Max(S)
  BY <1>1, <1>2, <1>3, <1>4 DEF HeaderWidth
<1>6. S \subseteq Nat /\ S # {} /\ a + b + c + d \in Nat /\ \A x \in S : x <= a + b + c + d
  OBVIOUS
<1>7. Max(S) \in S /\ \A x \in S : x <= Max(S)
  <2> HIDE DEF S
  <2> QED
    BY <1>6, MaxIs
<1> QED
  BY <1>1, <1>2, <1>3, <1>4, <1>5, <1>7

LEMMA ZeroIs == Zero.len = 1 /\ Zero.core = 1 /\ Zero.word = ""
  BY DEF Zero

\* What is written at a place: the null value, an element, or a zero behind the last one.
LEMMA TextAtFacts ==
  ASSUME NEW t, IsTable(t), ~Unsupported(t), NEW i \in DOMAIN t.rows, NEW id \in DOMAIN t.fields,
         NEW cells, cells = t.rows[i], NEW j \in 1..SizeOf(t, id), NEW x, x = TextAt(t, cells, <<id, j>>)
  PROVE  /\ x.len \in Nat /\ x.core \in Nat /\ x.core <= x.len /\ x.word \in {"", "marker", "null"}
         /\ cells[id].null => x = NullText(t.fields[id])
         /\ ~cells[id].null /\ j \in DOMAIN cells[id].texts =>
              x = cells[id].texts[j] /\ IsTextOf(t.fields[id], x)
         /\ ~cells[id].null /\ j \notin DOMAIN cells[id].texts => x = Zero
<1>1. IsCell(t.fields[id], cells[id]) /\ IsField(t.fields[id])
  BY DEF IsTable
<1>2. x = IF cells[id].null THEN NullText(t.fields[id])
          ELSE IF j \in DOMAIN cells[id].texts THEN cells[id].texts[j] ELSE Zero
  BY DEF TextAt
<1>3. cells[id].null \in BOOLEAN
  BY <1>1 DEF IsCell
<1>4. CASE cells[id].null
  <2>1. x = NullText(t.fields[id])
    BY <1>2, <1>4
  <2> QED
    BY <1>1, <1>4, <2>1, NullTextFacts
<1>5. CASE ~cells[id].null /\ j \in DOMAIN cells[id].texts
  <2>1. x = cells[id].texts[j]
    BY <1>2, <1>5
  <2>2. IsTextOf(t.fields[id], x)
    BY <1>1, <1>5, <2>1 DEF IsCell
  <2>3. x.len \in Nat /\ x.core \in Nat /\ x.core <= x.len /\ x.word \in {"", "marker", "null"}
    BY <2>2 DEF IsTextOf
  <2> QED
    BY <1>5, <2>1, <2>2, <2>3
<1>6. CASE ~cells[id].null /\ j \notin DOMAIN cells[id].texts
  <2>1. x = Zero
    BY <1>2, <1>6
  <2>2. x.len = 1 /\ x.core = 1 /\ x.word = ""
    BY <2>1, ZeroIs
  <2>3. x.word \in {"", "marker", "null"}
    BY <2>2
  <2>4. 1 \in Nat /\ 1 <= 1
    OBVIOUS
  <2>5. x.len \in Nat /\ x.core \in Nat /\ x.core <= x.len
    BY <2>2, <2>4, Zenon
  <2> QED
    BY <1>6, <2>1, <2>3, <2>5, Zenon
<1> QED
  BY <1>3, <1>4, <1>5, <1>6

LEMMA RowIdsAre ==
  ASSUME NEW t, IsTable(t), NEW request, IsRequest(request)
  PROVE  RowIds(t, request) \in Seq(Nat)
<1>1. Len(t.rows) \in Nat /\ DOMAIN t.rows = 1..Len(t.rows)
  <2>1. PICK s : s = t.rows
    OBVIOUS
  <2>2. Len(s) \in Nat /\ s = [i \in 1..Len(s) |-> s[i]]
    BY <2>1 DEF IsTable, IsList
  <2>3. DOMAIN s = 1..Len(s)
    BY <2>2
  <2> QED
    BY <2>1, <2>2, <2>3
<1>2. PICK n \in Nat : n = Len(t.rows)
  BY <1>1
<1>3. /\ request.row_list \in Seq(Nat) /\ request.row_id \in Nat
      /\ request.start_row \in Nat /\ request.row_count \in Nat
  BY DEF IsRequest
<1>4. get_all_row_ids(t) \in Seq(Nat)
  <2>1. get_all_row_ids(t) = [i \in 1..n |-> i - 1]
    BY <1>1, <1>2 DEF get_all_row_ids
  <2>2. \A i \in 1..n : i - 1 \in Nat
    OBVIOUS
  <2> QED
    BY <2>1, <2>2
<1>5. <<request.row_id>> \in Seq(Nat)
  BY <1>3
<1>6. ASSUME request.start_row < n
      PROVE  [i \in 1..Min({request.row_count, n - request.start_row}) |-> request.start_row + i - 1] \in Seq(Nat)
  <2>1. PICK a \in Nat : a = request.row_count
    BY <1>3
  <2>2. PICK s \in Nat : s = request.start_row
    BY <1>3
  <2>3. n - s \in Nat
    BY <1>6, <2>2
  <2>4. PICK m \in Nat : m = Min({a, n - s})
    BY <2>3, MinOfTwo
  <2>5. \A i \in 1..m : s + i - 1 \in Nat
    OBVIOUS
  <2>6. [i \in 1..m |-> s + i - 1] \in Seq(Nat)
    BY <2>5
  <2> QED
    BY <2>1, <2>2, <2>4, <2>6
<1> QED
  BY <1>2, <1>3, <1>4, <1>5, <1>6 DEF RowIds

\* The widths of the texts of a column, and of its header.
LEMMA WidthHolds ==
  ASSUME NEW t, IsTable(t), ~Unsupported(t), NEW row_ids \in Seq(Nat), RowIdsValid(t, row_ids),
         NEW id \in DOMAIN t.fields, NEW w, w = get_single_column_width(t, row_ids, id)
  PROVE  /\ w \in Nat \ {0} /\ HeaderWidth(t.fields[id]) <= w
         /\ \A k \in 1..Len(row_ids) : ~t.rows[row_ids[k] + 1][id].null =>
              \A j \in 1..SizeOf(t, id) : TextAt(t, t.rows[row_ids[k] + 1], <<id, j>>).len <= w
<1> DEFINE f == t.fields[id]
           m == Len(row_ids)
           n == SizeOf(t, id)
           h == HeaderWidth(f)
           row(k) == t.rows[row_ids[k] + 1]
           len(k, j) == TextAt(t, row(k), <<id, j>>).len
           present == {k \in 1..m : ~row(k)[id].null}
           S == {h} \cup UNION {{x.len : x \in ToSet(Texts(t, id, row(k)))} : k \in present}
<1>1. m \in Nat /\ DOMAIN row_ids = 1..m /\ n \in Nat /\ IsField(f)
  BY FieldFacts
<1>2. h \in Nat \ {0}
  BY <1>1, HeaderWidthHolds
<1>3. w = Max(S)
  BY <1>1 DEF get_single_column_width
<1>4. ASSUME NEW k \in 1..m
      PROVE  /\ row_ids[k] + 1 \in DOMAIN t.rows
             /\ {x.len : x \in ToSet(Texts(t, id, row(k)))} = {len(k, j) : j \in 1..n}
             /\ \A j \in 1..n : len(k, j) \in Nat
  <2>1. row_ids[k] + 1 \in DOMAIN t.rows
    <3>1. row_ids[k] \in Nat /\ row_ids[k] < Len(t.rows)
      BY <1>1 DEF RowIdsValid
    <3>2. PICK s : s = t.rows
      OBVIOUS
    <3>3. Len(s) \in Nat /\ s = [i \in 1..Len(s) |-> s[i]]
      BY <3>2 DEF IsTable, IsList
    <3>4. DOMAIN s = 1..Len(s) /\ row_ids[k] + 1 \in 1..Len(s)
      BY <3>1, <3>2, <3>3
    <3> QED
      BY <3>2, <3>4
  <2>2. PICK cells : cells = row(k)
    OBVIOUS
  <2>3. Texts(t, id, cells) = TextsAt(t, cells, id)
    BY <2>1, <2>2, TextsAre
  <2>4. ToSet(TextsAt(t, cells, id)) = {TextAt(t, cells, <<id, j>>) : j \in 1..n}
    BY DEF TextsAt, ToSet
  <2>5. \A j \in 1..n : TextAt(t, cells, <<id, j>>).len \in Nat
    BY <2>1, <2>2, TextAtFacts
  <2>6. {x.len : x \in ToSet(Texts(t, id, row(k)))} = {len(k, j) : j \in 1..n}
    <3>1. {x.len : x \in ToSet(Texts(t, id, cells))} = {TextAt(t, cells, <<id, j>>).len : j \in 1..n}
      <4> HIDE DEF n, f
      <4> QED
        BY <2>3, <2>4
    <3> HIDE DEF n, f
    <3> QED
      BY <2>2, <3>1
  <2> HIDE DEF n, f
  <2>7. \A j \in 1..n : len(k, j) \in Nat
    BY <2>2, <2>5
  <2> QED
    BY <2>1, <2>6, <2>7
<1> HIDE DEF h, f, n
<1>5. \A k \in 1..m : \E b \in Nat : \A j \in 1..n : len(k, j) <= b
  <2> SUFFICES ASSUME NEW k \in 1..m PROVE \E b \in Nat : \A j \in 1..n : len(k, j) <= b
    OBVIOUS
  <2> DEFINE F == [j \in 1..n |-> len(k, j)]
  <2>1. \A j \in 1..n : F[j] = len(k, j)
    OBVIOUS
  <2> HIDE DEF F, len
  <2>2. \A j \in 1..n : F[j] \in Nat
    BY <1>4, <2>1
  <2>3. PICK b \in Nat : \A j \in 1..n : F[j] <= b
    BY <1>1, <2>2, BoundOf
  <2> QED
    BY <2>1, <2>3
<1> DEFINE B == [k \in 1..m |-> CHOOSE b \in Nat : \A j \in 1..n : len(k, j) <= b]
<1>6. \A k \in 1..m : B[k] \in Nat /\ \A j \in 1..n : len(k, j) <= B[k]
  <2> SUFFICES ASSUME NEW k \in 1..m PROVE B[k] \in Nat /\ \A j \in 1..n : len(k, j) <= B[k]
    OBVIOUS
  <2>1. B[k] = CHOOSE b \in Nat : \A j \in 1..n : len(k, j) <= b
    OBVIOUS
  <2> HIDE DEF B, len
  <2> QED
    BY <1>5, <2>1
<1> HIDE DEF B
<1>7. PICK b \in Nat : \A k \in 1..m : B[k] <= b
  BY <1>1, <1>6, BoundOf
<1>8. \A k \in 1..m : \A j \in 1..n : len(k, j) \in Nat /\ len(k, j) <= b
  <2> SUFFICES ASSUME NEW k \in 1..m, NEW j \in 1..n PROVE len(k, j) \in Nat /\ len(k, j) <= b
    OBVIOUS
  <2>1. len(k, j) \in Nat
    BY <1>4
  <2> HIDE DEF len
  <2>2. B[k] \in Nat /\ len(k, j) <= B[k] /\ B[k] <= b
    BY <1>6, <1>7
  <2> QED
    BY <2>1, <2>2
<1>9. S = {h} \cup UNION {{len(k, j) : j \in 1..n} : k \in present}
  <2>1. \A k \in present : {x.len : x \in ToSet(Texts(t, id, row(k)))} = {len(k, j) : j \in 1..n}
    BY <1>4
  <2> DEFINE A(k) == {x.len : x \in ToSet(Texts(t, id, row(k)))}
             C(k) == {len(k, j) : j \in 1..n}
  <2>2. \A k \in present : A(k) = C(k)
    BY <2>1
  <2> HIDE DEF len, row, A, C, present
  <2>3. {A(k) : k \in present} = {C(k) : k \in present}
    BY <2>2
  <2>4. S = {h} \cup UNION {A(k) : k \in present}
    BY Zenon DEF A
  <2>5. S = {h} \cup UNION {C(k) : k \in present}
    BY <2>3, <2>4
  <2> QED
    BY <2>5 DEF C
<1> HIDE DEF len, row, S
<1>10. S \subseteq Nat /\ S # {} /\ h + b \in Nat /\ \A x \in S : x <= h + b
  <2>1. h \in S /\ \A x \in S : x = h \/ \E k \in 1..m : \E j \in 1..n : x = len(k, j)
    BY <1>9
  <2>2. \A x \in S : x \in Nat /\ (x = h \/ x <= b)
    BY <1>2, <1>8, <2>1
  <2>3. \A x \in S : x <= h + b
    BY <1>2, <2>2
  <2> QED
    BY <1>2, <2>1, <2>2, <2>3
<1>11. Max(S) \in S /\ \A x \in S : x <= Max(S)
  BY <1>10, MaxIs
<1>12. h \in S /\ \A k \in present : \A j \in 1..n : len(k, j) \in S
  BY <1>9
<1>13. w \in Nat \ {0} /\ h <= w /\ \A k \in present : \A j \in 1..n : len(k, j) <= w
  <2>1. w \in Nat /\ h <= w
    BY <1>3, <1>10, <1>11, <1>12
  <2>2. \A k \in present : \A j \in 1..n : len(k, j) <= w
    BY <1>3, <1>11, <1>12
  <2> QED
    BY <1>2, <2>1, <2>2
<1> QED
  BY <1>13 DEF h, f, n, len, row

LEMMA FieldNumbers ==
  ASSUME NEW t, IsTable(t)
  PROVE  /\ Len(t.fields) \in Nat /\ DOMAIN t.fields = 1..Len(t.fields)
         /\ Len(t.rows) \in Nat /\ DOMAIN t.rows = 1..Len(t.rows)
<1>1. \A s : IsList(s) => Len(s) \in Nat /\ DOMAIN s = 1..Len(s)
  <2> SUFFICES ASSUME NEW s, IsList(s) PROVE Len(s) \in Nat /\ DOMAIN s = 1..Len(s)
    OBVIOUS
  <2>1. Len(s) \in Nat /\ s = [i \in 1..Len(s) |-> s[i]]
    BY DEF IsList
  <2> QED
    BY <2>1
<1> QED
  BY <1>1 DEF IsTable

LEMMA ColumnIdsAre ==
  ASSUME NEW t, IsTable(t), NEW request, IsRequest(request)
  PROVE  ColumnIds(t, request) \in Seq(Nat)
<1>1. PICK n \in Nat : DOMAIN t.fields = 1..n
  BY FieldNumbers
<1>2. get_all_nonzero_col_ids(t) = [i \in 1..n |-> i]
  BY <1>1 DEF get_all_nonzero_col_ids
<1>3. [i \in 1..n |-> i] \in Seq(Nat)
  OBVIOUS
<1> QED
  BY <1>2, <1>3 DEF ColumnIds, IsRequest

\* A column asked for twice is as wide as one asked for once.
LEMMA WidthAtIs ==
  ASSUME NEW t, IsTable(t), NEW ids \in Seq(Nat), NEW row_ids,
         NEW id \in DOMAIN t.fields, Occurs(id, ids)
  PROVE  WidthAt(get_column_widths(t, row_ids, ids), id) = get_single_column_width(t, row_ids, id)
<1> DEFINE asked == {k \in ToSet(ids) : is_valid_col_idx(t, k)}
           n == Len(t.fields)
<1>1. n \in Nat /\ DOMAIN t.fields = 1..n
  BY FieldNumbers
<1>2. asked \subseteq Nat /\ \A k \in asked : k <= n
  <2>1. \A k \in asked : k \in 1..n
    BY <1>1 DEF is_valid_col_idx
  <2> QED
    BY <1>1, <2>1
<1>3. id \in asked
  BY ToSetIs DEF is_valid_col_idx
<1>4. get_column_widths(t, row_ids, ids) =
        [k \in 1..(IF asked = {} THEN 0 ELSE Max(asked) + 1) |->
           IF k - 1 \in asked THEN get_single_column_width(t, row_ids, k - 1) ELSE 0]
  BY DEF get_column_widths
<1> HIDE DEF asked
<1>5. Max(asked) \in asked /\ \A k \in asked : k <= Max(asked)
  BY <1>1, <1>2, <1>3, MaxIs
<1>6. id \in Nat /\ Max(asked) \in Nat /\ id <= Max(asked)
  BY <1>2, <1>3, <1>5
<1>7. id + 1 \in 1..(Max(asked) + 1) /\ (id + 1) - 1 = id
  BY <1>6
<1>8. asked # {}
  BY <1>3
<1> QED
  BY <1>3, <1>4, <1>7, <1>8 DEF WidthAt

\* What is asked of a Table.
IdsOf(t, request) == ValidIds(t, ColumnIds(t, request))
PlacesAsked(t, request) == HeadsOf(t, IdsOf(t, request))
WidthsOf(t, request) == get_column_widths(t, RowIds(t, request), ColumnIds(t, request))
RowAsked(t, request, k) == t.rows[RowIds(t, request)[k] + 1]

LEMMA IdsAre ==
  ASSUME NEW t, IsTable(t), NEW request, IsRequest(request)
  PROVE  /\ IdsOf(t, request) \in Seq(DOMAIN t.fields)
         /\ \A id : Occurs(id, IdsOf(t, request)) =>
              id \in DOMAIN t.fields /\ Occurs(id, ColumnIds(t, request))
  BY ColumnIdsAre, ValidIdsAre DEF IdsOf

LEMMA PlacesAskedAre ==
  ASSUME NEW t, IsTable(t), NEW request, IsRequest(request)
  PROVE  /\ IsList(PlacesAsked(t, request))
         /\ \A p : Occurs(p, PlacesAsked(t, request)) <=>
              \E id \in DOMAIN t.fields : \E j \in 1..SizeOf(t, id) :
                Occurs(id, IdsOf(t, request)) /\ p = <<id, j>>
<1>1. IdsOf(t, request) \in Seq(DOMAIN t.fields)
  BY IdsAre
<1>2. PlacesAsked(t, request) \in Seq(Places(t))
  BY <1>1, HeadsHave DEF PlacesAsked
<1>3. IsList(PlacesAsked(t, request))
  BY <1>2 DEF IsList
<1>4. ASSUME NEW p
      PROVE  Occurs(p, PlacesAsked(t, request)) <=>
               \E id \in DOMAIN t.fields : \E j \in 1..SizeOf(t, id) :
                 Occurs(id, IdsOf(t, request)) /\ p = <<id, j>>
  BY <1>1, HeadsHave DEF PlacesAsked
<1> QED
  BY <1>3, <1>4

\* Every place belongs to one of the columns asked for.
LEMMA PlaceIs ==
  ASSUME NEW t, IsTable(t), NEW request, IsRequest(request), NEW c \in 1..Len(PlacesAsked(t, request))
  PROVE  \E id \in DOMAIN t.fields : \E j \in 1..SizeOf(t, id) :
           Occurs(id, IdsOf(t, request)) /\ PlacesAsked(t, request)[c] = <<id, j>>
<1>1. Occurs(PlacesAsked(t, request)[c], PlacesAsked(t, request))
  BY DEF Occurs
<1> QED
  BY <1>1, PlacesAskedAre

\* Names, types, units and null values of the headings fit between their bars.
LEMMA HeadingFits ==
  ASSUME NEW t, IsTable(t), ~Unsupported(t), NEW id \in DOMAIN t.fields, NEW j \in 1..SizeOf(t, id),
         NEW w, HeaderWidth(t.fields[id]) <= WidthAt(w, id), WidthAt(w, id) \in Nat,
         NEW h, h = HeadingAt(t, w, <<id, j>>)
  PROVE  Fits(h) /\ Len(h.name) \in Nat
<1> DEFINE f == t.fields[id]
<1>1. IsField(f) /\ SizeOf(t, id) \in Nat \ {0} /\ f.size \in Nat \ {0} /\ f.type \in DOMAIN TYPE_NAME
  BY FieldFacts DEF IsField
<1>2. PICK m \in Nat : m = HeaderWidth(f)
  BY <1>1, HeaderWidthHolds
<1>3. PICK w0 \in Nat : w0 = WidthAt(w, id) /\ m <= w0
  BY <1>2
<1>4. /\ Len(to_ipac_string(f.type)) <= m /\ Len(NameOf(f, f.size - 1)) <= m
      /\ Len(f.unit) <= m /\ NullText(f).len <= m
  BY <1>1, <1>2, HeaderWidthHolds
<1>5. Len(h.name) \in Nat /\ Len(h.name) <= m
  <2>1. h.name = NameOf(f, j - 1)
    BY DEF HeadingAt
  <2>2. j - 1 \in 0..(f.size - 1)
    BY <1>1 DEF SizeOf
  <2>3. Len(NameOf(f, j - 1)) \in Nat /\ Len(NameOf(f, j - 1)) <= Len(NameOf(f, f.size - 1))
    BY <1>1, <2>2 DEF IsField
  <2>4. f.size - 1 \in 0..(f.size - 1)
    BY <1>1
  <2>5. Len(NameOf(f, f.size - 1)) \in Nat
    BY <1>1, <2>4 DEF IsField
  <2> QED
    BY <1>4, <2>1, <2>3, <2>5
<1>6. Len(to_ipac_string(h.type)) \in Nat /\ Len(to_ipac_string(h.type)) <= m
  <2>0. h.type = ActiveType(t, id)
    BY DEF HeadingAt
  <2>1. /\ Len(to_ipac_string(f.type)) \in Nat
        /\ Len("char") \in Nat /\ Len("long") \in Nat /\ Len("char") <= Len("long")
    BY <1>1, TypeNames, WordsAssumption
  <2>2. CASE Large(t, id)
    <3>1. f.type = "uint64" /\ h.type = "char"
      BY <2>0, <2>2 DEF Large, ActiveType
    <3>2. to_ipac_string(f.type) = "long" /\ to_ipac_string(h.type) = "char"
      BY <3>1 DEF to_ipac_string, TYPE_NAME
    <3> QED
      BY <1>4, <2>1, <3>2
  <2>3. CASE ~Large(t, id)
    <3>1. h.type = f.type \/ (f.type = "uint64" /\ h.type = "int64")
      BY <2>0, <2>3 DEF ActiveType
    <3>2. to_ipac_string(h.type) = to_ipac_string(f.type)
      BY <3>1 DEF to_ipac_string, TYPE_NAME
    <3> QED
      BY <1>4, <2>1, <3>2
  <2> QED
    BY <2>2, <2>3
<1>7. Len(h.unit) \in Nat /\ Len(h.unit) <= m
  BY <1>1, <1>4 DEF HeadingAt, IsField
<1>8. h.null.len \in Nat /\ h.null.len <= m
  BY <1>1, <1>4, NullTextFacts DEF HeadingAt
<1>9. h.width = w0
  BY <1>3 DEF HeadingAt
<1>10. Fits(h)
  <2>1. \A x \in {Len(h.name), Len(to_ipac_string(h.type)), Len(h.unit), h.null.len} : x \in Nat /\ x <= m
    BY <1>5, <1>6, <1>7, <1>8
  <2>2. \A x \in Nat : x <= m => x <= w0
    BY <1>3
  <2> QED
    BY <1>9, <2>1, <2>2 DEF Fits
<1> QED
  BY <1>5, <1>10

\* A file that is written of a Table: HeadingFits() for its headings, TextAt() in its records.
Writes(t, request, f) ==
  /\ IsTable(t) /\ IsRequest(request) /\ ~Unsupported(t) /\ RowIdsValid(t, RowIds(t, request))
  /\ f = write_subtable(t, request)

\* A column is as wide as its header and every text written in it.
LEMMA AskedWidth ==
  ASSUME NEW t, NEW request, NEW f, Writes(t, request, f), NEW id, Occurs(id, IdsOf(t, request))
  PROVE  /\ id \in DOMAIN t.fields
         /\ WidthAt(WidthsOf(t, request), id) \in Nat \ {0}
         /\ HeaderWidth(t.fields[id]) <= WidthAt(WidthsOf(t, request), id)
         /\ \A k \in 1..Len(RowIds(t, request)) :
              ~RowAsked(t, request, k)[id].null =>
                \A j \in 1..SizeOf(t, id) :
                  TextAt(t, RowAsked(t, request, k), <<id, j>>).len <= WidthAt(WidthsOf(t, request), id)
<1>0. IsTable(t) /\ IsRequest(request) /\ ~Unsupported(t) /\ RowIdsValid(t, RowIds(t, request))
  BY DEF Writes
<1>1. id \in DOMAIN t.fields /\ Occurs(id, ColumnIds(t, request)) /\ ColumnIds(t, request) \in Seq(Nat)
  BY <1>0, IdsAre, ColumnIdsAre
<1>2. WidthAt(WidthsOf(t, request), id) = get_single_column_width(t, RowIds(t, request), id)
  BY <1>0, <1>1, WidthAtIs DEF WidthsOf
<1>3. RowIds(t, request) \in Seq(Nat)
  BY <1>0, RowIdsAre
<1> QED
  BY <1>0, <1>1, <1>2, <1>3, WidthHolds DEF RowAsked

LEMMA RowAskedIs ==
  ASSUME NEW t, NEW request, NEW f, Writes(t, request, f), NEW k \in 1..Len(RowIds(t, request))
  PROVE  \E i \in DOMAIN t.rows : RowIds(t, request)[k] + 1 = i /\ RowAsked(t, request, k) = t.rows[i]
<1>0. IsTable(t) /\ IsRequest(request) /\ RowIdsValid(t, RowIds(t, request))
  BY DEF Writes
<1>1. RowIds(t, request) \in Seq(Nat)
  BY <1>0, RowIdsAre
<1>2. PICK r \in Seq(Nat) : r = RowIds(t, request)
  BY <1>1
<1>3. r[k] \in Nat /\ r[k] < Len(t.rows)
  BY <1>0, <1>2 DEF RowIdsValid
<1>4. r[k] + 1 \in DOMAIN t.rows
  BY <1>0, <1>3, FieldNumbers
<1> QED
  BY <1>2, <1>4 DEF RowAsked

\* The headings of a file.
LEMMA HeadingsWritten ==
  ASSUME NEW t, NEW request, NEW f, Writes(t, request, f), NEW n, n = Len(PlacesAsked(t, request))
  PROVE  /\ n \in Nat /\ IsList(f.headings) /\ Len(f.headings) = n /\ DOMAIN f.headings = 1..n
         /\ \A c \in 1..n :
              /\ f.headings[c] = HeadingAt(t, WidthsOf(t, request), PlacesAsked(t, request)[c])
              /\ Fits(f.headings[c]) /\ f.headings[c].width \in Nat \ {0}
              /\ Len(f.headings[c].name) \in Nat
<1>0. IsTable(t) /\ IsRequest(request) /\ ~Unsupported(t)
  BY DEF Writes
<1>1. IdsOf(t, request) \in Seq(DOMAIN t.fields)
  BY <1>0, IdsAre
<1>2. f.headings = Headings(t, IdsOf(t, request), WidthsOf(t, request))
  BY DEF Writes, write_subtable, IdsOf, WidthsOf
<1>3. /\ IsList(f.headings) /\ Len(f.headings) = n
      /\ \A c \in 1..n : f.headings[c] = HeadingAt(t, WidthsOf(t, request), PlacesAsked(t, request)[c])
  BY <1>0, <1>1, <1>2, HeadingsAre DEF PlacesAsked
<1>4. n \in Nat /\ DOMAIN f.headings = 1..n
  <2>1. PICK s : s = f.headings
    OBVIOUS
  <2>2. Len(s) \in Nat /\ s = [i \in 1..Len(s) |-> s[i]] /\ Len(s) = n
    BY <1>3, <2>1 DEF IsList
  <2> QED
    BY <2>1, <2>2
<1>5. ASSUME NEW c \in 1..n
      PROVE  Fits(f.headings[c]) /\ f.headings[c].width \in Nat \ {0} /\ Len(f.headings[c].name) \in Nat
  <2>1. PICK id \in DOMAIN t.fields : \E j \in 1..SizeOf(t, id) :
          Occurs(id, IdsOf(t, request)) /\ PlacesAsked(t, request)[c] = <<id, j>>
    BY <1>0, PlaceIs
  <2>2. PICK j \in 1..SizeOf(t, id) :
          Occurs(id, IdsOf(t, request)) /\ PlacesAsked(t, request)[c] = <<id, j>>
    BY <2>1
  <2>3. PICK w : w = WidthsOf(t, request)
    OBVIOUS
  <2>4. f.headings[c] = HeadingAt(t, w, <<id, j>>)
    BY <1>3, <2>2, <2>3
  <2>5. WidthAt(w, id) \in Nat \ {0} /\ HeaderWidth(t.fields[id]) <= WidthAt(w, id)
    BY <2>2, <2>3, AskedWidth
  <2>6. f.headings[c].width = WidthAt(w, id)
    BY <2>4 DEF HeadingAt
  <2>7. Fits(f.headings[c]) /\ Len(f.headings[c].name) \in Nat
    BY <1>0, <2>4, <2>5, HeadingFits
  <2> QED
    BY <2>5, <2>6, <2>7
<1> QED
  BY <1>3, <1>4, <1>5

\* No text is longer than its column is wide.
LEMMA RecordsWritten ==
  ASSUME NEW t, NEW request, NEW f, Writes(t, request, f), NEW n, n = Len(PlacesAsked(t, request))
  PROVE  /\ IsList(f.records) /\ Len(f.records) = Len(RowIds(t, request))
         /\ Len(f.records) \in Nat /\ DOMAIN f.records = 1..Len(f.records)
         /\ \A k \in 1..Len(f.records) : \A c \in 1..n :
              /\ f.records[k][c] = TextAt(t, RowAsked(t, request, k), PlacesAsked(t, request)[c])
              /\ f.records[k][c].len <= f.headings[c].width
<1>0. IsTable(t) /\ IsRequest(request) /\ ~Unsupported(t)
  BY DEF Writes
<1>1. IdsOf(t, request) \in Seq(DOMAIN t.fields) /\ RowIds(t, request) \in Seq(Nat)
  BY <1>0, IdsAre, RowIdsAre
<1>2. PICK m \in Nat : m = Len(RowIds(t, request)) /\ DOMAIN RowIds(t, request) = 1..m
  BY <1>1
<1>3. f.records = [k \in 1..m |-> write_single_record(t, IdsOf(t, request), RowAsked(t, request, k))]
  BY <1>2 DEF Writes, write_subtable, IdsOf, RowAsked
<1>4. IsList(f.records) /\ Len(f.records) = m /\ DOMAIN f.records = 1..m
  BY <1>2, <1>3 DEF IsList
<1>5. ASSUME NEW k \in 1..m, NEW c \in 1..n
      PROVE  /\ f.records[k][c] = TextAt(t, RowAsked(t, request, k), PlacesAsked(t, request)[c])
             /\ f.records[k][c].len <= f.headings[c].width
  <2>1. PICK i \in DOMAIN t.rows : RowAsked(t, request, k) = t.rows[i]
    BY <1>2, RowAskedIs
  <2>2. PICK cells : cells = RowAsked(t, request, k)
    OBVIOUS
  <2>3. PICK r : r = write_single_record(t, IdsOf(t, request), cells)
    OBVIOUS
  <2>4. f.records[k] = r
    BY <1>3, <2>2, <2>3
  <2>5. r[c] = TextAt(t, cells, PlacesAsked(t, request)[c])
    BY <1>0, <1>1, <2>1, <2>2, <2>3, RecordIs DEF PlacesAsked
  <2>6. PICK id \in DOMAIN t.fields : \E j \in 1..SizeOf(t, id) :
          Occurs(id, IdsOf(t, request)) /\ PlacesAsked(t, request)[c] = <<id, j>>
    BY <1>0, PlaceIs
  <2>7. PICK j \in 1..SizeOf(t, id) :
          Occurs(id, IdsOf(t, request)) /\ PlacesAsked(t, request)[c] = <<id, j>>
    BY <2>6
  <2>8. PICK w : w = WidthsOf(t, request)
    OBVIOUS
  <2>9. /\ WidthAt(w, id) \in Nat \ {0} /\ HeaderWidth(t.fields[id]) <= WidthAt(w, id)
        /\ ~cells[id].null => TextAt(t, cells, <<id, j>>).len <= WidthAt(w, id)
    BY <1>2, <2>2, <2>7, <2>8, AskedWidth
  <2>10. f.headings[c].width = WidthAt(w, id)
    <3>1. f.headings[c] = HeadingAt(t, w, <<id, j>>)
      BY <2>7, <2>8, HeadingsWritten
    <3> QED
      BY <3>1 DEF HeadingAt
  <2>11. TextAt(t, cells, <<id, j>>).len <= WidthAt(w, id)
    <3>1. CASE cells[id].null
      <4>1. TextAt(t, cells, <<id, j>>) = NullText(t.fields[id])
        BY <3>1 DEF TextAt
      <4>2. IsField(t.fields[id])
        BY <1>0, FieldFacts
      <4>3. /\ NullText(t.fields[id]).len <= HeaderWidth(t.fields[id]) /\ HeaderWidth(t.fields[id]) \in Nat
            /\ NullText(t.fields[id]).len \in Nat
        BY <4>2, HeaderWidthHolds, NullTextFacts
      <4> QED
        BY <2>9, <4>1, <4>3
    <3>2. CASE ~cells[id].null
      BY <2>9, <3>2
    <3> QED
      BY <3>1, <3>2
  <2> QED
    BY <2>2, <2>4, <2>5, <2>7, <2>10, <2>11
<1> QED
  BY <1>2, <1>4, <1>5

\* A header is readable if it has a column and no null value has a bar.
LEMMA ReadableIs ==
  ASSUME NEW t, NEW request, NEW f, Writes(t, request, f)
  PROVE  HeaderReadable(f) <=>
           /\ IdsOf(t, request) # <<>>
           /\ \A id \in ToSet(IdsOf(t, request)) : t.fields[id].bar # "null"
<1> DEFINE n == Len(PlacesAsked(t, request))
           ids == IdsOf(t, request)
<1>0. IsTable(t) /\ IsRequest(request) /\ ids \in Seq(DOMAIN t.fields)
  BY IdsAre DEF Writes
<1>1. /\ n \in Nat /\ DOMAIN f.headings = 1..n /\ IsList(f.headings) /\ Len(f.headings) = n
      /\ \A c \in 1..n :
              /\ f.headings[c] = HeadingAt(t, WidthsOf(t, request), PlacesAsked(t, request)[c])
              /\ Fits(f.headings[c])
  BY HeadingsWritten
<1>2. f.headings # <<>> <=> n # 0
  <2>1. PICK s : s = f.headings
    OBVIOUS
  <2>2. s = [i \in 1..n |-> s[i]] /\ DOMAIN s = 1..n
    BY <1>1, <2>1 DEF IsList
  <2>3. n = 0 => s = <<>>
    BY <1>1, <2>2
  <2>4. s = <<>> => n = 0
    BY <1>1, <2>1
  <2> QED
    BY <2>1, <2>3, <2>4
<1>3. HeaderReadable(f) <=> n # 0 /\ \A c \in 1..n : ~f.headings[c].barred
  <2>1. ToSet(f.headings) = {f.headings[c] : c \in 1..n}
    BY <1>1 DEF ToSet
  <2> HIDE DEF n
  <2> QED
    BY <1>1, <1>2, <2>1 DEF HeaderReadable
<1>4. \A c \in 1..n : f.headings[c].barred <=> t.fields[PlacesAsked(t, request)[c][1]].bar = "null"
  <2> SUFFICES ASSUME NEW c \in 1..n
               PROVE  f.headings[c].barred <=> t.fields[PlacesAsked(t, request)[c][1]].bar = "null"
    OBVIOUS
  <2>1. PICK p : p = PlacesAsked(t, request)[c]
    OBVIOUS
  <2>2. PICK b \in BOOLEAN : b = (t.fields[p[1]].bar = "null")
    OBVIOUS
  <2>3. HeadingAt(t, WidthsOf(t, request), p).barred = b
    BY <2>2 DEF HeadingAt
  <2>4. f.headings[c] = HeadingAt(t, WidthsOf(t, request), p)
    BY <1>1, <2>1
  <2> QED
    BY <2>1, <2>2, <2>3, <2>4, Zenon
<1>5. \A id : Occurs(id, ids) <=> \E c \in 1..n : PlacesAsked(t, request)[c][1] = id
  <2> SUFFICES ASSUME NEW id PROVE Occurs(id, ids) <=> \E c \in 1..n : PlacesAsked(t, request)[c][1] = id
    OBVIOUS
  <2>1. ASSUME Occurs(id, ids) PROVE \E c \in 1..n : PlacesAsked(t, request)[c][1] = id
    <3>1. id \in DOMAIN t.fields
      BY <1>0, <2>1, IdsAre
    <3>2. 1 \in 1..SizeOf(t, id)
      BY <1>0, <3>1, FieldFacts
    <3>3. Occurs(<<id, 1>>, PlacesAsked(t, request))
      BY <1>0, <2>1, <3>1, <3>2, PlacesAskedAre
    <3> QED
      BY <3>3 DEF Occurs
  <2>2. ASSUME NEW c \in 1..n, PlacesAsked(t, request)[c][1] = id PROVE Occurs(id, ids)
    BY <1>0, <2>2, PlaceIs
  <2> QED
    BY <2>1, <2>2
<1>6. ids # <<>> <=> n # 0
  <2>1. ASSUME ids # <<>> PROVE n # 0
    <3>1. Occurs(ids[1], ids)
      BY <1>0, <2>1 DEF Occurs
    <3> QED
      BY <1>1, <1>5, <3>1
  <2>2. ASSUME n # 0 PROVE ids # <<>>
    <3>1. Occurs(PlacesAsked(t, request)[1][1], ids)
      BY <1>1, <1>5, <2>2
    <3> QED
      BY <3>1, OccursNowhere
  <2> QED
    BY <2>1, <2>2
<1>7. \A id : id \in ToSet(ids) <=> Occurs(id, ids)
  BY <1>0, ToSetIs
<1> HIDE DEF n, ids
<1> QED
  BY <1>3, <1>4, <1>5, <1>6, <1>7 DEF ids

\* What the reader stores as null.
NullStored(col, e) == IsNull(col, e) \/ (~col.char /\ e.len = 0)
CharsOf(cell, j) ==
  IF cell.null THEN 0 ELSE IF j \in DOMAIN cell.texts THEN cell.texts[j].len ELSE 99

\* What is stored of the text at a place is the cell.
ComesBack(h, x, cell, j) ==
  /\ NullStored(append_ipac_data_member(h), ElementOf(h, x)) <=> cell.null
  /\ ~cell.null => ElementOf(h, x).len = CharsOf(cell, j)

LEMMA NotPositive == \A n \in Nat : ~(n > 0) => n = 0
  OBVIOUS

LEMMA TruthOf == ASSUME NEW a, NEW b PROVE \E c \in BOOLEAN : c = (a > b)
<1>1. CASE a > b
  <2>1. (a > b) = TRUE
    BY <1>1
  <2> QED
    BY <2>1, Zenon
<1>2. CASE ~(a > b)
  <2>1. (a > b) = FALSE
    BY <1>2
  <2> QED
    BY <2>1, Zenon
<1> QED
  BY <1>1, <1>2

\* What is stored for null, and how many characters of the rest.
LEMMA StoredAs ==
  ASSUME NEW h, NEW x
  PROVE  /\ NullStored(append_ipac_data_member(h), ElementOf(h, x)) <=>
              \/ h.null.core > 0 /\ x.word # "" /\ x.word = h.null.word
              \/ to_ipac_string(h.type) # "char" /\ x.core = 0
         /\ ElementOf(h, x).len = x.core
<1> DEFINE col == append_ipac_data_member(h)
           e == ElementOf(h, x)
<1>1. PICK b1 \in BOOLEAN : b1 = (to_ipac_string(h.type) = "char")
  OBVIOUS
<1>2. PICK b2 \in BOOLEAN : b2 = (h.null.core > 0)
  BY TruthOf, Zenon
<1>3. PICK b3 \in BOOLEAN : b3 = (x.word # "" /\ x.word = h.null.word)
  OBVIOUS
<1>4. (col.char <=> b1) /\ (col.marked <=> b2)
  <2>1. col = [char |-> b1, width |-> h.width, marked |-> b2]
    BY <1>1, <1>2, Zenon DEF append_ipac_data_member, Marked
  <2> QED
    BY <2>1
<1>5. (e.mark <=> b3) /\ e.len = x.core
  <2>1. PICK y : y = IF x.core = 0 THEN "" ELSE x.word
    OBVIOUS
  <2>2. e = [len |-> x.core, ok |-> TRUE, mark |-> b3, word |-> y]
    BY <1>3, <2>1, Zenon DEF ElementOf
  <2> QED
    BY <2>2
<1>6. NullStored(col, e) <=> (col.marked /\ e.mark) \/ (~col.marked /\ ~col.char /\ e.len = 0) \/ (~col.char /\ e.len = 0)
  BY Zenon DEF NullStored, IsNull
<1> HIDE DEF col, e
<1>7. NullStored(col, e) <=> (b2 /\ b3) \/ (~b1 /\ x.core = 0)
  BY <1>4, <1>5, <1>6, Zenon
<1> QED
  BY <1>1, <1>2, <1>3, <1>5, <1>7, Zenon DEF col, e

\* A text is taken for null only if its column has a null value that is not blank.
LEMMA MarkedText ==
  ASSUME NEW f, IsField(f), NEW x, IsTextOf(f, x), x.word # "", x.word = NullText(f).word
  PROVE  NullText(f).core > 0
<1>1. x.word \in {"marker", "null"}
  BY DEF IsTextOf
<1>2. CASE x.word = "marker"
  <2>1. f.null_text > 0 /\ ~f.null_blank
    BY <1>2 DEF IsTextOf
  <2> QED
    BY <2>1, NullTextFacts
<1>3. CASE x.word = "null"
  <2>1. f.null_text = 0
    <3>1. f.null_text \in Nat
      BY DEF IsField
    <3>2. f.null_text > 0 => NullText(f).word = "marker"
      BY NullTextFacts
    <3>3. NullText(f).word # "marker"
      BY <1>3
    <3>4. PICK n \in Nat : n = f.null_text
      BY <3>1
    <3>5. ~(n > 0)
      BY <3>2, <3>3, <3>4, Zenon
    <3>6. n = 0
      BY <3>5, NotPositive, Zenon
    <3> QED
      BY <3>4, <3>6
  <2> QED
    BY <2>1, NullTextFacts
<1> QED
  BY <1>1, <1>2, <1>3

ComesBackIf(t, id, cell, j) ==
  IF cell.null THEN NullText(t.fields[id]).core > 0 \/ ActiveType(t, id) # "char"
  ELSE /\ j \in DOMAIN cell.texts
       /\ cell.texts[j].len = cell.texts[j].core
       /\ cell.texts[j].word = "" \/ cell.texts[j].word # NullText(t.fields[id]).word

\* What comes back of one text, by the type of its column.
LEMMA PlaceComesBack ==
  ASSUME NEW t, IsTable(t), ~Unsupported(t), NEW i \in DOMAIN t.rows, NEW id \in DOMAIN t.fields,
         NEW cells, cells = t.rows[i], NEW j \in 1..SizeOf(t, id),
         NEW h, h.type = ActiveType(t, id), h.null = NullText(t.fields[id]),
         NEW x, x = TextAt(t, cells, <<id, j>>)
  PROVE  ComesBack(h, x, cells[id], j) <=> ComesBackIf(t, id, cells[id], j)
<1>0. x = IF cells[id].null THEN NullText(t.fields[id])
          ELSE IF j \in DOMAIN cells[id].texts THEN cells[id].texts[j] ELSE Zero
  BY DEF TextAt
<1> DEFINE f == t.fields[id]
           cell == cells[id]
           char == ActiveType(t, id) = "char"
           null == NullStored(append_ipac_data_member(h), ElementOf(h, x))
<1>1. IsField(f) /\ IsCell(f, cell) /\ cell.null \in BOOLEAN
  BY DEF IsTable, IsCell
<1>2. to_ipac_string(h.type) = "char" <=> char
  BY Sizes, TypeNames
<1>3. null <=> \/ NullText(f).core > 0 /\ x.word # "" /\ x.word = NullText(f).word
               \/ ~char /\ x.core = 0
  BY <1>2, StoredAs
<1>4. ElementOf(h, x).len = x.core
  BY StoredAs
<1>5. ComesBack(h, x, cell, j) <=> (null <=> cell.null) /\ (~cell.null => x.core = CharsOf(cell, j))
  BY <1>4 DEF ComesBack
<1> HIDE DEF null
<1>6. CASE cell.null
  <2>1. x = NullText(f)
    BY <1>6 DEF TextAt
  <2>2. x.word # "" /\ NullText(f).core \in Nat
    BY <1>1, <2>1, NullTextFacts
  <2>3. null <=> NullText(f).core > 0 \/ ~char
    <3>1. x.core = 0 <=> ~(NullText(f).core > 0)
      <4>1. PICK n \in Nat : n = NullText(f).core
        BY <2>2
      <4>2. n = 0 <=> ~(n > 0)
        OBVIOUS
      <4> QED
        BY <2>1, <4>1, <4>2, Zenon
    <3> QED
      BY <1>3, <2>1, <2>2, <3>1, Zenon
  <2>4. ComesBack(h, x, cell, j) <=> NullText(f).core > 0 \/ ~char
    BY <1>5, <1>6, <2>3
  <2> QED
    BY <1>6, <2>4, Zenon DEF ComesBackIf
<1>7. CASE ~cell.null /\ j \in DOMAIN cell.texts
  <2>1. x = cell.texts[j] /\ IsTextOf(f, x)
    <3>1. x = cell.texts[j]
      BY <1>0, <1>7
    <3> QED
      BY <1>1, <1>7, <3>1 DEF IsCell
  <2>2. CharsOf(cell, j) = x.len
    BY <1>7, <2>1 DEF CharsOf
  <2>3. ~char => x.len = x.core /\ x.core # 0
    <3>1. ~char => f.type # "char"
      BY Sizes
    <3>2. f.type # "char" => x.core = x.len /\ x.core > 0 /\ x.core \in Nat
      BY <2>1 DEF IsTextOf
    <3> QED
      BY <3>1, <3>2
  <2>4. null <=> (x.word # "" /\ x.word = NullText(f).word)
    <3>1. x.word # "" /\ x.word = NullText(f).word => NullText(f).core > 0
      BY <1>1, <2>1, MarkedText
    <3> QED
      BY <1>3, <2>3, <3>1
  <2>5. ComesBack(h, x, cell, j) <=> x.len = x.core /\ (x.word = "" \/ x.word # NullText(f).word)
    BY <1>5, <1>7, <2>2, <2>4
  <2> QED
    BY <1>7, <2>1, <2>5 DEF ComesBackIf
<1>8. CASE ~cell.null /\ j \notin DOMAIN cell.texts
  <2>1. x = Zero
    BY <1>0, <1>8
  <2>2. x.core = 1 /\ x.word = ""
    BY <2>1, ZeroIs
  <2>3. CharsOf(cell, j) = 99
    BY <1>8 DEF CharsOf
  <2>4. ~ComesBack(h, x, cell, j)
    <3>1. 1 # 99
      OBVIOUS
    <3>2. x.core # CharsOf(cell, j)
      BY <2>2, <2>3, <3>1, Zenon
    <3> QED
      BY <1>5, <1>8, <3>2, Zenon
  <2> QED
    BY <1>8, <2>4 DEF ComesBackIf
<1> QED
  BY <1>1, <1>6, <1>7, <1>8

\* The property's criterion for one cell.
ColumnSurvives(t, id, cell) ==
  IF ActiveType(t, id) = "char" THEN TextSurvives(t.fields[id], cell) ELSE NumbersSurvive(t.fields[id], cell)

\* A cell survives exactly if each of its texts comes back.
LEMMA ColumnComesBack ==
  ASSUME NEW t, IsTable(t), ~Unsupported(t), NEW i \in DOMAIN t.rows, NEW id \in DOMAIN t.fields,
         NEW cells, cells = t.rows[i], NEW w
  PROVE  ColumnSurvives(t, id, cells[id]) <=>
           \A j \in 1..SizeOf(t, id) :
             ComesBack(HeadingAt(t, w, <<id, j>>), TextAt(t, cells, <<id, j>>), cells[id], j)
<1> DEFINE f == t.fields[id]
           cell == cells[id]
           n == SizeOf(t, id)
           C(j) == ComesBack(HeadingAt(t, w, <<id, j>>), TextAt(t, cells, <<id, j>>), cell, j)
           same(x) == x.word = "" \/ x.word # NullText(f).word
<1>1. IsField(f) /\ IsCell(f, cell) /\ cell.null \in BOOLEAN
  BY DEF IsTable, IsCell
<1>2. n \in Nat \ {0}
  BY FieldFacts
<1>3. \A j \in 1..n : C(j) <=> ComesBackIf(t, id, cell, j)
  <2> SUFFICES ASSUME NEW j \in 1..n PROVE C(j) <=> ComesBackIf(t, id, cell, j)
    OBVIOUS
  <2>1. PICK h : h = HeadingAt(t, w, <<id, j>>)
    OBVIOUS
  <2>2. PICK x : x = TextAt(t, cells, <<id, j>>)
    OBVIOUS
  <2>3. h.type = ActiveType(t, id) /\ h.null = NullText(t.fields[id])
    BY <2>1 DEF HeadingAt
  <2>4. ComesBack(h, x, cells[id], j) <=> ComesBackIf(t, id, cells[id], j)
    BY <2>2, <2>3, PlaceComesBack
  <2> QED
    BY <2>1, <2>2, <2>4
<1> HIDE DEF C
<1>4. CASE ActiveType(t, id) = "char"
  <2>1. n = 1 /\ 1 \in 1..n /\ \A j \in 1..n : j = 1
    BY <1>4, Sizes
  <2>2. (\A j \in 1..n : C(j)) <=> C(1)
    BY <2>1
  <2>3. ~cell.null => 1 \in DOMAIN cell.texts
    <3>1. ASSUME ~cell.null PROVE 1 \in DOMAIN cell.texts
      <4>1. f.type = "char" \/ f.size = 1
        BY <1>4, <2>1 DEF SizeOf
      <4>2. PICK s : s = cell.texts
        OBVIOUS
      <4>3. Len(s) = 1 /\ s = [k \in 1..Len(s) |-> s[k]]
        BY <1>1, <3>1, <4>1, <4>2 DEF IsCell, IsList
      <4> QED
        BY <4>2, <4>3
    <3> QED
      BY <3>1
  <2>4. C(1) <=> TextSurvives(f, cell)
    <3>1. CASE cell.null
      BY <1>3, <1>4, <2>1, <3>1 DEF TextSurvives, ComesBackIf
    <3>2. CASE ~cell.null
      BY <1>3, <1>4, <2>1, <2>3, <3>2 DEF TextSurvives, ComesBackIf
    <3> QED
      BY <3>1, <3>2
  <2> QED
    BY <1>4, <2>2, <2>4 DEF ColumnSurvives, C
<1>5. CASE ActiveType(t, id) # "char"
  <2>0. f.type # "char"
    BY <1>5, Sizes
  <2>1. n = f.size
    BY <2>0 DEF SizeOf
  <2>2. CASE cell.null
    <3>1. NumbersSurvive(f, cell)
      BY <2>2 DEF NumbersSurvive
    <3>2. \A j \in 1..n : C(j)
      BY <1>3, <1>5, <2>2 DEF ComesBackIf
    <3> QED
      BY <1>5, <3>1, <3>2 DEF ColumnSurvives, C
  <2>3. CASE ~cell.null
    <3>1. PICK s : s = cell.texts
      OBVIOUS
    <3>2. Len(s) \in Nat /\ s = [k \in 1..Len(s) |-> s[k]] /\ \A k \in DOMAIN s : IsTextOf(f, s[k])
      BY <1>1, <2>3, <3>1 DEF IsCell, IsList
    <3>3. Len(s) <= n
      <4>1. IF f.type = "char" \/ f.size = 1 THEN Len(s) = 1 ELSE Len(s) <= f.size
        BY <1>1, <2>3, <3>1 DEF IsCell
      <4>2. f.size = 1 => n = 1
        BY <2>1
      <4> HIDE DEF n
      <4> QED
        BY <1>2, <2>0, <2>1, <3>2, <4>1
    <3>4. DOMAIN s = 1..Len(s)
      BY <3>2
    <3>5. \A k \in 1..Len(s) : s[k].len = s[k].core
      BY <2>0, <3>2, <3>4 DEF IsTextOf
    <3>6. NumbersSurvive(f, cell) <=> Len(s) = n /\ \A k \in 1..Len(s) : same(s[k])
      <4>1. ToSet(s) = {s[k] : k \in 1..Len(s)}
        BY <3>4 DEF ToSet
      <4>2. (\A x \in ToSet(s) : same(x)) <=> \A k \in 1..Len(s) : same(s[k])
        BY <4>1
      <4>3. NumbersSurvive(f, cell) <=> Len(s) = n /\ \A x \in ToSet(s) : same(x)
        BY <2>1, <2>3, <3>1 DEF NumbersSurvive
      <4> QED
        BY <4>2, <4>3
    <3>7. \A j \in 1..n : C(j) <=> j \in 1..Len(s) /\ same(s[j])
      <4> SUFFICES ASSUME NEW j \in 1..n PROVE C(j) <=> j \in 1..Len(s) /\ same(s[j])
        OBVIOUS
      <4>1. C(j) <=> /\ j \in DOMAIN s /\ s[j].len = s[j].core /\ same(s[j])
        BY <1>3, <2>3, <3>1 DEF ComesBackIf
      <4> HIDE DEF same
      <4> QED
        BY <3>4, <3>5, <4>1
    <3>8. (\A j \in 1..n : C(j)) <=> Len(s) = n /\ \A k \in 1..Len(s) : same(s[k])
      <4> HIDE DEF same
      <4>1. ASSUME \A j \in 1..n : C(j) PROVE Len(s) = n
        <5>1. n \in 1..n
          BY <1>2
        <5>2. n \in 1..Len(s)
          BY <3>7, <4>1, <5>1
        <5> QED
          BY <1>2, <3>2, <3>3, <5>2
      <4>2. ASSUME \A j \in 1..n : C(j) PROVE \A k \in 1..Len(s) : same(s[k])
        BY <3>7, <4>1, <4>2
      <4>3. ASSUME Len(s) = n, \A k \in 1..Len(s) : same(s[k]) PROVE \A j \in 1..n : C(j)
        BY <3>7, <4>3
      <4> QED
        BY <4>1, <4>2, <4>3
    <3> QED
      BY <1>5, <3>6, <3>8 DEF ColumnSurvives, C
  <2> QED
    BY <1>1, <2>2, <2>3
<1> QED
  BY <1>4, <1>5

\* Part of the line is seen although its other cells may be blank.
IsSeenCell(f, cell) ==
  IF cell.null THEN NullText(f).core > 0 ELSE \E t \in ToSet(cell.texts) : t.core > 0

\* Of a cell that survives, something is seen in the line unless it is blank.
LEMMA ColumnIsSeen ==
  ASSUME NEW t, IsTable(t), ~Unsupported(t), NEW i \in DOMAIN t.rows, NEW id \in DOMAIN t.fields,
         NEW cells, cells = t.rows[i], ColumnSurvives(t, id, cells[id])
  PROVE  IsSeenCell(t.fields[id], cells[id]) <=>
           \E j \in 1..SizeOf(t, id) : TextAt(t, cells, <<id, j>>).core # 0
<1> DEFINE f == t.fields[id]
           cell == cells[id]
           n == SizeOf(t, id)
           x(j) == TextAt(t, cells, <<id, j>>)
<1>1. IsField(f) /\ IsCell(f, cell) /\ cell.null \in BOOLEAN
  BY DEF IsTable, IsCell
<1>2. n \in Nat \ {0}
  BY FieldFacts
<1>3. CASE cell.null
  <2>1. \A j \in 1..n : x(j) = NullText(f)
    BY <1>3 DEF TextAt
  <2>2. PICK m \in Nat : m = NullText(f).core
    BY <1>1, NullTextFacts
  <2>3. 1 \in 1..n
    BY <1>2
  <2>4. IsSeenCell(f, cell) <=> m > 0
    BY <1>3, <2>2 DEF IsSeenCell
  <2>5. m > 0 <=> m # 0
    OBVIOUS
  <2> HIDE DEF x, n
  <2>6. (\E j \in 1..n : x(j).core # 0) <=> m # 0
    BY <2>1, <2>2, <2>3
  <2> QED
    BY <2>4, <2>5, <2>6 DEF x, n
<1>4. CASE ~cell.null
  <2>1. PICK s : s = cell.texts
    OBVIOUS
  <2>2. /\ Len(s) \in Nat /\ s = [k \in 1..Len(s) |-> s[k]]
        /\ IF f.type = "char" \/ f.size = 1 THEN Len(s) = 1 ELSE Len(s) <= f.size
    BY <1>1, <1>4, <2>1 DEF IsCell, IsList
  <2>3. Len(s) = n
    <3>1. CASE ActiveType(t, id) = "char"
      <4>1. n = 1
        BY <3>1, Sizes
      <4>2. f.type = "char" \/ f.size = 1
        BY <4>1 DEF SizeOf
      <4> QED
        BY <2>2, <4>1, <4>2
    <3>2. CASE ActiveType(t, id) # "char"
      <4>1. f.type # "char"
        BY <3>2, Sizes
      <4>2. n = f.size
        BY <4>1 DEF SizeOf
      <4>3. NumbersSurvive(f, cell)
        BY <3>2 DEF ColumnSurvives
      <4> QED
        BY <1>4, <2>1, <4>2, <4>3 DEF NumbersSurvive
    <3> QED
      BY <3>1, <3>2
  <2>4. DOMAIN s = 1..n
    BY <2>2, <2>3
  <2>5. \A j \in 1..n : x(j) = s[j] /\ s[j].core \in Nat
    <3> SUFFICES ASSUME NEW j \in 1..n PROVE x(j) = s[j] /\ s[j].core \in Nat
      OBVIOUS
    <3>1. PICK y : y = TextAt(t, cells, <<id, j>>)
      OBVIOUS
    <3>2. y = cells[id].texts[j] /\ y.core \in Nat
      <4>1. j \in DOMAIN cells[id].texts
        BY <2>1, <2>4
      <4>2. y.core \in Nat
        BY <3>1, TextAtFacts
      <4>3. y = cells[id].texts[j]
        BY <1>4, <3>1, <4>1 DEF TextAt
      <4> QED
        BY <4>2, <4>3
    <3> QED
      BY <2>1, <3>1, <3>2
  <2>6. ToSet(s) = {s[j] : j \in 1..n}
    BY <2>4 DEF ToSet
  <2>7. IsSeenCell(f, cell) <=> \E y \in ToSet(s) : y.core > 0
    BY <1>4, <2>1 DEF IsSeenCell
  <2> HIDE DEF x, n
  <2>8. \A j \in 1..n : s[j].core > 0 <=> s[j].core # 0
    BY <2>5
  <2>9. IsSeenCell(f, cell) <=> \E j \in 1..n : s[j].core # 0
    BY <2>6, <2>7, <2>8
  <2> QED
    BY <2>5, <2>9 DEF x, n
<1> QED
  BY <1>1, <1>3, <1>4

----------------------------------------------------------------------------
\* Row by row.
IsSeenIn(t, ids, row) == \E id \in ToSet(ids) : IsSeenCell(t.fields[id], row[id])
SurvivesIn(t, ids, row) ==
  IsSeenIn(t, ids, row) /\ \A id \in ToSet(ids) : ColumnSurvives(t, id, row[id])

ComesBackAt(t, request, f, k, c) ==
  LET p == PlacesAsked(t, request)[c]
  IN  ComesBack(f.headings[c], f.records[k][c], RowAsked(t, request, k)[p[1]], p[2])

\* A row survives exactly if its line is not blank and each of its texts comes back.
LEMMA RowComesBack ==
  ASSUME NEW t, NEW request, NEW f, Writes(t, request, f), NEW k \in 1..Len(f.records)
  PROVE  SurvivesIn(t, IdsOf(t, request), RowAsked(t, request, k)) <=>
           /\ ~IsBlank(ElementsOf(f, k))
           /\ \A c \in DOMAIN f.headings : ComesBackAt(t, request, f, k, c)
<1> DEFINE n == Len(PlacesAsked(t, request))
           P(c) == PlacesAsked(t, request)[c]
           ids == IdsOf(t, request)
           w == WidthsOf(t, request)
           cells == RowAsked(t, request, k)
           x(id, j) == TextAt(t, cells, <<id, j>>)
           C(id, j) == ComesBack(HeadingAt(t, w, <<id, j>>), TextAt(t, cells, <<id, j>>), cells[id], j)
<1>0. IsTable(t) /\ IsRequest(request) /\ ~Unsupported(t) /\ ids \in Seq(DOMAIN t.fields)
  BY IdsAre DEF Writes
<1>1. DOMAIN f.headings = 1..n /\ \A c \in 1..n : f.headings[c] = HeadingAt(t, w, P(c))
  BY HeadingsWritten
<1>2. \A c \in 1..n : f.records[k][c] = TextAt(t, cells, P(c))
  BY RecordsWritten
<1>3. PICK i \in DOMAIN t.rows : cells = t.rows[i]
  <2>1. Len(f.records) = Len(RowIds(t, request))
    BY RecordsWritten
  <2>2. k \in 1..Len(RowIds(t, request))
    BY <2>1
  <2>3. \E i \in DOMAIN t.rows : RowIds(t, request)[k] + 1 = i /\ RowAsked(t, request, k) = t.rows[i]
    BY <2>2, RowAskedIs
  <2> QED
    BY <2>3
<1>4. \A c \in 1..n : \E id \in DOMAIN t.fields : \E j \in 1..SizeOf(t, id) :
        Occurs(id, ids) /\ P(c) = <<id, j>>
  BY <1>0, PlaceIs
<1>5. ASSUME NEW id, Occurs(id, ids), NEW j \in 1..SizeOf(t, id)
      PROVE  \E c \in 1..n : P(c) = <<id, j>>
  <2>1. id \in DOMAIN t.fields
    BY <1>0, <1>5, IdsAre
  <2>2. Occurs(<<id, j>>, PlacesAsked(t, request))
    BY <1>0, <1>5, <2>1, PlacesAskedAre
  <2> QED
    BY <2>2 DEF Occurs
<1>6. \A id : id \in ToSet(ids) <=> Occurs(id, ids)
  BY <1>0, ToSetIs
<1>7. \A id : Occurs(id, ids) => id \in DOMAIN t.fields
  BY <1>0, IdsAre
<1>8. ASSUME NEW id \in DOMAIN t.fields
      PROVE  /\ ColumnSurvives(t, id, cells[id]) <=> \A j \in 1..SizeOf(t, id) : C(id, j)
             /\ ColumnSurvives(t, id, cells[id]) =>
                  (IsSeenCell(t.fields[id], cells[id]) <=> \E j \in 1..SizeOf(t, id) : x(id, j).core # 0)
  <2>1. PICK row : row = cells
    OBVIOUS
  <2>2. ColumnSurvives(t, id, row[id]) <=>
           \A j \in 1..SizeOf(t, id) :
             ComesBack(HeadingAt(t, w, <<id, j>>), TextAt(t, row, <<id, j>>), row[id], j)
    BY <1>0, <1>3, <2>1, ColumnComesBack
  <2>3. ColumnSurvives(t, id, row[id]) =>
          (IsSeenCell(t.fields[id], row[id]) <=>
             \E j \in 1..SizeOf(t, id) : TextAt(t, row, <<id, j>>).core # 0)
    BY <1>0, <1>3, <2>1, ColumnIsSeen
  <2> QED
    BY <2>1, <2>2, <2>3
<1>9. ASSUME NEW c \in 1..n, NEW id, NEW j, P(c) = <<id, j>>
      PROVE  /\ ComesBackAt(t, request, f, k, c) <=> C(id, j)
             /\ ElementsOf(f, k)[c].len = x(id, j).core
  <2>1. P(c)[1] = id /\ P(c)[2] = j
    BY <1>9
  <2>2. ComesBackAt(t, request, f, k, c) <=> C(id, j)
    BY <1>1, <1>2, <1>9, <2>1 DEF ComesBackAt
  <2>3. ElementsOf(f, k)[c] = ElementOf(f.headings[c], f.records[k][c])
    BY <1>1 DEF ElementsOf
  <2>4. ElementsOf(f, k)[c].len = f.records[k][c].core
    <3>1. \A h, y : ElementOf(h, y).len = y.core
      BY DEF ElementOf
    <3> QED
      BY <2>3, <3>1
  <2> QED
    BY <1>2, <1>9, <2>2, <2>4
<1>10. DOMAIN ElementsOf(f, k) = 1..n
  BY <1>1 DEF ElementsOf
<1> HIDE DEF n, P, ids, w, cells, x, C
<1>11. (\A id \in ToSet(ids) : ColumnSurvives(t, id, cells[id])) <=>
         \A c \in 1..n : ComesBackAt(t, request, f, k, c)
  <2>1. ASSUME \A id \in ToSet(ids) : ColumnSurvives(t, id, cells[id]), NEW c \in 1..n
        PROVE  ComesBackAt(t, request, f, k, c)
    <3>1. PICK id \in DOMAIN t.fields : \E j \in 1..SizeOf(t, id) : Occurs(id, ids) /\ P(c) = <<id, j>>
      BY <1>4
    <3>2. PICK j \in 1..SizeOf(t, id) : Occurs(id, ids) /\ P(c) = <<id, j>>
      BY <3>1
    <3>3. C(id, j)
      BY <1>6, <1>8, <2>1, <3>2
    <3> QED
      BY <1>9, <3>2, <3>3
  <2>2. ASSUME \A c \in 1..n : ComesBackAt(t, request, f, k, c), NEW id \in ToSet(ids)
        PROVE  ColumnSurvives(t, id, cells[id])
    <3>1. id \in DOMAIN t.fields /\ Occurs(id, ids)
      BY <1>6, <1>7
    <3>2. \A j \in 1..SizeOf(t, id) : C(id, j)
      <4> SUFFICES ASSUME NEW j \in 1..SizeOf(t, id) PROVE C(id, j)
        OBVIOUS
      <4>1. PICK c \in 1..n : P(c) = <<id, j>>
        BY <1>5, <3>1
      <4> QED
        BY <1>9, <2>2, <4>1
    <3> QED
      BY <1>8, <3>1, <3>2
  <2> QED
    BY <2>1, <2>2
<1>12. ASSUME \A id \in ToSet(ids) : ColumnSurvives(t, id, cells[id])
       PROVE  IsSeenIn(t, ids, cells) <=> ~IsBlank(ElementsOf(f, k))
  <2>1. ASSUME NEW id \in ToSet(ids), IsSeenCell(t.fields[id], cells[id])
        PROVE  \E c \in 1..n : ElementsOf(f, k)[c].len # 0
    <3>1. id \in DOMAIN t.fields /\ Occurs(id, ids)
      BY <1>6, <1>7
    <3>2. PICK j \in 1..SizeOf(t, id) : x(id, j).core # 0
      BY <1>8, <1>12, <2>1, <3>1
    <3>3. PICK c \in 1..n : P(c) = <<id, j>>
      BY <1>5, <3>1
    <3> QED
      BY <1>9, <3>2, <3>3
  <2>2. ASSUME NEW c \in 1..n, ElementsOf(f, k)[c].len # 0
        PROVE  \E id \in ToSet(ids) : IsSeenCell(t.fields[id], cells[id])
    <3>1. PICK id \in DOMAIN t.fields : \E j \in 1..SizeOf(t, id) : Occurs(id, ids) /\ P(c) = <<id, j>>
      BY <1>4
    <3>2. PICK j \in 1..SizeOf(t, id) : Occurs(id, ids) /\ P(c) = <<id, j>>
      BY <3>1
    <3>3. x(id, j).core # 0
      BY <1>9, <2>2, <3>2
    <3>4. id \in ToSet(ids)
      BY <1>6, <3>2
    <3> QED
      BY <1>8, <1>12, <3>3, <3>4
  <2> QED
    BY <1>10, <2>1, <2>2 DEF IsSeenIn, IsBlank
<1> QED
  BY <1>1, <1>11, <1>12 DEF SurvivesIn, ids, cells

----------------------------------------------------------------------------
\* The inductive invariant.  What is read is always a part of what was written: the
\* columns are the headings (HeaderRead), what is stored is what was read of records
\* (StoredSoFar), and unless a line was blank it is that of all the records so far, in
\* their order (LinesSoFar).
HeaderRead ==
  /\ HeaderReadable(file)
  /\ columns = [c \in DOMAIN file.headings |-> append_ipac_data_member(file.headings[c])]
  /\ \A c \in DOMAIN columns : widths[c] \in Nat \ {0} /\ minimum_column_widths[c] \in Nat \ {0}

StoredSoFar ==
  /\ IsList(rows) /\ IsList(text) /\ IsList(own) /\ Len(rows) = Len(text)
  /\ \A i \in DOMAIN text : ~IsBlank(text[i]) /\ \E k \in DOMAIN file.records : text[i] = ElementsOf(file, k)
  /\ \A i \in DOMAIN text : \A c \in DOMAIN columns :
       /\ rows[i][c] \in [null : BOOLEAN, chars : Nat, size : Nat]
       /\ rows[i][c].null <=> NullStored(columns[c], text[i][c])
       /\ rows[i][c].chars = IF rows[i][c].null THEN 0 ELSE text[i][c].len
       /\ text[i][c].len <= minimum_column_widths[c]

LinesSoFar ==
  /\ state \in {"reading", "read", "failed"}
  /\ lines \in Nat /\ Len(text) <= lines /\ lines <= Len(file.records)
  /\ state = "reading" /\ GotDynamic => Len(own) = Len(text)
  /\ Len(text) = lines => row_idx = lines /\ \A i \in 1..lines : text[i] = ElementsOf(file, i)
  /\ state = "read" => lines = Len(file.records)
  /\ (\A k \in DOMAIN file.records : ~IsBlank(ElementsOf(file, k))) => Len(text) = lines /\ state # "failed"

TripInv ==
  /\ IsList(written)
  /\ stage \in {"free", "table", "file", "refused", "cut"}
  /\ stage = "table" => IsTable(tab) /\ Idle
  /\ stage = "file" =>
       /\ Latest.table = tab /\ Writes(tab, Latest.request, file)
       /\ \/ columns = <<>> /\ (Idle \/ (state = "failed" /\ ~HeaderReadable(file)))
          \/ HeaderRead /\ StoredSoFar /\ LinesSoFar

LEMMA TripInit_Inv == TripInit => TripInv
<1> SUFFICES ASSUME TripInit PROVE TripInv
  OBVIOUS
<1>1. IsList(written) /\ stage \in {"free", "table"}
  BY EmptyIsList DEF TripInit
<1>2. stage = "table" => IsTable(tab) /\ Idle
  BY TablesAssumption DEF TripInit
<1> QED
  BY <1>1, <1>2 DEF TripInv

LEMMA HeaderNumbers ==
  ASSUME NEW t, NEW request, NEW f, Writes(t, request, f)
  PROVE  \E n \in Nat :
           /\ n = Len(PlacesAsked(t, request)) /\ DOMAIN f.headings = 1..n
           /\ HeaderReadable(f) => n # 0
           /\ \A c \in 1..n : f.headings[c].width \in Nat \ {0}
<1>1. PICK n : n = Len(PlacesAsked(t, request))
  OBVIOUS
<1>2. /\ n \in Nat /\ IsList(f.headings) /\ Len(f.headings) = n /\ DOMAIN f.headings = 1..n
      /\ \A c \in 1..n : f.headings[c].width \in Nat \ {0}
  BY <1>1, HeadingsWritten
<1>3. ASSUME n = 0 PROVE f.headings = <<>>
  <2>1. PICK s : s = f.headings
    OBVIOUS
  <2>2. s = [i \in 1..0 |-> s[i]]
    BY <1>2, <1>3, <2>1 DEF IsList
  <2>3. s = <<>>
    BY <2>2
  <2> QED
    BY <2>1, <2>3
<1> QED
  BY <1>1, <1>2, <1>3 DEF HeaderReadable

\* Before a header is read nothing is.
LEMMA NothingReadBefore ==
  ASSUME TripInv, stage = "file", columns = <<>>, state = "reading"
  PROVE  Idle
<1>1. Writes(tab, Latest.request, file)
  BY DEF TripInv
<1>2. PICK n \in Nat : DOMAIN file.headings = 1..n /\ (HeaderReadable(file) => n # 0)
  BY <1>1, HeaderNumbers
<1>3. ~HeaderRead
  <2> SUFFICES ASSUME HeaderRead PROVE FALSE
    OBVIOUS
  <2>1. columns = [c \in 1..n |-> append_ipac_data_member(file.headings[c])] /\ n # 0
    BY <1>2 DEF HeaderRead
  <2>2. 1 \in DOMAIN columns /\ DOMAIN <<>> = {}
    BY <2>1
  <2> QED
    BY <2>2
<1> QED
  BY <1>3 DEF TripInv

\* Reading the header: what is read is what was written, or nothing is read.
LEMMA ReadHeader_Inv == TripInv /\ ReadHeader => TripInv'
<1> SUFFICES ASSUME TripInv, ReadHeader PROVE TripInv'
  OBVIOUS
<1>1. /\ stage = "file" /\ columns = <<>> /\ state = "reading"
      /\ UNCHANGED <<lines, row_idx, rows, recorded, own, text, stage, tab, file, written>>
  BY DEF ReadHeader, trip
<1>2. IsList(written) /\ Latest.table = tab /\ Writes(tab, Latest.request, file)
  BY <1>1 DEF TripInv
<1>3. PICK n \in Nat : /\ DOMAIN file.headings = 1..n /\ (HeaderReadable(file) => n # 0)
                     /\ \A c \in 1..n : file.headings[c].width \in Nat \ {0}
  BY <1>2, HeaderNumbers
<1>4. Idle
  BY <1>1, NothingReadBefore
<1>5. CASE HeaderReadable(file)
  <2>1. /\ columns' = [c \in DOMAIN file.headings |-> append_ipac_data_member(file.headings[c])]
        /\ widths' = [c \in DOMAIN file.headings |-> file.headings[c].width]
        /\ minimum_column_widths' = [c \in DOMAIN file.headings |-> 1]
        /\ state' = "reading"
    BY <1>1, <1>5 DEF ReadHeader
  <2>3. HeaderRead'
    BY <1>1, <1>3, <1>5, <2>1 DEF HeaderRead
  <2>4. lines' = 0 /\ row_idx' = 0 /\ rows' = <<>> /\ text' = <<>> /\ own' = <<>>
    BY <1>1, <1>4 DEF Idle
  <2>5. DOMAIN <<>> = {} /\ 1..0 = {}
    OBVIOUS
  <2>6. StoredSoFar'
    BY <2>4, <2>5, EmptyIsList DEF StoredSoFar
  <2>7. Len(file.records) \in Nat
    BY <1>2, RecordsWritten
  <2>8. LinesSoFar'
    BY <1>1, <2>1, <2>4, <2>5, <2>7, EmptyIsList DEF LinesSoFar
  <2> QED
    BY <1>1, <1>2, <2>3, <2>6, <2>8 DEF TripInv, Latest
<1>6. CASE ~HeaderReadable(file)
  <2>1. state' = "failed" /\ columns' = columns
    BY <1>6 DEF ReadHeader
  <2> QED
    BY <1>1, <1>2, <1>6, <2>1 DEF TripInv, Latest
<1> QED
  BY <1>5, <1>6

\* The column has a null value of its own that is not blank.
DeclaresMark(h) == Marked(h) /\ h.null.word = "marker"

\* What is read of a record is its text without blanks around it.
LEMMA ElementFacts ==
  ASSUME NEW t, NEW request, NEW f, Writes(t, request, f), NEW k \in DOMAIN f.records,
         NEW c \in DOMAIN f.headings, NEW e, e = ElementsOf(f, k)[c]
  PROVE  /\ e = ElementOf(f.headings[c], f.records[k][c]) /\ e.ok = TRUE
         /\ e.len = f.records[k][c].core
         /\ e.len \in Nat /\ e.word \in {"", "marker", "null"}
         /\ e.word = "marker" => DeclaresMark(f.headings[c])
<1>0. IsTable(t) /\ IsRequest(request) /\ ~Unsupported(t)
  BY DEF Writes
<1>1. PICK n \in Nat : n = Len(PlacesAsked(t, request)) /\ DOMAIN f.headings = 1..n
  BY HeaderNumbers
<1>2. f.headings[c] = HeadingAt(t, WidthsOf(t, request), PlacesAsked(t, request)[c])
  BY <1>1, HeadingsWritten
<1>3. /\ k \in 1..Len(RowIds(t, request))
      /\ f.records[k][c] = TextAt(t, RowAsked(t, request, k), PlacesAsked(t, request)[c])
  BY <1>1, RecordsWritten
<1>4. PICK i \in DOMAIN t.rows : RowAsked(t, request, k) = t.rows[i]
  BY <1>3, RowAskedIs
<1>5. PICK id \in DOMAIN t.fields : \E j \in 1..SizeOf(t, id) : PlacesAsked(t, request)[c] = <<id, j>>
  BY <1>0, <1>1, PlaceIs
<1>6. PICK j \in 1..SizeOf(t, id) : PlacesAsked(t, request)[c] = <<id, j>>
  BY <1>5
<1>7. PICK cells : cells = RowAsked(t, request, k)
  OBVIOUS
<1>8. PICK x : x = f.records[k][c]
  OBVIOUS
<1>9. x = TextAt(t, cells, <<id, j>>)
  BY <1>3, <1>6, <1>7, <1>8
<1>10. f.headings[c].null = NullText(t.fields[id])
  BY <1>2, <1>6 DEF HeadingAt
<1>11. IsField(t.fields[id]) /\ IsCell(t.fields[id], cells[id])
  BY <1>0, <1>4, <1>7 DEF IsTable
<1>12. e = ElementOf(f.headings[c], x)
  BY <1>8 DEF ElementsOf
<1>13. PICK h : h = f.headings[c]
  OBVIOUS
<1>14. e.len = x.core /\ e.ok = TRUE /\ e.word = IF x.core = 0 THEN "" ELSE x.word
  <2>1. PICK b \in BOOLEAN : b = (x.word # "" /\ x.word = h.null.word)
    OBVIOUS
  <2>2. PICK y : y = IF x.core = 0 THEN "" ELSE x.word
    OBVIOUS
  <2>3. e = [len |-> x.core, ok |-> TRUE, mark |-> b, word |-> y]
    BY <1>12, <1>13, <2>1, <2>2, Zenon DEF ElementOf
  <2>4. e.len = x.core /\ e.ok = TRUE /\ e.word = y
    BY <2>3
  <2> QED
    BY <2>2, <2>4, Zenon
<1>15. x.core \in Nat /\ x.word \in {"", "marker", "null"}
  BY <1>0, <1>4, <1>7, <1>9, TextAtFacts
<1>16. ASSUME x.word = "marker", x.core # 0
       PROVE  NullText(t.fields[id]).core > 0 /\ NullText(t.fields[id]).word = "marker"
  <2>1. CASE cells[id].null
    <3>1. x = NullText(t.fields[id])
      BY <1>9, <2>1 DEF TextAt
    <3>2. x.core > 0
      <4>1. PICK m \in Nat : m = x.core
        BY <1>15
      <4>2. m > 0
        BY <1>16, <4>1
      <4> QED
        BY <4>1, <4>2
    <3> QED
      BY <1>16, <3>1, <3>2
  <2>2. CASE ~cells[id].null /\ j \in DOMAIN cells[id].texts
    <3>1. x = cells[id].texts[j]
      BY <1>9, <2>2 DEF TextAt
    <3>2. IsTextOf(t.fields[id], x)
      BY <1>11, <2>2, <3>1 DEF IsCell
    <3>3. t.fields[id].null_text > 0 /\ ~t.fields[id].null_blank
      BY <1>16, <3>2 DEF IsTextOf
    <3> QED
      BY <1>11, <3>3, NullTextFacts
  <2>3. CASE ~cells[id].null /\ j \notin DOMAIN cells[id].texts
    <3>1. x = Zero
      BY <1>9, <2>3 DEF TextAt
    <3> QED
      BY <1>16, <3>1, ZeroIs
  <2> QED
    BY <2>1, <2>2, <2>3
<1>17. e.word = "marker" => DeclaresMark(h)
  <2>1. e.word = "marker" => x.word = "marker" /\ x.core # 0
    BY <1>14
  <2> QED
    BY <1>10, <1>13, <1>16, <2>1 DEF Marked, DeclaresMark
<1>18. e.word \in {"", "marker", "null"}
  BY <1>14, <1>15
<1> QED
  BY <1>8, <1>12, <1>13, <1>14, <1>15, <1>17, <1>18

\* What holds while records are read.
LEMMA CommonFacts ==
  ASSUME TripInv, stage = "file", columns # <<>>
  PROVE  /\ IsList(written) /\ Latest.table = tab /\ Writes(tab, Latest.request, file)
         /\ HeaderRead /\ StoredSoFar /\ LinesSoFar
         /\ DOMAIN columns = DOMAIN file.headings
  BY DEF TripInv, HeaderRead

LEMMA TextOfRecord ==
  ASSUME NEW t, NEW request, NEW f, Writes(t, request, f), NEW k \in 1..Len(f.records),
         NEW c \in 1..Len(PlacesAsked(t, request))
  PROVE  /\ f.records[k][c].len \in Nat /\ f.records[k][c].core \in Nat
         /\ f.records[k][c].core <= f.records[k][c].len
<1>1. IsTable(t) /\ IsRequest(request) /\ ~Unsupported(t)
  BY DEF Writes
<1>2. /\ k \in 1..Len(RowIds(t, request))
      /\ f.records[k][c] = TextAt(t, RowAsked(t, request, k), PlacesAsked(t, request)[c])
  BY RecordsWritten
<1>3. PICK i \in DOMAIN t.rows : RowAsked(t, request, k) = t.rows[i]
  BY <1>2, RowAskedIs
<1>4. PICK id \in DOMAIN t.fields : \E j \in 1..SizeOf(t, id) : PlacesAsked(t, request)[c] = <<id, j>>
  BY <1>1, PlaceIs
<1>5. PICK j \in 1..SizeOf(t, id) : PlacesAsked(t, request)[c] = <<id, j>>
  BY <1>4
<1>6. PICK x : x = TextAt(t, RowAsked(t, request, k), <<id, j>>)
  OBVIOUS
<1>7. x.len \in Nat /\ x.core \in Nat /\ x.core <= x.len
  BY <1>1, <1>3, <1>6, TextAtFacts
<1> QED
  BY <1>2, <1>5, <1>6, <1>7

\* No bar of a line is moved.
LEMMA NotMisaligned ==
  ASSUME NEW t, NEW request, NEW f, Writes(t, request, f), NEW k \in 1..Len(f.records)
  PROVE  ~IsMisaligned(f, k)
<1>1. PICK n \in Nat : n = Len(PlacesAsked(t, request)) /\ DOMAIN f.headings = 1..n
  BY HeaderNumbers
<1>2. ASSUME NEW c \in 1..n PROVE ~(f.records[k][c].len > f.headings[c].width)
  <2>1. f.records[k][c].len <= f.headings[c].width /\ f.headings[c].width \in Nat
    BY <1>1, RecordsWritten, HeadingsWritten
  <2>2. f.records[k][c].len \in Nat
    BY <1>1, TextOfRecord
  <2>3. PICK a \in Nat : a = f.records[k][c].len
    BY <2>2
  <2>4. PICK b \in Nat : b = f.headings[c].width
    BY <2>1
  <2>5. ~(a > b)
    BY <2>1, <2>3, <2>4
  <2> QED
    BY <2>3, <2>4, <2>5
<1> QED
  BY <1>1, <1>2 DEF IsMisaligned

\* A line that is blank, and one that cannot be inserted.
LEMMA BlankLine_Inv ==
  ASSUME TripInv, stage = "file", columns # <<>>, state = "reading", lines < Len(file.records),
         lines' = lines + 1, UNCHANGED trip, IsBlank(ElementsOf(file, lines + 1)), BlankLine
  PROVE  TripInv'
<1>1. /\ IsList(written) /\ Latest.table = tab /\ Writes(tab, Latest.request, file)
      /\ HeaderRead /\ StoredSoFar /\ LinesSoFar
  BY CommonFacts
<1>2. UNCHANGED <<columns, state, widths, minimum_column_widths, rows, recorded, own, text, stage, tab, file, written>>
  BY DEF BlankLine, trip
<1>3. Len(file.records) \in Nat /\ DOMAIN file.records = 1..Len(file.records)
  BY <1>1, RecordsWritten
<1>4. PICK m \in Nat : m = lines
  BY <1>1 DEF LinesSoFar
<1>5. PICK l \in Nat : l = Len(text)
  BY <1>1 DEF StoredSoFar, IsList
<1>6. l <= m /\ m < Len(file.records) /\ lines' = m + 1
  BY <1>1, <1>4, <1>5 DEF LinesSoFar
<1>7. ~\A k \in DOMAIN file.records : ~IsBlank(ElementsOf(file, k))
  <2>1. m + 1 \in DOMAIN file.records
    BY <1>3, <1>6
  <2> QED
    BY <1>4, <2>1
<1>8. HeaderRead'
  BY <1>1, <1>2 DEF HeaderRead
<1>9. StoredSoFar'
  BY <1>1, <1>2 DEF StoredSoFar
<1>10. l # m + 1 /\ m + 1 \in Nat /\ l <= m + 1 /\ m + 1 <= Len(file.records)
  BY <1>3, <1>6
<1>11. state \in {"reading", "read", "failed"} /\ state = "reading" /\ (GotDynamic => Len(own) = Len(text))
  BY <1>1 DEF LinesSoFar
<1>12. GotDynamic' <=> GotDynamic
  BY <1>2 DEF GotDynamic, Strings
<1>13. LinesSoFar'
  BY <1>2, <1>5, <1>6, <1>7, <1>10, <1>11, <1>12 DEF LinesSoFar
<1> QED
  BY <1>1, <1>2, <1>8, <1>9, <1>13 DEF TripInv, Latest

LEMMA CannotInsert_Inv ==
  ASSUME TripInv, stage = "file", columns # <<>>, state = "reading", lines < Len(file.records),
         lines' = lines + 1, UNCHANGED trip, CannotInsert(ElementsOf(file, lines + 1))
  PROVE  TripInv'
<1>1. /\ IsList(written) /\ Latest.table = tab /\ Writes(tab, Latest.request, file)
      /\ HeaderRead /\ StoredSoFar /\ LinesSoFar /\ DOMAIN columns = DOMAIN file.headings
  BY CommonFacts
<1>2. /\ UNCHANGED <<columns, row_idx, widths, minimum_column_widths, rows, recorded, own, text, stage, tab, file, written>>
      /\ state' = "failed"
  BY DEF CannotInsert, Throw, trip
<1>3. Len(file.records) \in Nat /\ DOMAIN file.records = 1..Len(file.records)
  BY <1>1, RecordsWritten
<1>4. PICK m \in Nat : m = lines
  BY <1>1 DEF LinesSoFar
<1>5. PICK l \in Nat : l = Len(text)
  BY <1>1 DEF StoredSoFar, IsList
<1>6. l <= m /\ m < Len(file.records) /\ lines' = m + 1
  BY <1>1, <1>4, <1>5 DEF LinesSoFar
<1>7. m + 1 \in DOMAIN file.records
  BY <1>3, <1>6
<1>8. ASSUME \A k \in DOMAIN file.records : ~IsBlank(ElementsOf(file, k))
      PROVE  FALSE
  <2>1. Len(text) = lines
    BY <1>1, <1>8 DEF LinesSoFar
  <2>2. row_idx = lines /\ (GotDynamic => Len(own) = Len(text))
    BY <1>1, <2>1 DEF LinesSoFar
  <2>3. PICK c \in DOMAIN columns : ~Inserts(columns[c], ElementsOf(file, lines + 1)[c])
    BY DEF CannotInsert
  <2>4. ElementsOf(file, lines + 1)[c].ok = TRUE
    BY <1>1, <1>4, <1>7, <2>3, ElementFacts
  <2>5. columns[c].char /\ ~LengthFound
    BY <2>3, <2>4 DEF Inserts
  <2>6. GotDynamic
    BY <2>5 DEF GotDynamic, Strings
  <2>7. row_idx < Len(own) + 1
    <3>1. row_idx = m /\ Len(own) = m
      BY <1>4, <2>1, <2>2, <2>6
    <3> QED
      BY <3>1
  <2> QED
    BY <2>5, <2>7 DEF LengthFound
<1>9. HeaderRead'
  BY <1>1, <1>2 DEF HeaderRead
<1>10. StoredSoFar'
  BY <1>1, <1>2 DEF StoredSoFar
<1>11. l # m + 1 /\ m + 1 \in Nat /\ l <= m + 1 /\ m + 1 <= Len(file.records)
  BY <1>3, <1>6
<1>12. LinesSoFar'
  BY <1>2, <1>5, <1>6, <1>8, <1>11 DEF LinesSoFar
<1> QED
  BY <1>1, <1>2, <1>9, <1>10, <1>12 DEF TripInv, Latest

LEMMA StoredIs ==
  ASSUME NEW col, NEW e, NEW width \in Nat, e.len \in Nat, NEW s, s = Stored(col, e, width)
  PROVE  /\ s \in [null : BOOLEAN, chars : Nat, size : Nat]
         /\ s.null <=> NullStored(col, e)
         /\ s.chars = IF s.null THEN 0 ELSE e.len
<1>1. PICK b \in BOOLEAN : b <=> NullStored(col, e)
  OBVIOUS
<1>2. CASE b
  <2>1. (IsNull(col, e) \/ (~col.char /\ e.len = 0)) = TRUE
    BY <1>1, <1>2 DEF NullStored
  <2>2. s = [null |-> TRUE, chars |-> 0, size |-> 0]
    BY <2>1 DEF Stored
  <2> QED
    BY <1>1, <1>2, <2>2
<1>3. CASE ~b
  <2>1. (IsNull(col, e) \/ (~col.char /\ e.len = 0)) = FALSE
    BY <1>1, <1>3 DEF NullStored
  <2>2. s = [null |-> FALSE, chars |-> e.len, size |-> width]
    BY <2>1 DEF Stored
  <2> QED
    BY <1>1, <1>3, <2>2
<1> QED
  BY <1>2, <1>3

\* A line is stored as StoredSoFar says, and bounds the smallest widths.
LEMMA ReadLine_Inv ==
  ASSUME TripInv, stage = "file", columns # <<>>, state = "reading", lines < Len(file.records),
         lines' = lines + 1, UNCHANGED trip,
         ~IsBlank(ElementsOf(file, lines + 1)), ReadLine(ElementsOf(file, lines + 1))
  PROVE  TripInv'
<1>1. /\ IsList(written) /\ Latest.table = tab /\ Writes(tab, Latest.request, file)
      /\ HeaderRead /\ StoredSoFar /\ LinesSoFar /\ DOMAIN columns = DOMAIN file.headings
  BY CommonFacts
<1>2. PICK es : es = ElementsOf(file, lines + 1)
  OBVIOUS
<1>3. PICK stored : stored = [c \in DOMAIN columns |-> Stored(columns[c], es[c], widths[c])]
  OBVIOUS
<1>4. /\ UNCHANGED <<columns, state, widths, stage, tab, file, written>>
      /\ rows' = Append(rows, stored)
      /\ own' = IF GotDynamic THEN Append(own, Lengths([c \in DOMAIN columns |-> es[c].len])) ELSE own
      /\ minimum_column_widths' = Widened(es)
      /\ text' = Append(text, es)
      /\ row_idx' = row_idx + 1
  BY <1>2, <1>3 DEF ReadLine, trip
<1>5. Len(file.records) \in Nat /\ DOMAIN file.records = 1..Len(file.records)
  BY <1>1, RecordsWritten
<1>6. PICK m \in Nat : m = lines
  BY <1>1 DEF LinesSoFar
<1>7. PICK l \in Nat : l = Len(text) /\ DOMAIN text = 1..l
  <2>1. PICK s : s = text
    OBVIOUS
  <2>2. Len(s) \in Nat /\ s = [i \in 1..Len(s) |-> s[i]]
    BY <1>1, <2>1 DEF StoredSoFar, IsList
  <2>3. DOMAIN s = 1..Len(s)
    BY <2>2
  <2> QED
    BY <2>1, <2>2, <2>3
<1>8. l <= m /\ m < Len(file.records) /\ lines' = m + 1
  BY <1>1, <1>6, <1>7 DEF LinesSoFar
<1>9. m + 1 \in DOMAIN file.records
  BY <1>5, <1>8
<1>10. IsList(rows) /\ Len(rows) = l /\ IsList(text) /\ IsList(own)
  BY <1>1, <1>7 DEF StoredSoFar
<1>11. /\ IsList(text') /\ Len(text') = l + 1 /\ DOMAIN text' = 1..(l + 1)
       /\ text'[l + 1] = es /\ \A i \in 1..l : text'[i] = text[i]
  BY <1>4, <1>7, <1>10, AppendIs
<1>12. /\ IsList(rows') /\ Len(rows') = l + 1
       /\ rows'[l + 1] = stored /\ \A i \in 1..l : rows'[i] = rows[i]
  BY <1>4, <1>10, AppendIs
<1>13. IsList(own') /\ (GotDynamic => Len(own') = Len(own) + 1)
  BY <1>4, <1>10, AppendIs
<1>14. ASSUME NEW c \in DOMAIN columns
       PROVE  /\ widths[c] \in Nat \ {0} /\ minimum_column_widths[c] \in Nat \ {0}
              /\ es[c].len \in Nat
              /\ minimum_column_widths'[c] \in Nat \ {0}
              /\ es[c].len <= minimum_column_widths'[c]
              /\ minimum_column_widths[c] <= minimum_column_widths'[c]
  <2>1. widths[c] \in Nat \ {0} /\ minimum_column_widths[c] \in Nat \ {0}
    BY <1>1 DEF HeaderRead
  <2>2. es[c].len \in Nat
    BY <1>1, <1>2, <1>6, <1>9, ElementFacts
  <2>3. minimum_column_widths'[c] = IF es[c].len > minimum_column_widths[c] THEN es[c].len ELSE minimum_column_widths[c]
    BY <1>4 DEF Widened
  <2>4. PICK a \in Nat \ {0} : a = minimum_column_widths[c]
    BY <2>1
  <2>5. PICK b \in Nat : b = es[c].len
    BY <2>2
  <2>6. PICK d : d = minimum_column_widths'[c]
    OBVIOUS
  <2>7. d = IF b > a THEN b ELSE a
    BY <2>3, <2>4, <2>5, <2>6
  <2>8. d \in Nat \ {0} /\ b <= d /\ a <= d
    BY <2>7
  <2> QED
    BY <2>1, <2>2, <2>4, <2>5, <2>6, <2>8
<1>15. HeaderRead'
  BY <1>1, <1>4, <1>14 DEF HeaderRead
<1>16. ASSUME NEW i \in 1..(l + 1)
       PROVE  /\ ~IsBlank(text'[i])
              /\ \E k \in DOMAIN file.records : text'[i] = ElementsOf(file, k)
              /\ \A c \in DOMAIN columns :
                   /\ rows'[i][c] \in [null : BOOLEAN, chars : Nat, size : Nat]
                   /\ rows'[i][c].null <=> NullStored(columns[c], text'[i][c])
                   /\ rows'[i][c].chars = IF rows'[i][c].null THEN 0 ELSE text'[i][c].len
                   /\ text'[i][c].len <= minimum_column_widths'[c]
  <2>1. CASE i = l + 1
    <3>1. text'[i] = es /\ rows'[i] = stored
      BY <1>11, <1>12, <2>1
    <3>2. ~IsBlank(es) /\ \E k \in DOMAIN file.records : es = ElementsOf(file, k)
      BY <1>2, <1>6, <1>9
    <3>3. ASSUME NEW c \in DOMAIN columns
          PROVE  /\ stored[c] \in [null : BOOLEAN, chars : Nat, size : Nat]
                 /\ stored[c].null <=> NullStored(columns[c], es[c])
                 /\ stored[c].chars = IF stored[c].null THEN 0 ELSE es[c].len
      <4>1. stored[c] = Stored(columns[c], es[c], widths[c])
        BY <1>3
      <4>2. widths[c] \in Nat /\ es[c].len \in Nat
        BY <1>14
      <4>3. PICK s : s = stored[c]
        OBVIOUS
      <4>4. PICK e : e = es[c]
        OBVIOUS
      <4>5. PICK width \in Nat : width = widths[c]
        BY <4>2
      <4>6. PICK col : col = columns[c]
        OBVIOUS
      <4>7. s = Stored(col, e, width) /\ e.len \in Nat
        BY <4>1, <4>2, <4>3, <4>4, <4>5, <4>6
      <4>8. /\ s \in [null : BOOLEAN, chars : Nat, size : Nat]
            /\ s.null <=> NullStored(col, e)
            /\ s.chars = IF s.null THEN 0 ELSE e.len
        BY <4>7, StoredIs
      <4> QED
        BY <4>3, <4>4, <4>6, <4>8
    <3>4. \A c \in DOMAIN columns : es[c].len <= minimum_column_widths'[c]
      BY <1>14
    <3> QED
      BY <3>1, <3>2, <3>3, <3>4
  <2>2. CASE i # l + 1
    <3>1. i \in 1..l
      BY <2>2
    <3>2. text'[i] = text[i] /\ rows'[i] = rows[i]
      BY <1>11, <1>12, <3>1
    <3>3. PICK k \in DOMAIN file.records : text[i] = ElementsOf(file, k)
      BY <1>1, <1>7, <3>1 DEF StoredSoFar
    <3>4. ASSUME NEW c \in DOMAIN columns PROVE text[i][c].len <= minimum_column_widths'[c]
      <4>1. text[i][c].len \in Nat
        <5>1. PICK e : e = ElementsOf(file, k)[c]
          OBVIOUS
        <5>2. c \in DOMAIN file.headings
          BY <1>1
        <5>3. e.len \in Nat
          BY <1>1, <5>1, <5>2, ElementFacts
        <5> QED
          BY <3>3, <5>1, <5>3
      <4>2. text[i][c].len <= minimum_column_widths[c]
        BY <1>1, <1>7, <3>1 DEF StoredSoFar
      <4>3. minimum_column_widths[c] \in Nat /\ minimum_column_widths'[c] \in Nat /\ minimum_column_widths[c] <= minimum_column_widths'[c]
        BY <1>14
      <4>4. \A x, y, z \in Nat : x <= y /\ y <= z => x <= z
        OBVIOUS
      <4> QED
        BY <4>1, <4>2, <4>3, <4>4
    <3>5. /\ ~IsBlank(text[i])
          /\ \A c \in DOMAIN columns :
                   /\ rows[i][c] \in [null : BOOLEAN, chars : Nat, size : Nat]
                   /\ rows[i][c].null <=> NullStored(columns[c], text[i][c])
                   /\ rows[i][c].chars = IF rows[i][c].null THEN 0 ELSE text[i][c].len
      BY <1>1, <1>7, <3>1 DEF StoredSoFar
    <3> QED
      BY <3>2, <3>3, <3>4, <3>5
  <2> QED
    BY <2>1, <2>2
<1>17. StoredSoFar'
  <2>1. IsList(rows') /\ IsList(text') /\ IsList(own') /\ Len(rows') = Len(text')
    BY <1>11, <1>12, <1>13
  <2>2. columns' = columns /\ file' = file /\ DOMAIN text' = 1..(l + 1)
    BY <1>4, <1>11
  <2>3. \A i \in DOMAIN text' : /\ ~IsBlank(text'[i])
                                /\ \E k \in DOMAIN file'.records : text'[i] = ElementsOf(file', k)
    BY <1>16, <2>2
  <2>4. \A i \in DOMAIN text' : \A c \in DOMAIN columns' :
          /\ rows'[i][c] \in [null : BOOLEAN, chars : Nat, size : Nat]
          /\ rows'[i][c].null <=> NullStored(columns'[c], text'[i][c])
          /\ rows'[i][c].chars = IF rows'[i][c].null THEN 0 ELSE text'[i][c].len
          /\ text'[i][c].len <= minimum_column_widths'[c]
    BY <1>16, <2>2
  <2> QED
    BY <2>1, <2>3, <2>4 DEF StoredSoFar
<1>18. state = "reading" /\ (GotDynamic => Len(own) = l)
  BY <1>1, <1>7 DEF LinesSoFar
<1>19. GotDynamic' <=> GotDynamic
  BY <1>4 DEF GotDynamic, Strings
<1>20. m + 1 \in Nat /\ l + 1 <= m + 1 /\ m + 1 <= Len(file.records)
  BY <1>5, <1>8
<1>21. l + 1 = m + 1 => row_idx' = m + 1 /\ \A i \in 1..(m + 1) : text'[i] = ElementsOf(file, i)
  <2> SUFFICES ASSUME l + 1 = m + 1 PROVE row_idx' = m + 1 /\ \A i \in 1..(m + 1) : text'[i] = ElementsOf(file, i)
    OBVIOUS
  <2>1. l = m
    OBVIOUS
  <2>2. row_idx = m /\ \A i \in 1..m : text[i] = ElementsOf(file, i)
    BY <1>1, <1>6, <1>7, <2>1 DEF LinesSoFar
  <2>3. \A i \in 1..(m + 1) : i \in 1..m \/ i = m + 1
    OBVIOUS
  <2> QED
    BY <1>2, <1>4, <1>6, <1>11, <2>1, <2>2, <2>3
<1>22. (\A k \in DOMAIN file.records : ~IsBlank(ElementsOf(file, k))) => l + 1 = m + 1
  BY <1>1, <1>6, <1>7 DEF LinesSoFar
<1>23. LinesSoFar'
  <2>1. /\ state' = "reading" /\ lines' = m + 1 /\ Len(text') = l + 1 /\ file' = file
        /\ (GotDynamic' => Len(own') = l + 1)
    BY <1>4, <1>8, <1>11, <1>13, <1>18, <1>19
  <2> QED
    BY <1>20, <1>21, <1>22, <2>1 DEF LinesSoFar
<1> QED
  BY <1>1, <1>4, <1>15, <1>17, <1>23 DEF TripInv, Latest

\* The end of the file: narrowing the columns changes no length and no null.
LEMMA EndOfWritten_Inv == TripInv /\ EndOfWritten => TripInv'
<1> SUFFICES ASSUME TripInv, EndOfWritten PROVE TripInv'
  OBVIOUS
<1>0. stage = "file" /\ columns # <<>> /\ lines = Len(file.records) /\ EndOfFile /\ UNCHANGED trip
  BY DEF EndOfWritten
<1>1. /\ IsList(written) /\ Latest.table = tab /\ Writes(tab, Latest.request, file)
      /\ HeaderRead /\ StoredSoFar /\ LinesSoFar
  BY <1>0, CommonFacts
<1>2. /\ state = "reading" /\ state' = "read"
      /\ UNCHANGED <<columns, lines, row_idx, minimum_column_widths, text, stage, tab, file, written>>
      /\ NothingToShrink \/ Shrink
  BY <1>0 DEF EndOfFile, trip
<1>3. LinesSoFar'
  BY <1>0, <1>1, <1>2 DEF LinesSoFar
<1>4. HeaderRead' /\ StoredSoFar'
  <2>1. CASE NothingToShrink
    <3>1. UNCHANGED <<widths, rows, own>>
      BY <2>1 DEF NothingToShrink
    <3>2. HeaderRead'
      BY <1>1, <1>2, <3>1 DEF HeaderRead
    <3>3. StoredSoFar'
      BY <1>1, <1>2, <3>1 DEF StoredSoFar
    <3> QED
      BY <3>2, <3>3
  <2>2. CASE Shrink
    <3>1. /\ widths' = Shrunk
          /\ rows' = [i \in DOMAIN rows |->
                        [c \in DOMAIN columns |->
                           IF columns[c].char THEN Narrowed(rows[i][c], Shrunk[c]) ELSE rows[i][c]]]
          /\ own' = [i \in DOMAIN rows |-> <<>>]
      BY <2>2 DEF Shrink
    <3>2. PICK l \in Nat : l = Len(rows) /\ DOMAIN rows = 1..l /\ Len(text) = l /\ DOMAIN text = 1..l
      <4>1. IsList(rows) /\ IsList(text) /\ Len(rows) = Len(text)
        BY <1>1 DEF StoredSoFar
      <4>2. \A s : IsList(s) => Len(s) \in Nat /\ DOMAIN s = 1..Len(s)
        <5> SUFFICES ASSUME NEW s, IsList(s) PROVE Len(s) \in Nat /\ DOMAIN s = 1..Len(s)
          OBVIOUS
        <5>1. Len(s) \in Nat /\ s = [i \in 1..Len(s) |-> s[i]]
          BY DEF IsList
        <5> QED
          BY <5>1
      <4> QED
        BY <4>1, <4>2
    <3>3. IsList(rows') /\ Len(rows') = l /\ IsList(own')
      BY <3>1, <3>2 DEF IsList
    <3>4. \A c \in DOMAIN columns :
            /\ widths[c] \in Nat \ {0} /\ minimum_column_widths[c] \in Nat \ {0}
            /\ widths'[c] \in Nat \ {0}
      <4>1. \A c \in DOMAIN columns : widths[c] \in Nat \ {0} /\ minimum_column_widths[c] \in Nat \ {0}
        BY <1>1 DEF HeaderRead
      <4> QED
        BY <3>1, <4>1 DEF Shrunk
    <3>5. HeaderRead'
      BY <1>1, <1>2, <3>4 DEF HeaderRead
    <3>6. ASSUME NEW i \in 1..l, NEW c \in DOMAIN columns
          PROVE  /\ rows'[i][c] \in [null : BOOLEAN, chars : Nat, size : Nat]
                 /\ rows'[i][c].null = rows[i][c].null
                 /\ rows'[i][c].chars = rows[i][c].chars
      <4>1. PICK s : s = rows[i][c]
        OBVIOUS
      <4>2. PICK w \in Nat : w = minimum_column_widths[c]
        BY <3>4
      <4>3. /\ s \in [null : BOOLEAN, chars : Nat, size : Nat]
            /\ s.chars = IF s.null THEN 0 ELSE text[i][c].len
            /\ text[i][c].len <= w
        BY <1>1, <3>2, <4>1, <4>2 DEF StoredSoFar
      <4>4. rows'[i][c] = IF columns[c].char THEN Narrowed(s, Shrunk[c]) ELSE s
        BY <3>1, <3>2, <4>1
      <4>5. CASE ~columns[c].char
        BY <4>1, <4>3, <4>4, <4>5
      <4>6. CASE columns[c].char
        <5>1. Shrunk[c] = w
          BY <4>2, <4>6 DEF Shrunk
        <5>2. PICK a \in Nat : a = s.chars
          BY <4>3
        <5>3. a <= w
          <6>1. PICK b : b = text[i][c].len
            OBVIOUS
          <6>2. a = 0 \/ a = b
            BY <4>3, <5>2, <6>1
          <6>3. b <= w
            BY <4>3, <6>1
          <6> QED
            BY <6>2, <6>3
        <5>4. ~(a > w)
          BY <5>3
        <5>5. Narrowed(s, w) = [s EXCEPT !.chars = a]
          BY <5>2, <5>4 DEF Narrowed
        <5>6. Narrowed(s, w) = s
          BY <4>3, <5>2, <5>5
        <5> QED
          BY <4>1, <4>3, <4>4, <4>6, <5>1, <5>6
      <4> QED
        BY <4>5, <4>6
    <3>7. StoredSoFar'
      BY <1>1, <1>2, <3>2, <3>3, <3>6 DEF StoredSoFar
    <3> QED
      BY <3>5, <3>7
  <2> QED
    BY <1>2, <2>1, <2>2
<1> QED
  BY <1>0, <1>1, <1>2, <1>3, <1>4 DEF TripInv, Latest

\* The Table that is read is one that can be written.
LEMMA FieldReadIs ==
  ASSUME HeaderRead, NEW request, Writes(tab, request, file), NEW c \in DOMAIN columns
  PROVE  /\ IsField(FieldRead(c))
         /\ columns[c].char \in BOOLEAN
         /\ columns[c].char <=> FieldRead(c).type = "char"
         /\ ~columns[c].char => FieldRead(c).size = 1
         /\ DeclaresMark(file.headings[c]) =>
              FieldRead(c).null_text > 0 /\ ~FieldRead(c).null_blank
<1>0. IsTable(tab) /\ IsRequest(request) /\ ~Unsupported(tab)
  BY DEF Writes
<1>1. PICK n \in Nat : n = Len(PlacesAsked(tab, request)) /\ DOMAIN file.headings = 1..n
  BY HeaderNumbers
<1>2. c \in 1..n /\ columns[c] = append_ipac_data_member(file.headings[c])
  BY <1>1 DEF HeaderRead
<1>3. PICK h : h = file.headings[c]
  OBVIOUS
<1>4. /\ h = HeadingAt(tab, WidthsOf(tab, request), PlacesAsked(tab, request)[c])
      /\ Len(h.name) \in Nat
  BY <1>1, <1>2, <1>3, HeadingsWritten
<1>5. PICK id \in DOMAIN tab.fields : \E j \in 1..SizeOf(tab, id) : PlacesAsked(tab, request)[c] = <<id, j>>
  BY <1>0, <1>1, <1>2, PlaceIs
<1>6. PICK j \in 1..SizeOf(tab, id) : PlacesAsked(tab, request)[c] = <<id, j>>
  BY <1>5
<1>7. h.type = ActiveType(tab, id) /\ h.unit = tab.fields[id].unit /\ h.null = NullText(tab.fields[id])
  BY <1>4, <1>6 DEF HeadingAt
<1>8. IsField(tab.fields[id]) /\ h.type \in DOMAIN TYPE_NAME
  BY <1>0, <1>7, FieldFacts, Sizes
<1>9. to_ipac_string(h.type) \in {"int", "long", "float", "double", "char"}
  BY <1>8, TypeNames
<1>10. PICK b \in BOOLEAN : b = (to_ipac_string(h.type) = "char") /\ columns[c].char = b
  <2>1. PICK b \in BOOLEAN : b = (to_ipac_string(h.type) = "char")
    OBVIOUS
  <2>2. PICK d \in BOOLEAN : d = Marked(h)
    <3>1. PICK d \in BOOLEAN : d = (h.null.core > 0)
      BY TruthOf, Zenon
    <3> QED
      BY <3>1, Zenon DEF Marked
  <2>3. append_ipac_data_member(h) = [char |-> b, width |-> h.width, marked |-> d]
    BY <2>1, <2>2, Zenon DEF append_ipac_data_member
  <2>4. columns[c].char = b
    BY <1>2, <1>3, <2>3
  <2> QED
    BY <2>1, <2>4
<1> DEFINE f == FieldRead(c)
           size == IF columns[c].char THEN widths[c] ELSE 1
           marked == Marked(h) /\ h.null.word = "marker"
<1>11. /\ f.name = h.name /\ f.unit = h.unit /\ f.null_blank = FALSE
       /\ f.type = TYPE_READ[to_ipac_string(h.type)]
       /\ f.size = size
       /\ f.null_text = IF marked THEN h.null.core ELSE 0
  <2>1. PICK attrs : attrs = (h.unit # "")
    OBVIOUS
  <2>2. PICK m : m = IF marked THEN h.null.core ELSE 0
    OBVIOUS
  <2>3. PICK s : s = size
    OBVIOUS
  <2>4. PICK type : type = TYPE_READ[to_ipac_string(h.type)]
    OBVIOUS
  <2>5. f = [name |-> h.name, unit |-> h.unit, attrs |-> attrs, desc |-> <<>>, bar |-> "",
             type |-> type, size |-> s, null_text |-> m, null_blank |-> FALSE]
    BY <1>3, <2>1, <2>2, <2>3, <2>4, Zenon DEF FieldRead
  <2>6. /\ f.name = h.name /\ f.unit = h.unit /\ f.null_blank = FALSE
        /\ f.type = type /\ f.size = s /\ f.null_text = m
    <3> HIDE DEF f
    <3> QED
      BY <2>5
  <2> QED
    BY <2>2, <2>3, <2>4, <2>6, Zenon
<1> HIDE DEF f
<1>12. f.type \in DOMAIN TYPE_NAME /\ (f.type = "char" <=> to_ipac_string(h.type) = "char")
  BY <1>9, <1>11 DEF TYPE_READ, TYPE_NAME
<1>13. size \in Nat \ {0}
  BY DEF HeaderRead
<1>14. h.null.core \in Nat
  BY <1>7, <1>8, NullTextFacts
<1>15. f.null_text \in Nat
  BY <1>11, <1>14
<1>16. marked => f.null_text > 0
  BY <1>11 DEF Marked
<1>17. Len(f.unit) \in Nat
  BY <1>7, <1>8, <1>11 DEF IsField
<1>18. \A k : NameOf(f, k) = f.name
  <2>1. ~IsExpanded(f)
    <3>1. f.type # "char" => ~columns[c].char
      BY <1>10, <1>12
    <3>2. f.type # "char" => f.size = 1
      BY <1>11, <3>1
    <3>3. ~(1 > 1)
      OBVIOUS
    <3> QED
      BY <3>2, <3>3 DEF IsExpanded
  <2> QED
    BY <2>1 DEF NameOf
<1>19. IsField(f)
  <2> HIDE DEF size, marked
  <2>1. Len(f.name) \in Nat /\ Len(f.name) <= Len(f.name)
    BY <1>4, <1>11
  <2>2. f.size \in Nat \ {0} /\ f.null_blank \in BOOLEAN
    BY <1>11, <1>13
  <2> QED
    BY <1>12, <1>15, <1>17, <1>18, <2>1, <2>2 DEF IsField
<1> QED
  <2>1. columns[c].char \in BOOLEAN /\ (columns[c].char <=> f.type = "char")
    BY <1>10, <1>12
  <2>2. ~columns[c].char => f.size = 1
    BY <1>11
  <2>3. DeclaresMark(h) => f.null_text > 0 /\ ~f.null_blank
    BY <1>11, <1>16 DEF DeclaresMark
  <2> QED
    BY <1>3, <1>19, <2>1, <2>2, <2>3 DEF f

\* And so are its cells.
LEMMA CellReadIs ==
  ASSUME TripInv, stage = "file", columns # <<>>, NEW i \in DOMAIN rows, NEW c \in DOMAIN columns
  PROVE  IsCell(FieldRead(c), CellRead(i, c))
<1>1. /\ Writes(tab, Latest.request, file) /\ HeaderRead /\ StoredSoFar
      /\ DOMAIN columns = DOMAIN file.headings
  BY CommonFacts
<1>2. i \in DOMAIN text
  <2>1. IsList(rows) /\ IsList(text) /\ Len(rows) = Len(text)
    BY <1>1 DEF StoredSoFar
  <2>2. \A s : IsList(s) => DOMAIN s = 1..Len(s)
    <3> SUFFICES ASSUME NEW s, IsList(s) PROVE DOMAIN s = 1..Len(s)
      OBVIOUS
    <3>1. Len(s) \in Nat /\ s = [k \in 1..Len(s) |-> s[k]]
      BY DEF IsList
    <3> QED
      BY <3>1
  <2> QED
    BY <2>1, <2>2
<1>3. PICK k \in DOMAIN file.records : text[i] = ElementsOf(file, k)
  BY <1>1, <1>2 DEF StoredSoFar
<1>4. PICK e : e = text[i][c]
  OBVIOUS
<1>5. PICK h : h = file.headings[c]
  OBVIOUS
<1>6. /\ e.len \in Nat /\ e.word \in {"", "marker", "null"}
      /\ e.word = "marker" => DeclaresMark(h)
  <2>1. c \in DOMAIN file.headings /\ e = ElementsOf(file, k)[c]
    BY <1>1, <1>3, <1>4
  <2>2. PICK f : f = file
    OBVIOUS
  <2>3. Writes(tab, Latest.request, f) /\ k \in DOMAIN f.records /\ c \in DOMAIN f.headings /\ e = ElementsOf(f, k)[c]
    BY <1>1, <2>1, <2>2
  <2>4. /\ e.len \in Nat /\ e.word \in {"", "marker", "null"}
        /\ e.word = "marker" => DeclaresMark(f.headings[c])
    BY <2>3, ElementFacts
  <2> QED
    BY <1>5, <2>2, <2>4
<1>7. PICK s : s = rows[i][c]
  OBVIOUS
<1>8. /\ s \in [null : BOOLEAN, chars : Nat, size : Nat]
      /\ s.null <=> NullStored(columns[c], e)
      /\ s.chars = IF s.null THEN 0 ELSE e.len
  BY <1>1, <1>2, <1>4, <1>7 DEF StoredSoFar
<1>9. PICK f : f = FieldRead(c)
  OBVIOUS
<1>10. /\ IsField(f) /\ (columns[c].char <=> f.type = "char")
       /\ ~columns[c].char => f.size = 1
       /\ DeclaresMark(h) => f.null_text > 0 /\ ~f.null_blank
  BY <1>1, <1>5, <1>9, FieldReadIs
<1>11. PICK cell : cell = CellRead(i, c)
  OBVIOUS
<1>12. CASE s.null
  <2>1. cell = [null |-> s.null, texts |-> <<>>]
    BY <1>7, <1>11, <1>12 DEF CellRead
  <2>2. cell.null = s.null /\ s.null \in BOOLEAN
    BY <1>8, <2>1
  <2>3. IsCell(f, cell)
    BY <1>12, <2>2 DEF IsCell
  <2> QED
    BY <1>9, <1>11, <2>3
<1>13. CASE ~s.null
  <2>1. s.chars = e.len
    BY <1>8, <1>13
  <2> DEFINE x == [len |-> e.len, core |-> e.len, word |-> e.word, large |-> FALSE]
  <2>2. cell = [null |-> s.null, texts |-> <<x>>]
    BY <1>4, <1>7, <1>11, <1>13, <2>1 DEF CellRead
  <2>3. x.len = e.len /\ x.core = e.len /\ x.word = e.word
    OBVIOUS
  <2>4. x \in [len : Nat, core : Nat, word : {"", "marker", "null"}, large : BOOLEAN]
    BY <1>6
  <2> HIDE DEF x
  <2>5. cell.null = s.null /\ cell.texts = <<x>> /\ s.null \in BOOLEAN
    BY <1>8, <2>2
  <2>6. f.type # "char" => e.len > 0
    <3>1. ASSUME f.type # "char" PROVE e.len > 0
      <4>1. ~columns[c].char
        BY <1>10, <3>1
      <4>2. e.len # 0
        BY <1>8, <1>13, <4>1 DEF NullStored
      <4>3. PICK m \in Nat : m = e.len
        BY <1>6
      <4>4. m > 0
        BY <4>2, <4>3
      <4> QED
        BY <4>3, <4>4
    <3> QED
      BY <3>1
  <2>7. x.core <= x.len
    <3>1. PICK m \in Nat : m = e.len
      BY <1>6
    <3> QED
      BY <2>3, <3>1
  <2>8. IsTextOf(f, x)
    <3>1. x.word = "marker" => f.null_text > 0 /\ ~f.null_blank
      BY <1>6, <1>10, <2>3
    <3>2. f.type # "char" => x.core = x.len /\ x.core > 0
      BY <2>3, <2>6
    <3> QED
      BY <2>4, <2>7, <3>1, <3>2 DEF IsTextOf
  <2>9. /\ IsList(<<x>>) /\ Len(<<x>>) = 1 /\ \A k1 \in DOMAIN <<x>> : <<x>>[k1] = x
    <3>1. \A y \in Seq({x}) : Len(y) \in Nat /\ y = [k1 \in 1..Len(y) |-> y[k1]] /\ DOMAIN y = 1..Len(y)
      OBVIOUS
    <3>2. <<x>> \in Seq({x}) /\ Len(<<x>>) = 1 /\ <<x>>[1] = x
      OBVIOUS
    <3>3. \A k1 \in 1..1 : k1 = 1
      OBVIOUS
    <3> QED
      BY <3>1, <3>2, <3>3 DEF IsList
  <2>10. f.type = "char" \/ f.size = 1
    BY <1>10
  <2>11. IsCell(f, cell)
    BY <2>5, <2>8, <2>9, <2>10 DEF IsCell
  <2> QED
    BY <1>9, <1>11, <2>11
<1> QED
  BY <1>8, <1>12, <1>13

LEMMA TakeTable_Inv == TripInv /\ TakeTable => TripInv'
<1> SUFFICES ASSUME TripInv, TakeTable PROVE TripInv'
  OBVIOUS
<1>1. /\ stage = "file" /\ state = "read" /\ stage' = "table" /\ tab' = TableRead
      /\ Idle' /\ UNCHANGED <<file, written>>
  BY DEF TakeTable, Idle
<1>2. columns # <<>>
  <2> SUFFICES ASSUME columns = <<>> PROVE FALSE
    OBVIOUS
  <2>1. Writes(tab, Latest.request, file)
    BY <1>1 DEF TripInv
  <2>2. PICK n \in Nat : DOMAIN file.headings = 1..n /\ (HeaderReadable(file) => n # 0)
    BY <2>1, HeaderNumbers
  <2>3. HeaderRead
    BY <1>1 DEF TripInv, Idle
  <2>4. columns = [c \in 1..n |-> append_ipac_data_member(file.headings[c])] /\ n # 0
    BY <2>2, <2>3 DEF HeaderRead
  <2>5. 1 \in DOMAIN columns /\ DOMAIN <<>> = {}
    BY <2>4
  <2> QED
    BY <2>5
<1>3. Writes(tab, Latest.request, file) /\ HeaderRead /\ StoredSoFar /\ IsList(written)
  BY <1>1, <1>2, CommonFacts
<1>4. PICK n \in Nat : DOMAIN columns = 1..n
  <2>1. PICK n \in Nat : DOMAIN file.headings = 1..n
    BY <1>3, HeaderNumbers
  <2>2. DOMAIN columns = 1..n
    BY <1>3, <2>1 DEF HeaderRead
  <2> QED
    BY <2>2
<1>5. PICK l \in Nat : DOMAIN rows = 1..l
  <2>1. PICK s : s = rows
    OBVIOUS
  <2>2. Len(s) \in Nat /\ s = [k \in 1..Len(s) |-> s[k]]
    BY <1>3, <2>1 DEF StoredSoFar, IsList
  <2>3. DOMAIN s = 1..Len(s)
    BY <2>2
  <2> QED
    BY <2>1, <2>2, <2>3
<1>6. /\ TableRead.fields = [c \in 1..n |-> FieldRead(c)]
      /\ TableRead.rows = [i \in 1..l |-> [c \in 1..n |-> CellRead(i, c)]]
  BY <1>4, <1>5 DEF TableRead
<1>7. \A c \in 1..n : IsField(FieldRead(c))
  BY <1>3, <1>4, FieldReadIs
<1>8. \A i \in 1..l : \A c \in 1..n : IsCell(FieldRead(c), CellRead(i, c))
  BY <1>1, <1>2, <1>4, <1>5, CellReadIs
<1>9. IsTable(TableRead)
  <2>1. PICK F : F = TableRead.fields
    OBVIOUS
  <2>2. PICK R : R = TableRead.rows
    OBVIOUS
  <2>3. DOMAIN F = 1..n /\ \A c \in 1..n : F[c] = FieldRead(c)
    BY <1>6, <2>1
  <2>4. DOMAIN R = 1..l /\ \A i \in 1..l : \A c \in 1..n : R[i][c] = CellRead(i, c)
    BY <1>6, <2>2
  <2>5. IsList(F)
    <3>1. F = [c \in 1..n |-> F[c]] /\ Len(F) = n
      BY <1>6, <2>1, <2>3
    <3> QED
      BY <3>1 DEF IsList
  <2>6. IsList(R)
    <3>1. R = [i \in 1..l |-> R[i]] /\ Len(R) = l
      BY <1>6, <2>2, <2>4
    <3> QED
      BY <3>1 DEF IsList
  <2> QED
    BY <1>7, <1>8, <2>1, <2>2, <2>3, <2>4, <2>5, <2>6 DEF IsTable
<1> QED
  BY <1>1, <1>3, <1>9 DEF TripInv

\* Whichever kind of line it is.
LEMMA ReadRecord_Inv == TripInv /\ ReadRecord => TripInv'
<1> SUFFICES ASSUME TripInv, ReadRecord PROVE TripInv'
  OBVIOUS
<1>1. /\ stage = "file" /\ columns # <<>> /\ state = "reading" /\ lines < Len(file.records)
      /\ lines' = lines + 1 /\ UNCHANGED trip
  BY DEF ReadRecord
<1>2. ~IsMisaligned(file, lines + 1)
  <2>1. Writes(tab, Latest.request, file) /\ LinesSoFar
    BY <1>1, CommonFacts
  <2>2. Len(file.records) \in Nat
    BY <2>1, RecordsWritten
  <2>3. lines + 1 \in 1..Len(file.records)
    BY <1>1, <2>1, <2>2 DEF LinesSoFar
  <2> QED
    BY <2>1, <2>3, NotMisaligned
<1>3. \/ IsBlank(ElementsOf(file, lines + 1)) /\ BlankLine
      \/ ~IsBlank(ElementsOf(file, lines + 1)) /\ ReadLine(ElementsOf(file, lines + 1))
      \/ CannotInsert(ElementsOf(file, lines + 1))
  BY <1>2 DEF ReadRecord
<1>4. CASE IsBlank(ElementsOf(file, lines + 1)) /\ BlankLine
  BY <1>1, <1>4, BlankLine_Inv
<1>5. CASE ~IsBlank(ElementsOf(file, lines + 1)) /\ ReadLine(ElementsOf(file, lines + 1))
  BY <1>1, <1>5, ReadLine_Inv
<1>6. CASE CannotInsert(ElementsOf(file, lines + 1))
  BY <1>1, <1>6, CannotInsert_Inv
<1> QED
  BY <1>3, <1>4, <1>5, <1>6

\* Writing: what is at hand then is a file of the Table and of the request.
LEMMA Write_Inv == TripInv /\ Write => TripInv'
<1> SUFFICES ASSUME TripInv, Write PROVE TripInv'
  OBVIOUS
<1>1. PICK request \in Requests \cup {Everything} : Refuse(request) \/ Cut(request) \/ WriteAll(request)
  BY DEF Write
<1>2. stage = "table" /\ UNCHANGED vars
  BY DEF Write
<1>3. IsTable(tab) /\ Idle /\ IsList(written)
  BY <1>2 DEF TripInv
<1>4. CASE Refuse(request) \/ Cut(request)
  <2>1. stage' \in {"refused", "cut"} /\ UNCHANGED <<tab, file, written>>
    BY <1>4 DEF Refuse, Cut
  <2> QED
    BY <1>3, <2>1 DEF TripInv
<1>5. CASE WriteAll(request)
  <2>1. /\ ~Fails(request) /\ stage' = "file" /\ tab' = tab
        /\ file' = write_subtable(tab, request)
        /\ written' = Append(written, [table |-> tab, request |-> request, file |-> file'])
    BY <1>5 DEF WriteAll
  <2>2. IsRequest(request)
    BY RequestsAssumption
  <2>3. Writes(tab, request, file')
    BY <1>3, <2>1, <2>2 DEF Writes, Fails
  <2>4. PICK x : x = [table |-> tab, request |-> request, file |-> file']
    OBVIOUS
  <2>5. /\ IsList(written') /\ Len(written') = Len(written) + 1
        /\ written'[Len(written) + 1] = x
    BY <1>3, <2>1, <2>4, AppendIs
  <2>6. Latest' = x
    BY <2>5 DEF Latest
  <2>7. (Latest.table)' = tab' /\ (Latest.request)' = request
    BY <2>1, <2>4, <2>6
  <2>8. Writes(tab', (Latest.request)', file')
    BY <2>1, <2>3, <2>7
  <2>9. columns' = <<>> /\ Idle'
    BY <1>2, <1>3 DEF Idle, vars
  <2> QED
    BY <2>1, <2>5, <2>7, <2>8, <2>9 DEF TripInv
<1> QED
  BY <1>1, <1>4, <1>5

\* Together: every step keeps the invariant.
LEMMA TripStutter_Inv == TripInv /\ UNCHANGED allvars => TripInv'
<1> SUFFICES ASSUME TripInv, UNCHANGED allvars PROVE TripInv'
  OBVIOUS
<1>1. /\ UNCHANGED <<columns, state, lines, row_idx, widths, minimum_column_widths, rows, recorded, own, text>>
      /\ UNCHANGED <<stage, tab, file, written>>
  BY DEF allvars, vars, trip
<1>2. (HeaderRead' <=> HeaderRead) /\ (Idle' <=> Idle) /\ Latest' = Latest
  BY <1>1 DEF HeaderRead, Idle, Latest
<1>3. StoredSoFar' <=> StoredSoFar
  BY <1>1 DEF StoredSoFar
<1>4. LinesSoFar' <=> LinesSoFar
  <2>1. GotDynamic' <=> GotDynamic
    BY <1>1 DEF GotDynamic, Strings
  <2> QED
    BY <1>1, <2>1 DEF LinesSoFar
<1> QED
  BY <1>1, <1>2, <1>3, <1>4 DEF TripInv

LEMMA TripNext_Inv == TripInv /\ [TripNext]_allvars => TripInv'
<1> SUFFICES ASSUME TripInv, [TripNext]_allvars PROVE TripInv'
  OBVIOUS
<1>1. CASE ReadFree
  <2>1. stage = "free" /\ UNCHANGED <<stage, tab, file, written>>
    BY <1>1 DEF ReadFree, trip
  <2> QED
    BY <2>1 DEF TripInv
<1>2. CASE Write
  BY <1>2, Write_Inv
<1>3. CASE ReadHeader
  BY <1>3, ReadHeader_Inv
<1>4. CASE ReadRecord
  BY <1>4, ReadRecord_Inv
<1>5. CASE EndOfWritten
  BY <1>5, EndOfWritten_Inv
<1>6. CASE TakeTable
  BY <1>6, TakeTable_Inv
<1>7. CASE UNCHANGED allvars
  BY <1>7, TripStutter_Inv
<1> QED
  BY <1>1, <1>2, <1>3, <1>4, <1>5, <1>6, <1>7 DEF TripNext

----------------------------------------------------------------------------
\* What comes of a file that was read.
LEMMA AskedAre ==
  ASSUME TripInv, stage = "file"
  PROVE  /\ Writes(tab, Latest.request, file)
         /\ Ids = IdsOf(tab, Latest.request) /\ Heads = PlacesAsked(tab, Latest.request)
         /\ Len(Asked) = Len(file.records) /\ DOMAIN Asked = DOMAIN file.records
         /\ \A k \in DOMAIN file.records : Asked[k] = RowAsked(tab, Latest.request, k)
         /\ DOMAIN Heads = DOMAIN file.headings
<1>1. Latest.table = tab /\ Writes(tab, Latest.request, file)
  BY DEF TripInv
<1>2. PICK r : r = Latest.request
  OBVIOUS
<1>3. IsTable(tab) /\ IsRequest(r) /\ RowIds(tab, r) \in Seq(Nat)
  BY <1>1, <1>2, RowIdsAre DEF Writes
<1>4. Ids = IdsOf(tab, r)
  BY <1>1, <1>2 DEF Ids, IdsOf
<1>5. Heads = PlacesAsked(tab, r)
  BY <1>1, <1>2, <1>4 DEF Heads, PlacesAsked, HeadsOf
<1>6. PICK m \in Nat : m = Len(RowIds(tab, r)) /\ DOMAIN RowIds(tab, r) = 1..m
  BY <1>3
<1>7. Len(file.records) = m /\ DOMAIN file.records = 1..m
  BY <1>1, <1>2, <1>6, RecordsWritten
<1>8. Asked = [k \in 1..m |-> RowAsked(tab, r, k)]
  BY <1>1, <1>2, <1>6 DEF Asked, RowAsked
<1>9. Len(Asked) = m /\ DOMAIN Asked = 1..m /\ \A k \in 1..m : Asked[k] = RowAsked(tab, r, k)
  BY <1>8
<1>10. DOMAIN Heads = DOMAIN file.headings
  <2>1. PICK n \in Nat : n = Len(PlacesAsked(tab, r)) /\ DOMAIN file.headings = 1..n
    BY <1>1, <1>2, HeaderNumbers
  <2>2. PICK s : s = PlacesAsked(tab, r)
    OBVIOUS
  <2>3. Len(s) = n /\ s = [c \in 1..Len(s) |-> s[c]]
    BY <1>3, <2>1, <2>2, PlacesAskedAre DEF IsList
  <2>4. DOMAIN s = 1..n
    BY <2>3
  <2> QED
    BY <1>5, <2>1, <2>2, <2>4
<1> QED
  BY <1>1, <1>2, <1>4, <1>5, <1>7, <1>9, <1>10

\* The columns can be told apart exactly if the header is readable.
LEMMA HeaderSurvivesIf ==
  ASSUME TripInv, stage = "file"
  PROVE  HeaderSurvives <=> HeaderReadable(file)
<1>1. Writes(tab, Latest.request, file) /\ Ids = IdsOf(tab, Latest.request) /\ Latest.table = tab
  BY AskedAre DEF TripInv
<1>2. HeaderReadable(file) <=>
           /\ IdsOf(tab, Latest.request) # <<>>
           /\ \A id \in ToSet(IdsOf(tab, Latest.request)) : tab.fields[id].bar # "null"
  BY <1>1, ReadableIs
<1> QED
  BY <1>1, <1>2 DEF HeaderSurvives

\* The property's own words for RowComesBack.
LEMMA RowSurvivesIf ==
  ASSUME TripInv, stage = "file", NEW k \in DOMAIN file.records
  PROVE  RowSurvives(Asked[k]) <=>
           /\ ~IsBlank(ElementsOf(file, k))
           /\ \A c \in DOMAIN file.headings : ComesBackAt(tab, Latest.request, file, k, c)
<1>1. /\ Writes(tab, Latest.request, file) /\ Ids = IdsOf(tab, Latest.request) /\ Latest.table = tab
      /\ Asked[k] = RowAsked(tab, Latest.request, k)
  BY AskedAre DEF TripInv
<1>2. k \in 1..Len(file.records)
  BY <1>1, RecordsWritten
<1>3. PICK row : row = Asked[k]
  OBVIOUS
<1>4. SurvivesIn(tab, Ids, row) <=>
           /\ ~IsBlank(ElementsOf(file, k))
           /\ \A c \in DOMAIN file.headings : ComesBackAt(tab, Latest.request, file, k, c)
  BY <1>1, <1>2, <1>3, RowComesBack
<1>5. IsSeen(row) <=> IsSeenIn(tab, Ids, row)
  BY <1>1 DEF IsSeen, IsSeenIn, IsSeenCell
<1>6. RowSurvives(row) <=> SurvivesIn(tab, Ids, row)
  BY <1>1, <1>5 DEF RowSurvives, SurvivesIn, ColumnSurvives, IsText
<1> QED
  BY <1>3, <1>4, <1>6

\* What is stored of a row is what was asked for exactly if all of its texts come back.
LEMMA RowIsSameIf ==
  ASSUME TripInv, stage = "file", columns # <<>>, NEW k \in DOMAIN file.records, k \in DOMAIN text,
         text[k] = ElementsOf(file, k)
  PROVE  (\A c \in DOMAIN Heads :
            /\ rows[k][c].null = AskedCell(k, c).null
            /\ ~rows[k][c].null => rows[k][c].chars = AskedCell(k, c).chars)
         <=> \A c \in DOMAIN file.headings : ComesBackAt(tab, Latest.request, file, k, c)
<1>1. /\ Writes(tab, Latest.request, file) /\ Heads = PlacesAsked(tab, Latest.request)
      /\ DOMAIN Heads = DOMAIN file.headings
      /\ Asked[k] = RowAsked(tab, Latest.request, k)
  BY AskedAre
<1>2. HeaderRead /\ StoredSoFar /\ DOMAIN columns = DOMAIN file.headings
  BY CommonFacts
<1>3. IsTable(tab) /\ IsRequest(Latest.request) /\ k \in 1..Len(file.records) /\ k \in 1..Len(RowIds(tab, Latest.request))
  <2>1. IsTable(tab) /\ IsRequest(Latest.request)
    BY <1>1 DEF Writes
  <2>2. DOMAIN file.records = 1..Len(file.records) /\ Len(file.records) = Len(RowIds(tab, Latest.request))
    BY <1>1, RecordsWritten
  <2> QED
    BY <2>1, <2>2
<1>4. PICK row : row = Asked[k]
  OBVIOUS
<1>5. PICK i \in DOMAIN tab.rows : row = tab.rows[i]
  BY <1>1, <1>3, <1>4, RowAskedIs
<1>6. ASSUME NEW c \in DOMAIN file.headings
      PROVE  /\ rows[k][c].null = AskedCell(k, c).null
             /\ ~rows[k][c].null => rows[k][c].chars = AskedCell(k, c).chars
             <=> ComesBackAt(tab, Latest.request, file, k, c)
  <2>1. PICK p : p = Heads[c]
    OBVIOUS
  <2>2. PICK cell : cell = row[p[1]]
    OBVIOUS
  <2>3. p[1] \in DOMAIN tab.fields
    <3>1. c \in 1..Len(PlacesAsked(tab, Latest.request))
      BY <1>1, HeaderNumbers
    <3> QED
      BY <1>1, <1>3, <2>1, <3>1, PlaceIs
  <2>4. cell.null \in BOOLEAN
    BY <1>3, <1>5, <2>2, <2>3 DEF IsTable, IsCell
  <2>5. AskedCell(k, c) = [null |-> cell.null, chars |-> CharsOf(cell, p[2])]
    BY <1>4, <2>1, <2>2 DEF AskedCell, CharsOf
  <2>6. AskedCell(k, c).null = cell.null /\ AskedCell(k, c).chars = CharsOf(cell, p[2])
    BY <2>5
  <2>7. PICK h : h = file.headings[c]
    OBVIOUS
  <2>8. PICK x : x = file.records[k][c]
    OBVIOUS
  <2>9. PICK e : e = ElementOf(h, x)
    OBVIOUS
  <2>10. text[k][c] = e /\ columns[c] = append_ipac_data_member(h)
    BY <1>2, <2>7, <2>8, <2>9 DEF ElementsOf, HeaderRead
  <2>11. PICK s : s = rows[k][c]
    OBVIOUS
  <2>12. /\ s \in [null : BOOLEAN, chars : Nat, size : Nat]
         /\ s.null <=> NullStored(append_ipac_data_member(h), e)
         /\ s.chars = IF s.null THEN 0 ELSE e.len
    <3>1. c \in DOMAIN columns
      BY <1>2
    <3> QED
      BY <1>2, <2>10, <2>11, <3>1 DEF StoredSoFar
  <2>13. s.null \in BOOLEAN
    BY <2>12
  <2>14. ComesBackAt(tab, Latest.request, file, k, c) <=>
           /\ s.null <=> cell.null
           /\ ~cell.null => e.len = CharsOf(cell, p[2])
    BY <1>1, <1>4, <2>1, <2>2, <2>7, <2>8, <2>9, <2>12 DEF ComesBackAt, ComesBack
  <2>15. (s.null = cell.null) <=> (s.null <=> cell.null)
    BY <2>4, <2>13
  <2>16. ~s.null => s.chars = e.len
    BY <2>12
  <2> QED
    BY <2>6, <2>11, <2>14, <2>15, <2>16
<1> QED
  BY <1>1, <1>6

LEMMA TripInvSafe == TripInv => RowsComeBackExactlyIfTheySurvive
<1> SUFFICES ASSUME TripInv, stage = "file", state \in {"read", "failed"}
             PROVE  (state = "read" /\ SameRows)
                      <=> (HeaderSurvives /\ \A i \in DOMAIN Asked : RowSurvives(Asked[i]))
  BY DEF RowsComeBackExactlyIfTheySurvive
<1>1. /\ Writes(tab, Latest.request, file) /\ Len(Asked) = Len(file.records)
      /\ DOMAIN Asked = DOMAIN file.records /\ DOMAIN Heads = DOMAIN file.headings
  BY AskedAre
<1>2. PICK m \in Nat : m = Len(file.records) /\ DOMAIN file.records = 1..m
  BY <1>1, RecordsWritten
<1>3. CASE columns = <<>> /\ (Idle \/ (state = "failed" /\ ~HeaderReadable(file)))
  <2>1. state = "failed" /\ ~HeaderReadable(file)
    BY <1>3 DEF Idle
  <2> QED
    BY <2>1, HeaderSurvivesIf
<1>4. CASE HeaderRead /\ StoredSoFar /\ LinesSoFar
  <2>0. columns # <<>>
    <3> SUFFICES ASSUME columns = <<>> PROVE FALSE
      OBVIOUS
    <3>1. PICK n \in Nat : DOMAIN file.headings = 1..n /\ (HeaderReadable(file) => n # 0)
      BY <1>1, HeaderNumbers
    <3>2. columns = [c \in 1..n |-> append_ipac_data_member(file.headings[c])] /\ n # 0
      BY <1>4, <3>1 DEF HeaderRead
    <3>3. 1 \in DOMAIN columns /\ DOMAIN <<>> = {}
      BY <3>2
    <3> QED
      BY <3>3
  <2>1. HeaderSurvives
    BY <1>4, HeaderSurvivesIf DEF HeaderRead
  <2>2. PICK l \in Nat : Len(rows) = l /\ Len(text) = l /\ DOMAIN rows = 1..l /\ DOMAIN text = 1..l
    <3>1. IsList(rows) /\ IsList(text) /\ Len(rows) = Len(text)
      BY <1>4 DEF StoredSoFar
    <3>2. \A s : IsList(s) => Len(s) \in Nat /\ DOMAIN s = 1..Len(s)
      <4> SUFFICES ASSUME NEW s, IsList(s) PROVE Len(s) \in Nat /\ DOMAIN s = 1..Len(s)
        OBVIOUS
      <4>1. Len(s) \in Nat /\ s = [i \in 1..Len(s) |-> s[i]]
        BY DEF IsList
      <4> QED
        BY <4>1
    <3> QED
      BY <3>1, <3>2
  <2>3. state = "read" => lines = m
    BY <1>2, <1>4 DEF LinesSoFar
  <2>4. ASSUME l = m, lines = m
        PROVE  SameRows <=> \A k \in 1..m : RowSurvives(Asked[k])
    <3>1. \A k \in 1..m : text[k] = ElementsOf(file, k)
      BY <1>4, <2>2, <2>4 DEF LinesSoFar
    <3>2. ASSUME NEW k \in 1..m
          PROVE  RowSurvives(Asked[k]) <=>
                   \A c \in DOMAIN Heads :
                     /\ rows[k][c].null = AskedCell(k, c).null
                     /\ ~rows[k][c].null => rows[k][c].chars = AskedCell(k, c).chars
      <4>1. k \in DOMAIN file.records /\ k \in DOMAIN text /\ text[k] = ElementsOf(file, k)
        BY <1>2, <2>2, <2>4, <3>1
      <4>2. ~IsBlank(text[k])
        BY <1>4, <4>1 DEF StoredSoFar
      <4>3. RowSurvives(Asked[k]) <=> \A c \in DOMAIN file.headings : ComesBackAt(tab, Latest.request, file, k, c)
        BY <4>1, <4>2, RowSurvivesIf
      <4>4. (\A c \in DOMAIN Heads :
               /\ rows[k][c].null = AskedCell(k, c).null
               /\ ~rows[k][c].null => rows[k][c].chars = AskedCell(k, c).chars)
            <=> \A c \in DOMAIN file.headings : ComesBackAt(tab, Latest.request, file, k, c)
        BY <2>0, <4>1, RowIsSameIf
      <4> QED
        BY <4>3, <4>4
    <3>3. Len(rows) = Len(Asked) /\ DOMAIN rows = 1..m
      BY <1>1, <1>2, <2>2, <2>4
    <3> QED
      BY <3>2, <3>3 DEF SameRows
  <2>5. ASSUME state = "read", SameRows
        PROVE  \A k \in DOMAIN Asked : RowSurvives(Asked[k])
    <3>1. l = m
      BY <1>1, <1>2, <2>2, <2>5 DEF SameRows
    <3> QED
      BY <1>1, <1>2, <2>3, <2>4, <2>5, <3>1
  <2>6. ASSUME \A k \in DOMAIN Asked : RowSurvives(Asked[k])
        PROVE  state = "read" /\ SameRows
    <3>1. \A k \in DOMAIN file.records : ~IsBlank(ElementsOf(file, k))
      BY <1>1, <2>6, RowSurvivesIf
    <3>2. l = lines /\ state = "read"
      BY <1>4, <2>2, <3>1 DEF LinesSoFar
    <3> QED
      BY <1>1, <1>2, <2>3, <2>4, <2>6, <3>2
  <2> QED
    BY <2>1, <2>5, <2>6
<1> QED
  BY <1>3, <1>4 DEF TripInv

\* Whatever the Tables and the requests and however often a Table is written again: a
\* file that Ipac_Table_Writer wrote and read_ipac_table() has read has exactly the rows
\* asked for, with their nulls and lengths, if and only if its columns can be told apart
\* and every one of the rows survives as text.
THEOREM RowsComeBack == TripSpec => []RowsComeBackExactlyIfTheySurvive
<1>1. TripInit => TripInv
  BY TripInit_Inv
<1>2. TripInv /\ [TripNext]_allvars => TripInv'
  BY TripNext_Inv
<1>3. TripInv => RowsComeBackExactlyIfTheySurvive
  BY TripInvSafe
<1> QED
  BY <1>1, <1>2, <1>3, PTL DEF TripSpec


----------------------------------------------------------------------------
\* The reader, of files that were written.
LEMMA ElementsAreLines ==
  ASSUME NEW t, NEW request, NEW f, Writes(t, request, f), NEW k \in 1..Len(f.records),
         NEW cols, cols = [c \in DOMAIN f.headings |-> append_ipac_data_member(f.headings[c])]
  PROVE  IsLine(cols, ElementsOf(f, k))
<1>1. PICK n \in Nat : /\ n = Len(PlacesAsked(t, request)) /\ DOMAIN f.headings = 1..n
                     /\ \A c \in 1..n : f.headings[c].width \in Nat \ {0}
  BY HeaderNumbers
<1>2. ASSUME NEW c \in 1..n
      PROVE  ElementsOf(f, k)[c].len \in Nat /\ ElementsOf(f, k)[c].len <= cols[c].width
  <2>1. f.records[k][c].len <= f.headings[c].width
    BY <1>1, RecordsWritten
  <2>2. f.records[k][c].len \in Nat /\ f.records[k][c].core \in Nat
        /\ f.records[k][c].core <= f.records[k][c].len
    BY <1>1, TextOfRecord
  <2>3. cols[c].width = f.headings[c].width
    BY <1>1 DEF append_ipac_data_member
  <2>4. PICK e : e = ElementsOf(f, k)[c]
    OBVIOUS
  <2>5. e = ElementOf(f.headings[c], f.records[k][c])
    BY <1>1, <2>4 DEF ElementsOf
  <2>6. e.len = f.records[k][c].core
    BY <2>5 DEF ElementOf
  <2>7. PICK x \in Nat : x = f.records[k][c].core
    BY <2>2
  <2>8. PICK y \in Nat : y = f.records[k][c].len
    BY <2>2
  <2>9. PICK z \in Nat : z = f.headings[c].width
    BY <1>1
  <2>10. x <= z
    BY <2>1, <2>2, <2>7, <2>8, <2>9
  <2> QED
    BY <2>3, <2>4, <2>6, <2>7, <2>9, <2>10
<1>3. DOMAIN cols = 1..n
  BY <1>1
<1> QED
  BY <1>2, <1>3 DEF IsLine

LEMMA HeadingsAreHeader ==
  ASSUME NEW t, NEW request, NEW f, Writes(t, request, f),
         NEW cols, cols = [c \in DOMAIN f.headings |-> append_ipac_data_member(f.headings[c])]
  PROVE  IsHeader(cols)
<1>1. PICK n \in Nat : /\ n = Len(PlacesAsked(t, request)) /\ DOMAIN f.headings = 1..n
                     /\ \A c \in 1..n : f.headings[c].width \in Nat \ {0}
  BY HeaderNumbers
<1>2. ASSUME NEW c \in 1..n PROVE cols[c] \in Column /\ cols[c].width \in Nat \ {0}
  <2>1. PICK h : h = f.headings[c]
    OBVIOUS
  <2>2. h.width \in Nat \ {0}
    BY <1>1, <2>1
  <2>3. PICK x \in BOOLEAN : x = (to_ipac_string(h.type) = "char")
    OBVIOUS
  <2>4. PICK y \in BOOLEAN : y = Marked(h)
    BY TruthOf DEF Marked
  <2>5. cols[c] = [char |-> x, width |-> h.width, marked |-> y]
    BY <1>1, <2>1, <2>3, <2>4 DEF append_ipac_data_member
  <2> QED
    BY <2>2, <2>5 DEF Column
<1>3. cols \in Seq(Column)
  <2>1. cols = [c \in 1..n |-> cols[c]]
    BY <1>1
  <2>2. \A c \in 1..n : cols[c] \in Column
    BY <1>2
  <2>3. cols \in [1..n -> Column]
    BY <2>1, <2>2, Zenon
  <2> QED
    BY <2>3
<1>4. DOMAIN cols = 1..n
  BY <1>1
<1>5. \A c \in 1..n : cols[c].width > 0
  <2> SUFFICES ASSUME NEW c \in 1..n PROVE cols[c].width > 0
    OBVIOUS
  <2>1. PICK w \in Nat \ {0} : w = cols[c].width
    BY <1>2
  <2>2. w > 0
    OBVIOUS
  <2> QED
    BY <2>1, <2>2
<1> QED
  BY <1>3, <1>4, <1>5 DEF IsHeader

LEMMA IdleIsFresh == Idle => Fresh
<1> SUFFICES ASSUME Idle PROVE Fresh
  OBVIOUS
<1>1. columns \in Seq(Column) /\ DOMAIN columns = {}
  BY DEF Idle
<1>2. IsHeader(columns)
  BY <1>1 DEF IsHeader
<1>3. \A F : [c \in {} |-> F[c]] = <<>>
  OBVIOUS
<1>4. widths = [c \in DOMAIN columns |-> columns[c].width]
  BY <1>1 DEF Idle
<1>5. minimum_column_widths = [c \in DOMAIN columns |-> 1]
  BY <1>1 DEF Idle
<1> QED
  BY <1>2, <1>4, <1>5 DEF Idle, Fresh

\* A trip is read step by step as IpacReader does, or begins anew.
StartsAnew == Fresh' /\ rows' = <<>>

LEMMA ReadRecordIsReaderStep == TripInv /\ ReadRecord => ReaderStep
<1> SUFFICES ASSUME TripInv, ReadRecord PROVE ReaderStep
  OBVIOUS
<1>1. /\ stage = "file" /\ columns # <<>> /\ state = "reading" /\ lines < Len(file.records)
  BY DEF ReadRecord
<1>2. Writes(tab, Latest.request, file) /\ HeaderRead /\ LinesSoFar
  BY <1>1, CommonFacts
<1>3. Len(file.records) \in Nat
  BY <1>2, RecordsWritten
<1>4. lines + 1 \in 1..Len(file.records)
  BY <1>1, <1>2, <1>3 DEF LinesSoFar
<1>5. columns = [c \in DOMAIN file.headings |-> append_ipac_data_member(file.headings[c])]
  BY <1>2 DEF HeaderRead
<1>6. IsLine(columns, ElementsOf(file, lines + 1))
  BY <1>2, <1>4, <1>5, ElementsAreLines
<1>7. CASE ReadLine(ElementsOf(file, lines + 1))
  BY <1>1, <1>6, <1>7 DEF ReaderStep
<1>8. CASE BlankLine \/ Throw
  BY <1>8 DEF BlankLine, Throw, TableStays, ReaderStep
<1> QED
  BY <1>7, <1>8 DEF ReadRecord, Misaligned, CannotInsert

LEMMA ReadHeaderReads == TripInv /\ ReadHeader => ReaderStep \/ StartsAnew
<1> SUFFICES ASSUME TripInv, ReadHeader PROVE ReaderStep \/ StartsAnew
  OBVIOUS
<1>1. /\ stage = "file" /\ columns = <<>> /\ state = "reading"
      /\ UNCHANGED <<row_idx, rows, recorded, own, text>>
  BY DEF ReadHeader
<1>2. Writes(tab, Latest.request, file) /\ Idle
  BY <1>1, NothingReadBefore DEF TripInv
<1>3. CASE HeaderReadable(file)
  <2>1. /\ columns' = [c \in DOMAIN file.headings |-> append_ipac_data_member(file.headings[c])]
        /\ widths' = [c \in DOMAIN file.headings |-> file.headings[c].width]
        /\ minimum_column_widths' = [c \in DOMAIN file.headings |-> 1]
        /\ state' = "reading"
    BY <1>1, <1>3 DEF ReadHeader
  <2>2. IsHeader(columns')
    BY <1>2, <2>1, HeadingsAreHeader
  <2>3. /\ widths' = [c \in DOMAIN columns' |-> columns'[c].width]
        /\ minimum_column_widths' = [c \in DOMAIN columns' |-> 1]
    BY <2>1 DEF append_ipac_data_member
  <2>4. /\ row_idx' = 0 /\ rows' = <<>> /\ recorded' = <<>> /\ own' = <<>> /\ text' = <<>>
    BY <1>1, <1>2 DEF Idle
  <2>5. IsHeader(columns)'
    BY <2>2 DEF IsHeader
  <2> QED
    BY <2>1, <2>3, <2>4, <2>5 DEF StartsAnew, Fresh
<1>4. CASE ~HeaderReadable(file)
  BY <1>1, <1>4 DEF ReadHeader, TableStays, ReaderStep
<1> QED
  BY <1>3, <1>4

LEMMA TakeTableStartsAnew == TakeTable => StartsAnew
<1> SUFFICES ASSUME TakeTable PROVE StartsAnew
  OBVIOUS
<1>1. Idle' /\ rows' = <<>>
  BY DEF TakeTable, Idle
<1>2. Idle' => Fresh'
  BY IdleIsFresh, PTL
<1> QED
  BY <1>1, <1>2 DEF StartsAnew

LEMMA TripSteps == TripInv /\ ReaderInv /\ [TripNext]_allvars => ReaderStep \/ StartsAnew
<1> SUFFICES ASSUME TripInv, ReaderInv, [TripNext]_allvars PROVE ReaderStep \/ StartsAnew
  OBVIOUS
<1>1. IsHeader(columns)
  BY DEF ReaderInv, TypesInv
<1>2. CASE ReadFree \/ Write \/ UNCHANGED allvars
  <2>1. [Next]_vars
    BY <1>2 DEF ReadFree, Write, allvars
  <2> QED
    BY <1>1, <2>1, NextIsReaderStep
<1>3. CASE ReadHeader
  BY <1>3, ReadHeaderReads
<1>4. CASE ReadRecord
  BY <1>4, ReadRecordIsReaderStep
<1>5. CASE EndOfWritten
  BY <1>5 DEF EndOfWritten, ReaderStep
<1>6. CASE TakeTable
  BY <1>6, TakeTableStartsAnew
<1> QED
  BY <1>2, <1>3, <1>4, <1>5, <1>6 DEF TripNext

LEMMA TripReaderInv == TripSpec => [](TripInv /\ ReaderInv)
<1>1. TripInit => TripInv /\ ReaderInv
  <2>1. TripInit => Fresh
    BY InitIsFresh, IdleIsFresh DEF TripInit
  <2> QED
    BY <2>1, TripInit_Inv, Fresh_ReaderInv
<1>2. TripInv /\ ReaderInv /\ [TripNext]_allvars => (TripInv /\ ReaderInv)'
  <2> SUFFICES ASSUME TripInv, ReaderInv, [TripNext]_allvars PROVE TripInv' /\ ReaderInv'
    OBVIOUS
  <2>1. TripInv'
    BY TripNext_Inv
  <2>2. ReaderStep => ReaderInv'
    BY Step_ReaderInv
  <2>3. Fresh' => ReaderInv'
    BY Fresh_ReaderInv, PTL
  <2> QED
    BY <2>1, <2>2, <2>3, TripSteps DEF StartsAnew
<1> QED
  BY <1>1, <1>2, PTL DEF TripSpec

\* Of every Table and every request, on every trip, and of files that nobody wrote: no
\* string loses a character when its column is narrowed.
THEOREM TripKeepsStringsWhole == TripSpec => []StringsAreWhole
<1>1. ReaderInv => StringsAreWhole
  BY DEF ReaderInv, NarrowEnough
<1> QED
  BY <1>1, TripReaderInv, PTL

\* Of the same: the lengths of a table that was read are all those in the file, or all
\* those that append_row() stored, as columns were narrowed or not.
THEOREM TripChoosesOneRecord == TripSpec => []LengthsDependOnShrinking
<1>1. ReaderInv => LengthsDependOnShrinking
  BY DEF ReaderInv, RecordsInv
<1> QED
  BY <1>1, TripReaderInv, PTL

\* Of the same: behind a blank line, such as a row of nothing but empty strings makes,
\* only rows without strings are read.
THEOREM TripLeavesNulls == TripSpec => OnlyNullsBehindBlankLines
<1>1. TripInv /\ ReaderInv /\ [TripNext]_allvars => [NullsBehindBlankLines]_vars
  <2> SUFFICES ASSUME TripInv, ReaderInv, [TripNext]_allvars PROVE NullsBehindBlankLines
    OBVIOUS
  <2>1. ReaderStep => NullsBehindBlankLines
    BY Step_NullsBehind
  <2>2. StartsAnew => NullsBehindBlankLines
    <3>1. Len(<<>>) = 0 /\ Len(rows) \in Nat
      BY DEF ReaderInv, TypesInv
    <3> QED
      BY <3>1 DEF StartsAnew, NullsBehindBlankLines
  <2> QED
    BY <2>1, <2>2, TripSteps
<1>2. OnlyNullsBehindBlankLines <=> [][NullsBehindBlankLines]_vars
  BY DEF OnlyNullsBehindBlankLines, NullsBehindBlankLines
<1> QED
  BY <1>1, <1>2, TripReaderInv, PTL DEF TripSpec

=============================================================================
