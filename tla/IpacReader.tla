----------------------------- MODULE IpacReader -----------------------------
(***************************************************************************)
(* Table::read_ipac_table() behind the header, and                          *)
(* Table::shrink_ipac_string_columns_to_fit(): lines of fixed-width fields    *)
(* become rows; string columns are as wide as their fields at first and are  *)
(* narrowed to their longest element at the end.  The lengths of the strings  *)
(* are kept twice: by the Row that append_row() stores (as padded), and by    *)
(* the reader itself (as they are in the file).                              *)
(***************************************************************************)
EXTENDS Naturals, Sequences, FiniteSets

CONSTANTS
  Headers,   \* the sequences of columns that headers declare
  MaxLines   \* bound of the model on the lines of a file

\* marked: the fourth header line has a null value for the column.  The type of
\* a column is at least one character wide, so strings are.
Column == [char : BOOLEAN, width : Nat, marked : BOOLEAN]

ASSUME HeadersAssumption ==
  \A h \in Headers : /\ h \in Seq(Column) /\ h # <<>>
                     /\ \A c \in DOMAIN h : h[c].char => h[c].width > 0

\* A trimmed element: its length, whether it is the null value, whether it can
\* be converted to the type of its column.
Elements(col) ==
  [len : 0..col.width,
   mark : IF col.marked THEN BOOLEAN ELSE {FALSE},
   ok : IF col.char THEN {TRUE} ELSE BOOLEAN]

VARIABLES
  columns,
  state,     \* "reading", "read", "failed"
  lines,     \* the lines that have been read
  row_idx,
  widths,    \* the array sizes of the columns
  minimum_column_widths,
  rows,      \* data_ of data_details: what is stored of each element
  recorded,  \* its dynamic_array_sizes_by_row_
  dynamic_array_sizes_by_row, \* the reader's own
  text       \* history: the elements of the rows

own == dynamic_array_sizes_by_row
vars == <<columns, state, lines, row_idx, widths, minimum_column_widths, rows, recorded, own, text>>

Strings == {c \in DOMAIN columns : columns[c].char}
GotDynamic == Strings # {}

Init ==
  /\ columns \in Headers
  /\ state = "reading" /\ lines = 0 /\ row_idx = 0
  /\ widths = [c \in DOMAIN columns |-> columns[c].width]
  /\ minimum_column_widths = [c \in DOMAIN columns |-> 1]
  /\ rows = <<>> /\ recorded = <<>> /\ own = <<>> /\ text = <<>>

\* An element that is inserted as null: the null value, an empty element of a
\* column that has none; an empty element is no number (a truth value inserts
\* null for it, all other types throw).
IsNull(col, e) ==
  \/ col.marked /\ e.mark
  \/ ~col.marked /\ ~col.char /\ e.len = 0

\* insert_from_ascii() is handed the length found at row_idx in the reader's
\* own lists, where at() may throw: this row's list is the last one.
LengthOfTheLast == TRUE
LengthFound == row_idx < Len(own) + 1
Inserts(col, e) ==
  IsNull(col, e) \/ IF col.char THEN LengthFound ELSE e.ok

StoredWithItsLength(col, e, width) ==
  [null |-> IsNull(col, e), chars |-> e.len, size |-> e.len]

Stored(col, e, width) ==
  LET null == IsNull(col, e) \/ (~col.char /\ e.len = 0)
  IN  [null |-> null, chars |-> IF null THEN 0 ELSE e.len,
       size |-> IF null THEN 0 ELSE width]

OfStrings(s) == SelectSeq(s, LAMBDA x : x.char)

\* The lengths of the string columns, in the order of the columns.
LengthsOf(cols, f) ==
  LET picked == OfStrings([c \in DOMAIN cols |-> [char |-> cols[c].char, n |-> f[c]]])
  IN  [i \in DOMAIN picked |-> picked[i].n]
Lengths(f) == LengthsOf(columns, f)

WidenedByLast(es) == [c \in DOMAIN columns |-> IF es[c].len > 1 THEN es[c].len ELSE 1]
Widened(es) ==
  [c \in DOMAIN columns |->
     IF es[c].len > minimum_column_widths[c] THEN es[c].len ELSE minimum_column_widths[c]]

\* append_row() of the Row, and the reader's own list for it.
ReadLine(es) ==
  /\ \A c \in DOMAIN columns : Inserts(columns[c], es[c])
  /\ LET stored == [c \in DOMAIN columns |-> Stored(columns[c], es[c], widths[c])]
     IN  /\ rows' = Append(rows, stored)
         /\ recorded' = IF GotDynamic
                        THEN Append(recorded, Lengths([c \in DOMAIN columns |-> stored[c].size]))
                        ELSE recorded
  /\ own' = IF GotDynamic
            THEN Append(own, Lengths([c \in DOMAIN columns |-> es[c].len]))
            ELSE own
  /\ minimum_column_widths' = Widened(es)
  /\ text' = Append(text, es)
  /\ row_idx' = row_idx + 1
  /\ UNCHANGED <<columns, state, widths>>

Throw ==
  /\ state' = "failed"
  /\ UNCHANGED <<columns, row_idx, widths, minimum_column_widths, rows, recorded, own, text>>

CannotInsert(es) ==
  /\ \E c \in DOMAIN columns : ~Inserts(columns[c], es[c])
  /\ Throw

\* A blank line is no row, but row_idx counts it.
BlankLine ==
  /\ row_idx' = row_idx + 1
  /\ UNCHANGED <<columns, state, widths, minimum_column_widths, rows, recorded, own, text>>

\* The line is too short, too long, or not blank between two fields.
Misaligned == Throw

\* Which elements a line can hold.
LinesOf(cols) ==
  {es \in [DOMAIN cols -> UNION {Elements(cols[c]) : c \in DOMAIN cols}] :
     \A c \in DOMAIN cols : es[c] \in Elements(cols[c])}

NextLine ==
  /\ state = "reading" /\ lines < MaxLines
  /\ lines' = lines + 1
  /\ \/ \E es \in LinesOf(columns) : ReadLine(es) \/ CannotInsert(es)
     \/ BlankLine
     \/ Misaligned

----------------------------------------------------------------------------
\* shrink_ipac_string_columns_to_fit()
Shrunk == [c \in DOMAIN columns |-> IF columns[c].char THEN minimum_column_widths[c] ELSE widths[c]]

\* Rows keep the length they had: the table keeps the lengths that were padded.
NothingToShrink ==
  /\ Shrunk = widths
  /\ UNCHANGED <<widths, rows, recorded, own>>

Narrowed(cell, width) == [cell EXCEPT !.chars = IF @ > width THEN width ELSE @]

ShrinkWithoutSwap ==
  /\ Shrunk # widths
  /\ widths' = Shrunk
  /\ recorded' = [i \in DOMAIN rows |-> <<>>]
  /\ UNCHANGED <<rows, own>>

\* Of each element as much is copied as the new column holds; the reader's
\* lengths change places with those of the new Data_Details, none for each row.
Shrink ==
  /\ Shrunk # widths
  /\ widths' = Shrunk
  /\ rows' = [i \in DOMAIN rows |->
                [c \in DOMAIN columns |->
                   IF columns[c].char THEN Narrowed(rows[i][c], Shrunk[c]) ELSE rows[i][c]]]
  /\ recorded' = own
  /\ own' = [i \in DOMAIN rows |-> <<>>]

EndOfFile ==
  /\ state = "reading"
  /\ NothingToShrink \/ Shrink
  /\ state' = "read"
  /\ UNCHANGED <<columns, lines, row_idx, minimum_column_widths, text>>

Next == NextLine \/ EndOfFile

Spec == Init /\ [][Next]_vars

----------------------------------------------------------------------------
\* No string is cut short by the narrowing of its column.
StringsAreWhole ==
  \A i \in DOMAIN rows : \A c \in Strings : ~rows[i][c].null => rows[i][c].chars = text[i][c].len

\* In the table that is read every row has one length for each string column, which
\* get_dynamic_array_size() answers: if any column was narrowed the length in the file, of
\* null values too; otherwise the width of the column, and 0 for null.
LengthsInFile(i) == Lengths([c \in DOMAIN columns |-> text[i][c].len])
LengthsAsStored(i) == Lengths([c \in DOMAIN columns |-> IF rows[i][c].null THEN 0 ELSE widths[c]])

LengthsDependOnShrinking ==
  state = "read" =>
    recorded = IF ~GotDynamic THEN <<>>
               ELSE IF \E c \in Strings : widths[c] < columns[c].width
               THEN [i \in DOMAIN rows |-> LengthsInFile(i)]
               ELSE [i \in DOMAIN rows |-> LengthsAsStored(i)]

\* A line behind a blank one is read only if all of its strings are null: their
\* lengths are looked for behind the reader's last list.
OnlyNullsBehindBlankLines ==
  [][row_idx > Len(rows) /\ Len(rows') > Len(rows) =>
       \A c \in Strings : IsNull(columns[c], text'[Len(text')][c])]_vars
=============================================================================
