-------------------------- MODULE TabledataReader ---------------------------
(***************************************************************************)
(* read_tabledata(): the children of a TABLEDATA element are gone through     *)
(* twice.  The first pass collects the texts of the cells, the width every    *)
(* column needs and, if the table has columns of variable length, a list of   *)
(* lengths for each child.  The second one inserts the cells into rows; the    *)
(* lists are then handed to the table.                                      *)
(*                                                                         *)
(* A cell is abstracted to what the code asks of its text.                   *)
(***************************************************************************)
EXTENDS Naturals, Sequences, FiniteSets

CONSTANTS
  Tables,      \* the sequences of FIELDs that tables declare
  MaxCount,    \* bound of the model on the elements of a cell
  MaxChildren  \* bound of the model on the children of TABLEDATA

\* char, byte: the column is one of strings, of unsigned bytes; single: the declared
\* array size is 1; dyn: it is "*".
Field == [char : BOOLEAN, byte : BOOLEAN, single : BOOLEAN, dyn : BOOLEAN]

ASSUME TablesAssumption ==
  /\ \A t \in Tables : /\ t \in Seq(Field) /\ t # <<>>
                       /\ \A c \in DOMAIN t : /\ ~(t[c].single /\ t[c].dyn)
                                             /\ ~(t[c].char /\ t[c].byte)
  /\ MaxCount \in Nat

\* count: the characters of a string, the elements of another cell; padded:
\* whitespace around them; null: the null value, or elements that all are null;
\* ok, first: every element, the first one, can be converted to the type of the
\* column.
Cells(f) ==
  {x \in [count : 0..MaxCount, padded : BOOLEAN, null : BOOLEAN, first : BOOLEAN, ok : BOOLEAN] :
     /\ x.count = 0 => ~x.null /\ x.ok
     /\ f.char => ~x.padded
     /\ f.char \/ x.null => x.ok
     /\ x.count <= 1 \/ x.ok => x.first = x.ok}

VARIABLES
  fields,
  phase,       \* "collecting", "inserting", "read", "failed"
  children,    \* the children gone through: "row" or "skipped"
  element_lists_by_row,
  minimum_column_widths,
  dynamic_array_sizes_by_row,
  rows,        \* data_ of the table: what is stored of each cell
  recorded     \* dynamic_array_sizes_by_row_ of the table

texts == element_lists_by_row
widths == minimum_column_widths
lists == dynamic_array_sizes_by_row
vars == <<fields, phase, children, texts, widths, lists, rows, recorded>>

Columns == DOMAIN fields
Dynamic == {c \in Columns : fields[c].dyn}
record_dynamic_array_sizes_f == Dynamic # {}

Init ==
  /\ fields \in Tables
  /\ phase = "collecting" /\ children = <<>> /\ texts = <<>>
  /\ widths = [c \in Columns |-> 1]
  /\ lists = <<>> /\ rows = <<>> /\ recorded = <<>>

\* Column c is the Rank(c)-th of those of variable length.
Rank(c) == Cardinality({d \in Dynamic : d <= c})

Ranked(i) == CHOOSE c \in Dynamic : Rank(c) = i

\* The values of f at the columns of variable length, in the order of columns.
AtDynamic(f) == [i \in 1..Cardinality(Dynamic) |-> f[Ranked(i)]]

Counts(cells) == AtDynamic([c \in Columns |-> cells[c].count])

\* A child gets its list before it is known to be a row.
NewList(list) ==
  lists' = IF record_dynamic_array_sizes_f THEN Append(lists, list) ELSE lists

\* The width of a column declared to hold one element stays 1; the declared size
\* of the others does not matter.
Widened(cells) ==
  [c \in Columns |->
     IF ~fields[c].single /\ cells[c].count > widths[c] THEN cells[c].count ELSE widths[c]]

\* Null cells count, too.
ReadRow(cells) ==
  /\ children' = Append(children, "row")
  /\ texts' = Append(texts, cells)
  /\ widths' = Widened(cells)
  /\ NewList(Counts(cells))
  /\ UNCHANGED <<fields, phase, rows, recorded>>

\* A comment or an encoding.
SkipChild ==
  /\ children' = Append(children, "skipped")
  /\ NewList(<<>>)
  /\ UNCHANGED <<fields, phase, texts, widths, rows, recorded>>

Throw ==
  /\ phase' = "failed"
  /\ UNCHANGED <<fields, children, texts, widths, lists, rows, recorded>>

\* A row with too few or too many cells, a child that is neither row nor cell.
Misplaced == Throw

\* Which cells a row can have.
RowsOf(fs) ==
  {cells \in [DOMAIN fs -> UNION {Cells(fs[c]) : c \in DOMAIN fs}] :
     \A c \in DOMAIN fs : cells[c] \in Cells(fs[c])}

Collect ==
  /\ phase = "collecting" /\ Len(children) < MaxChildren
  /\ (\E cells \in RowsOf(fields) : ReadRow(cells)) \/ SkipChild \/ Misplaced

EndOfData ==
  /\ phase = "collecting"
  /\ phase' = "inserting"
  /\ UNCHANGED <<fields, children, texts, widths, lists, rows, recorded>>

----------------------------------------------------------------------------
\* is_null_cell()
IsNull(x) == x.count = 0 \/ x.null

\* get_dynamic_array_size(): the length of cell c of the row at work is looked
\* up in the list at the index of the row.
LookedUp == lists[Len(rows) + 1]
HasLength(c) == fields[c].dyn => Rank(c) <= Len(LookedUp)

\* insert_from_ascii(): a column with room for several elements takes the text
\* apart; otherwise the whole text must be an element.  stoi(), for bytes, skips
\* the space before the first element and does not look at what is behind it.
ConvertsTrimmed(c, x) ==
  fields[c].char \/ (x.ok /\ (widths[c] = 1 => x.count = 1))
Converts(c, x) ==
  \/ fields[c].char
  \/ fields[c].byte /\ widths[c] = 1 /\ x.first
  \/ x.ok /\ (widths[c] = 1 => x.count = 1 /\ ~x.padded)

Inserts(c, x) == IsNull(x) \/ (HasLength(c) /\ Converts(c, x))

\* A string is cut to the width of its column, and so are bytes.
StoredTerminated(c, x) ==
  [null  |-> IsNull(x),
   count |-> IF IsNull(x) THEN 0 ELSE IF x.count >= widths[c] THEN widths[c] - 1 ELSE x.count]
Stored(c, x) ==
  [null  |-> IsNull(x),
   count |-> IF IsNull(x) THEN 0 ELSE IF x.count > widths[c] THEN widths[c] ELSE x.count]

Current == texts[Len(rows) + 1]

\* Row is told that no column is dynamic but for nulls: the list append_row()
\* records holds zeros.
InsertRow ==
  /\ phase = "inserting" /\ Len(rows) < Len(texts)
  /\ \A c \in Columns : Inserts(c, Current[c])
  /\ rows' = Append(rows, [c \in Columns |-> Stored(c, Current[c])])
  /\ recorded' = IF record_dynamic_array_sizes_f
                 THEN Append(recorded, AtDynamic([c \in Columns |-> 0]))
                 ELSE recorded
  /\ UNCHANGED <<fields, phase, children, texts, widths, lists>>

CannotInsert ==
  /\ phase = "inserting" /\ Len(rows) < Len(texts)
  /\ \E c \in Columns : ~Inserts(c, Current[c])
  /\ Throw

ReturnUnswapped ==
  /\ phase = "inserting" /\ Len(rows) = Len(texts)
  /\ phase' = "read"
  /\ UNCHANGED <<fields, children, texts, widths, lists, rows, recorded>>

\* The lists the reader has collected change places with those of the table.
Return ==
  /\ phase = "inserting" /\ Len(rows) = Len(texts)
  /\ phase' = "read"
  /\ recorded' = lists /\ lists' = recorded
  /\ UNCHANGED <<fields, children, texts, widths, rows>>

Next == Collect \/ EndOfData \/ InsertRow \/ CannotInsert \/ Return

Spec == Init /\ [][Next]_vars

----------------------------------------------------------------------------
\* Row i is child i: nothing was skipped up to there.
InPlace(i) == \A j \in 1..i : children[j] = "row"

\* Of the table that is read, the rows before the first skipped child have the
\* lengths their cells have in the file, null ones included; and there are as
\* many lists as rows exactly if nothing was skipped, which append_rows() relies
\* on.
RowsInPlaceHaveTheirLengths ==
  phase = "read" /\ record_dynamic_array_sizes_f =>
    /\ \A i \in DOMAIN rows : InPlace(i) => recorded[i] = Counts(texts[i])
    /\ Len(recorded) = Len(rows) <=> InPlace(Len(children))

\* All that a column has room for is one value, because it was declared so or
\* because no row has more.
OneValued(c) == fields[c].single \/ \A i \in DOMAIN texts : texts[i][c].count <= 1

Unreadable(i, c) ==
  LET x == texts[i][c]
  IN  ~IsNull(x) /\ \/ fields[c].dyn /\ children[i] = "skipped"
                    \/ fields[c].byte /\ ~(IF fields[c].single THEN x.first ELSE x.ok)
                    \/ /\ ~fields[c].char /\ ~fields[c].byte
                       /\ ~x.ok \/ (OneValued(c) /\ (x.count > 1 \/ x.padded))

\* The rows that cannot be inserted: those with a cell that is no value of its
\* column, with whitespace around the value if all rows of the column have one
\* value or none, or with a cell of variable length at the place of a child that
\* is no row.  Bytes may have whitespace around them, and where the column is
\* declared to hold one, anything but a byte behind the first.
RowsInsertedExactlyIfReadable ==
  /\ \A i \in DOMAIN rows : \A c \in Columns : ~Unreadable(i, c)
  /\ phase = "failed" /\ rows # <<>> =>
       \E c \in Columns : Unreadable(Len(rows) + 1, c)

\* Strings and bytes are cut exactly if their column is declared to hold one.
CutExactlyIfDeclaredSingle ==
  \A i \in DOMAIN rows : \A c \in Columns :
    LET x == texts[i][c]
    IN  ~IsNull(x) /\ (fields[c].char \/ fields[c].byte) =>
          (rows[i][c].count < x.count <=> fields[c].single /\ x.count > 1)
=============================================================================
