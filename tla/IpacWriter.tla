----------------------------- MODULE IpacWriter -----------------------------
(***************************************************************************)
(* Ipac_Table_Writer: which columns and rows of a Table are written, how wide *)
(* each column is, the four lines of column headers, and the records.         *)
(*                                                                           *)
(* A Table is [meta, fields, rows].  A text is [len, core, word, large]: its  *)
(* length, its length without blanks at its ends, whether what is left is the *)
(* null value that its column declares ("marker"), the default one ("null")   *)
(* or neither (""), and whether it is a number of more than 63 bits.  A cell   *)
(* is null, or the texts of its elements, one if it is a string.  Ids count    *)
(* as in the code: columns from 1, behind the null flags, rows from 0.        *)
(***************************************************************************)
EXTENDS IpacHeader

TYPE_NAME == [int8 |-> "int", uint8 |-> "int", int16 |-> "int", uint16 |-> "int", int32 |-> "int",
              uint32 |-> "long", int64 |-> "long", uint64 |-> "long",
              float32 |-> "float", float64 |-> "double", char |-> "char"]

to_ipac_string(type) == TYPE_NAME[type]

DEFAULT_NULL_VALUE == "null"

\* null_text: the length of the null value, 0 if the column declares none; null_blank: it
\* is nothing but blanks.
NullText(f) ==
  IF f.null_text = 0
  THEN [len |-> Len(DEFAULT_NULL_VALUE), core |-> Len(DEFAULT_NULL_VALUE), word |-> "null",
        large |-> FALSE]
  ELSE [len |-> f.null_text, core |-> IF f.null_blank THEN 0 ELSE f.null_text,
        word |-> "marker", large |-> FALSE]

is_valid_col_idx(table, id) == id \in DOMAIN table.fields

get_all_nonzero_col_ids(table) == [i \in DOMAIN table.fields |-> i]
get_all_row_ids(table) == [i \in DOMAIN table.rows |-> i - 1]

\* A request of the command line: lists of ids, or a row, or a range of rows.
Unspecified == 99
WithoutList(request) == request.row_list = <<>>

RowTooLarge(table, request) ==
  /\ WithoutList(request)
  /\ \/ request.row_id < Unspecified /\ request.row_id >= Len(table.rows)
     \/ /\ request.row_id = Unspecified
        /\ request.start_row < Unspecified /\ request.start_row >= Len(table.rows)

ColumnIds(table, request) ==
  IF request.column_list = <<>> THEN get_all_nonzero_col_ids(table) ELSE request.column_list

RowIds(table, request) ==
  LET n == Len(table.rows)
  IN  IF ~WithoutList(request) THEN request.row_list
      ELSE IF request.row_id < n THEN <<request.row_id>>
      ELSE IF request.start_row < n
      THEN [i \in 1..Min({request.row_count, n - request.start_row}) |-> request.start_row + i - 1]
      ELSE get_all_row_ids(table)

ValidIds(table, ids) ==
  FlattenSeq([i \in DOMAIN ids |-> IF is_valid_col_idx(table, ids[i]) THEN <<ids[i]>> ELSE <<>>])
Omitted(table, ids) == {table.fields[i].name : i \in DOMAIN table.fields \ ToSet(ids)}

----------------------------------------------------------------------------
\* Data_Type_Adjuster: unsigned numbers of 64 bits are written as signed ones, or as text
\* if one is too large.  Null is the largest, and all rows are looked at.
contains_large_uint64_val(table, id) ==
  \E r \in DOMAIN table.rows :
     LET cell == table.rows[r][id]
     IN  cell.null \/ \E j \in DOMAIN cell.texts : cell.texts[j].large

Large(table, id) == table.fields[id].type = "uint64" /\ contains_large_uint64_val(table, id)

ActiveType(table, id) ==
  IF Large(table, id) THEN "char"
  ELSE IF table.fields[id].type = "uint64" THEN "int64" ELSE table.fields[id].type

\* An array that would have to be text.
Unsupported(table) == \E id \in DOMAIN table.fields : Large(table, id) /\ table.fields[id].size > 1

EffectiveSize(table, id) == IF ActiveType(table, id) = "char" THEN 1 ELSE table.fields[id].size

----------------------------------------------------------------------------
\* The texts of a cell.  Arrays are written to the size of their column: what a shorter
\* one lacks is zero.
Zero == [len |-> 1, core |-> 1, word |-> "", large |-> FALSE]

Numbers(f, cell) ==
  [j \in 1..f.size |-> IF j \in DOMAIN cell.texts THEN cell.texts[j] ELSE Zero]

Texts(table, id, row) ==
  LET f == table.fields[id]
      cell == row[id]
  IN  IF cell.null THEN [j \in 1..EffectiveSize(table, id) |-> NullText(f)]
      ELSE IF f.type = "char" THEN cell.texts ELSE Numbers(f, cell)

\* Columns of arrays are numbered.
IsExpanded(f) == f.type # "char" /\ f.size > 1
NameOf(f, j) == IF IsExpanded(f) THEN f.name \o "_" \o ToString(j) ELSE f.name

\* Mutant of HeaderWidth: a column of an array is as wide as the name of the array.
HeaderWidthOfOne(f) ==
  Max({Len(to_ipac_string(f.type)), Len(f.name), Len(f.unit), NullText(f).len})

HeaderWidth(f) ==
  Max({Len(to_ipac_string(f.type)), Len(NameOf(f, f.size - 1)), Len(f.unit), NullText(f).len})

get_single_column_width(table, row_ids, id) ==
  LET f == table.fields[id]
      present == {i \in DOMAIN row_ids : ~table.rows[row_ids[i] + 1][id].null}
  IN  Max({HeaderWidth(f)} \cup
          UNION {{t.len : t \in ToSet(Texts(table, id, table.rows[row_ids[i] + 1]))} : i \in present})

\* The loop over the sorted ids leaves one width for each id up to the last that is
\* valid: columns between those asked for get 0, duplicates nothing of their own.
get_column_widths(table, row_ids, col_ids) ==
  LET asked == {id \in ToSet(col_ids) : is_valid_col_idx(table, id)}
  IN  [n \in 1..(IF asked = {} THEN 0 ELSE Max(asked) + 1) |->
         IF n - 1 \in asked THEN get_single_column_width(table, row_ids, n - 1) ELSE 0]

\* The widths are looked up by the id of the column.
WidthAt(widths, id) == widths[id + 1]

----------------------------------------------------------------------------
\* The four lines of headers, told by columns; and the records.
Headings(table, ids, widths) ==
  FlattenSeq([i \in DOMAIN ids |->
    LET f == table.fields[ids[i]]
    IN  [j \in 1..EffectiveSize(table, ids[i]) |->
           [name  |-> NameOf(f, j - 1),
            type  |-> ActiveType(table, ids[i]),
            unit  |-> f.unit,
            null  |-> NullText(f),
            width |-> WidthAt(widths, ids[i]),
            barred |-> f.bar = "null"]]])

write_single_record(table, ids, row) ==
  FlattenSeq([i \in DOMAIN ids |-> Texts(table, ids[i], row)])

\* A bar in a name or a unit is refused when its line is written.
HeadingsWritable(table, ids) == \A i \in DOMAIN ids : table.fields[ids[i]].bar \notin {"name", "unit"}

RowIdsValid(table, row_ids) == \A i \in DOMAIN row_ids : row_ids[i] < Len(table.rows)

write_subtable(table, request) ==
  LET row_ids == RowIds(table, request)
      ids == ValidIds(table, ColumnIds(table, request))
      widths == get_column_widths(table, row_ids, ColumnIds(table, request))
  IN  [lines    |-> IF request.skip_comments THEN <<>>
                    ELSE write_keywords_and_comments(
                           table.meta, [i \in DOMAIN ids |-> table.fields[ids[i]]],
                           Omitted(table, ColumnIds(table, request)), Len(row_ids)),
       headings |-> Headings(table, ids, widths),
       records  |-> [i \in DOMAIN row_ids |->
                       write_single_record(table, ids, table.rows[row_ids[i] + 1])]]
=============================================================================
