-------------------------------- MODULE Fits --------------------------------
(***************************************************************************)
(* write_fits() and read_fits() on a whole table: columns and cells, with the *)
(* keywords of FitsKeywords in between.  A table is written cell by cell and  *)
(* read back column by column, then cell by cell; a file may also come from    *)
(* elsewhere.                                                               *)
(*                                                                         *)
(* cfitsio is represented by what it stores: an element of a number column is *)
(* a number or NaN, one of a string column a sequence of characters without    *)
(* trailing blanks, or NUL.                                                 *)
(***************************************************************************)
EXTENDS FitsKeywords

CONSTANTS
  Starts,       \* the tables that are written: their metadata, columns, rows
  FitsFiles,    \* files made elsewhere: the keywords of both HDUs, columns, rows
  Characters,   \* what strings consist of
  Max64, MaxU64,\* the largest values of int64 and of uint64
  Zero          \* TZERO of a column of unsigned integers

Unsigned == {"UINT16_LE", "UINT32_LE"}
Integers6 == {"UINT8_LE", "INT16_LE", "UINT16_LE", "INT32_LE", "UINT32_LE", "INT64_LE"}
Floats == {"FLOAT32_LE", "FLOAT64_LE"}
NaN == MaxU64 + 1
NUL == <<"NUL">>
Blank == " "

\* A declared null value is a sequence of it; any other text is none.
DEFAULT_NULL_VALUE == <<>>

\* Every integer type but uint64 has the values 0..Max64 here.
get_null(type) == CASE type \in Integers6 \cup {"INT8_LE"} -> Max64
                    [] type = "UINT64_LE" -> MaxU64
                    [] type \in Floats -> NaN
                    [] OTHER -> NUL

VARIABLES
  stage,        \* "create", "keywords", "rows out", "columns in", "rows in",
                \* "done", "failed"
  columns,      \* those of the table, without the null flags
  rows,         \* its rows of cells: their null flags and elements
  before,       \* history: columns and rows that were written
  fits_columns, fits_rows,  \* those of the file
  null_values,  \* Column_Info_Manager's lists of null values by type
  column_infos  \* and its column_info_list_

cells == <<columns, rows, before, fits_columns, fits_rows, null_values, column_infos>>
allvars == <<vars, stage, cells>>

Cell(null, elements) == [null |-> null, elements |-> elements]
NullCell(type, size) == Cell(TRUE, IF type = "CHAR" THEN <<>>
                                   ELSE [i \in 1..size |-> get_null(type)])
CellsOf(rs, c) == {rs[r][c] : r \in DOMAIN rs}

-----------------------------------------------------------------------------
(* What is written and what is found in a file. *)

IsNullValue(null) == null = <<>> \/ (Len(null) = 1 /\ null \in Seq(0..Max64))
IsColumn(col) == /\ col.type \in Integers6 \cup Floats \cup {"INT8_LE", "UINT64_LE", "CHAR"}
                 /\ col.size \in Nat \ {0} /\ IsNullValue(col.null)
IsCell(col, x) ==
  x \in [null : BOOLEAN, elements : CASE col.type = "CHAR" -> Seq(Characters)
                                     [] col.type = "UINT64_LE" -> [1..col.size -> 0..MaxU64]
                                     [] OTHER -> [1..col.size -> Nat]]

\* cfitsio cuts trailing blanks.
IsFileColumn(col) == /\ col.type \in Integers6 \cup Floats \cup {"INT8_LE", "CHAR", "COMPLEX"}
                     /\ col.size \in Nat \ {0} /\ col.width \in Nat \ {0}
                     /\ IsNullValue(col.tnull)
IsFileCell(col, elements) ==
  IF col.type = "CHAR"
  THEN /\ elements \in Seq(Seq(Characters) \cup {NUL})
       /\ \A i \in DOMAIN elements : elements[i] # <<>> => Last(elements[i]) # Blank
  ELSE elements \in [1..col.size -> Nat]

\* cols and rs are the columns and the rows of a table, or of a file.
Rectangular(cols, rs) ==
  /\ IsSequence(cols) /\ IsSequence(rs) /\ (rs = <<>> \/ cols # <<>>)
  /\ \A r \in DOMAIN rs : IsSequence(rs[r]) /\ Len(rs[r]) = Len(cols)
IsTable(cols, rs) ==
  /\ Rectangular(cols, rs)
  /\ \A c \in DOMAIN cols : IsColumn(cols[c]) /\ \A x \in CellsOf(rs, c) : IsCell(cols[c], x)
IsFile(cols, rs) ==
  /\ Rectangular(cols, rs)
  /\ \A c \in DOMAIN cols :
       IsFileColumn(cols[c]) /\ \A e \in CellsOf(rs, c) : IsFileCell(cols[c], e)

\* No substring is longer than its place.
SubstringsFit(cols, rs) ==
  \A c \in DOMAIN cols : cols[c].type = "CHAR" =>
    \A e \in CellsOf(rs, c) : \A i \in DOMAIN e : e[i] = NUL \/ Len(e[i]) <= cols[c].width

ASSUME LimitsAssumption ==
  /\ Zero \in Nat \ {0} /\ Max64 = 2 * Zero - 1 /\ MaxU64 \in Nat
  /\ Blank \in Characters /\ "NUL" \notin Characters
  /\ \A n \in 0..MaxU64 : ToString(n) \in Characters \ {Blank}
ASSUME StartsAssumption ==
  \A start \in Starts : IsMetadata(start.meta) /\ IsTable(start.columns, start.rows)
ASSUME FitsFilesAssumption ==
  \A start \in FitsFiles : /\ IsFile(start.columns, start.rows)
                           /\ SubstringsFit(start.columns, start.rows)

-----------------------------------------------------------------------------
Cursor(rs, width) == IF rs = <<>> \/ Len(Last(rs)) = width THEN <<Len(rs) + 1, 1>>
                     ELSE <<Len(rs), Len(Last(rs)) + 1>>
AddCell(rs, width, x) == IF rs = <<>> \/ Len(Last(rs)) = width THEN Append(rs, <<x>>)
                         ELSE Append(Front(rs), Append(Last(rs), x))

-----------------------------------------------------------------------------
(* write_fits() *)

\* Also the value that insert_null() leaves in a null cell is too large.
contains_large_uint64_val(c) ==
  \E x \in CellsOf(rows, c) : \E i \in DOMAIN x.elements : x.elements[i] > Max64
datatype_for_writing(c) ==
  CASE columns[c].type = "UINT64_LE" /\ contains_large_uint64_val(c) -> "CHAR"
    [] columns[c].type = "UINT64_LE" /\ ~contains_large_uint64_val(c) -> "INT64_LE"
    [] OTHER -> columns[c].type

\* 20 characters for a number and a blank in front of all but the first.
get_char_array_size_for_uint64_col(size) == size * 20 - 1
SizeForWriting(c) == IF columns[c].type = "UINT64_LE" /\ datatype_for_writing(c) = "CHAR"
                     THEN get_char_array_size_for_uint64_col(columns[c].size)
                     ELSE columns[c].size

TnullOwn(c) == get_null(datatype_for_writing(c))  \* mutant: the declared one forgotten
\* The declared null value if it is a number of the type.
TnullOf(c) == IF columns[c].null # DEFAULT_NULL_VALUE THEN columns[c].null[1]
              ELSE get_null(datatype_for_writing(c))

Text(attrs, name) == IF name \in DOMAIN attrs THEN attrs[name] ELSE ""
FitsColumn(c) ==
  [name |-> columns[c].name, type |-> datatype_for_writing(c), size |-> SizeForWriting(c),
   width |-> SizeForWriting(c), unit |-> Text(columns[c].attrs, "unit"),
   tnull |-> IF datatype_for_writing(c) \in Integers6 THEN <<TnullOf(c)>> ELSE <<>>]

CreateTable == /\ stage = "create"
               /\ fits_columns' = [c \in DOMAIN columns |-> FitsColumn(c)]
               /\ fits_rows' = <<>>
               /\ stage' = "keywords"
               /\ UNCHANGED <<vars, columns, rows, before, null_values, column_infos>>

\* A uint64 column written as strings: its numbers with blanks between them.
Digits(elements) ==
  [i \in 1..(2 * Len(elements) - 1) |->
     IF i % 2 = 0 THEN Blank ELSE ToString(elements[(i + 1) \div 2])]
WithoutTrailingBlanks(s) ==
  SubSeq(s, 1, Max({0} \cup {i \in DOMAIN s : s[i] # Blank}))

\* What is read where n is stored: the numbers of FITS are signed, those of an
\* unsigned column are stored less TZERO.
Scaled(n) == IF n < Zero THEN n + Zero ELSE n - Zero

\* fits_write_col_null() stores TNULL as it is; a null logical is read as false.
NullElements(c) ==
  LET col == fits_columns[c] IN
  CASE col.type = "CHAR" -> <<NUL>>
    [] col.type = "INT8_LE" -> [i \in 1..col.size |-> 0]
    [] col.type \in Floats -> [i \in 1..col.size |-> NaN]
    [] col.type \in Unsigned -> [i \in 1..col.size |-> Scaled(col.tnull[1])]
    [] OTHER -> [i \in 1..col.size |-> col.tnull[1]]
ElementsOut(c, x) ==
  CASE x.null -> NullElements(c)
    [] ~x.null /\ fits_columns[c].type # "CHAR" -> x.elements
    [] OTHER -> <<WithoutTrailingBlanks(IF columns[c].type = "CHAR" THEN x.elements
                                        ELSE Digits(x.elements))>>

BeginRows == /\ stage = "keywords" /\ phase = "writing" /\ todo = <<>>
             /\ stage' = "rows out"
             /\ UNCHANGED <<vars, cells>>

WriteCell == /\ stage = "rows out"
             /\ LET at == Cursor(fits_rows, Len(columns))
                IN /\ at[1] \in DOMAIN rows
                   /\ fits_rows' = AddCell(fits_rows, Len(columns),
                                           ElementsOut(at[2], rows[at[1]][at[2]]))
             /\ UNCHANGED <<vars, stage, columns, rows, before, fits_columns, null_values, column_infos>>

Reopen == /\ stage = "rows out" /\ Cursor(fits_rows, Len(columns))[1] \notin DOMAIN rows
          /\ ReadFile
          /\ before' = [columns |-> columns, rows |-> rows, reread |-> column_infos # <<>>]
          /\ columns' = <<>> /\ rows' = <<>>
          /\ stage' = "keywords"
          /\ UNCHANGED <<fits_columns, fits_rows, null_values, column_infos>>

-----------------------------------------------------------------------------
(* read_fits() *)

BeginColumns == /\ stage = "keywords" /\ phase = "distributing" /\ todo = <<>>
                /\ stage' = "columns in"
                /\ null_values' = [t \in Integers6 |-> <<>>] /\ column_infos' = <<>>
                /\ UNCHANGED <<vars, columns, rows, before, fits_columns, fits_rows>>

\* store_info_for_column()
Info(type, size, got_null, idx) ==
  [type |-> type, size |-> size, got_null |-> got_null, idx |-> idx]
GotNull(col) == col.type \in Integers6 /\ col.tnull # <<>>
\* retrieve_null_value_for_type()
NullValue(info) == null_values[info.type][info.idx]

get_column_null_str_lost(col) == DEFAULT_NULL_VALUE  \* mutant: forgotten
\* The null value tablator writes of itself is not taken for a declared one.
get_column_null_str(col) ==
  IF GotNull(col) /\ col.tnull[1] # get_null(col.type) THEN col.tnull ELSE DEFAULT_NULL_VALUE

FieldAttributesOf(name) == IF name \in DOMAIN fields THEN fields[name] ELSE NoAttributes

NextColumn == fits_columns[Len(columns) + 1]
ReadColumn ==
  /\ stage = "columns in" /\ Len(columns) < Len(fits_columns)
  /\ NextColumn.type # "COMPLEX"
  /\ LET col == NextColumn IN
     /\ columns' = Append(columns,
          [name |-> col.name, type |-> col.type, size |-> col.size,
           null |-> get_column_null_str(col), attrs |-> FieldAttributesOf(col.name)])
     /\ null_values' = IF GotNull(col) THEN [null_values EXCEPT ![col.type] = Append(@, col.tnull[1])]
                       ELSE null_values
     /\ column_infos' = Append(column_infos, Info(col.type, col.size, GotNull(col),
                          IF GotNull(col) THEN Len(null_values[col.type]) + 1 ELSE 0))
  /\ UNCHANGED <<vars, stage, rows, before, fits_columns, fits_rows>>

UnsupportedColumn == /\ stage = "columns in" /\ Len(columns) < Len(fits_columns)
                     /\ NextColumn.type = "COMPLEX"
                     /\ stage' = "failed"
                     /\ UNCHANGED <<vars, cells>>

EndColumns == /\ stage = "columns in" /\ Len(columns) = Len(fits_columns)
              /\ stage' = "rows in"
              /\ UNCHANGED <<vars, cells>>

\* read_element_given_column_and_row(): a cell is null if all its elements are.
ReadElements(info, elements) ==
  LET IsNullElement(e) == \/ info.got_null /\ e = NullValue(info)
                          \/ info.type \in Floats /\ e = NaN
      all_null == elements # <<>> /\ \A i \in DOMAIN elements : IsNullElement(elements[i])
  IN IF all_null THEN NullCell(info.type, info.size) ELSE Cell(FALSE, elements)

\* insert_char_array_from_fits(): substring i begins at i times their width.
Substring(s) == IF s = NUL THEN <<>> ELSE s
Used(substrings) == Max({0} \cup {i \in DOMAIN substrings : Substring(substrings[i]) # <<>>})
Padded(s, width) == [i \in 1..width |-> IF i \in DOMAIN s THEN s[i] ELSE Blank]
JoinedWithoutPadding(substrings, width) ==  \* mutant
  FlattenSeq([i \in DOMAIN substrings |-> Substring(substrings[i])])
Joined(substrings, width) ==
  LET n == Used(substrings) IN
  FlattenSeq([i \in 1..n |-> IF i < n THEN Padded(Substring(substrings[i]), width)
                             ELSE Substring(substrings[i])])

\* read_string_given_column_and_row()
ReadString(col, substrings) ==
  IF substrings # <<>> /\ \A i \in DOMAIN substrings : substrings[i] = NUL
  THEN NullCell("CHAR", col.size) ELSE Cell(FALSE, Joined(substrings, col.width))

ReadAs(c, elements) ==
  IF fits_columns[c].type = "CHAR" THEN ReadString(fits_columns[c], elements)
  ELSE ReadElements(column_infos[c], elements)

IsWhole(col) == col.type = "CHAR" => col.size % col.width = 0

WithUnitBefore(c) ==  \* mutant: the index of FITS taken for one from 0
  IF fits_columns[c].unit = "" \/ c = 1 THEN columns
  ELSE [columns EXCEPT ![c - 1].attrs = Emplace(@, "unit", fits_columns[c].unit)]
\* The unit becomes an attribute of the column while its cells are read.
WithUnit(c) ==
  IF fits_columns[c].unit = "" THEN columns
  ELSE [columns EXCEPT ![c].attrs = Emplace(@, "unit", fits_columns[c].unit)]

ReadCell ==
  /\ stage = "rows in"
  /\ LET at == Cursor(rows, Len(columns))
     IN /\ at[1] \in DOMAIN fits_rows /\ IsWhole(fits_columns[at[2]])
        /\ rows' = AddCell(rows, Len(columns), ReadAs(at[2], fits_rows[at[1]][at[2]]))
        /\ columns' = WithUnit(at[2])
  /\ UNCHANGED <<vars, stage, before, fits_columns, fits_rows, null_values, column_infos>>

UnevenString == /\ stage = "rows in"
                /\ LET at == Cursor(rows, Len(columns))
                   IN at[1] \in DOMAIN fits_rows /\ ~IsWhole(fits_columns[at[2]])
                /\ stage' = "failed"
                /\ UNCHANGED <<vars, cells>>

EndRows == /\ stage = "rows in" /\ Cursor(rows, Len(columns))[1] \notin DOMAIN fits_rows
           /\ Assemble
           /\ stage' = "done"
           /\ UNCHANGED cells

Again == /\ stage = "done" /\ WriteAgain
         /\ stage' = "create"
         /\ UNCHANGED cells

-----------------------------------------------------------------------------
InitCells == null_values = <<>> /\ column_infos = <<>>

FitsInit ==
  \/ \E start \in Starts :
       /\ InitFromTable(start.meta) /\ InitCells /\ stage = "create"
       /\ columns = start.columns /\ rows = start.rows
       /\ fits_columns = <<>> /\ fits_rows = <<>>
       /\ before = [columns |-> columns, rows |-> rows, reread |-> FALSE]
  \/ \E start \in FitsFiles :
       /\ InitFromFile(start.hdus) /\ InitCells /\ stage = "keywords"
       /\ fits_columns = start.columns /\ fits_rows = start.rows
       /\ columns = <<>> /\ rows = <<>>
       /\ before = [columns |-> columns, rows |-> rows, reread |-> FALSE]

Keywords == stage = "keywords" /\ KeywordStep /\ UNCHANGED <<stage, cells>>

FitsNext == \/ CreateTable \/ Keywords \/ BeginRows \/ WriteCell \/ Reopen
            \/ BeginColumns \/ ReadColumn \/ UnsupportedColumn \/ EndColumns
            \/ ReadCell \/ UnevenString \/ EndRows \/ Again

FitsSpec == FitsInit /\ [][FitsNext]_allvars /\ WF_allvars(FitsNext)

-----------------------------------------------------------------------------
(* Properties. *)

\* What a cell says, in the columns it was written from and in those it is read
\* into.
Same(c, x, y) == /\ x.null = y.null
                 /\ ~x.null => y.elements = IF /\ before.columns[c].type = "UINT64_LE"
                                               /\ columns[c].type = "CHAR"
                                            THEN Digits(x.elements) ELSE x.elements

Null(col) == IF col.null # DEFAULT_NULL_VALUE THEN col.null[1] ELSE Max64
CellSurvives(c, x) ==
  LET col == before.columns[c] IN
  IF x.null THEN col.type \notin Unsigned \cup {"INT8_LE"}
  ELSE CASE col.type \in Integers6 \/ (col.type = "UINT64_LE" /\ columns[c].type # "CHAR") ->
              x.elements # [i \in 1..col.size |-> Null(col)]
         [] col.type \in Floats -> x.elements # [i \in 1..col.size |-> NaN]
         [] col.type = "CHAR" -> x.elements = <<>> \/ Last(x.elements) # Blank
         [] OTHER -> TRUE

\* A cell comes back from a FITS file as it was exactly if it is neither null in a
\* column of logicals or of unsigned 16 or 32 bits, nor a value that means null in a
\* file, all of its elements the declared null value or tablator's own, nor a string
\* that ends in blanks.
CellsRecoveredExactlyIfTheySurvive ==
  stage = "done" /\ trips > 0 =>
    \A r \in DOMAIN before.rows : \A c \in DOMAIN before.columns :
      Same(c, before.rows[r][c], rows[r][c]) <=> CellSurvives(c, before.rows[r][c])

\* A value that the next file declares to be null.
TakenForNull(col, x) == /\ ~x.null /\ col.type \in Integers6
                        /\ x.elements = [i \in 1..col.size |-> Null(col)]

\* A null cell whose null value is not recognized in the next file.
NullLost(col, x) == x.null /\ col.type \in Unsigned

\* Of a table that was read from FITS, no column changes its type, its size or its
\* null value any more, and a cell changes only if it is null in an unsigned column,
\* or if a file made elsewhere had no null value for its column and the cell has
\* tablator's own: it becomes null then, and in an unsigned column a number on the
\* trip behind that, so that from the third trip on nothing changes.
RereadIsIdentity ==
  stage = "done" /\ before.reread =>
    /\ \A c \in DOMAIN columns : /\ columns[c].type = before.columns[c].type
                                 /\ columns[c].size = before.columns[c].size
                                 /\ columns[c].null = before.columns[c].null
    /\ rows = before.rows <=>
         \A c \in DOMAIN columns : \A x \in CellsOf(before.rows, c) :
           ~TakenForNull(before.columns[c], x) /\ ~NullLost(before.columns[c], x)
    /\ trips > 1 =>
         \A c \in DOMAIN columns : \A x \in CellsOf(before.rows, c) :
           ~TakenForNull(before.columns[c], x)
    /\ trips > 2 => rows = before.rows

\* The unit of a column comes back exactly if its FIELD has it, or has none and
\* there is a row: the attribute of a FIELD is stronger than TUNIT, and FIELDs are
\* found by name.
UnitsNeedRowsOrFields ==
  stage = "done" /\ trips > 0 =>
    \A c \in DOMAIN columns :
      LET unit == Text(before.columns[c].attrs, "unit")
          field == FieldAttributesOf(columns[c].name)
      IN unit # "" => (Text(columns[c].attrs, "unit") = unit
                         <=> IF "unit" \in DOMAIN field THEN field["unit"] = unit
                             ELSE rows # <<>>)

\* Substring i of a string of a file made elsewhere begins at i times the width,
\* also behind null substrings; a null string has none.
SubstringsInPlace ==
  stage = "done" /\ trips = 0 =>
    \A r \in DOMAIN rows : \A c \in DOMAIN columns :
      columns[c].type = "CHAR" =>
        LET stored == rows[r][c].elements  width == fits_columns[c].width
        IN \A i \in DOMAIN fits_rows[r][c] :
             LET s == Substring(fits_rows[r][c][i])  at == (i - 1) * width
             IN \A k \in 1..width :
                  IF k \in DOMAIN s THEN at + k \in DOMAIN stored /\ stored[at + k] = s[k]
                  ELSE at + k \in DOMAIN stored => stored[at + k] = Blank

\* Writing and reading come to an end, also for files that cannot be read.
Settles == <>[](stage \in {"done", "failed"} \/ phase = "undefined")

=============================================================================
