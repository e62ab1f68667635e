------------------------------ MODULE TableOps ------------------------------
(***************************************************************************)
(* combine_tables() and add_counter_column(): a new table is built row by   *)
(* row from the rows of other tables, by copying null flags, bytes and      *)
(* array lengths separately.                                               *)
(*                                                                         *)
(* A table is made of visible columns (column 0, the null flags, is apart:   *)
(* flagBytes is its width) and of rows.  A row has the set of its null bits,  *)
(* counted from the most significant bit of its first byte, the cells of its  *)
(* visible columns, and the lengths stored for it.  A cell knows whether it   *)
(* is null and how long its array is: flags and lengths are right if they     *)
(* agree with the cells.                                                    *)
(***************************************************************************)
EXTENDS Integers, Sequences, FiniteSets

CONSTANTS
  Sources,      \* the tables the readers produce
  CounterName,  \* the column name add_counter_column() is called with
  CounterCell,  \* the contents of the new column: not null, one element
  MaxColumns,   \* bound of the model on the columns of a table
  MaxTables     \* bound of the model on the tables that exist

Cell == [null : BOOLEAN, len : Nat]
Column == [name : STRING, dyn : BOOLEAN]
RowOfTable == [bits : SUBSET Nat, cells : Seq(Cell), sizes : Seq(Nat)]
Table == [cols : Seq(Column), flagBytes : Nat, rows : Seq(RowOfTable)]

BitsPerByte == 8
bits_to_bytes(n) == (n + BitsPerByte - 1) \div BitsPerByte

NumDynamic(cols) == Cardinality({c \in DOMAIN cols : cols[c].dyn})

\* The null flags have room for every visible column, no flag is behind their last
\* byte, and every row has one cell per column.
WellFormed(t) ==
  /\ t \in Table
  /\ t.cols # <<>>
  /\ BitsPerByte * t.flagBytes >= Len(t.cols)
  /\ \A r \in DOMAIN t.rows :
       /\ t.rows[r].bits \subseteq 0..(BitsPerByte * t.flagBytes - 1)
       /\ Len(t.rows[r].cells) = Len(t.cols)

ASSUME SourcesAssumption == \A t \in Sources : WellFormed(t)

ASSUME CounterAssumption ==
  /\ CounterName \in STRING
  /\ CounterCell \in Cell /\ ~CounterCell.null
  /\ MaxColumns \in Nat /\ MaxTables \in Nat

VARIABLES
  made,    \* the tables made so far
  op,      \* "idle", "combining", "counting"
  src,     \* the source tables of the operation at work
  dest,    \* the table it builds
  sizes    \* dynamic_array_sizes_ of the Row that every row is built in

vars == <<made, op, src, dest, sizes>>

NoTable == [cols |-> <<>>, flagBytes |-> 0, rows |-> <<>>]

Init ==
  /\ made = {} /\ op = "idle"
  /\ src = <<>> /\ dest = NoTable /\ sizes = <<>>

----------------------------------------------------------------------------
Names(t) == {t.cols[c].name : c \in DOMAIN t.cols}
NamesDistinct(t) == Cardinality(Names(t)) = Len(t.cols)

Zeros(n) == [i \in 1..n |-> 0]

\* The Field_Framework constructor leaves room for one flag more than the
\* columns it is given.
FlagBytesRoundedDown(cols) == Len(cols) \div BitsPerByte
FlagBytesFor(cols) == bits_to_bytes(Len(cols) + 1)

\* The new table, and the Row with as many lengths as it has dynamic columns.
Begin(name, ts, cols) ==
  /\ op = "idle" /\ Cardinality(made) < MaxTables /\ Len(cols) <= MaxColumns
  /\ op' = name /\ src' = ts
  /\ dest' = [cols |-> cols, flagBytes |-> FlagBytesFor(cols), rows |-> <<>>]
  /\ sizes' = Zeros(NumDynamic(cols))
  /\ UNCHANGED made

\* The remaining guards of combine_tables() are those under which it throws.
BeginCombine(t1, t2) ==
  /\ Len(t1.rows) = Len(t2.rows)
  /\ NamesDistinct(t1) /\ NamesDistinct(t2) /\ Names(t1) \cap Names(t2) = {}
  /\ Begin("combining", <<t1, t2>>, t1.cols \o t2.cols)

BeginCounter(t) ==
  /\ CounterName \notin Names(t)
  /\ Begin("counting", <<t>>, Append(t.cols, [name |-> CounterName, dyn |-> FALSE]))

\* fill_with_zeros() clears the lengths in place; the lengths of the source
\* rows are then inserted behind them.
ZeroedThen(s) == Zeros(Len(sizes)) \o s

GotDynamic(t) == NumDynamic(t.cols) > 0
SizesIfAny(t, r) == IF GotDynamic(t) THEN t.rows[r].sizes ELSE <<>>

\* Where flag b of the second table goes: with a whole number of bytes of
\* flags in the first table the flags are copied byte by byte behind them,
\* otherwise bit by bit behind its last column.
PlaceBehindWholeBytes(t1, b) == BitsPerByte * (Len(t1.cols) \div BitsPerByte) + b
PlaceOfFlag(t1, b) ==
  IF Len(t1.cols) % BitsPerByte = 0
  THEN BitsPerByte * t1.flagBytes + b
  ELSE Len(t1.cols) + b

\* Whole bytes have the bits behind the last column in them, too.
FlagsToCopy(t1, t2, r) ==
  {x \in t2.rows[r].bits : Len(t1.cols) % BitsPerByte = 0 \/ x < Len(t2.cols)}

\* The bytes of the columns are copied over whatever lies behind the flags.
Within(flags, d) == {b \in flags : b < BitsPerByte * d.flagBytes}

CombinedFlags(t1, t2, d, r) ==
  Within(t1.rows[r].bits \cup {PlaceOfFlag(t1, x) : x \in FlagsToCopy(t1, t2, r)}, d)

Emit(row) ==
  /\ dest' = [dest EXCEPT !.rows = Append(@, row)]
  /\ sizes' = row.sizes
  /\ UNCHANGED <<made, op, src>>

CombineRow ==
  /\ op = "combining" /\ Len(dest.rows) < Len(src[1].rows)
  /\ LET r == Len(dest.rows) + 1
     IN  Emit([bits  |-> CombinedFlags(src[1], src[2], dest, r),
               cells |-> src[1].rows[r].cells \o src[2].rows[r].cells,
               sizes |-> ZeroedThen(SizesIfAny(src[1], r) \o SizesIfAny(src[2], r))])

CounterRow ==
  /\ op = "counting" /\ Len(dest.rows) < Len(src[1].rows)
  /\ LET r == Len(dest.rows) + 1
     IN  Emit([bits  |-> Within(src[1].rows[r].bits, dest),
               cells |-> Append(src[1].rows[r].cells, CounterCell),
               sizes |-> ZeroedThen(SizesIfAny(src[1], r))])

Return ==
  /\ op # "idle" /\ Len(dest.rows) = Len(src[1].rows)
  /\ made' = made \cup {dest}
  /\ op' = "idle" /\ src' = <<>> /\ dest' = NoTable /\ sizes' = <<>>

Build == CombineRow \/ CounterRow \/ Return

\* The command-line program reads its operands and writes what it makes.
CliNext ==
  \/ \E t1, t2 \in Sources : BeginCombine(t1, t2)
  \/ \E t \in Sources : BeginCounter(t)
  \/ Build

CliSpec == Init /\ [][CliNext]_vars

\* A client of the library may use the tables it has made as operands.
ApiNext ==
  \/ \E t1, t2 \in Sources \cup made : BeginCombine(t1, t2)
  \/ \E t \in Sources \cup made : BeginCounter(t)
  \/ Build

ApiSpec == Init /\ [][ApiNext]_vars

----------------------------------------------------------------------------
\* append_row(): "assert(row.get_dynamic_array_sizes().size() ==
\* get_num_dynamic_columns())", for every row of a new table.
RowsHaveALengthPerArray ==
  \A t \in made \cup {dest} : \A r \in DOMAIN t.rows :
    Len(t.rows[r].sizes) = NumDynamic(t.cols)

\* Every table that exists is well formed, and so is the one being built.
TypeOK ==
  /\ \A t \in made : WellFormed(t)
  /\ op \in {"idle", "combining", "counting"}
  /\ src \in Seq(Table)
  /\ op = "idle" <=> src = <<>>
  /\ \A i \in DOMAIN src : WellFormed(src[i])
  /\ IF op = "idle" THEN dest = NoTable ELSE WellFormed(dest)
  /\ sizes \in Seq(Nat)

\* is_null(): the null flag of every cell tells whether the cell is null.
FlagsRight(row) ==
  \A c \in DOMAIN row.cells : (c - 1) \in row.bits <=> row.cells[c].null

\* get_dynamic_array_size(): the length stored for a dynamic column is that of
\* its cell.  The n-th dynamic column has the n-th length.
Rank(cols, c) == Cardinality({b \in 1..c : cols[b].dyn})
LengthsRight(cols, row) ==
  \A c \in DOMAIN cols :
    cols[c].dyn => /\ Rank(cols, c) <= Len(row.sizes)
                   /\ row.sizes[Rank(cols, c)] = row.cells[c].len

\* In every table made, and in the rows of the one being made, is_null() is
\* right: "Packed bit array indicating whether an entry is null".
FlagsFollowColumns ==
  \A t \in made \cup {dest} : \A r \in DOMAIN t.rows : FlagsRight(t.rows[r])

\* The first table has room for a byte of flags more than its columns need:
\* the Field_Framework constructor made it, with a multiple of 8 columns.
Padded(t) ==
  /\ Len(t.cols) % BitsPerByte = 0
  /\ t.flagBytes > Len(t.cols) \div BitsPerByte

LastRow(t) == t.rows[Len(t.rows)]

\* The flags of the cells put behind those of the first table, the flags of the first
\* table that are behind its own columns and below them, and the columns of a second
\* table whose first one is padded.
Added(new, first) ==
  {b \in Len(first.cells)..(Len(new.cells) - 1) : new.cells[b + 1].null}
Stray(new, first) == {b \in first.bits : Len(first.cells) <= b /\ b < Len(new.cells)}
Misplaced(new, first) == op = "combining" /\ Padded(src[1]) /\ Added(new, first) # {}

\* The flags of a new row are right exactly if the second table has no null or the
\* first one is not padded.  Flags that were misplaced behind the last column are
\* taken for those of the next columns put there, counters included ("the
\* dest_column's null_bitfield flag is never set").
PaddingMisplacesFlags ==
  [][op # "idle" /\ op' = op =>
       LET r     == Len(dest'.rows)
           new   == LastRow(dest')
           first == src[1].rows[r]
       IN  (\A i \in DOMAIN src : FlagsRight(src[i].rows[r])) =>
             /\ ~Misplaced(new, first) => (FlagsRight(new) <=> Stray(new, first) \subseteq Added(new, first))
             /\ Misplaced(new, first) /\ Stray(new, first) = {} => ~FlagsRight(new)]_vars

\* What the rows have instead, where the assertion is compiled out: a row made from
\* another table's row answers for its arrays exactly if all of them are empty, for
\* its own lengths are the zeros they were inserted behind.
LengthsOfNewRowsAreZero ==
  [][op # "idle" /\ op' = op =>
       (LengthsRight(dest'.cols, LastRow(dest')) <=>
          \A c \in DOMAIN dest'.cols : dest'.cols[c].dyn => LastRow(dest').cells[c].len = 0)]_vars
=============================================================================
