---------------------------- MODULE DataDetails -----------------------------
(***************************************************************************)
(* Data_Details: the row store of one table.  Three representations of the  *)
(* same rows have to be kept in step by hand:                               *)
(*                                                                         *)
(*   data_                        one chunk of bytes per row,               *)
(*   dynamic_array_sizes_by_row_  the current lengths of the variable-      *)
(*                                length arrays of each row,                *)
(*   num_rows_inserted_           how many rows append_row() has added.     *)
(*                                                                         *)
(* A chunk of bytes is a value of Data; SizesOf gives the lengths that the  *)
(* bytes stand for.  Sequences are 1-based, the code's row indices 0-based: *)
(* row r is data[r + 1].  A call that throws before it has changed anything *)
(* is a stuttering step and has no action.                                  *)
(***************************************************************************)
EXTENDS Integers, Sequences, FiniteSets

CONSTANTS
  Data,          \* the possible contents of a row's bytes
  NumDyn,        \* num_dynamic_columns_
  SizesOf,       \* the lengths a row's contents stand for
  ZeroRow,       \* the row whose bytes are all 0
  Initials,      \* the values of num_initial_rows the readers pass
  HeaderCounted, \* TRUE: the reader counted a header line as a row (read_dsv)
  Operands,      \* the tables append_rows() is called with
  Selections,    \* the sets of row indices winnow_rows() is called with
  MaxRows        \* bound of the model on the number of rows

Lengths == [1..NumDyn -> Nat]

ASSUME DataAssumption ==
  /\ NumDyn \in Nat
  /\ SizesOf \in [Data -> Lengths]
  /\ ZeroRow \in Data

ASSUME CallsAssumption ==
  /\ Initials \subseteq Nat
  /\ HeaderCounted \in BOOLEAN
  /\ Operands \subseteq [data : Seq(Data), sizes : Seq(Seq(Nat))]
  /\ MaxRows \in Nat

\* std::set<size_t>, not empty: main() calls winnow_rows() with nothing else.
ASSUME SelectionsAssumption ==
  \A S \in Selections : S \subseteq Nat /\ IsFiniteSet(S) /\ S # {}

VARIABLES
  data,      \* data_, cut into rows
  sizes,     \* dynamic_array_sizes_by_row_
  inserted,  \* num_rows_inserted_
  initial,   \* num_initial_rows_
  stage,     \* what the client is doing: "loading", "loaded", "winnowing"
  sel, todo, read, write, prev, \* the locals of winnow_rows()
  before, kept                  \* history: the rows winnow_rows() started
                                \* from and the indices it has retained

loop == <<sel, todo, read, write, prev, before, kept>>
vars == <<data, sizes, inserted, initial, stage, loop>>

GotDynamic == NumDyn > 0

----------------------------------------------------------------------------
\* Construction: init() makes room for num_initial_rows rows, and an empty
\* list of lengths for each of them if the table has dynamic columns.
IdleLoop ==
  /\ sel = {} /\ todo = {} /\ read = 0 /\ write = 0 /\ prev = 0
  /\ before = <<>> /\ kept = <<>>

Init ==
  /\ initial \in Initials
  /\ data = <<>>
  /\ sizes = IF GotDynamic THEN [i \in 1..initial |-> <<>>] ELSE <<>>
  /\ inserted = 0
  /\ stage = "loading"
  /\ IdleLoop

\* std::vector::resize on the list of lengths.
Resize(s, n) == [i \in 1..n |-> IF i \in DOMAIN s THEN s[i] ELSE <<>>]

\* The lists of lengths append_row() works on: one more once the rows that
\* init() foresaw are used up.
SlotsOneLate == IF inserted > initial THEN Append(sizes, <<>>) ELSE sizes
Slots == IF inserted >= initial THEN Append(sizes, <<>>) ELSE sizes

\* The lengths of the row join the list at num_rows_inserted_.
RecordLast(slots, s) == [slots EXCEPT ![Len(slots)] = @ \o s]
Record(slots, s) == [slots EXCEPT ![inserted + 1] = @ \o s]

\* append_row(row), row holding contents d and lengths s.  The bytes are
\* stored first; at(num_rows_inserted_) may then throw.
AppendRow(d, s) ==
  /\ Len(data) < MaxRows
  /\ data' = Append(data, d)
  /\ \/ /\ ~GotDynamic
        /\ inserted' = inserted + 1
        /\ UNCHANGED sizes
     \/ /\ GotDynamic /\ inserted < Len(Slots)
        /\ sizes' = Record(Slots, s)
        /\ inserted' = inserted + 1
     \/ /\ GotDynamic /\ inserted >= Len(Slots)
        /\ sizes' = Slots
        /\ UNCHANGED inserted
  /\ UNCHANGED <<initial, loop>>

AppendRowsInFront(other) ==
  /\ Len(data) + Len(other.data) <= MaxRows
  /\ data' = other.data \o data
  /\ sizes' = IF GotDynamic THEN other.sizes \o sizes ELSE sizes
  /\ UNCHANGED <<inserted, initial, loop>>

AppendRowsBytesOnly(other) ==
  /\ Len(data) + Len(other.data) <= MaxRows
  /\ data' = data \o other.data
  /\ UNCHANGED <<sizes, inserted, initial, loop>>

\* append_rows(other).  num_rows_inserted_ is not updated.
AppendRows(other) ==
  /\ Len(data) + Len(other.data) <= MaxRows
  /\ data' = data \o other.data
  /\ sizes' = IF GotDynamic THEN sizes \o other.sizes ELSE sizes
  /\ UNCHANGED <<inserted, initial, loop>>

\* adjust_num_rows(n): the lists of lengths are resized even if the table has
\* no dynamic columns.
AdjustNumRows(n) ==
  /\ n <= MaxRows
  /\ data' = [i \in 1..n |-> IF i \in DOMAIN data THEN data[i] ELSE ZeroRow]
  /\ sizes' = Resize(sizes, n)
  /\ UNCHANGED <<inserted, initial, loop>>

----------------------------------------------------------------------------
\* winnow_rows(selected_row_idx_list), one action per iteration.

\* The validity checks and the early return for "retain everything".
BeginWinnow(S) ==
  /\ \A r \in S : r < Len(data)
  /\ Cardinality(S) < Len(data)
  /\ sel' = S /\ todo' = S
  /\ read' = 0 /\ write' = 0 /\ prev' = 0
  /\ before' = data /\ kept' = <<>>
  /\ stage' = "winnowing"
  /\ UNCHANGED <<data, sizes, inserted, initial>>

LeaveLoop ==
  /\ stage' = "loaded"
  /\ sel' = {} /\ todo' = {} /\ read' = 0 /\ write' = 0 /\ prev' = 0
  /\ before' = <<>> /\ kept' = <<>>

IsNext(r) == r \in todo /\ \A x \in todo : r <= x

\* The end of an iteration that has retained row r.
RetainedStalePrev(r) ==
  /\ write' = write + 1 /\ UNCHANGED prev /\ todo' = todo \ {r}
  /\ kept' = Append(kept, r)

Retained(r) ==
  /\ write' = write + 1 /\ prev' = r /\ todo' = todo \ {r}
  /\ kept' = Append(kept, r)

\* The row is already where it belongs.  (The code's test row_idx >= write_idx
\* always succeeds: a set is enumerated in increasing order.)
WinnowInPlace(r) ==
  /\ stage = "winnowing" /\ IsNext(r) /\ r = write
  /\ Retained(r)
  /\ UNCHANGED <<data, sizes, inserted, initial, stage, sel, read, before>>

\* read_ptr advances by the distance from the previous selected row, and the
\* row it arrives at is copied.
AdvanceShort(r) == read + (r - prev) - 1
Advance(r) == read + (r - prev)

MoveRow(r) ==
  /\ stage = "winnowing" /\ IsNext(r) /\ r > write
  /\ data' = [data EXCEPT ![write + 1] = data[Advance(r) + 1]]

\* The two lists of lengths change places.
WinnowMove(r) ==
  /\ MoveRow(r)
  /\ ~GotDynamic \/ r < Len(sizes)
  /\ read' = Advance(r)
  /\ sizes' = IF GotDynamic
              THEN [sizes EXCEPT ![write + 1] = sizes[r + 1], ![r + 1] = sizes[write + 1]]
              ELSE sizes
  /\ Retained(r)
  /\ UNCHANGED <<inserted, initial, stage, sel, before>>

\* at(row_idx) throws out of the loop: the rows copied so far stay copied.
WinnowThrows(r) ==
  /\ MoveRow(r)
  /\ GotDynamic /\ r >= Len(sizes)
  /\ LeaveLoop
  /\ UNCHANGED <<sizes, inserted, initial>>

\* Everything past the last row retained is deleted.
EndWinnow ==
  /\ stage = "winnowing" /\ todo = {}
  /\ data' = SubSeq(data, 1, write)
  /\ sizes' = IF GotDynamic THEN Resize(sizes, Cardinality(sel)) ELSE sizes
  /\ LeaveLoop
  /\ UNCHANGED <<inserted, initial>>

WinnowStep ==
  \/ \E r \in todo : WinnowInPlace(r) \/ WinnowMove(r) \/ WinnowThrows(r)
  \/ EndWinnow

----------------------------------------------------------------------------
\* The tables the command-line program works with: a reader fills a new
\* Data_Details and hands it over, then rows are appended or winnowed.

\* read_dsv, read_binary2, read_fits: row by row.  read_dsv() passes the
\* number of lines, the header line included, and appends one row less.
ReadRow(d) ==
  /\ stage = "loading"
  /\ HeaderCounted => inserted + 1 < initial
  /\ AppendRow(d, SizesOf[d])
  /\ UNCHANGED stage

HandOver ==
  /\ stage = "loading"
  /\ IF HeaderCounted THEN initial = inserted + 1 ELSE inserted >= initial
  /\ stage' = "loaded"
  /\ UNCHANGED <<data, sizes, inserted, initial, loop>>

SizesOfRows(rs) ==
  IF GotDynamic THEN [i \in 1..Len(rs) |-> SizesOf[rs[i]]] ELSE <<>>

\* read_hdf5: adjust_num_rows(), all bytes read at once, then the lengths are
\* swapped in.
ReadWhole(rs) ==
  /\ stage = "loading" /\ ~HeaderCounted
  /\ inserted = 0 /\ initial = Len(rs)
  /\ data' = rs
  /\ sizes' = SizesOfRows(rs)
  /\ stage' = "loaded"
  /\ UNCHANGED <<inserted, initial, loop>>

\* shrink_ipac_string_columns_to_fit(): a new Data_Details, made for the
\* number of rows read, takes over the rows and the reader's own lengths.
ShrinkToFit ==
  /\ stage = "loading" /\ ~HeaderCounted /\ initial = 0
  /\ initial' = Len(data) /\ inserted' = 0
  /\ sizes' = SizesOfRows(data)
  /\ stage' = "loaded"
  /\ UNCHANGED <<data, loop>>

Wholes == UNION {[1..n -> Data] : n \in Initials}

CliNext ==
  \/ \E d \in Data : ReadRow(d)
  \/ HandOver
  \/ \E rs \in Wholes : ReadWhole(rs)
  \/ ShrinkToFit
  \/ \E o \in Operands : stage = "loaded" /\ AppendRows(o) /\ UNCHANGED stage
  \/ \E S \in Selections : stage = "loaded" /\ BeginWinnow(S)
  \/ WinnowStep

CliSpec == Init /\ [][CliNext]_vars

\* The library's interface (Table.hxx makes all of these calls public): any
\* call at any time.
ApiNext ==
  \/ /\ stage # "winnowing"
     /\ \/ \E d \in Data : AppendRow(d, SizesOf[d]) /\ UNCHANGED stage
        \/ \E o \in Operands : AppendRows(o) /\ UNCHANGED stage
        \/ \E n \in 0..MaxRows : AdjustNumRows(n) /\ UNCHANGED stage
        \/ \E S \in Selections : BeginWinnow(S)
  \/ WinnowStep

ApiSpec == Init /\ [][ApiNext]_vars

----------------------------------------------------------------------------
\* Types, and the ranges of the loop's cursors: neither the row read nor the
\* row written by winnow_rows() is ever past the end of data_.
TypeOK ==
  /\ data \in Seq(Data)
  /\ sizes \in Seq(Seq(Nat))
  /\ inserted \in Nat /\ initial \in Nat
  /\ stage \in {"loading", "loaded", "winnowing"}
  /\ sel \subseteq Nat /\ todo \subseteq sel /\ IsFiniteSet(sel)
  /\ read \in Nat /\ write \in Nat /\ prev \in Nat
  /\ before \in Seq(Data)
  /\ kept \in Seq(Nat)
  /\ read <= prev
  /\ stage = "winnowing" => write <= Len(data) /\ prev < Len(data)

\* Row i (1-based) has the lengths that its bytes stand for.
RowAligned(i) == i \in DOMAIN sizes /\ sizes[i] = SizesOf[data[i]]

\* Every row has its own lengths, and lists of lengths without a row are empty.
Aligned ==
  GotDynamic =>
    /\ \A i \in DOMAIN data : RowAligned(i)
    /\ \A i \in DOMAIN sizes : i > Len(data) => sizes[i] = <<>>

\* Outside winnow_rows(), get_dynamic_array_sizes(row_idx) answers with the
\* lengths of the row whose bytes are at row_idx: the bytes and the lengths
\* are moved by different code in append_row(), append_rows(), winnow_rows()
\* and the readers.
RowsKeepTheirSizes == stage # "winnowing" => Aligned

\* After each iteration of winnow_rows() the first rows of data_ are the rows
\* selected so far, in order ("list of rows to retain, dropping others";
\* "Copy row_idx-th row to begin immediately after the end of the previous
\* copied row").
WinnowRetainsSelection ==
  stage = "winnowing" =>
    /\ Len(kept) = write
    /\ {kept[k] : k \in 1..write} = sel \ todo
    /\ \A j, k \in 1..write : j < k => kept[j] < kept[k]
    /\ \A k \in 1..write : data[k] = before[kept[k] + 1]

\* The selections for which that is so: read_ptr does not follow while the
\* first rows selected are rows 0, 1, ..., so a gap after two of them is lost.
SafeSelection(S) == {0, 1} \subseteq S => \E m \in S : S = 0..m

\* append_row() leaves an aligned table aligned exactly if
\* num_rows_inserted_ still is the number of rows and its slot exists, which
\* no bulk operation (append_rows(), winnow_rows(), adjust_num_rows(), the
\* readers' swaps) sees to.
CounterIsCurrent == inserted = Len(data) /\ inserted < Len(Slots)

AppendsOneRow == \E d \in Data : AppendRow(d, SizesOf[d])

AppendRowNeedsCurrentCounter ==
  [][GotDynamic /\ Aligned /\ AppendsOneRow => (Aligned' <=> CounterIsCurrent)]_vars

\* append_rows() leaves an aligned table aligned exactly if the table has no
\* list of lengths beyond its last row.
AppendRowsNeedsExactSizes ==
  [][\A o \in Operands :
       /\ GotDynamic /\ Aligned /\ stage' = stage
       /\ o.data # <<>> /\ o.sizes = SizesOfRows(o.data)
       /\ AppendRows(o)
       => (Aligned' <=> Len(sizes) = Len(data))]_vars

----------------------------------------------------------------------------
\* The rows as their users see them: contents and lengths.  While
\* winnow_rows() is at work nobody sees the table.
LogicalRow(d) == [content |-> d, lengths |-> SizesOf[d]]
LogicalRows(rs) == [i \in 1..Len(rs) |-> LogicalRow(rs[i])]

VisibleRows ==
  IF stage = "winnowing"
  THEN LogicalRows(before)
  ELSE [i \in 1..Len(data) |->
          [content |-> data[i],
           lengths |-> IF i \in DOMAIN sizes THEN sizes[i] ELSE <<>>]]

Logical == INSTANCE LogicalTable WITH
  Row        <- {LogicalRow(d) : d \in Data},
  Whole      <- {LogicalRows(rs) : rs \in Wholes},
  Operands   <- {LogicalRows(o.data) : o \in Operands},
  rows       <- VisibleRows,
  filled     <- stage # "loading"

\* The row store implements the table of logical rows: every row keeps its own
\* lengths through loading, appending and winnowing, and winnowing keeps
\* exactly the selected rows in their order.
ImplementsLogicalTable == Logical!Spec
=============================================================================
