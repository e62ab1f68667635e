------------------------------ MODULE Binary2 -------------------------------
(***************************************************************************)
(* write_binary2() and read_binary2(): the rows of a table as one stream of   *)
(* bytes, and the rows that are read from streams of bytes.  The reader goes  *)
(* through every stream twice, cell by cell: once to count the rows and to    *)
(* find out how wide columns of variable length have to be, and once to fill  *)
(* the rows.  Both passes have to find the same cells at the same positions.  *)
(*                                                                         *)
(* Positions are the code's, from 0: byte p of a stream is stream[p + 1].     *)
(* The bytes of a number have the order they have in the stream.             *)
(***************************************************************************)
EXTENDS Naturals, Sequences, FiniteSets, FiniteSetsExt, SequencesExt

CONSTANTS
  Tables,   \* the tables that are written and read back
  Foreign   \* streams from elsewhere, with the columns they are read as

Byte == 0..255
Types == {"bool", "byte", "char", "short"}
SizeOf(type) == IF type = "short" THEN 2 ELSE 1

\* width: the elements of an array, the longest array of a column if dyn.
Column == [type : Types, dyn : BOOLEAN, width : Nat \ {0}]
Cell == [null : BOOLEAN, bytes : Seq(Byte)]

BitsPerByte == 8
bits_to_bytes(n) == (n + BitsPerByte - 1) \div BitsPerByte

\* Four bytes are enough for n.
IsUInt32(n) == n \div 16777216 \in Byte

Fits(cell, col, width) ==
  IF cell.null THEN cell.bytes = <<>>
  ELSE \E n \in 0..width : /\ Len(cell.bytes) = n * SizeOf(col.type)
                           /\ col.dyn \/ n = width

\* flagBytes: the width of column 0, which holds the null flags of a row.  The
\* lengths of arrays are of type uint32_t.
ASSUME TablesAssumption ==
  \A t \in Tables :
    /\ t.cols \in Seq(Column) /\ t.cols # <<>>
    /\ t.flagBytes \in Nat /\ t.flagBytes >= bits_to_bytes(Len(t.cols))
    /\ t.rows \in Seq(Seq(Cell))
    /\ \A r \in DOMAIN t.rows :
         /\ Len(t.rows[r]) = Len(t.cols)
         /\ \A k \in DOMAIN t.cols : Fits(t.rows[r][k], t.cols[k], t.cols[k].width)
    /\ \A k \in DOMAIN t.cols : IsUInt32(t.cols[k].width)

ASSUME ForeignAssumption ==
  \A f \in Foreign : f.cols \in Seq(Column) /\ f.cols # <<>> /\ f.streams \in Seq(Seq(Byte))

VARIABLES
  table,     \* the table that is written, or NoTable
  cols,      \* the columns the FIELDs declare
  phase,     \* "writing", "sizing", "filling", "read", "failed"
  streams,   \* the bytes of each STREAM; while writing those written
  s, c,      \* the stream and the column at work; column 0: the null flags
  left,      \* the rows of the stream still to be filled
  pos, start, \* the position in the stream, and that of the row
  counts,    \* rows_per_stream
  column_array_sizes,
  cells,     \* single_row
  rows       \* the rows written; while filling those appended

widths == column_array_sizes
input == <<table, cols>>
place == <<s, c, left, pos, start>>
vars == <<input, phase, streams, place, counts, widths, cells, rows>>

NoTable == [cols |-> <<>>, flagBytes |-> 0, rows |-> <<>>]

Init ==
  /\ \/ /\ table \in Tables /\ cols = table.cols
        /\ streams = <<<<>>>> /\ phase = "writing"
     \/ /\ table = NoTable /\ phase = "sizing"
        /\ \E f \in Foreign : cols = f.cols /\ streams = f.streams
  /\ s = 1 /\ c = 0 /\ left = 0 /\ pos = 0 /\ start = 0
  /\ counts = [i \in DOMAIN streams |-> 0]
  /\ widths = [k \in DOMAIN cols |-> 1]
  /\ cells = <<>> /\ rows = <<>>

Throw ==
  /\ phase' = "failed"
  /\ UNCHANGED <<input, streams, place, counts, widths, cells, rows>>

----------------------------------------------------------------------------
\* Numbers are big-endian, and the first column has the highest bit.
WordBytes == 4
Word(n) == <<(n \div 16777216) % 256, (n \div 65536) % 256, (n \div 256) % 256, n % 256>>
big_dword(bytes, p) ==
  16777216 * bytes[p + 1] + 65536 * bytes[p + 2] + 256 * bytes[p + 3] + bytes[p + 4]
Zeroes(n) == [i \in 1..n |-> 0]

Bit(k) == <<128, 64, 32, 16, 8, 4, 2, 1>>[((k - 1) % BitsPerByte) + 1]
ByteOf(k) == (k - 1) \div BitsPerByte + 1
is_null_MSB(bytes, row_offset, k) ==
  (bytes[row_offset + ByteOf(k)] \div Bit(k)) % 2 = 1

FlagsOfLSB(nulls, n) ==
  LET Flag(b, i) == IF BitsPerByte * (b - 1) + i \in nulls THEN 1 ELSE 0
  IN  [b \in 1..n |-> 128 * Flag(b, 8) + 64 * Flag(b, 7) + 32 * Flag(b, 6) + 16 * Flag(b, 5)
                        + 8 * Flag(b, 4) + 4 * Flag(b, 3) + 2 * Flag(b, 2) + Flag(b, 1)]
FlagsOf(nulls, n) ==
  LET Flag(b, i) == IF BitsPerByte * (b - 1) + i \in nulls THEN 1 ELSE 0
  IN  [b \in 1..n |-> 128 * Flag(b, 1) + 64 * Flag(b, 2) + 32 * Flag(b, 3) + 16 * Flag(b, 4)
                        + 8 * Flag(b, 5) + 4 * Flag(b, 6) + 2 * Flag(b, 7) + Flag(b, 8)]

\* 1, '1', 'T' or 't'; 0, '0', 'F' or 'f'.
Trues == {1, 49, 84, 116}
Falses == {0, 48, 70, 102}

\* An element that is no boolean cannot be written, nor can a null string of
\* fixed length: Bigendian_Null_Lookup has no null for CHAR.
Writable(cell, col) ==
  IF cell.null THEN col.dyn \/ col.type # "char"
  ELSE col.type = "bool" => ToSet(cell.bytes) \subseteq Trues \cup Falses

ElementsOf(cell, col) ==
  IF col.type = "bool"
  THEN [i \in DOMAIN cell.bytes |-> IF cell.bytes[i] \in Trues THEN 49 ELSE 48]
  ELSE cell.bytes

\* A null is written as zeroes; a cell of variable length has its length, in
\* elements, before it.
Written(cell, col) ==
  LET length == Word(Len(cell.bytes) \div SizeOf(col.type))
  IN  CASE col.dyn -> length \o ElementsOf(cell, col)
        [] cell.null /\ ~col.dyn -> Zeroes(col.width * SizeOf(col.type))
        [] OTHER -> ElementsOf(cell, col)

LastColumn == c = Len(cols)
RowToWrite == table.rows[Len(rows) + 1]

\* The null flags are written as wide as column 0 is.
WriteFlags ==
  /\ phase = "writing" /\ c = 0 /\ Len(rows) < Len(table.rows)
  /\ streams' = <<streams[1] \o FlagsOf({k \in DOMAIN cols : RowToWrite[k].null}, table.flagBytes)>>
  /\ c' = 1
  /\ UNCHANGED <<input, phase, s, left, pos, start, counts, widths, cells, rows>>

WriteCell ==
  /\ phase = "writing" /\ c > 0 /\ Writable(RowToWrite[c], cols[c])
  /\ streams' = <<streams[1] \o Written(RowToWrite[c], cols[c])>>
  /\ c' = IF LastColumn THEN 0 ELSE c + 1
  /\ rows' = IF LastColumn THEN Append(rows, RowToWrite) ELSE rows
  /\ UNCHANGED <<input, phase, s, left, pos, start, counts, widths, cells>>

CannotWrite ==
  /\ phase = "writing" /\ c > 0 /\ ~Writable(RowToWrite[c], cols[c])
  /\ Throw

\* encode_base64_stream() and decode_base64_stream(): what fills the last group
\* of three bytes comes out as zeroes.
Padding(bytes) == (3 - (Len(bytes) % 3)) % 3
Decoded(bytes) == bytes \o Zeroes(Padding(bytes))

Transmit ==
  /\ phase = "writing" /\ c = 0 /\ Len(rows) = Len(table.rows)
  /\ streams' = <<Decoded(streams[1])>>
  /\ phase' = "sizing" /\ rows' = <<>>
  /\ UNCHANGED <<input, place, counts, widths, cells>>

----------------------------------------------------------------------------
Stream == streams[s]
null_flags_size == bits_to_bytes(Len(cols))
IsNull == is_null_MSB(Stream, start, c)
WordAt(p) == big_dword(Stream, p)
HasWord == pos + WordBytes <= Len(Stream)

BeginRow ==
  /\ start' = pos /\ pos' = pos + null_flags_size /\ c' = 1
  /\ UNCHANGED <<input, phase, streams, s, counts, widths>>

\* compute_column_array_sizes().  A row needs one byte behind its null flags.
BeginSizing ==
  /\ phase = "sizing" /\ s <= Len(streams) /\ c = 0
  /\ pos + null_flags_size < Len(Stream)
  /\ BeginRow /\ UNCHANGED <<left, cells, rows>>

LongestOrLast(width, n) == n
Longest(width, n) == IF n > width THEN n ELSE width

\* The nulls of columns of fixed length have their length, too.
SizedFixed ==
  /\ ~cols[c].dyn
  /\ widths' = [widths EXCEPT ![c] = cols[c].width]
  /\ pos' = pos + cols[c].width * SizeOf(cols[c].type)

SizedNoLength ==
  /\ cols[c].dyn /\ (IsNull \/ ~HasWord)
  /\ pos' = (IF IsNull THEN pos ELSE pos + WordBytes) /\ UNCHANGED widths
SizedNoArray ==
  /\ cols[c].dyn /\ (IsNull \/ ~HasWord)
  /\ pos' = pos + WordBytes /\ UNCHANGED widths

SizedArray ==
  /\ cols[c].dyn /\ ~IsNull /\ HasWord
  /\ widths' = [widths EXCEPT ![c] = Longest(@, WordAt(pos))]
  /\ pos' = pos + WordBytes + WordAt(pos) * SizeOf(cols[c].type)

\* The loop over the columns ends behind the end of the stream, and such a row
\* does not count.
SizeCell ==
  /\ phase = "sizing" /\ c > 0
  /\ SizedFixed \/ SizedNoArray \/ SizedArray
  /\ c' = IF LastColumn \/ pos' > Len(Stream) THEN 0 ELSE c + 1
  /\ counts' = IF LastColumn /\ pos' <= Len(Stream)
               THEN [counts EXCEPT ![s] = @ + 1] ELSE counts
  /\ UNCHANGED <<input, phase, streams, s, left, start, cells, rows>>

EndSizing ==
  /\ phase = "sizing" /\ s <= Len(streams) /\ c = 0
  /\ pos + null_flags_size >= Len(Stream)
  /\ s' = s + 1 /\ pos' = 0
  /\ UNCHANGED <<input, phase, streams, c, left, start, counts, widths, cells, rows>>

RowsOfStream(i) == IF i \in DOMAIN counts THEN counts[i] ELSE 0

BeginFilling ==
  /\ phase = "sizing" /\ s > Len(streams)
  /\ phase' = "filling" /\ s' = 1 /\ left' = RowsOfStream(1)
  /\ UNCHANGED <<input, streams, c, pos, start, counts, widths, cells, rows>>

----------------------------------------------------------------------------
\* append_data_from_stream().
BeginFillingRow ==
  /\ phase = "filling" /\ s <= Len(streams) /\ c = 0 /\ left > 0
  /\ BeginRow /\ left' = left - 1 /\ cells' = <<>> /\ UNCHANGED rows

Length == IF cols[c].dyn THEN WordAt(pos) ELSE widths[c]
First == IF cols[c].dyn THEN pos + WordBytes ELSE pos
Behind == First + Length * SizeOf(cols[c].type)
Source == SubSeq(Stream, First + 1, Behind)

\* The whole array must fit, and a boolean must be a letter or a digit.
Inserts ==
  \/ IsNull
  \/ /\ Length <= widths[c]
     /\ cols[c].type = "bool" => ToSet(Source) \subseteq (Trues \cup Falses) \ {0, 1}

CellRead ==
  CASE IsNull -> [null |-> TRUE, bytes |-> <<>>]
    [] ~IsNull /\ cols[c].type = "bool" ->
         [null |-> FALSE, bytes |-> [i \in DOMAIN Source |-> IF Source[i] \in Trues THEN 1 ELSE 0]]
    [] OTHER -> [null |-> FALSE, bytes |-> Source]

BehindCell ==
  IF IsNull THEN pos + (IF cols[c].dyn THEN WordBytes ELSE widths[c] * SizeOf(cols[c].type))
            ELSE Behind

\* A row that ends behind the stream is not appended.
FillCell ==
  /\ phase = "filling" /\ c > 0 /\ Inserts
  /\ cells' = Append(cells, CellRead)
  /\ pos' = BehindCell
  /\ c' = IF LastColumn THEN 0 ELSE c + 1
  /\ rows' = IF LastColumn /\ pos' <= Len(Stream) THEN Append(rows, cells') ELSE rows
  /\ UNCHANGED <<input, phase, streams, s, left, start, counts, widths>>

CannotInsert ==
  /\ phase = "filling" /\ c > 0 /\ ~Inserts
  /\ Throw

EndFilling ==
  /\ phase = "filling" /\ s <= Len(streams) /\ c = 0 /\ left = 0
  /\ s' = s + 1 /\ pos' = 0 /\ left' = RowsOfStream(s + 1)
  /\ UNCHANGED <<input, phase, streams, c, start, counts, widths, cells, rows>>

Return ==
  /\ phase = "filling" /\ s > Len(streams)
  /\ phase' = "read"
  /\ UNCHANGED <<input, streams, place, counts, widths, cells, rows>>

Next ==
  \/ WriteFlags \/ WriteCell \/ CannotWrite \/ Transmit
  \/ BeginSizing \/ SizeCell \/ EndSizing \/ BeginFilling
  \/ BeginFillingRow \/ FillCell \/ CannotInsert \/ EndFilling \/ Return

Spec == Init /\ [][Next]_vars
----------------------------------------------------------------------------
\* Every cell has the length its column has room for.
RowOK(row) ==
  /\ Len(row) = Len(cols)
  /\ \A k \in DOMAIN row : row[k] \in Cell /\ Fits(row[k], cols[k], widths[k])

\* The rows of all streams that the first pass has counted.
RowsCounted == UNION {{i} \X (1..counts[i]) : i \in DOMAIN counts}

\* What the first pass has found lets the second one run without a check of its
\* own: every cell of a row that was counted, and every length, is inside the
\* stream, no array is longer than its column is wide, and rows are appended
\* for all the rows the table was made for.
SecondPassFindsTheFirst ==
  /\ phase = "filling" /\ c > 0 =>
       /\ BehindCell <= Len(Stream)
       /\ ~IsNull /\ cols[c].dyn => HasWord /\ Length <= widths[c]
  /\ phase \in {"filling", "read"} => \A i \in DOMAIN rows : RowOK(rows[i])
  /\ phase = "read" => Len(rows) = Cardinality(RowsCounted)

WrittenTable == table # NoTable
AllZero == \A r \in DOMAIN table.rows : \A k \in DOMAIN cols : ToSet(table.rows[r][k].bytes) \subseteq {0}

\* The padding of the stream has room for the flags and the only byte of a row.
PaddingIsARow ==
  /\ Len(cols) = 1 /\ ~cols[1].dyn /\ cols[1].width * SizeOf(cols[1].type) = 1
  /\ (2 * Len(table.rows)) % 3 = 1

\* A boolean is stored as 1 or 0.
Normal(cell, col) ==
  IF col.type = "bool"
  THEN [cell EXCEPT !.bytes = [i \in DOMAIN @ |-> IF @[i] \in Trues THEN 1 ELSE 0]]
  ELSE cell
NormalRows == [r \in DOMAIN table.rows |-> [k \in DOMAIN cols |-> Normal(table.rows[r][k], cols[k])]]

AllWritable == \A r \in DOMAIN table.rows : \A k \in DOMAIN cols : Writable(table.rows[r][k], cols[k])

\* A table is read back as it was written exactly if all its cells can be written,
\* column 0 has no byte of flags to spare and the padding is not taken for one
\* more row: a table with one column of bytes gets a row of zero if it has 2, 5,
\* 8... rows, one with one column of booleans is not read at all.  With a byte of
\* flags to spare all values move by one column, which zeroes do not show.
ReadBackExactlyIfReadable ==
  WrittenTable /\ phase \in {"read", "failed"} /\ (table.flagBytes > null_flags_size => ~AllZero) =>
    (/\ phase = "read"
     /\ rows = NormalRows
    <=>
     /\ AllWritable
     /\ table.flagBytes = null_flags_size
     /\ ~PaddingIsARow)

\* The columns of variable length of a table that is read back are as wide as
\* its longest array, and one element if there is none: padding is never
\* taken for a length.
WidthsAreOfTheLongest ==
  WrittenTable /\ phase = "read" /\ table.flagBytes = null_flags_size =>
    \A k \in {j \in DOMAIN cols : cols[j].dyn} :
      widths[k] = Max({1} \cup {Len(rows[r][k].bytes) \div SizeOf(cols[k].type) : r \in DOMAIN rows})
=============================================================================
