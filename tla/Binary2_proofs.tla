--------------------------- MODULE Binary2_proofs ---------------------------
(***************************************************************************)
(* Of any table that is written, and of any streams from elsewhere.  That     *)
(* the second pass over a stream finds what the first one has found is said   *)
(* by paths: CellsRead and RowsRead say that a number of cells, or of rows,   *)
(* lead from one position to another inside of the stream, with columns as    *)
(* wide as they are known to be.  The first pass makes such a path longer at  *)
(* its end, the second one takes it up from its beginning, and a column that  *)
(* gets wider does not break it.                                            *)
(*                                                                         *)
(* What is read of a table's own stream is said by where its cells are: at    *)
(* maps a row and a column to the position of what is written of it.  Both    *)
(* passes are at these positions if column 0 is as wide as the null flags     *)
(* are; if it is wider, the passes stay behind them, and what is read of      *)
(* earlier bytes and still is what was written can only be zero.             *)
(***************************************************************************)
EXTENDS Binary2, FiniteSetTheorems, WellFoundedInduction, TLAPS

\* The cell of column k at position p, in the row at b, ends at q.
CellAt(fs, bytes, w, b, k, p, q) ==
  /\ q \in Nat /\ q <= Len(bytes)
  /\ ~fs[k].dyn => w[k] = fs[k].width /\ q = p + fs[k].width * SizeOf(fs[k].type)
  /\ fs[k].dyn /\ is_null_MSB(bytes, b, k) => q = p + WordBytes
  /\ fs[k].dyn /\ ~is_null_MSB(bytes, b, k) =>
       /\ p + WordBytes <= Len(bytes) /\ big_dword(bytes, p) <= w[k]
       /\ q = p + WordBytes + big_dword(bytes, p) * SizeOf(fs[k].type)

\* The cells of the columns from k up to l, l excluded, lead from p to q.
CellsRead(fs, bytes, w, b, k, p, l, q) ==
  \E at \in [Nat -> Nat] :
    /\ at[k] = p /\ at[l] = q
    /\ \A j \in k..(l - 1) : CellAt(fs, bytes, w, b, j, at[j], at[j + 1])

RowReads(fs, bytes, w, b, q) ==
  CellsRead(fs, bytes, w, b, 1, b + bits_to_bytes(Len(fs)), Len(fs) + 1, q)

\* n rows lead from p to q.
RowsRead(fs, bytes, w, n, p, q) ==
  \E at \in [Nat -> Nat] :
    /\ at[0] = p /\ at[n] = q
    /\ \A j \in 0..(n - 1) : RowReads(fs, bytes, w, at[j], at[j + 1])

\* What may happen to the widths while a path is known.
Widened(fs, w, v) ==
  \A k \in DOMAIN fs :
    /\ ~fs[k].dyn /\ w[k] = fs[k].width => v[k] = w[k]
    /\ fs[k].dyn => w[k] <= v[k]

\* The rows still to be counted off: those of the streams behind i, and the first
\* n of stream i.
Pending(counted, i, n) == {ir \in counted : ir[1] > i \/ (ir[1] = i /\ ir[2] <= n)}

----------------------------------------------------------------------------
TypesInv ==
  /\ phase \in {"writing", "sizing", "filling", "read", "failed"}
  /\ cols \in Seq(Column) /\ cols # <<>>
  /\ streams \in Seq(Seq(Byte))
  /\ s \in Nat /\ s >= 1 /\ c \in 0..Len(cols)
  /\ left \in Nat /\ pos \in Nat /\ start \in Nat
  /\ counts \in [DOMAIN streams -> Nat]
  /\ widths \in [DOMAIN cols -> Nat]
  /\ cells \in Seq(Cell) /\ rows \in Seq(Seq(Cell))

WritingInv ==
  phase = "writing" =>
    /\ table \in Tables /\ cols = table.cols
    /\ Len(streams) = 1 /\ s = 1 /\ pos = 0 /\ counts = [i \in {1} |-> 0]
    /\ Len(rows) <= Len(table.rows)
    /\ c > 0 => Len(rows) < Len(table.rows)

\* A path for each stream, as long as the rows counted so far; the streams still
\* to come have none.  A row at work has a path to its next cell.
SizingInv ==
  phase = "sizing" =>
    /\ \A i \in DOMAIN streams :
         /\ \E q \in Nat : RowsRead(cols, streams[i], widths, counts[i], 0, q)
         /\ i > s => counts[i] = 0
    /\ s \in DOMAIN streams /\ c = 0 /\ pos + null_flags_size < Len(Stream) =>
         RowsRead(cols, Stream, widths, counts[s], 0, pos)
    /\ c > 0 =>
         /\ s \in DOMAIN streams /\ pos <= Len(Stream)
         /\ RowsRead(cols, Stream, widths, counts[s], 0, start)
         /\ CellsRead(cols, Stream, widths, start, 1, start + null_flags_size, c, pos)
    /\ s \notin DOMAIN streams => pos = 0
    /\ rows = <<>>

\* A path for each stream to come, and for what is left of the one at work.
FillingInv ==
  phase = "filling" =>
    /\ \A i \in DOMAIN streams :
         i > s => \E q \in Nat : RowsRead(cols, streams[i], widths, counts[i], 0, q)
    /\ s \in DOMAIN streams /\ c = 0 =>
         /\ left <= counts[s]
         /\ \E q \in Nat : RowsRead(cols, Stream, widths, left, pos, q)
    /\ s \notin DOMAIN streams => left = 0
    /\ c > 0 =>
         /\ s \in DOMAIN streams /\ left < counts[s]
         /\ \E q, e \in Nat :
              /\ CellsRead(cols, Stream, widths, start, c, pos, Len(cols) + 1, q)
              /\ RowsRead(cols, Stream, widths, left, q, e)

\* The cells of the row at work are as long as their columns have room for.
CellsInv ==
  phase = "filling" /\ c > 0 =>
    /\ Len(cells) = c - 1
    /\ \A k \in 1..(c - 1) : Fits(cells[k], cols[k], widths[k])

RowsInv == phase \in {"filling", "read"} => \A i \in DOMAIN rows : RowOK(rows[i])

CountsInv ==
  /\ phase = "filling" =>
       Len(rows) + Cardinality(Pending(RowsCounted, s, IF c > 0 THEN left + 1 ELSE left))
         = Cardinality(RowsCounted)
  /\ phase = "read" => Len(rows) = Cardinality(RowsCounted)

Inv == TypesInv /\ WritingInv /\ SizingInv /\ FillingInv /\ CellsInv /\ RowsInv /\ CountsInv

----------------------------------------------------------------------------
\* A path without a cell, and without a row.
LEMMA NoPath ==
  ASSUME NEW fs, NEW bytes, NEW w, NEW b, NEW k \in Nat, NEW p \in Nat
  PROVE  CellsRead(fs, bytes, w, b, k, p, k, p) /\ RowsRead(fs, bytes, w, 0, p, p)
<1> DEFINE at == [i \in Nat |-> p]
<1>1. at \in [Nat -> Nat] /\ at[k] = p /\ at[0] = p
  OBVIOUS
<1>2. \A j \in k..(k - 1) : CellAt(fs, bytes, w, b, j, at[j], at[j + 1])
  <2>1. k..(k - 1) = {}
    OBVIOUS
  <2> QED
    BY <2>1, Zenon
<1>3. \A j \in 0..(0 - 1) : RowReads(fs, bytes, w, at[j], at[j + 1])
  <2>1. 0..(0 - 1) = {}
    OBVIOUS
  <2> QED
    BY <2>1, Zenon
<1> HIDE DEF at
<1> QED
  BY <1>1, <1>2, <1>3 DEF CellsRead, RowsRead

LEMMA OneCellMore ==
  ASSUME NEW fs, NEW bytes, NEW w, NEW b, NEW k \in Nat, NEW l \in Nat, k <= l,
         NEW p, NEW q, NEW r,
         CellsRead(fs, bytes, w, b, k, p, l, q), CellAt(fs, bytes, w, b, l, q, r)
  PROVE  CellsRead(fs, bytes, w, b, k, p, l + 1, r)
<1>1. PICK at \in [Nat -> Nat] :
        /\ at[k] = p /\ at[l] = q
        /\ \A j \in k..(l - 1) : CellAt(fs, bytes, w, b, j, at[j], at[j + 1])
  BY DEF CellsRead
<1>2. r \in Nat
  BY DEF CellAt
<1> DEFINE at2 == [at EXCEPT ![l + 1] = r]
<1>3. at2 \in [Nat -> Nat] /\ at2[k] = p /\ at2[l] = q /\ at2[l + 1] = r
      /\ \A j \in k..(l - 1) : at2[j] = at[j] /\ at2[j + 1] = at[j + 1]
  BY <1>1, <1>2
<1> HIDE DEF at2
<1>4. ASSUME NEW j \in k..((l + 1) - 1)
      PROVE  CellAt(fs, bytes, w, b, j, at2[j], at2[j + 1])
  <2>1. CASE j = l
    BY <2>1, <1>3
  <2>2. CASE j # l
    <3>1. j \in k..(l - 1)
      BY <2>2
    <3> QED
      BY <3>1, <1>1, <1>3
  <2> QED
    BY <2>1, <2>2
<1> QED
  BY <1>3, <1>4 DEF CellsRead

LEMMA FirstCell ==
  ASSUME NEW fs, NEW bytes, NEW w, NEW b, NEW k \in Nat, NEW l \in Nat, k < l,
         NEW p, NEW q, CellsRead(fs, bytes, w, b, k, p, l, q)
  PROVE  \E m \in Nat : /\ CellAt(fs, bytes, w, b, k, p, m)
                        /\ CellsRead(fs, bytes, w, b, k + 1, m, l, q)
<1>1. PICK at \in [Nat -> Nat] :
        /\ at[k] = p /\ at[l] = q
        /\ \A j \in k..(l - 1) : CellAt(fs, bytes, w, b, j, at[j], at[j + 1])
  BY DEF CellsRead
<1>2. at[k + 1] \in Nat /\ CellAt(fs, bytes, w, b, k, p, at[k + 1])
  BY <1>1
<1>3. \A j \in (k + 1)..(l - 1) : CellAt(fs, bytes, w, b, j, at[j], at[j + 1])
  BY <1>1
<1>4. CellsRead(fs, bytes, w, b, k + 1, at[k + 1], l, q)
  BY <1>1, <1>3 DEF CellsRead
<1> QED
  BY <1>2, <1>4

\* A path ends where its last cell ends.
LEMMA PathEnds ==
  ASSUME NEW fs, NEW bytes, NEW w, NEW b, NEW k \in Nat, NEW p, NEW q,
         CellsRead(fs, bytes, w, b, k, p, k, q)
  PROVE  p = q
BY DEF CellsRead

LEMMA OneRowMore ==
  ASSUME NEW fs, NEW bytes, NEW w, NEW n \in Nat, NEW p, NEW q, NEW r \in Nat,
         RowsRead(fs, bytes, w, n, p, q), RowReads(fs, bytes, w, q, r)
  PROVE  RowsRead(fs, bytes, w, n + 1, p, r)
<1>1. PICK at \in [Nat -> Nat] :
        /\ at[0] = p /\ at[n] = q
        /\ \A j \in 0..(n - 1) : RowReads(fs, bytes, w, at[j], at[j + 1])
  BY DEF RowsRead
<1> DEFINE at2 == [at EXCEPT ![n + 1] = r]
<1>2. at2 \in [Nat -> Nat] /\ at2[0] = p /\ at2[n] = q /\ at2[n + 1] = r
      /\ \A j \in 0..(n - 1) : at2[j] = at[j] /\ at2[j + 1] = at[j + 1]
  BY <1>1
<1> HIDE DEF at2
<1>3. ASSUME NEW j \in 0..((n + 1) - 1)
      PROVE  RowReads(fs, bytes, w, at2[j], at2[j + 1])
  <2>1. CASE j = n
    BY <2>1, <1>2
  <2>2. CASE j # n
    <3>1. j \in 0..(n - 1)
      BY <2>2
    <3> QED
      BY <3>1, <1>1, <1>2
  <2> QED
    BY <2>1, <2>2
<1> QED
  BY <1>2, <1>3 DEF RowsRead

LEMMA FirstRow ==
  ASSUME NEW fs, NEW bytes, NEW w, NEW n \in Nat, NEW p, NEW q,
         RowsRead(fs, bytes, w, n + 1, p, q)
  PROVE  \E m \in Nat : RowReads(fs, bytes, w, p, m) /\ RowsRead(fs, bytes, w, n, m, q)
<1>1. PICK at \in [Nat -> Nat] :
        /\ at[0] = p /\ at[n + 1] = q
        /\ \A j \in 0..((n + 1) - 1) : RowReads(fs, bytes, w, at[j], at[j + 1])
  BY DEF RowsRead
<1> DEFINE at2 == [j \in Nat |-> at[j + 1]]
<1>2. at2 \in [Nat -> Nat] /\ at2[0] = at[1] /\ at2[n] = q
  BY <1>1
<1>3. \A j \in 0..(n - 1) : RowReads(fs, bytes, w, at[j + 1], at[(j + 1) + 1])
  BY <1>1
<1>4. \A j \in 0..(n - 1) : at2[j] = at[j + 1] /\ at2[j + 1] = at[(j + 1) + 1]
  OBVIOUS
<1> HIDE DEF at2
<1>5. RowsRead(fs, bytes, w, n, at[1], q)
  BY <1>2, <1>3, <1>4 DEF RowsRead
<1>6. at[1] \in Nat /\ RowReads(fs, bytes, w, p, at[0 + 1])
  BY <1>1
<1> QED
  BY <1>5, <1>6

LEMMA WordsType ==
  ASSUME NEW bytes \in Seq(Byte), NEW p \in Nat, p + WordBytes <= Len(bytes)
  PROVE  big_dword(bytes, p) \in Nat
<1>1. ASSUME NEW i \in 1..4
      PROVE  bytes[p + i] \in Nat
  <2>1. p + i \in 1..Len(bytes)
    BY DEF WordBytes
  <2>2. bytes[p + i] \in Byte
    BY <2>1
  <2>3. Byte \subseteq Nat
    BY DEF Byte
  <2> QED
    BY <2>2, <2>3, Zenon
<1>2. /\ bytes[p + 1] \in Nat /\ bytes[p + 2] \in Nat
      /\ bytes[p + 3] \in Nat /\ bytes[p + 4] \in Nat
  BY <1>1
<1> DEFINE b1 == bytes[p + 1]  b2 == bytes[p + 2]  b3 == bytes[p + 3]  b4 == bytes[p + 4]
<1>3. big_dword(bytes, p) = 16777216 * b1 + 65536 * b2 + 256 * b3 + b4
  BY SMT DEF big_dword
<1>4. b1 \in Nat /\ b2 \in Nat /\ b3 \in Nat /\ b4 \in Nat
  BY <1>2
<1> HIDE DEF b1, b2, b3, b4
<1>5. 16777216 * b1 + 65536 * b2 + 256 * b3 + b4 \in Nat
  BY <1>4, SMT
<1> QED
  BY <1>3, <1>5, SMT

\* What was read with narrower columns is read with wider ones.
LEMMA CellWidens ==
  ASSUME NEW fs, NEW bytes, NEW w \in [DOMAIN fs -> Nat], NEW v \in [DOMAIN fs -> Nat],
         Widened(fs, w, v), NEW b, NEW k \in DOMAIN fs, NEW p \in Nat, NEW q,
         bytes \in Seq(Byte), CellAt(fs, bytes, w, b, k, p, q)
  PROVE  CellAt(fs, bytes, v, b, k, p, q)
<1>2. w[k] \in Nat /\ v[k] \in Nat
  OBVIOUS
<1>3. CASE ~fs[k].dyn
  BY <1>3 DEF CellAt, Widened
<1>4. CASE fs[k].dyn /\ is_null_MSB(bytes, b, k)
  BY <1>4 DEF CellAt
<1>5. CASE fs[k].dyn /\ ~is_null_MSB(bytes, b, k)
  <2>1. w[k] <= v[k]
    BY <1>5 DEF Widened
  <2>2. /\ q \in Nat /\ q <= Len(bytes)
        /\ p + WordBytes <= Len(bytes) /\ big_dword(bytes, p) <= w[k]
        /\ q = p + WordBytes + big_dword(bytes, p) * SizeOf(fs[k].type)
    BY <1>5 DEF CellAt
  <2>3. big_dword(bytes, p) \in Nat
    BY <2>2, WordsType
  <2>4. big_dword(bytes, p) <= v[k]
    BY <1>2, <2>1, <2>2, <2>3
  <2> QED
    BY <1>5, <2>2, <2>4 DEF CellAt
<1> QED
  BY <1>3, <1>4, <1>5

LEMMA CellsWiden ==
  ASSUME NEW fs \in Seq(Column), NEW bytes \in Seq(Byte),
         NEW w \in [DOMAIN fs -> Nat], NEW v \in [DOMAIN fs -> Nat],
         Widened(fs, w, v), NEW b, NEW k \in Nat, k >= 1,
         NEW l \in Nat, l <= Len(fs) + 1, NEW p, NEW q,
         CellsRead(fs, bytes, w, b, k, p, l, q)
  PROVE  CellsRead(fs, bytes, v, b, k, p, l, q)
<1>1. PICK at \in [Nat -> Nat] :
        /\ at[k] = p /\ at[l] = q
        /\ \A j \in k..(l - 1) : CellAt(fs, bytes, w, b, j, at[j], at[j + 1])
  BY DEF CellsRead
<1>2. ASSUME NEW j \in k..(l - 1)
      PROVE  CellAt(fs, bytes, v, b, j, at[j], at[j + 1])
  <2>0. Len(fs) \in Nat /\ DOMAIN fs = 1..Len(fs)
    OBVIOUS
  <2>1. j \in DOMAIN fs /\ j \in Nat
    BY <2>0
  <2>2. j \in DOMAIN fs /\ at[j] \in Nat
    BY <2>1, <1>1
  <2>3. CellAt(fs, bytes, w, b, j, at[j], at[j + 1])
    BY <1>1
  <2> QED
    BY <2>2, <2>3, CellWidens
<1> QED
  BY <1>1, <1>2 DEF CellsRead

LEMMA RowWidens ==
  ASSUME NEW fs \in Seq(Column), NEW bytes \in Seq(Byte),
         NEW w \in [DOMAIN fs -> Nat], NEW v \in [DOMAIN fs -> Nat],
         Widened(fs, w, v), NEW b, NEW q, RowReads(fs, bytes, w, b, q)
  PROVE  RowReads(fs, bytes, v, b, q)
<1> DEFINE k == 1  l == Len(fs) + 1  p == b + bits_to_bytes(Len(fs))
<1>1. k \in Nat /\ k >= 1 /\ l \in Nat /\ l <= Len(fs) + 1
  OBVIOUS
<1>2. CellsRead(fs, bytes, w, b, k, p, l, q)
  BY DEF RowReads
<1> HIDE DEF k, l, p
<1>3. CellsRead(fs, bytes, v, b, k, p, l, q)
  BY <1>1, <1>2, CellsWiden
<1> QED
  BY <1>3 DEF RowReads, k, l, p

LEMMA RowsWiden ==
  ASSUME NEW fs \in Seq(Column), NEW bytes \in Seq(Byte),
         NEW w \in [DOMAIN fs -> Nat], NEW v \in [DOMAIN fs -> Nat],
         Widened(fs, w, v), NEW n \in Nat, NEW p, NEW q,
         RowsRead(fs, bytes, w, n, p, q)
  PROVE  RowsRead(fs, bytes, v, n, p, q)
<1>1. PICK at \in [Nat -> Nat] :
        /\ at[0] = p /\ at[n] = q
        /\ \A j \in 0..(n - 1) : RowReads(fs, bytes, w, at[j], at[j + 1])
  BY DEF RowsRead
<1>2. ASSUME NEW j \in 0..(n - 1)
      PROVE  RowReads(fs, bytes, v, at[j], at[j + 1])
  BY <1>1, RowWidens
<1> QED
  BY <1>1, <1>2 DEF RowsRead

----------------------------------------------------------------------------
LEMMA ColumnsType ==
  ASSUME TypesInv, NEW k \in DOMAIN cols
  PROVE  /\ k \in 1..Len(cols) /\ cols[k].type \in Types /\ cols[k].width \in Nat
         /\ cols[k].dyn \in BOOLEAN /\ SizeOf(cols[k].type) \in {1, 2} /\ widths[k] \in Nat
<1>1. cols[k] \in Column /\ k \in 1..Len(cols) /\ widths[k] \in Nat
  BY DEF TypesInv
<1>2. cols[k].type \in Types /\ cols[k].width \in Nat /\ SizeOf(cols[k].type) \in {1, 2}
  BY <1>1 DEF Column, SizeOf
<1>3. cols[k].dyn \in BOOLEAN
  BY <1>1, Zenon DEF Column
<1> QED
  BY <1>1, <1>2, <1>3

LEMMA SomeBytes ==
  ASSUME NEW n \in Nat, NEW f, f \in [1..n -> Byte]
  PROVE  f \in Seq(Byte) /\ Len(f) = n
OBVIOUS

LEMMA FlagsType ==
  ASSUME NEW nulls, NEW n \in Nat
  PROVE  FlagsOf(nulls, n) \in Seq(Byte)
<1> DEFINE Flag(b, i) == IF BitsPerByte * (b - 1) + i \in nulls THEN 1 ELSE 0
<1>1. ASSUME NEW b \in 1..n
      PROVE  128 * Flag(b, 1) + 64 * Flag(b, 2) + 32 * Flag(b, 3) + 16 * Flag(b, 4)
               + 8 * Flag(b, 5) + 4 * Flag(b, 6) + 2 * Flag(b, 7) + Flag(b, 8) \in Byte
  <2>1. \A i : Flag(b, i) \in {0, 1}
    OBVIOUS
  <2> HIDE DEF Flag
  <2> QED
    BY <2>1 DEF Byte
<1>2. FlagsOf(nulls, n) \in [1..n -> Byte]
  BY <1>1 DEF FlagsOf
<1> QED
  BY <1>2, SomeBytes

LEMMA ZeroesType ==
  ASSUME NEW n \in Nat
  PROVE  Zeroes(n) \in Seq(Byte)
<1>1. Zeroes(n) \in [1..n -> Byte]
  BY DEF Zeroes, Byte
<1> QED
  BY <1>1, SomeBytes

LEMMA WrittenType ==
  ASSUME NEW cell \in Cell, NEW col \in Column
  PROVE  Written(cell, col) \in Seq(Byte)
<1>1. cell.bytes \in Seq(Byte) /\ col.width \in Nat /\ SizeOf(col.type) \in {1, 2}
  BY DEF Cell, Column, SizeOf
<1>2. ElementsOf(cell, col) \in Seq(Byte)
  <2> DEFINE f == [i \in DOMAIN cell.bytes |-> IF cell.bytes[i] \in Trues THEN 49 ELSE 48]
  <2>1. f \in [1..Len(cell.bytes) -> Byte] /\ Len(cell.bytes) \in Nat
    BY <1>1 DEF Byte
  <2>2. f \in Seq(Byte)
    BY <2>1, SomeBytes
  <2> QED
    BY <1>1, <2>2 DEF ElementsOf
<1>3. Word(Len(cell.bytes) \div SizeOf(col.type)) \in Seq(Byte)
  <2>1. Len(cell.bytes) \div SizeOf(col.type) \in Nat
    BY <1>1
  <2>2. ASSUME NEW n \in Nat
        PROVE  Word(n) \in Seq(Byte)
    <3>1. /\ (n \div 16777216) % 256 \in Byte /\ (n \div 65536) % 256 \in Byte
          /\ (n \div 256) % 256 \in Byte /\ n % 256 \in Byte
      BY SMT DEF Byte
    <3> QED
      BY <3>1, SMT DEF Word
  <2> QED
    BY <2>1, <2>2
<1>4. Zeroes(col.width * SizeOf(col.type)) \in Seq(Byte)
  <2>1. col.width * SizeOf(col.type) \in Nat
    BY <1>1
  <2> QED
    BY <2>1, ZeroesType
<1>5. Written(cell, col) \in {Word(Len(cell.bytes) \div SizeOf(col.type)) \o ElementsOf(cell, col),
                              Zeroes(col.width * SizeOf(col.type)), ElementsOf(cell, col)}
  BY Zenon DEF Written
<1>6. Word(Len(cell.bytes) \div SizeOf(col.type)) \o ElementsOf(cell, col) \in Seq(Byte)
  BY <1>2, <1>3
<1> QED
  BY <1>2, <1>4, <1>5, <1>6, Zenon

\* The row that is written.
LEMMA WritingRow ==
  ASSUME TypesInv, WritingInv, phase = "writing", Len(rows) < Len(table.rows)
  PROVE  /\ table.flagBytes \in Nat /\ RowToWrite \in Seq(Cell)
         /\ Len(rows) \in Nat /\ Len(table.rows) \in Nat
         /\ \A k \in DOMAIN cols : RowToWrite[k] \in Cell
<1>1. /\ table.rows \in Seq(Seq(Cell)) /\ table.flagBytes \in Nat
      /\ \A r \in DOMAIN table.rows : Len(table.rows[r]) = Len(table.cols)
  BY TablesAssumption DEF WritingInv
<1>2. Len(rows) \in Nat /\ Len(rows) + 1 \in DOMAIN table.rows /\ Len(table.rows) \in Nat
  BY <1>1 DEF TypesInv
<1>3. RowToWrite \in Seq(Cell) /\ Len(RowToWrite) = Len(cols)
  BY <1>1, <1>2 DEF RowToWrite, WritingInv
<1>4. \A k \in DOMAIN cols : k \in 1..Len(cols)
  BY DEF TypesInv
<1> QED
  BY <1>1, <1>2, <1>3, <1>4

----------------------------------------------------------------------------
LEMMA StreamType ==
  ASSUME TypesInv, s \in DOMAIN streams
  PROVE  /\ Stream \in Seq(Byte) /\ Len(Stream) \in Nat /\ counts[s] \in Nat
         /\ Len(cols) \in Nat /\ Len(cols) >= 1 /\ null_flags_size \in Nat
<1>1. Stream \in Seq(Byte) /\ counts[s] \in Nat /\ Len(cols) \in Nat /\ Len(cols) >= 1
  BY DEF TypesInv, Stream
<1>2. null_flags_size \in Nat
  BY <1>1 DEF null_flags_size, bits_to_bytes, BitsPerByte
<1> QED
  BY <1>1, <1>2

\* A cell that is sized ends where a path goes on, if it ends in the stream, with
\* the widths as they are then.
LEMMA CellSized ==
  ASSUME TypesInv, phase = "sizing", c > 0, s \in DOMAIN streams,
         SizedFixed \/ SizedNoArray \/ SizedArray
  PROVE  /\ pos' \in Nat /\ widths' \in [DOMAIN cols -> Nat] /\ Widened(cols, widths, widths')
         /\ pos' <= Len(Stream) => CellAt(cols, Stream, widths', start, c, pos, pos')
<1>1. /\ c \in DOMAIN cols /\ c \in 1..Len(cols) /\ cols[c].width \in Nat /\ cols[c].dyn \in BOOLEAN
      /\ SizeOf(cols[c].type) \in {1, 2} /\ widths[c] \in Nat
  <2>1. c \in DOMAIN cols
    BY DEF TypesInv
  <2> QED
    BY <2>1, ColumnsType
<1>2. Stream \in Seq(Byte) /\ Len(Stream) \in Nat /\ pos \in Nat /\ start \in Nat
  BY StreamType DEF TypesInv
<1>3. widths \in [DOMAIN cols -> Nat] /\ \A k \in DOMAIN cols : cols[k].dyn \in BOOLEAN /\ widths[k] \in Nat
  BY ColumnsType DEF TypesInv
<1>4. ASSUME SizedFixed
      PROVE  /\ pos' \in Nat /\ widths' \in [DOMAIN cols -> Nat] /\ Widened(cols, widths, widths')
             /\ pos' <= Len(Stream) => CellAt(cols, Stream, widths', start, c, pos, pos')
  <2>1. ~cols[c].dyn /\ widths' = [widths EXCEPT ![c] = cols[c].width]
        /\ pos' = pos + cols[c].width * SizeOf(cols[c].type)
    BY <1>4 DEF SizedFixed, widths
  <2>2. pos' \in Nat /\ widths' \in [DOMAIN cols -> Nat] /\ widths'[c] = cols[c].width
        /\ \A k \in DOMAIN cols : k # c => widths'[k] = widths[k]
    BY <1>1, <1>2, <1>3, <2>1
  <2>3. Widened(cols, widths, widths')
    BY <1>1, <1>3, <2>1, <2>2 DEF Widened
  <2>4. pos' <= Len(Stream) => CellAt(cols, Stream, widths', start, c, pos, pos')
    BY <2>1, <2>2 DEF CellAt
  <2> QED
    BY <2>2, <2>3, <2>4
<1>5. ASSUME SizedNoArray
      PROVE  /\ pos' \in Nat /\ widths' \in [DOMAIN cols -> Nat] /\ Widened(cols, widths, widths')
             /\ pos' <= Len(Stream) => CellAt(cols, Stream, widths', start, c, pos, pos')
  <2>1. cols[c].dyn /\ (IsNull \/ ~HasWord) /\ widths' = widths /\ pos' = pos + WordBytes
    BY <1>5 DEF SizedNoArray, widths
  <2>2. pos' \in Nat /\ widths' \in [DOMAIN cols -> Nat]
    BY <1>2, <1>3, <2>1 DEF WordBytes
  <2>3. Widened(cols, widths, widths')
    BY <1>3, <2>1 DEF Widened
  <2>4. pos' <= Len(Stream) => IsNull
    BY <2>1, <1>2 DEF HasWord
  <2>5. pos' <= Len(Stream) => CellAt(cols, Stream, widths', start, c, pos, pos')
    BY <2>1, <2>2, <2>4 DEF CellAt, IsNull
  <2> QED
    BY <2>2, <2>3, <2>5
<1>6. ASSUME SizedArray
      PROVE  /\ pos' \in Nat /\ widths' \in [DOMAIN cols -> Nat] /\ Widened(cols, widths, widths')
             /\ pos' <= Len(Stream) => CellAt(cols, Stream, widths', start, c, pos, pos')
  <2>1. cols[c].dyn /\ ~IsNull /\ HasWord
        /\ widths' = [widths EXCEPT ![c] = Longest(widths[c], WordAt(pos))]
        /\ pos' = pos + WordBytes + WordAt(pos) * SizeOf(cols[c].type)
    BY <1>6 DEF SizedArray, widths
  <2>2. WordAt(pos) \in Nat
    BY <1>2, <2>1, WordsType DEF WordAt, HasWord
  <2>3. Longest(widths[c], WordAt(pos)) \in Nat
        /\ widths[c] <= Longest(widths[c], WordAt(pos))
        /\ WordAt(pos) <= Longest(widths[c], WordAt(pos))
    BY <1>1, <2>2 DEF Longest
  <2>4. pos' \in Nat
    BY <1>1, <1>2, <2>1, <2>2 DEF WordBytes
  <2>5. widths' \in [DOMAIN cols -> Nat] /\ widths'[c] = Longest(widths[c], WordAt(pos))
        /\ \A k \in DOMAIN cols : k # c => widths'[k] = widths[k]
    BY <1>1, <1>3, <2>1, <2>3
  <2>6. Widened(cols, widths, widths')
    BY <1>1, <1>3, <2>1, <2>3, <2>5 DEF Widened
  <2>7. pos' <= Len(Stream) => CellAt(cols, Stream, widths', start, c, pos, pos')
    BY <2>1, <2>3, <2>4, <2>5 DEF CellAt, IsNull, HasWord, WordAt
  <2> QED
    BY <2>4, <2>5, <2>6, <2>7
<1> QED
  BY <1>4, <1>5, <1>6

\* The cell that is filled is the first of a path, and the path goes on behind it.
LEMMA CellAtWork ==
  ASSUME TypesInv, FillingInv, phase = "filling", c > 0
  PROVE  /\ c \in DOMAIN cols /\ s \in DOMAIN streams
         /\ BehindCell \in Nat /\ BehindCell <= Len(Stream)
         /\ CellAt(cols, Stream, widths, start, c, pos, BehindCell)
         /\ \E q, e \in Nat :
              /\ CellsRead(cols, Stream, widths, start, c + 1, BehindCell, Len(cols) + 1, q)
              /\ RowsRead(cols, Stream, widths, left, q, e)
<1>1. c \in DOMAIN cols /\ s \in DOMAIN streams /\ c \in Nat /\ Len(cols) + 1 \in Nat /\ c < Len(cols) + 1
  <2>1. c \in 0..Len(cols) /\ Len(cols) \in Nat /\ DOMAIN cols = 1..Len(cols)
    BY DEF TypesInv
  <2>2. s \in DOMAIN streams
    BY DEF FillingInv
  <2> QED
    BY <2>1, <2>2
<1>2. PICK q, e \in Nat :
        /\ CellsRead(cols, Stream, widths, start, c, pos, Len(cols) + 1, q)
        /\ RowsRead(cols, Stream, widths, left, q, e)
  BY DEF FillingInv
<1>3. PICK m \in Nat :
        /\ CellAt(cols, Stream, widths, start, c, pos, m)
        /\ CellsRead(cols, Stream, widths, start, c + 1, m, Len(cols) + 1, q)
  BY <1>1, <1>2, FirstCell
<1>4. cols[c].dyn \in BOOLEAN /\ cols[c].type \in Types
  BY <1>1, ColumnsType
<1>5. BehindCell = m
  <2>1. CASE ~cols[c].dyn
    BY <1>3, <2>1 DEF CellAt, BehindCell, Behind, First, Length
  <2>2. CASE cols[c].dyn /\ IsNull
    BY <1>3, <2>2 DEF CellAt, BehindCell, IsNull
  <2>3. CASE cols[c].dyn /\ ~IsNull
    BY <1>3, <2>3 DEF CellAt, BehindCell, Behind, First, Length, IsNull, WordAt
  <2> QED
    BY <1>4, <2>1, <2>2, <2>3
<1>6. m <= Len(Stream)
  BY <1>3 DEF CellAt
<1> QED
  BY <1>1, <1>2, <1>3, <1>5, <1>6

\* What is taken from the stream for it is the array of a cell.
LEMMA ArrayAtWork ==
  ASSUME TypesInv, FillingInv, phase = "filling", c > 0, ~IsNull
  PROVE  /\ cols[c].dyn => HasWord
         /\ Length \in Nat /\ Length <= widths[c]
         /\ ~cols[c].dyn => Length = widths[c]
         /\ Source \in Seq(Byte) /\ Len(Source) = Length * SizeOf(cols[c].type)
<1>1. /\ c \in DOMAIN cols /\ s \in DOMAIN streams /\ Behind \in Nat /\ Behind <= Len(Stream)
      /\ CellAt(cols, Stream, widths, start, c, pos, Behind)
  BY CellAtWork DEF BehindCell
<1>2. /\ cols[c].dyn \in BOOLEAN /\ cols[c].width \in Nat /\ widths[c] \in Nat
      /\ SizeOf(cols[c].type) \in {1, 2}
  BY <1>1, ColumnsType
<1>3. Stream \in Seq(Byte) /\ pos \in Nat
  BY <1>1, StreamType DEF TypesInv
<1>4. cols[c].dyn => HasWord /\ Length <= widths[c] /\ Length \in Nat
  <2>1. cols[c].dyn => pos + WordBytes <= Len(Stream) /\ big_dword(Stream, pos) <= widths[c]
    BY <1>1 DEF CellAt, IsNull
  <2>2. cols[c].dyn => big_dword(Stream, pos) \in Nat
    BY <1>3, <2>1, WordsType
  <2> QED
    BY <2>1, <2>2 DEF HasWord, Length, WordAt
<1>5. ~cols[c].dyn => Length = widths[c]
  BY DEF Length
<1>6. Length \in Nat /\ First \in Nat /\ Length <= widths[c]
  BY <1>2, <1>3, <1>4, <1>5 DEF First, WordBytes
<1>7. Length * SizeOf(cols[c].type) \in Nat /\ Behind = First + Length * SizeOf(cols[c].type)
  BY <1>2, <1>6 DEF Behind
<1>8. Source \in Seq(Byte) /\ Len(Source) = Length * SizeOf(cols[c].type)
  BY <1>1, <1>3, <1>6, <1>7 DEF Source
<1> QED
  BY <1>4, <1>5, <1>6, <1>8

LEMMA CellReadFits ==
  ASSUME TypesInv, FillingInv, phase = "filling", c > 0
  PROVE  CellRead \in Cell /\ Fits(CellRead, cols[c], widths[c])
<1>1. CASE IsNull
  <2>1. CellRead = [null |-> TRUE, bytes |-> <<>>]
    BY <1>1, Zenon DEF CellRead
  <2> QED
    BY <2>1 DEF Cell, Fits
<1>2. CASE ~IsNull
  <2>1. /\ Length \in Nat /\ Length <= widths[c]
        /\ ~cols[c].dyn => Length = widths[c]
        /\ Source \in Seq(Byte) /\ Len(Source) = Length * SizeOf(cols[c].type)
    BY <1>2, ArrayAtWork
  <2>2. widths[c] \in Nat
    BY ColumnsType, CellAtWork
  <2> DEFINE letters == [i \in DOMAIN Source |-> IF Source[i] \in Trues THEN 1 ELSE 0]
  <2>3. letters \in Seq(Byte) /\ Len(letters) = Len(Source)
    <3>1. Len(Source) \in Nat /\ letters \in [1..Len(Source) -> Byte]
      BY <2>1 DEF Byte
    <3> QED
      BY <3>1, SomeBytes
  <2>4. \/ CellRead = [null |-> FALSE, bytes |-> letters]
        \/ CellRead = [null |-> FALSE, bytes |-> Source]
    BY <1>2, Zenon DEF CellRead
  <2> HIDE DEF letters
  <2>5. CellRead \in Cell /\ Len(CellRead.bytes) = Length * SizeOf(cols[c].type) /\ ~CellRead.null
    <3>1. \A bs \in Seq(Byte) : /\ [null |-> FALSE, bytes |-> bs] \in Cell
                                /\ [null |-> FALSE, bytes |-> bs].bytes = bs
                                /\ ~[null |-> FALSE, bytes |-> bs].null
      BY Zenon DEF Cell
    <3>2. PICK bs \in Seq(Byte) : CellRead = [null |-> FALSE, bytes |-> bs] /\ Len(bs) = Len(Source)
      BY <2>1, <2>3, <2>4
    <3>3. CellRead \in Cell /\ CellRead.bytes = bs /\ ~CellRead.null
      BY <3>1, <3>2, Zenon
    <3> QED
      BY <2>1, <3>2, <3>3
  <2>6. Length \in 0..widths[c]
    BY <2>1, <2>2
  <2>7. Fits(CellRead, cols[c], widths[c])
    BY <2>1, <2>5, <2>6 DEF Fits
  <2> QED
    BY <2>5, <2>7
<1> QED
  BY <1>1, <1>2

----------------------------------------------------------------------------
LEMMA CountedRows ==
  ASSUME TypesInv
  PROVE  /\ IsFiniteSet(RowsCounted)
         /\ \A x : x \in RowsCounted <=>
              \E i \in DOMAIN counts : x[1] = i /\ x[2] \in 1..counts[i] /\ x = <<x[1], x[2]>>
<1> DEFINE Of(i) == {i} \X (1..counts[i])
<1> DEFINE f == [i \in DOMAIN counts |-> Of(i)]
<1>1. DOMAIN counts = 1..Len(streams) /\ Len(streams) \in Nat
      /\ \A i \in DOMAIN counts : counts[i] \in Nat
  BY DEF TypesInv
<1>2. ASSUME NEW i \in DOMAIN counts
      PROVE  IsFiniteSet(Of(i))
  <2>1. IsFiniteSet(1..counts[i])
    BY <1>1, FS_Interval
  <2>2. IsFiniteSet({i})
    BY FS_Singleton
  <2> QED
    BY <2>1, <2>2, FS_Product
<1>3. IsFiniteSet({Of(i) : i \in DOMAIN counts})
  <2>1. IsFiniteSet(DOMAIN counts)
    BY <1>1, FS_Interval
  <2>2. f \in Surjection(DOMAIN counts, {Of(i) : i \in DOMAIN counts})
    BY DEF Surjection
  <2> QED
    BY <2>1, <2>2, FS_Surjection
<1>4. RowsCounted = UNION {Of(i) : i \in DOMAIN counts}
  BY DEF RowsCounted
<1>5. IsFiniteSet(RowsCounted)
  BY <1>2, <1>3, <1>4, FS_UNION
<1>6. \A x : x \in RowsCounted <=> \E i \in DOMAIN counts : x \in Of(i)
  BY <1>4
<1>7. \A x, i : x \in Of(i) <=> x[1] = i /\ x[2] \in 1..counts[i] /\ x = <<x[1], x[2]>>
  OBVIOUS
<1> HIDE DEF Of
<1> QED
  BY <1>5, <1>6, <1>7

LEMMA AllPending ==
  ASSUME TypesInv
  PROVE  Pending(RowsCounted, 1, RowsOfStream(1)) = RowsCounted
<1>1. ASSUME NEW x \in RowsCounted
      PROVE  x[1] > 1 \/ (x[1] = 1 /\ x[2] <= RowsOfStream(1))
  <2>1. PICK i \in DOMAIN counts : x[1] = i /\ x[2] \in 1..counts[i]
    BY CountedRows
  <2>2. i \in 1..Len(streams) /\ counts[i] \in Nat
    BY DEF TypesInv
  <2> QED
    BY <2>1, <2>2 DEF RowsOfStream
<1> QED
  BY <1>1 DEF Pending

LEMMA NextStreamPending ==
  ASSUME TypesInv
  PROVE  Pending(RowsCounted, s, 0) = Pending(RowsCounted, s + 1, RowsOfStream(s + 1))
<1>1. ASSUME NEW x \in RowsCounted
      PROVE  x[1] > s \/ (x[1] = s /\ x[2] <= 0)
             <=> x[1] > s + 1 \/ (x[1] = s + 1 /\ x[2] <= RowsOfStream(s + 1))
  <2>1. PICK i \in DOMAIN counts : x[1] = i /\ x[2] \in 1..counts[i]
    BY CountedRows
  <2>2. i \in 1..Len(streams) /\ counts[i] \in Nat /\ s \in Nat
    BY DEF TypesInv
  <2> QED
    BY <2>1, <2>2 DEF RowsOfStream
<1> QED
  BY <1>1 DEF Pending

LEMMA NothingPending ==
  ASSUME TypesInv, s \notin DOMAIN streams, NEW n
  PROVE  Pending(RowsCounted, s, n) = {}
<1>1. ASSUME NEW x \in RowsCounted
      PROVE  ~(x[1] > s) /\ x[1] # s
  <2>1. PICK i \in DOMAIN counts : x[1] = i
    BY CountedRows
  <2>2. i \in 1..Len(streams) /\ s \in Nat /\ s >= 1 /\ ~(s \in 1..Len(streams)) /\ Len(streams) \in Nat
    BY DEF TypesInv
  <2> QED
    BY <2>1, <2>2
<1> QED
  BY <1>1 DEF Pending

LEMMA OnePendingLess ==
  ASSUME TypesInv, s \in DOMAIN streams, NEW n \in Nat, n < counts[s]
  PROVE  /\ Cardinality(Pending(RowsCounted, s, n)) \in Nat
         /\ Cardinality(Pending(RowsCounted, s, n + 1)) = Cardinality(Pending(RowsCounted, s, n)) + 1
<1> DEFINE P == Pending(RowsCounted, s, n)
           Q == Pending(RowsCounted, s, n + 1)
           x == <<s, n + 1>>
<1>1. s \in Nat /\ s \in DOMAIN counts /\ counts[s] \in Nat
  BY DEF TypesInv
<1>2. x \in RowsCounted
  <2>1. x[1] = s /\ x[2] = n + 1 /\ x = <<x[1], x[2]>>
    OBVIOUS
  <2>2. n + 1 \in 1..counts[s]
    BY <1>1
  <2> HIDE DEF x
  <2> QED
    BY <2>1, <2>2, <1>1, CountedRows
<1>3. ASSUME NEW y \in RowsCounted
      PROVE  y \in Q <=> y \in P \/ y = x
  <2>1. PICK i \in DOMAIN counts : y[1] = i /\ y[2] \in 1..counts[i] /\ y = <<y[1], y[2]>>
    BY CountedRows
  <2>2. i \in Nat /\ y[2] \in Nat
    <3>1. DOMAIN counts = 1..Len(streams)
      BY DEF TypesInv
    <3> QED
      BY <2>1, <3>1
  <2>3. y = x <=> y[1] = s /\ y[2] = n + 1
    BY <2>1
  <2>4. y \in Q <=> y[1] > s \/ (y[1] = s /\ y[2] <= n + 1)
    BY DEF Pending
  <2>5. y \in P <=> y[1] > s \/ (y[1] = s /\ y[2] <= n)
    BY DEF Pending
  <2>6. y[2] <= n + 1 <=> y[2] <= n \/ y[2] = n + 1
    BY <2>2
  <2> QED
    BY <2>3, <2>4, <2>5, <2>6, Zenon
<1>4. x \notin P
  BY <1>1 DEF Pending
<1>5. P \in SUBSET RowsCounted /\ Q \in SUBSET RowsCounted
  BY DEF Pending
<1>6. IsFiniteSet(P)
  BY <1>5, CountedRows, FS_Subset
<1> HIDE DEF P, Q, x
<1>7. Q = P \cup {x}
  BY <1>2, <1>3, <1>5
<1>8. Cardinality(Q) = Cardinality(P) + 1 /\ Cardinality(P) \in Nat
  BY <1>4, <1>6, <1>7, FS_AddElement, FS_CardinalityType
<1> QED
  BY <1>8 DEF P, Q

----------------------------------------------------------------------------
\* The initial states, and the steps before anything is read.
LEMMA Initially == Init => Inv
<1> SUFFICES ASSUME Init PROVE Inv
  OBVIOUS
<1> USE DEF Init
<1>1. cols \in Seq(Column) /\ cols # <<>> /\ streams \in Seq(Seq(Byte))
  <2>1. CASE /\ table \in Tables /\ cols = table.cols
             /\ streams = <<<<>>>>
    BY <2>1, TablesAssumption
  <2>2. CASE \E f \in Foreign : cols = f.cols /\ streams = f.streams
    BY <2>2, ForeignAssumption
  <2> QED
    BY <2>1, <2>2
<1>2. TypesInv
  BY <1>1 DEF TypesInv, widths
<1>3. WritingInv
  <2> SUFFICES ASSUME phase = "writing" PROVE WritingInv
    BY DEF WritingInv
  <2>1. table \in Tables /\ cols = table.cols /\ streams = <<<<>>>>
    OBVIOUS
  <2>2. table.rows \in Seq(Seq(Cell))
    BY <2>1, TablesAssumption
  <2>3. Len(streams) = 1 /\ DOMAIN streams = {1}
    BY <2>1
  <2> QED
    BY <2>1, <2>2, <2>3 DEF WritingInv
<1>4. SizingInv
  <2>1. ASSUME NEW i \in DOMAIN streams
        PROVE  RowsRead(cols, streams[i], widths, counts[i], 0, 0) /\ counts[i] = 0
    <3>1. counts[i] = 0
      OBVIOUS
    <3> QED
      BY <3>1, NoPath
  <2> QED
    BY <2>1 DEF SizingInv, Stream
<1>5. FillingInv /\ CellsInv /\ RowsInv /\ CountsInv
  BY DEF FillingInv, CellsInv, RowsInv, CountsInv
<1> QED
  BY <1>2, <1>3, <1>4, <1>5 DEF Inv

LEMMA ThrowKeeps == Inv /\ Throw => Inv'
<1> SUFFICES ASSUME Inv, Throw PROVE Inv'
  OBVIOUS
<1>1. TypesInv'
  BY DEF Inv, TypesInv, Throw, input, place, widths
<1>2. phase' = "failed"
  BY DEF Throw
<1> QED
  BY <1>1, <1>2 DEF Inv, WritingInv, SizingInv, FillingInv, CellsInv, RowsInv, CountsInv

LEMMA OneStreamWritten ==
  ASSUME TypesInv, WritingInv, phase = "writing"
  PROVE  Len(streams) = 1 /\ streams[1] \in Seq(Byte) /\ s = 1 /\ pos = 0 /\ counts[1] = 0
<1>1. Len(streams) = 1 /\ s = 1 /\ pos = 0 /\ counts = [i \in {1} |-> 0]
  BY DEF WritingInv
<1>2. streams \in Seq(Seq(Byte)) /\ 1 \in 1..Len(streams)
  BY <1>1 DEF TypesInv
<1>3. streams[1] \in Seq(Byte)
  BY <1>2
<1> QED
  BY <1>1, <1>3

LEMMA WriteFlagsKeeps == Inv /\ WriteFlags => Inv'
<1> SUFFICES ASSUME Inv, WriteFlags PROVE Inv'
  OBVIOUS
<1> USE DEF Inv, input
<1>1. Len(streams) = 1 /\ streams[1] \in Seq(Byte) /\ s = 1 /\ pos = 0
  BY OneStreamWritten DEF WriteFlags
<1>2. FlagsOf({k \in DOMAIN cols : RowToWrite[k].null}, table.flagBytes) \in Seq(Byte)
  BY WritingRow, FlagsType DEF WriteFlags
<1>3. streams' \in Seq(Seq(Byte)) /\ Len(streams') = 1 /\ DOMAIN streams' = DOMAIN streams
  BY <1>1, <1>2 DEF WriteFlags, TypesInv
<1>4. TypesInv'
  BY <1>3 DEF TypesInv, WriteFlags, widths
<1>5. WritingInv'
  BY <1>3 DEF WritingInv, WriteFlags
<1>6. SizingInv' /\ FillingInv' /\ CellsInv' /\ RowsInv' /\ CountsInv'
  BY DEF WriteFlags, SizingInv, FillingInv, CellsInv, RowsInv, CountsInv
<1> QED
  BY <1>4, <1>5, <1>6

LEMMA WriteCellKeeps == Inv /\ WriteCell => Inv'
<1> SUFFICES ASSUME Inv, WriteCell PROVE Inv'
  OBVIOUS
<1> USE DEF Inv, input
<1>1. Len(streams) = 1 /\ streams[1] \in Seq(Byte) /\ s = 1 /\ pos = 0
  BY OneStreamWritten DEF WriteCell
<1>2. /\ RowToWrite \in Seq(Cell) /\ \A k \in DOMAIN cols : RowToWrite[k] \in Cell
      /\ Len(rows) \in Nat /\ Len(table.rows) \in Nat /\ Len(rows) < Len(table.rows)
  BY WritingRow DEF WriteCell, WritingInv
<1>3. c \in DOMAIN cols /\ cols[c] \in Column
  BY DEF WriteCell, TypesInv
<1>4. Written(RowToWrite[c], cols[c]) \in Seq(Byte)
  BY <1>2, <1>3, WrittenType
<1>5. streams' \in Seq(Seq(Byte)) /\ Len(streams') = 1 /\ DOMAIN streams' = DOMAIN streams
  BY <1>1, <1>4 DEF WriteCell, TypesInv
<1>6. /\ rows' \in Seq(Seq(Cell)) /\ Len(rows') <= Len(table.rows)
      /\ c' > 0 => Len(rows') < Len(table.rows)
  BY <1>2 DEF WriteCell, TypesInv
<1>7. c' \in 0..Len(cols)
  BY DEF WriteCell, TypesInv, LastColumn
<1>8. TypesInv'
  BY <1>5, <1>6, <1>7 DEF TypesInv, WriteCell, widths
<1>9. WritingInv'
  BY <1>5, <1>6 DEF WritingInv, WriteCell
<1>10. SizingInv' /\ FillingInv' /\ CellsInv' /\ RowsInv' /\ CountsInv'
  BY DEF WriteCell, SizingInv, FillingInv, CellsInv, RowsInv, CountsInv
<1> QED
  BY <1>8, <1>9, <1>10

LEMMA TransmitKeeps == Inv /\ Transmit => Inv'
<1> SUFFICES ASSUME Inv, Transmit PROVE Inv'
  OBVIOUS
<1> USE DEF Inv, input, place
<1>1. Len(streams) = 1 /\ streams[1] \in Seq(Byte) /\ s = 1 /\ pos = 0 /\ counts[1] = 0
  BY OneStreamWritten DEF Transmit
<1>2. Decoded(streams[1]) \in Seq(Byte)
  <2>1. Len(streams[1]) \in Nat
    BY <1>1
  <2>2. \A n \in Nat : (3 - (n % 3)) % 3 \in Nat
    OBVIOUS
  <2>3. Padding(streams[1]) \in Nat
    BY <2>1, <2>2 DEF Padding
  <2> QED
    BY <1>1, <2>3, ZeroesType DEF Decoded
<1>3. streams' \in Seq(Seq(Byte)) /\ DOMAIN streams' = DOMAIN streams /\ DOMAIN streams' = {1}
  BY <1>1, <1>2 DEF Transmit, TypesInv
<1>4. TypesInv'
  BY <1>3 DEF TypesInv, Transmit, widths
<1>5. SizingInv'
  <2>1. phase' = "sizing" /\ rows' = <<>> /\ s' = 1 /\ c' = 0 /\ pos' = 0 /\ counts'[1] = 0
    BY <1>1 DEF Transmit
  <2>2. RowsRead(cols', streams'[1], widths', counts'[1], 0, 0)
    BY <2>1, NoPath
  <2> QED
    BY <1>3, <2>1, <2>2 DEF SizingInv, Stream
<1>6. WritingInv' /\ FillingInv' /\ CellsInv' /\ RowsInv' /\ CountsInv'
  BY DEF Transmit, WritingInv, FillingInv, CellsInv, RowsInv, CountsInv
<1> QED
  BY <1>4, <1>5, <1>6

----------------------------------------------------------------------------
\* The steps of the first pass.
LEMMA BeginSizingKeeps == Inv /\ BeginSizing => Inv'
<1> SUFFICES ASSUME Inv, BeginSizing PROVE Inv'
  OBVIOUS
<1> USE DEF Inv, input
<1>1. /\ phase = "sizing" /\ phase' = "sizing" /\ s \in DOMAIN streams /\ c = 0
      /\ pos + null_flags_size < Len(Stream)
  BY DEF BeginSizing, BeginRow, TypesInv
<1>2. /\ start' = pos /\ pos' = pos + null_flags_size /\ c' = 1
      /\ UNCHANGED <<cols, streams, s, counts, widths, left, cells, rows>>
  BY DEF BeginSizing, BeginRow
<1>3. /\ pos \in Nat /\ pos' \in Nat /\ Len(Stream) \in Nat /\ pos' <= Len(Stream)
      /\ Len(cols) >= 1 /\ Len(cols) \in Nat
  <2>1. Len(cols) >= 1 /\ Len(cols) \in Nat /\ pos \in Nat /\ TypesInv
    BY DEF TypesInv
  <2>2. null_flags_size \in Nat
    BY <2>1, SMT DEF null_flags_size, bits_to_bytes, BitsPerByte
  <2>3. Len(Stream) \in Nat
    BY <1>1, <2>1, StreamType
  <2> QED
    BY <1>1, <1>2, <2>1, <2>2, <2>3
<1>4. TypesInv'
  BY <1>1, <1>2, <1>3 DEF TypesInv, widths
<1>5. SizingInv'
  <2>1. RowsRead(cols, Stream, widths, counts[s], 0, start')
    BY <1>1, <1>2 DEF SizingInv
  <2>2. CellsRead(cols, Stream, widths, start', 1, pos', 1, pos')
    BY <1>3, NoPath
  <2>3. Stream' = Stream /\ null_flags_size' = null_flags_size
    BY <1>2 DEF Stream, null_flags_size
  <2> QED
    BY <1>1, <1>2, <1>3, <2>1, <2>2, <2>3 DEF SizingInv
<1>6. WritingInv' /\ FillingInv' /\ CellsInv' /\ RowsInv' /\ CountsInv'
  BY <1>1 DEF WritingInv, FillingInv, CellsInv, RowsInv, CountsInv
<1> QED
  BY <1>4, <1>5, <1>6

LEMMA SizeCellKeeps == Inv /\ SizeCell => Inv'
<1> SUFFICES ASSUME Inv, SizeCell PROVE Inv'
  OBVIOUS
<1> USE DEF Inv, input
<1> DEFINE counted == LastColumn /\ pos' <= Len(Stream)
<1>1. /\ phase = "sizing" /\ phase' = "sizing" /\ s \in DOMAIN streams /\ c > 0
      /\ SizedFixed \/ SizedNoArray \/ SizedArray
      /\ UNCHANGED <<cols, streams, s, left, start, cells, rows>>
  BY DEF SizeCell, SizingInv
<1>2. /\ c' = IF LastColumn \/ pos' > Len(Stream) THEN 0 ELSE c + 1
      /\ counts' = IF counted THEN [counts EXCEPT ![s] = @ + 1] ELSE counts
  BY DEF SizeCell
<1>3. /\ pos' \in Nat /\ widths' \in [DOMAIN cols -> Nat] /\ Widened(cols, widths, widths')
      /\ pos' <= Len(Stream) => CellAt(cols, Stream, widths', start, c, pos, pos')
  BY <1>1, CellSized
<1>4. /\ Stream \in Seq(Byte) /\ Len(Stream) \in Nat /\ counts[s] \in Nat /\ counts \in [DOMAIN streams -> Nat]
      /\ Len(cols) \in Nat /\ c \in 1..Len(cols) /\ start \in Nat
      /\ widths \in [DOMAIN cols -> Nat] /\ cols \in Seq(Column)
  BY <1>1, StreamType DEF TypesInv
<1>5. /\ counts' \in [DOMAIN streams -> Nat]
      /\ counts'[s] = IF counted THEN counts[s] + 1 ELSE counts[s]
      /\ \A i \in DOMAIN streams : i # s => counts'[i] = counts[i]
  BY <1>1, <1>2, <1>4
<1>6. c' \in 0..Len(cols)
  BY <1>2, <1>4 DEF LastColumn
<1>7. TypesInv'
  BY <1>1, <1>3, <1>5, <1>6 DEF TypesInv, widths
<1>8. RowsRead(cols, Stream, widths', counts[s], 0, start)
  <2>1. RowsRead(cols, Stream, widths, counts[s], 0, start)
    BY <1>1 DEF SizingInv
  <2> QED
    BY <2>1, <1>3, <1>4, RowsWiden
<1>9. pos' <= Len(Stream) =>
        CellsRead(cols, Stream, widths', start, 1, start + null_flags_size, c + 1, pos')
  <2> DEFINE k == 1  p == start + null_flags_size
  <2>1. CellsRead(cols, Stream, widths, start, k, p, c, pos)
    BY <1>1 DEF SizingInv
  <2>2. k \in Nat /\ k >= 1 /\ c \in Nat /\ c <= Len(cols) + 1 /\ k <= c
    BY <1>4
  <2> HIDE DEF k, p
  <2>3. CellsRead(cols, Stream, widths', start, k, p, c, pos)
    BY <1>3, <1>4, <2>1, <2>2, CellsWiden
  <2>4. pos' <= Len(Stream) => CellsRead(cols, Stream, widths', start, k, p, c + 1, pos')
    BY <1>3, <2>2, <2>3, OneCellMore
  <2> QED
    BY <2>4 DEF k, p
<1>10. counted => RowsRead(cols, Stream, widths', counts'[s], 0, pos')
  <2> SUFFICES ASSUME counted
               PROVE  RowsRead(cols, Stream, widths', counts[s] + 1, 0, pos')
    BY <1>5
  <2>1. RowReads(cols, Stream, widths', start, pos')
    BY <1>9 DEF RowReads, LastColumn, null_flags_size
  <2> QED
    BY <2>1, <1>3, <1>4, <1>8, OneRowMore
<1> DEFINE n == counts'  w == widths'
<1>11. ASSUME NEW i \in DOMAIN streams
       PROVE  /\ \E q \in Nat : RowsRead(cols, streams[i], w, n[i], 0, q)
              /\ i > s => n[i] = 0
  <2>1. CASE i = s /\ counted
    BY <2>1, <1>3, <1>4, <1>10 DEF Stream, TypesInv
  <2>2. CASE i = s /\ ~counted
    BY <2>2, <1>4, <1>5, <1>8 DEF Stream, TypesInv
  <2>3. CASE i # s
    <3>1. PICK q \in Nat : RowsRead(cols, streams[i], widths, counts[i], 0, q)
      BY <1>1 DEF SizingInv
    <3>2. streams[i] \in Seq(Byte) /\ counts[i] \in Nat
      BY <1>4 DEF TypesInv
    <3>3. RowsRead(cols, streams[i], w, counts[i], 0, q)
      BY <3>1, <3>2, <1>3, <1>4, RowsWiden
    <3> QED
      BY <2>3, <3>3, <1>1, <1>5 DEF SizingInv
  <2> QED
    BY <2>1, <2>2, <2>3
<1>12. SizingInv'
  <2> HIDE DEF n, w, counted
  <2>1. Stream' = Stream /\ null_flags_size' = null_flags_size /\ null_flags_size \in Nat
    BY <1>1, StreamType DEF Stream, null_flags_size
  <2>2. c' = 0 /\ pos' + null_flags_size < Len(Stream) =>
          RowsRead(cols, Stream, widths', counts'[s], 0, pos')
    BY <1>2, <1>3, <1>4, <1>10, <2>1 DEF counted
  <2>3. c' > 0 =>
          /\ pos' <= Len(Stream)
          /\ RowsRead(cols, Stream, widths', counts'[s], 0, start)
          /\ CellsRead(cols, Stream, widths', start, 1, start + null_flags_size, c', pos')
    <3>1. c' > 0 => ~LastColumn /\ ~counted /\ pos' <= Len(Stream) /\ c' = c + 1
      BY <1>2, <1>3, <1>4 DEF counted
    <3> QED
      BY <3>1, <1>5, <1>8, <1>9
  <2>4. rows' = <<>> /\ s' = s /\ start' = start /\ streams' = streams /\ cols' = cols
    BY <1>1 DEF SizingInv
  <2>5. \A i \in DOMAIN streams : /\ \E q \in Nat : RowsRead(cols, streams[i], widths', counts'[i], 0, q)
                                  /\ i > s => counts'[i] = 0
    BY <1>11 DEF n, w
  <2> QED
    BY <1>1, <2>1, <2>2, <2>3, <2>4, <2>5 DEF SizingInv
<1>13. WritingInv' /\ FillingInv' /\ CellsInv' /\ RowsInv' /\ CountsInv'
  BY <1>1 DEF WritingInv, FillingInv, CellsInv, RowsInv, CountsInv
<1> QED
  BY <1>7, <1>12, <1>13

LEMMA EndSizingKeeps == Inv /\ EndSizing => Inv'
<1> SUFFICES ASSUME Inv, EndSizing PROVE Inv'
  OBVIOUS
<1> USE DEF Inv, input
<1>1. /\ phase = "sizing" /\ phase' = "sizing" /\ c = 0 /\ c' = 0 /\ s' = s + 1 /\ pos' = 0
      /\ UNCHANGED <<cols, streams, left, start, counts, widths, cells, rows>>
  BY DEF EndSizing
<1>2. s \in Nat /\ s >= 1
  BY DEF TypesInv
<1>3. TypesInv'
  BY <1>1 DEF TypesInv, widths
<1>4. SizingInv'
  <2>1. ASSUME s + 1 \in DOMAIN streams
        PROVE  RowsRead(cols, streams[s + 1], widths, counts[s + 1], 0, 0)
    <3>1. counts[s + 1] = 0
      BY <1>1, <1>2, <2>1 DEF SizingInv
    <3> QED
      BY <3>1, NoPath
  <2>2. \A i \in DOMAIN streams :
          /\ \E q \in Nat : RowsRead(cols, streams[i], widths, counts[i], 0, q)
          /\ i > s + 1 => counts[i] = 0
    <3>1. \A i \in DOMAIN streams : i \in Nat /\ (i > s + 1 => i > s)
      BY <1>2 DEF TypesInv
    <3> QED
      BY <3>1, <1>1 DEF SizingInv
  <2>3. rows = <<>>
    BY <1>1 DEF SizingInv
  <2> QED
    BY <1>1, <2>1, <2>2, <2>3 DEF SizingInv, Stream
<1>5. WritingInv' /\ FillingInv' /\ CellsInv' /\ RowsInv' /\ CountsInv'
  BY <1>1 DEF WritingInv, FillingInv, CellsInv, RowsInv, CountsInv
<1> QED
  BY <1>3, <1>4, <1>5

----------------------------------------------------------------------------
\* The steps of the second pass.
LEMMA RowsToCome ==
  ASSUME TypesInv, NEW i \in Nat, i >= 1
  PROVE  /\ RowsOfStream(i) \in Nat
         /\ i \in DOMAIN streams => RowsOfStream(i) = counts[i]
         /\ i \notin DOMAIN streams => RowsOfStream(i) = 0
BY DEF TypesInv, RowsOfStream

LEMMA BeginFillingKeeps == Inv /\ BeginFilling => Inv'
<1> SUFFICES ASSUME Inv, BeginFilling PROVE Inv'
  OBVIOUS
<1> USE DEF Inv, input
<1>1. /\ phase = "sizing" /\ phase' = "filling" /\ s > Len(streams) /\ s' = 1 /\ left' = RowsOfStream(1)
      /\ UNCHANGED <<cols, streams, c, pos, start, counts, widths, cells, rows>>
  BY DEF BeginFilling
<1>2. /\ s \notin DOMAIN streams /\ c = 0 /\ pos = 0 /\ rows = <<>>
      /\ \A i \in DOMAIN streams : \E q \in Nat : RowsRead(cols, streams[i], widths, counts[i], 0, q)
  <2>1. s \notin DOMAIN streams
    BY <1>1 DEF TypesInv
  <2> QED
    BY <1>1, <2>1 DEF SizingInv, TypesInv
<1>3. /\ RowsOfStream(1) \in Nat
      /\ 1 \in DOMAIN streams => RowsOfStream(1) = counts[1] /\ counts[1] \in Nat
      /\ 1 \notin DOMAIN streams => RowsOfStream(1) = 0
  BY RowsToCome
<1>4. TypesInv'
  BY <1>1, <1>3 DEF TypesInv, widths
<1>5. FillingInv'
  BY <1>1, <1>2, <1>3 DEF FillingInv, Stream
<1>6. CountsInv'
  <2>1. RowsCounted' = RowsCounted
    BY <1>1 DEF RowsCounted
  <2>2. Len(rows') = 0 /\ Pending(RowsCounted, 1, left') = RowsCounted /\ Cardinality(RowsCounted) \in Nat
    BY <1>1, <1>2, AllPending, CountedRows, FS_CardinalityType
  <2> QED
    BY <1>1, <1>2, <2>1, <2>2 DEF CountsInv
<1>7. RowsInv' /\ CellsInv'
  BY <1>1, <1>2 DEF RowsInv, CellsInv
<1>8. WritingInv' /\ SizingInv'
  BY <1>1 DEF WritingInv, SizingInv
<1> QED
  BY <1>4, <1>5, <1>6, <1>7, <1>8

LEMMA BeginFillingRowKeeps == Inv /\ BeginFillingRow => Inv'
<1> SUFFICES ASSUME Inv, BeginFillingRow PROVE Inv'
  OBVIOUS
<1> USE DEF Inv, input
<1>1. /\ phase = "filling" /\ phase' = "filling" /\ s \in DOMAIN streams /\ c = 0 /\ left > 0
      /\ start' = pos /\ pos' = pos + null_flags_size /\ c' = 1 /\ left' = left - 1 /\ cells' = <<>>
      /\ UNCHANGED <<cols, streams, s, counts, widths, rows>>
  BY DEF BeginFillingRow, BeginRow, TypesInv
<1>2. /\ pos \in Nat /\ pos' \in Nat /\ left' \in Nat /\ left = left' + 1
      /\ Len(cols) >= 1 /\ Len(cols) \in Nat
  BY <1>1, StreamType DEF TypesInv
<1>3. TypesInv'
  BY <1>1, <1>2 DEF TypesInv, widths
<1>4. FillingInv'
  <2>1. PICK e \in Nat : RowsRead(cols, Stream, widths, left, pos, e)
    BY <1>1 DEF FillingInv
  <2> DEFINE n == left'
  <2>2. RowsRead(cols, Stream, widths, n + 1, pos, e) /\ n \in Nat
    BY <1>2, <2>1
  <2> HIDE DEF n
  <2>3. PICK q \in Nat : RowReads(cols, Stream, widths, pos, q) /\ RowsRead(cols, Stream, widths, n, q, e)
    BY <2>2, FirstRow
  <2>4. CellsRead(cols, Stream, widths, start', 1, pos', Len(cols) + 1, q)
    BY <1>1, <2>3 DEF RowReads, null_flags_size
  <2>5. left' < counts[s] /\ counts[s] \in Nat
    BY <1>1, <1>2, StreamType DEF FillingInv
  <2>6. Stream' = Stream
    BY <1>1 DEF Stream
  <2>7. \A i \in DOMAIN streams :
          i > s => \E r \in Nat : RowsRead(cols, streams[i], widths, counts[i], 0, r)
    BY <1>1 DEF FillingInv
  <2> QED
    BY <1>1, <2>3, <2>4, <2>5, <2>6, <2>7 DEF FillingInv, n
<1>5. CountsInv'
  <2>1. RowsCounted' = RowsCounted
    BY <1>1 DEF RowsCounted
  <2> QED
    BY <1>1, <1>2, <2>1 DEF CountsInv
<1>6. CellsInv'
  <2>1. Len(cells') = 0 /\ c' = 1 /\ 1..(1 - 1) = {}
    BY <1>1
  <2> QED
    BY <2>1 DEF CellsInv
<1>7. RowsInv'
  BY <1>1 DEF RowsInv, RowOK, widths
<1>8. WritingInv' /\ SizingInv'
  BY <1>1 DEF WritingInv, SizingInv
<1> QED
  BY <1>3, <1>4, <1>5, <1>6, <1>7, <1>8

LEMMA FillCellKeeps == Inv /\ FillCell => Inv'
<1> SUFFICES ASSUME Inv, FillCell PROVE Inv'
  OBVIOUS
<1> USE DEF Inv, input
<1>1. /\ phase = "filling" /\ phase' = "filling" /\ c > 0
      /\ cells' = Append(cells, CellRead) /\ pos' = BehindCell
      /\ c' = IF LastColumn THEN 0 ELSE c + 1
      /\ rows' = IF LastColumn /\ pos' <= Len(Stream) THEN Append(rows, cells') ELSE rows
      /\ UNCHANGED <<cols, streams, s, left, start, counts, widths>>
  BY DEF FillCell
<1>2. /\ c \in DOMAIN cols /\ s \in DOMAIN streams /\ pos' \in Nat /\ pos' <= Len(Stream)
      /\ c \in 1..Len(cols) /\ Len(cols) \in Nat /\ left \in Nat /\ left < counts[s] /\ counts[s] \in Nat
  <2>1. TypesInv /\ FillingInv /\ Len(cols) \in Nat
    BY DEF TypesInv
  <2>2. c \in 1..Len(cols) /\ c \in DOMAIN cols
    BY <1>1, <2>1 DEF TypesInv
  <2>3. s \in DOMAIN streams /\ left < counts[s]
    BY <1>1, <2>1 DEF FillingInv
  <2>4. left \in Nat /\ counts[s] \in Nat
    BY <2>1, <2>3 DEF TypesInv
  <2>5. pos' \in Nat /\ pos' <= Len(Stream)
    BY <1>1, CellAtWork
  <2> QED
    BY <2>1, <2>2, <2>3, <2>4, <2>5
<1>3. PICK q, e \in Nat :
        /\ CellsRead(cols, Stream, widths, start, c + 1, pos', Len(cols) + 1, q)
        /\ RowsRead(cols, Stream, widths, left, q, e)
  BY <1>1, CellAtWork
<1>4. /\ CellRead \in Cell /\ Fits(CellRead, cols[c], widths[c])
      /\ cells \in Seq(Cell) /\ Len(cells) = c - 1
      /\ \A k \in 1..(c - 1) : Fits(cells[k], cols[k], widths[k])
  BY <1>1, CellReadFits DEF TypesInv, CellsInv
<1>5. /\ cells' \in Seq(Cell) /\ Len(cells') = c
      /\ \A k \in 1..c : Fits(cells'[k], cols[k], widths[k])
  <2>1. cells' \in Seq(Cell) /\ Len(cells') = c /\ cells'[c] = CellRead
        /\ \A k \in 1..(c - 1) : cells'[k] = cells[k]
    BY <1>1, <1>2, <1>4
  <2>2. ASSUME NEW k \in 1..c PROVE Fits(cells'[k], cols[k], widths[k])
    <3>1. CASE k = c
      BY <3>1, <1>4, <2>1
    <3>2. CASE k # c
      <4>1. k \in 1..(c - 1)
        BY <1>2, <3>2
      <4> QED
        BY <4>1, <1>4, <2>1
    <3> QED
      BY <3>1, <3>2
  <2> QED
    BY <2>1, <2>2
<1>6. LastColumn => RowOK(cells')
  <2>1. DOMAIN cells' = 1..c /\ \A k \in 1..c : cells'[k] \in Cell
    BY <1>2, <1>5
  <2> QED
    BY <2>1, <1>5 DEF RowOK, LastColumn
<1>7. /\ rows \in Seq(Seq(Cell)) /\ rows' = IF LastColumn THEN Append(rows, cells') ELSE rows
      /\ c' \in 0..Len(cols)
  <2>1. rows \in Seq(Seq(Cell))
    BY DEF TypesInv
  <2>2. rows' = IF LastColumn THEN Append(rows, cells') ELSE rows
    BY <1>1, <1>2
  <2>3. c' \in 0..Len(cols)
    BY <1>1, <1>2 DEF LastColumn
  <2> QED
    BY <2>1, <2>2, <2>3
<1>8. TypesInv'
  <2>1. rows' \in Seq(Seq(Cell))
    BY <1>5, <1>7
  <2> QED
    BY <1>1, <1>2, <1>5, <1>7, <2>1 DEF TypesInv, widths
<1>9. FillingInv'
  <2>1. Stream' = Stream
    BY <1>1 DEF Stream
  <2>2. \A i \in DOMAIN streams :
          i > s => \E r \in Nat : RowsRead(cols, streams[i], widths, counts[i], 0, r)
    BY <1>1 DEF FillingInv
  <2>3. CASE LastColumn
    <3>1. CellsRead(cols, Stream, widths, start, Len(cols) + 1, pos', Len(cols) + 1, q)
      BY <1>3, <2>3 DEF LastColumn
    <3> DEFINE k == Len(cols) + 1
    <3>2. k \in Nat
      BY <1>2
    <3>3. CellsRead(cols, Stream, widths, start, k, pos', k, q)
      BY <3>1
    <3> HIDE DEF k
    <3>4. pos' = q
      BY <3>2, <3>3, PathEnds
    <3>5. c' = 0 /\ s' = s /\ left' = left /\ UNCHANGED <<cols, streams, widths, counts>>
      BY <1>1, <2>3
    <3>6. RowsRead(cols, Stream, widths, left, pos', e)
      BY <1>3, <3>4
    <3>7. left <= counts[s] /\ s \in DOMAIN streams
      BY <1>2
    <3> QED
      BY <1>3, <2>1, <2>2, <3>5, <3>6, <3>7 DEF FillingInv
  <2>4. CASE ~LastColumn
    BY <1>1, <1>2, <1>3, <2>1, <2>2, <2>4 DEF FillingInv
  <2> QED
    BY <2>3, <2>4
<1>10. CellsInv'
  <2>1. c' > 0 => c' = c + 1
    BY <1>1
  <2>2. c' > 0 => Len(cells') = c' - 1 /\ 1..(c' - 1) = 1..c
    BY <1>2, <1>5, <2>1
  <2> QED
    BY <1>1, <1>5, <2>2 DEF CellsInv
<1>11. RowsInv'
  <2>1. \A i \in DOMAIN rows' : \/ i \in DOMAIN rows /\ rows'[i] = rows[i]
                                \/ LastColumn /\ rows'[i] = cells'
    <3>1. CASE LastColumn
      <4>1. rows' = Append(rows, cells') /\ rows \in Seq(Seq(Cell)) /\ cells' \in Seq(Cell)
        BY <1>5, <1>7, <3>1
      <4> DEFINE new == cells'
      <4> HIDE DEF new
      <4>2. /\ DOMAIN rows' = 1..(Len(rows) + 1) /\ DOMAIN rows = 1..Len(rows) /\ Len(rows) \in Nat
            /\ rows'[Len(rows) + 1] = new /\ \A i \in 1..Len(rows) : rows'[i] = rows[i]
        BY <4>1 DEF new
      <4>3. \A i \in 1..(Len(rows) + 1) : i \in 1..Len(rows) \/ i = Len(rows) + 1
        BY <4>2
      <4> QED
        BY <3>1, <4>2, <4>3 DEF new
    <3>2. CASE ~LastColumn
      BY <1>7, <3>2
    <3> QED
      BY <3>1, <3>2
  <2>2. \A i \in DOMAIN rows' : RowOK(rows'[i])
    BY <1>1, <1>6, <2>1 DEF RowsInv
  <2> QED
    BY <1>1, <2>2 DEF RowsInv, RowOK, widths
<1>12. CountsInv'
  <2>1. RowsCounted' = RowsCounted
    BY <1>1 DEF RowsCounted
  <2>2. Len(rows) + Cardinality(Pending(RowsCounted, s, left + 1)) = Cardinality(RowsCounted)
    BY <1>1 DEF CountsInv
  <2>3. CASE LastColumn
    <3>1. /\ Cardinality(Pending(RowsCounted, s, left)) \in Nat
          /\ Cardinality(Pending(RowsCounted, s, left + 1)) = Cardinality(Pending(RowsCounted, s, left)) + 1
      BY <1>2, OnePendingLess
    <3>2. Len(rows') = Len(rows) + 1 /\ Len(rows) \in Nat
      BY <1>5, <1>7, <2>3
    <3>3. Len(rows') + Cardinality(Pending(RowsCounted, s, left)) = Cardinality(RowsCounted)
      BY <2>2, <3>1, <3>2
    <3> QED
      BY <1>1, <2>1, <2>3, <3>3 DEF CountsInv
  <2>4. CASE ~LastColumn
    <3>1. c' > 0 /\ rows' = rows
      BY <1>1, <1>2, <2>4
    <3> QED
      BY <1>1, <2>1, <2>2, <3>1 DEF CountsInv
  <2> QED
    BY <2>3, <2>4
<1>13. WritingInv' /\ SizingInv'
  BY <1>1 DEF WritingInv, SizingInv
<1> QED
  BY <1>8, <1>9, <1>10, <1>11, <1>12, <1>13

LEMMA EndFillingKeeps == Inv /\ EndFilling => Inv'
<1> SUFFICES ASSUME Inv, EndFilling PROVE Inv'
  OBVIOUS
<1> USE DEF Inv, input
<1>1. /\ phase = "filling" /\ phase' = "filling" /\ s \in DOMAIN streams /\ c = 0 /\ left = 0
      /\ s' = s + 1 /\ pos' = 0 /\ left' = RowsOfStream(s + 1)
      /\ UNCHANGED <<cols, streams, c, start, counts, widths, cells, rows>>
  BY DEF EndFilling, TypesInv
<1>2. s \in Nat /\ s >= 1 /\ s + 1 \in Nat /\ s + 1 >= 1 /\ \A i \in DOMAIN streams : i \in Nat
  BY DEF TypesInv
<1>3. /\ left' \in Nat
      /\ s + 1 \in DOMAIN streams => left' = counts[s + 1] /\ counts[s + 1] \in Nat
      /\ s + 1 \notin DOMAIN streams => left' = 0
  <2> DEFINE i == s + 1
  <2>1. i \in Nat /\ i >= 1 /\ left' = RowsOfStream(i)
    BY <1>1, <1>2
  <2>2. i \in DOMAIN streams => counts[i] \in Nat
    BY DEF TypesInv
  <2> HIDE DEF i
  <2>3. /\ left' \in Nat
        /\ i \in DOMAIN streams => left' = counts[i] /\ counts[i] \in Nat
        /\ i \notin DOMAIN streams => left' = 0
    BY <2>1, <2>2, RowsToCome
  <2> QED
    BY <2>3 DEF i
<1>4. TypesInv'
  BY <1>1, <1>2, <1>3 DEF TypesInv, widths
<1>5. FillingInv'
  <2>1. \A i \in DOMAIN streams :
          i > s => \E q \in Nat : RowsRead(cols, streams[i], widths, counts[i], 0, q)
    BY <1>1 DEF FillingInv
  <2>2. s + 1 \in DOMAIN streams =>
          \E q \in Nat : RowsRead(cols, streams[s + 1], widths, counts[s + 1], 0, q)
    <3> DEFINE i == s + 1
    <3>1. i > s
      BY <1>2
    <3> HIDE DEF i
    <3>2. i \in DOMAIN streams => \E q \in Nat : RowsRead(cols, streams[i], widths, counts[i], 0, q)
      BY <2>1, <3>1
    <3> QED
      BY <3>2 DEF i
  <2>3. \A i \in DOMAIN streams : i > s + 1 => i > s
    BY <1>2
  <2>4. s + 1 \in DOMAIN streams =>
          /\ left' <= counts[s + 1]
          /\ \E q \in Nat : RowsRead(cols, streams[s + 1], widths, left', 0, q)
    <3>1. ASSUME s + 1 \in DOMAIN streams
          PROVE  left' = counts[s + 1] /\ left' <= counts[s + 1]
      BY <1>3, <3>1
    <3> QED
      BY <2>2, <3>1
  <2>5. Stream' = streams[s + 1]
    BY <1>1 DEF Stream
  <2> QED
    BY <1>1, <1>3, <2>1, <2>3, <2>4, <2>5 DEF FillingInv
<1>6. CountsInv'
  <2>1. RowsCounted' = RowsCounted
    BY <1>1 DEF RowsCounted
  <2>2. Pending(RowsCounted, s, 0) = Pending(RowsCounted, s + 1, left')
    BY <1>1, NextStreamPending
  <2> QED
    BY <1>1, <2>1, <2>2 DEF CountsInv
<1>7. RowsInv' /\ CellsInv'
  BY <1>1 DEF RowsInv, RowOK, CellsInv, widths
<1>8. WritingInv' /\ SizingInv'
  BY <1>1 DEF WritingInv, SizingInv
<1> QED
  BY <1>4, <1>5, <1>6, <1>7, <1>8

LEMMA ReturnKeeps == Inv /\ Return => Inv'
<1> SUFFICES ASSUME Inv, Return PROVE Inv'
  OBVIOUS
<1> USE DEF Inv, input, place
<1>1. /\ phase = "filling" /\ phase' = "read" /\ s > Len(streams)
      /\ UNCHANGED <<cols, streams, s, c, left, pos, start, counts, widths, cells, rows>>
  BY DEF Return
<1>2. TypesInv'
  BY <1>1 DEF TypesInv, widths
<1>3. CountsInv'
  <2>1. s \notin DOMAIN streams
    BY <1>1 DEF TypesInv
  <2>2. RowsCounted' = RowsCounted
    BY <1>1 DEF RowsCounted
  <2>3. Len(rows) + Cardinality({}) = Cardinality(RowsCounted)
    BY <1>1, <2>1, NothingPending DEF CountsInv
  <2>4. Len(rows) \in Nat /\ Cardinality({}) = 0
    BY FS_EmptySet DEF TypesInv
  <2> QED
    BY <1>1, <2>2, <2>3, <2>4 DEF CountsInv
<1>4. RowsInv'
  BY <1>1 DEF RowsInv, RowOK, widths
<1>5. WritingInv' /\ SizingInv' /\ FillingInv' /\ CellsInv'
  BY <1>1 DEF WritingInv, SizingInv, FillingInv, CellsInv
<1> QED
  BY <1>2, <1>3, <1>4, <1>5

----------------------------------------------------------------------------
\* Both passes keep the invariant: the paths the first one has verified are there
\* for the second one, whatever the table or the streams.
THEOREM Invariance == Spec => []Inv
<1>1. Init => Inv
  BY Initially
<1>2. Inv /\ [Next]_vars => Inv'
  <2> SUFFICES ASSUME Inv, [Next]_vars PROVE Inv'
    OBVIOUS
  <2>1. CASE WriteFlags
    BY <2>1, WriteFlagsKeeps
  <2>2. CASE WriteCell
    BY <2>2, WriteCellKeeps
  <2>3. CASE CannotWrite
    BY <2>3, ThrowKeeps DEF CannotWrite
  <2>4. CASE Transmit
    BY <2>4, TransmitKeeps
  <2>5. CASE BeginSizing
    BY <2>5, BeginSizingKeeps
  <2>6. CASE SizeCell
    BY <2>6, SizeCellKeeps
  <2>7. CASE EndSizing
    BY <2>7, EndSizingKeeps
  <2>8. CASE BeginFilling
    BY <2>8, BeginFillingKeeps
  <2>9. CASE BeginFillingRow
    BY <2>9, BeginFillingRowKeeps
  <2>10. CASE FillCell
    BY <2>10, FillCellKeeps
  <2>11. CASE CannotInsert
    BY <2>11, ThrowKeeps DEF CannotInsert
  <2>12. CASE EndFilling
    BY <2>12, EndFillingKeeps
  <2>13. CASE Return
    BY <2>13, ReturnKeeps
  <2>14. CASE UNCHANGED vars
    BY <2>14 DEF vars, input, place, widths, Inv, TypesInv, WritingInv, SizingInv, FillingInv,
                 CellsInv, RowsInv, RowOK, CountsInv, RowsCounted, Stream, null_flags_size
  <2> QED
    BY <2>1, <2>2, <2>3, <2>4, <2>5, <2>6, <2>7, <2>8, <2>9, <2>10, <2>11, <2>12, <2>13, <2>14
    DEF Next
<1> QED
  BY <1>1, <1>2, PTL DEF Spec

\* What the first pass has found lets the second one run without a check of its
\* own: no cell and no length is read behind the end of a stream, no array is
\* longer than its column is wide, and all the rows that were counted are there.
THEOREM PassesAgree == Spec => []SecondPassFindsTheFirst
<1>1. Inv => SecondPassFindsTheFirst
  <2> SUFFICES ASSUME Inv PROVE SecondPassFindsTheFirst
    OBVIOUS
  <2>1. phase = "filling" /\ c > 0 => BehindCell <= Len(Stream)
    BY CellAtWork DEF Inv
  <2>2. phase = "filling" /\ c > 0 /\ ~IsNull /\ cols[c].dyn => HasWord /\ Length <= widths[c]
    BY ArrayAtWork DEF Inv
  <2>3. phase \in {"filling", "read"} => \A i \in DOMAIN rows : RowOK(rows[i])
    BY DEF Inv, RowsInv
  <2>4. phase = "read" => Len(rows) = Cardinality(RowsCounted)
    BY DEF Inv, CountsInv
  <2> QED
    BY <2>1, <2>2, <2>3, <2>4 DEF SecondPassFindsTheFirst
<1> QED
  BY <1>1, Invariance, PTL

----------------------------------------------------------------------------
(* A table and its own stream. *)

\* What is written of column k of row r; column 0: the null flags.
NullsOf(t, r) == {k \in DOMAIN t.cols : t.rows[r][k].null}
PieceOf(t, r, k) == IF k = 0 THEN FlagsOf(NullsOf(t, r), t.flagBytes)
                    ELSE Written(t.rows[r][k], t.cols[k])

\* at[r][k] is where it begins; this is where the next one does.
After(t, at, r, k) == IF k = Len(t.cols) THEN at[r + 1][0] ELSE at[r][k + 1]
PieceAt(t, at, bytes, r, k) ==
  LET piece == PieceOf(t, r, k)
  IN /\ After(t, at, r, k) = at[r][k] + Len(piece) /\ After(t, at, r, k) <= Len(bytes)
     /\ \A i \in 1..Len(piece) : bytes[at[r][k] + i] = piece[i]

\* Column k of row r comes before column l of row q.
Before(r, k, q, l) == r < q \/ (r = q /\ k < l)
CanWrite(t, r, k) == k > 0 => Writable(t.rows[r][k], t.cols[k])
IsByteColumn(t) == Len(t.cols) = 1 /\ ~t.cols[1].dyn /\ t.cols[1].width * SizeOf(t.cols[1].type) = 1

\* Everything before column l of row q is in the stream.
LaidOut(t, at, bytes, q, l) ==
  /\ at \in [Nat -> [Nat -> Nat]] /\ at[1][0] = 0
  /\ \A r \in 1..Len(t.rows), k \in 0..Len(t.cols) :
       Before(r, k, q, l) => PieceAt(t, at, bytes, r, k) /\ CanWrite(t, r, k)
  /\ \A r \in 1..Len(t.rows), k \in 1..Len(t.cols) :
       Before(r, k, q, l) \/ (r = q /\ k = l) => at[r][k] >= t.flagBytes
  /\ IsByteColumn(t) /\ t.flagBytes = 1 => at[q][l] = 2 * (q - 1) + l

EndOf(t, at) == at[Len(t.rows) + 1][0]
Pad(n) == (3 - (n % 3)) % 3
\* The whole table is, and what fills the last group of three.
Sent(t, at, bytes) ==
  /\ LaidOut(t, at, bytes, Len(t.rows) + 1, 0)
  /\ Len(bytes) = EndOf(t, at) + Pad(EndOf(t, at))
  /\ \A i \in 1..Pad(EndOf(t, at)) : bytes[EndOf(t, at) + i] = 0

\* Of the cells before column l of row q, the widths are those of the longest.
LengthIn(t, r, k) == Len(t.rows[r][k].bytes) \div SizeOf(t.cols[k].type)
WidthOf(t, w, k, q, l) ==
  IF t.cols[k].dyn
  THEN /\ w[k] >= 1 /\ \A r \in 1..Len(t.rows) : Before(r, k, q, l) => LengthIn(t, r, k) <= w[k]
       /\ w[k] = 1 \/ \E r \in 1..Len(t.rows) : Before(r, k, q, l) /\ LengthIn(t, r, k) = w[k]
  ELSE (\E r \in 1..Len(t.rows) : Before(r, k, q, l)) => w[k] = t.cols[k].width
WidthsOf(t, w, q, l) == \A k \in DOMAIN t.cols : WidthOf(t, w, k, q, l)

TableInv ==
  /\ table = NoTable \/ (table \in Tables /\ cols = table.cols)
  /\ phase = "writing" => \A k \in DOMAIN cols : widths[k] = 1
WrittenInv ==
  WrittenTable /\ phase = "writing" =>
    \E at : LaidOut(table, at, streams[1], Len(rows) + 1, c)
            /\ at[Len(rows) + 1][c] = Len(streams[1])
SentInv ==
  WrittenTable /\ phase \in {"sizing", "filling", "read"} =>
    Len(streams) = 1 /\ \E at : Sent(table, at, streams[1])
FailedInv ==
  WrittenTable /\ phase = "failed" =>
    ~AllWritable \/ table.flagBytes # null_flags_size \/ PaddingIsARow

\* The first pass is at a row of the table, in the padding behind it, or done.
InTable(at, r) ==
  /\ s = 1 /\ r <= IF c = 0 THEN Len(table.rows) + 1 ELSE Len(table.rows)
  /\ pos = at[r][c] /\ (c > 0 => start = at[r][0])
  /\ WidthsOf(table, widths, r, c)
InPadding(at) ==
  /\ s = 1 /\ counts[1] = Len(table.rows) /\ WidthsOf(table, widths, Len(table.rows) + 1, 0)
  /\ null_flags_size = 1 /\ Len(streams[1]) = EndOf(table, at) + 2
  /\ \/ c = 1 /\ start = EndOf(table, at) /\ pos = start + 1
     \/ ~PaddingIsARow /\ \/ c = 2 /\ pos = Len(streams[1])
                          \/ c = 0 /\ pos > Len(streams[1])
RowsAndPadding == IF PaddingIsARow THEN Len(table.rows) + 1 ELSE Len(table.rows)
Counted(at) ==
  /\ counts[1] = RowsAndPadding /\ WidthsOf(table, widths, Len(table.rows) + 1, 0) /\ c = 0
  /\ \/ s = 1 /\ PaddingIsARow /\ pos = Len(streams[1])
     \/ s = 2 /\ pos = 0
Exact == WrittenTable /\ table.flagBytes = null_flags_size
ExactSizingInv ==
  Exact /\ phase = "sizing" =>
    \E at : /\ Sent(table, at, streams[1])
            /\ InTable(at, counts[1] + 1) \/ InPadding(at) \/ Counted(at)

\* The second pass is at a row of the table.
FillingAt(at, r) ==
  /\ r + left = IF c = 0 THEN Len(table.rows) + 1 ELSE Len(table.rows)
  /\ pos = at[r][c]
  /\ c > 0 => /\ start = at[r][0] /\ Len(cells) = c - 1
              /\ \A k \in 1..(c - 1) : cells[k] = NormalRows[r][k]
ExactFillingInv ==
  Exact /\ phase = "filling" =>
    /\ counts[1] = RowsAndPadding /\ WidthsOf(table, widths, Len(table.rows) + 1, 0)
    /\ ~PaddingIsARow =>
         /\ Len(rows) <= Len(table.rows) /\ \A r \in 1..Len(rows) : rows[r] = NormalRows[r]
         /\ s = 1 => \E at : Sent(table, at, streams[1]) /\ FillingAt(at, Len(rows) + 1)
         /\ s > 1 => Len(rows) = Len(table.rows) /\ c = 0
ExactReadInv ==
  Exact /\ phase = "read" => /\ rows = NormalRows <=> ~PaddingIsARow
                             /\ WidthsOf(table, widths, Len(table.rows) + 1, 0)

\* With flags to spare, the second pass is behind, and what it has found as it was
\* written is zero.
ZeroUpTo(bytes, p, q) == \A i \in (p + 1)..q : bytes[i] = 0
Matches(r, l) ==
  /\ Len(rows) = r - 1 /\ \A q \in 1..(r - 1) : rows[q] = NormalRows[q]
  /\ \A k \in 1..(l - 1) : cells[k] = NormalRows[r][k]
Spare == WrittenTable /\ table.flagBytes > null_flags_size
Lagging(at, r) ==
  /\ ZeroUpTo(streams[1], null_flags_size, at[r][0])
  /\ c = 0 => IF r = 1 THEN pos = 0 ELSE pos >= null_flags_size /\ pos < at[r][0]
  /\ c > 0 =>
       /\ IF r = 1 THEN start = 0 ELSE start >= null_flags_size /\ start < at[r][0]
       /\ pos >= null_flags_size /\ pos < at[r][c]
       /\ \A k \in 1..(c - 1) : table.rows[r][k].null <=> is_null_MSB(streams[1], start, k)
       /\ r = 1 \/ NullsOf(table, r) = {} => ZeroUpTo(streams[1], null_flags_size, at[r][c])
SpareFillingInv ==
  Spare /\ phase = "filling" =>
    IF s = 1 /\ Len(rows) < Len(table.rows)
    THEN \E at : Sent(table, at, streams[1])
                 /\ (Matches(Len(rows) + 1, c) => Lagging(at, Len(rows) + 1))
    ELSE rows = NormalRows => AllZero
SpareReadInv == Spare /\ phase = "read" => (rows = NormalRows => AllZero)

----------------------------------------------------------------------------
LEMMA TableFacts ==
  ASSUME NEW t \in Tables
  PROVE  /\ t.cols \in Seq(Column) /\ Len(t.cols) \in Nat /\ Len(t.cols) >= 1
         /\ t.flagBytes \in Nat /\ t.flagBytes >= bits_to_bytes(Len(t.cols))
         /\ Len(t.rows) \in Nat /\ t # NoTable
         /\ \A r \in 1..Len(t.rows), k \in 1..Len(t.cols) :
              t.rows[r][k] \in Cell /\ Fits(t.rows[r][k], t.cols[k], t.cols[k].width)
         /\ \A k \in 1..Len(t.cols) : t.cols[k] \in Column /\ IsUInt32(t.cols[k].width)
<1>1. /\ t.cols \in Seq(Column) /\ t.cols # <<>>
      /\ t.flagBytes \in Nat /\ t.flagBytes >= bits_to_bytes(Len(t.cols))
      /\ t.rows \in Seq(Seq(Cell))
  BY TablesAssumption, Zenon
<1>6. /\ \A r \in DOMAIN t.rows :
           /\ Len(t.rows[r]) = Len(t.cols)
           /\ \A k \in DOMAIN t.cols : Fits(t.rows[r][k], t.cols[k], t.cols[k].width)
      /\ \A k \in DOMAIN t.cols : IsUInt32(t.cols[k].width)
  BY TablesAssumption, Zenon
<1>2. /\ Len(t.cols) \in Nat /\ Len(t.cols) >= 1 /\ Len(t.rows) \in Nat
      /\ DOMAIN t.cols = 1..Len(t.cols) /\ DOMAIN t.rows = 1..Len(t.rows)
  BY <1>1
<1>3. ASSUME NEW r \in 1..Len(t.rows), NEW k \in 1..Len(t.cols)
      PROVE  t.rows[r][k] \in Cell
  <2>1. Len(t.rows[r]) = Len(t.cols)
    BY <1>6, <1>2
  <2>2. t.rows[r] \in Seq(Cell)
    BY <1>1
  <2> QED
    BY <2>1, <2>2
<1>4. \A k \in 1..Len(t.cols) : t.cols[k] \in Column
  BY <1>1
<1>5. t # NoTable
  BY <1>2 DEF NoTable
<1> QED
  BY <1>6, <1>1, <1>2, <1>3, <1>4, <1>5

LEMMA SizeOfType ==
  ASSUME NEW col \in Column
  PROVE  /\ SizeOf(col.type) \in {1, 2} /\ col.width \in Nat /\ col.width >= 1
         /\ col.dyn \in BOOLEAN /\ col.type \in Types
<1>1. col.dyn \in BOOLEAN
  BY Zenon DEF Column
<1> QED
  BY <1>1 DEF Column, SizeOf

LEMMA CellFacts ==
  ASSUME NEW cell \in Cell
  PROVE  /\ cell.bytes \in Seq(Byte) /\ Len(cell.bytes) \in Nat /\ cell.null \in BOOLEAN
         /\ cell = [null |-> cell.null, bytes |-> cell.bytes]
<1>1. cell.null \in BOOLEAN
  BY Zenon DEF Cell
<1> QED
  BY <1>1 DEF Cell

\* A number of four bytes is read as it was written.
LEMMA WordBack ==
  ASSUME NEW n \in Nat, IsUInt32(n), NEW bytes, NEW p \in Nat,
         \A i \in 1..WordBytes : bytes[p + i] = Word(n)[i]
  PROVE  big_dword(bytes, p) = n
<1> DEFINE a == (n \div 16777216) % 256  b == (n \div 65536) % 256  d == (n \div 256) % 256  e == n % 256
<1>1. bytes[p + 1] = a /\ bytes[p + 2] = b /\ bytes[p + 3] = d /\ bytes[p + 4] = e
  <2>1. 1 \in 1..WordBytes /\ 2 \in 1..WordBytes /\ 3 \in 1..WordBytes /\ 4 \in 1..WordBytes
    BY DEF WordBytes
  <2>2. Word(n) = <<a, b, d, e>>
    BY SMT DEF Word
  <2> HIDE DEF a, b, d, e
  <2>3. Word(n)[1] = a /\ Word(n)[2] = b /\ Word(n)[3] = d /\ Word(n)[4] = e
    BY <2>2
  <2> QED
    BY <2>1, <2>3
<1>2. 16777216 * a + 65536 * b + 256 * d + e = n
  <2> DEFINE n1 == n \div 256  n2 == n \div 65536  n3 == n \div 16777216
  <2>1. n = 256 * n1 + e
    BY SMT
  <2>2. n1 = 256 * n2 + d
    BY SMT
  <2>3. n2 = 256 * n3 + b
    BY SMT
  <2>4. n3 = a
    BY SMT DEF Byte, IsUInt32
  <2>5. n1 \in Nat /\ n2 \in Nat /\ n3 \in Nat /\ a \in Nat /\ b \in Nat /\ d \in Nat /\ e \in Nat
    BY SMT
  <2> HIDE DEF n1, n2, n3, a, b, d, e
  <2> QED
    BY <2>1, <2>2, <2>3, <2>4, <2>5, SMT
<1> HIDE DEF a, b, d, e
<1>3. big_dword(bytes, p) = 16777216 * bytes[p + 1] + 65536 * bytes[p + 2] + 256 * bytes[p + 3] + bytes[p + 4]
  BY SMT DEF big_dword
<1> QED
  BY <1>1, <1>2, <1>3, SMT

LEMMA ZeroWord ==
  ASSUME NEW n \in Nat, IsUInt32(n), \A i \in 1..WordBytes : Word(n)[i] = 0
  PROVE  n = 0
<1> DEFINE zeroes == [i \in Nat |-> 0]
<1>1. \A i \in 1..WordBytes : zeroes[0 + i] = Word(n)[i]
  BY DEF WordBytes
<1>2. big_dword(zeroes, 0) = n
  BY <1>1, WordBack
<1>3. big_dword(zeroes, 0) = 0
  BY SMT DEF big_dword
<1> QED
  BY <1>2, <1>3

\* The flag that is read of a column is the one that was written.
LEMMA BitsOfByte ==
  ASSUME NEW f \in [1..8 -> {0, 1}], NEW byte,
         byte = 128 * f[1] + 64 * f[2] + 32 * f[3] + 16 * f[4] + 8 * f[5] + 4 * f[6] + 2 * f[7] + f[8]
  PROVE  /\ (byte \div 128) % 2 = f[1] /\ (byte \div 64) % 2 = f[2]
         /\ (byte \div 32) % 2 = f[3] /\ (byte \div 16) % 2 = f[4]
         /\ (byte \div 8) % 2 = f[5] /\ (byte \div 4) % 2 = f[6]
         /\ (byte \div 2) % 2 = f[7] /\ (byte \div 1) % 2 = f[8]
<1> DEFINE f1 == f[1]  f2 == f[2]  f3 == f[3]  f4 == f[4]
           f5 == f[5]  f6 == f[6]  f7 == f[7]  f8 == f[8]
<1>1. /\ f1 \in {0, 1} /\ f2 \in {0, 1} /\ f3 \in {0, 1} /\ f4 \in {0, 1}
      /\ f5 \in {0, 1} /\ f6 \in {0, 1} /\ f7 \in {0, 1} /\ f8 \in {0, 1}
  OBVIOUS
<1>2. byte = 128 * f1 + 64 * f2 + 32 * f3 + 16 * f4 + 8 * f5 + 4 * f6 + 2 * f7 + f8
  OBVIOUS
<1> HIDE DEF f1, f2, f3, f4, f5, f6, f7, f8
<1>20. byte \in Nat
  BY <1>1, <1>2, SMT
<1>3. byte \div 128 = f1
  BY <1>1, <1>2, SMT
<1>4. byte \div 64 = 2 * f1 + f2
  BY <1>1, <1>2, SMT
<1>5. byte \div 32 = 4 * f1 + 2 * f2 + f3
  BY <1>1, <1>2, SMT
<1>6. byte \div 16 = 8 * f1 + 4 * f2 + 2 * f3 + f4
  BY <1>1, <1>2, SMT
<1>7. byte \div 8 = 16 * f1 + 8 * f2 + 4 * f3 + 2 * f4 + f5
  BY <1>1, <1>2, SMT
<1>8. byte \div 4 = 32 * f1 + 16 * f2 + 8 * f3 + 4 * f4 + 2 * f5 + f6
  BY <1>1, <1>2, SMT
<1>9. byte \div 2 = 64 * f1 + 32 * f2 + 16 * f3 + 8 * f4 + 4 * f5 + 2 * f6 + f7
  BY <1>1, <1>2, SMT
<1>10. byte \div 1 = 128 * f1 + 64 * f2 + 32 * f3 + 16 * f4 + 8 * f5 + 4 * f6 + 2 * f7 + f8
  BY <1>1, <1>2, SMT
<1>11. ASSUME NEW x \in Nat, NEW y \in {0, 1}, NEW n \in Nat, n = 2 * x + y
       PROVE  n % 2 = y
  <2> DEFINE q == n \div 2  r == n % 2
  <2>1. n = 2 * q + r /\ q \in Nat /\ r \in {0, 1}
    BY SMT
  <2> HIDE DEF q, r
  <2>2. r = y
    BY <1>11, <2>1, SMT
  <2> QED
    BY <2>2 DEF r
<1>12. (byte \div 128) % 2 = f1
  BY <1>1, <1>3, SMT
<1>13. (byte \div 64) % 2 = f2
  <2> DEFINE n == byte \div 64  x == byte \div 128
  <2>1. n = 2 * x + f2 /\ x \in Nat /\ n \in Nat
    <3>1. n = 2 * f1 + f2
      BY <1>4
    <3>2. x = f1
      BY <1>3
    <3> HIDE DEF n, x
    <3> QED
      BY <1>1, <3>1, <3>2, SMT
  <2> HIDE DEF n, x
  <2>2. n % 2 = f2
    BY <1>1, <1>11, <2>1
  <2> QED
    BY <2>2 DEF n
<1>14. (byte \div 32) % 2 = f3
  <2> DEFINE n == byte \div 32  x == byte \div 64
  <2>1. n = 2 * x + f3 /\ x \in Nat /\ n \in Nat
    BY <1>1, <1>20, <1>4, <1>5, SMT
  <2> HIDE DEF n, x
  <2>2. n % 2 = f3
    BY <1>1, <1>11, <2>1
  <2> QED
    BY <2>2 DEF n
<1>15. (byte \div 16) % 2 = f4
  <2> DEFINE n == byte \div 16  x == byte \div 32
  <2>1. n = 2 * x + f4 /\ x \in Nat /\ n \in Nat
    BY <1>1, <1>20, <1>5, <1>6, SMT
  <2> HIDE DEF n, x
  <2>2. n % 2 = f4
    BY <1>1, <1>11, <2>1
  <2> QED
    BY <2>2 DEF n
<1>16. (byte \div 8) % 2 = f5
  <2> DEFINE n == byte \div 8  x == byte \div 16
  <2>1. n = 2 * x + f5 /\ x \in Nat /\ n \in Nat
    BY <1>1, <1>20, <1>6, <1>7, SMT
  <2> HIDE DEF n, x
  <2>2. n % 2 = f5
    BY <1>1, <1>11, <2>1
  <2> QED
    BY <2>2 DEF n
<1>17. (byte \div 4) % 2 = f6
  <2> DEFINE n == byte \div 4  x == byte \div 8
  <2>1. n = 2 * x + f6 /\ x \in Nat /\ n \in Nat
    BY <1>1, <1>20, <1>7, <1>8, SMT
  <2> HIDE DEF n, x
  <2>2. n % 2 = f6
    BY <1>1, <1>11, <2>1
  <2> QED
    BY <2>2 DEF n
<1>18. (byte \div 2) % 2 = f7
  <2> DEFINE n == byte \div 2  x == byte \div 4
  <2>1. n = 2 * x + f7 /\ x \in Nat /\ n \in Nat
    BY <1>1, <1>20, <1>8, <1>9, SMT
  <2> HIDE DEF n, x
  <2>2. n % 2 = f7
    BY <1>1, <1>11, <2>1
  <2> QED
    BY <2>2 DEF n
<1>19. (byte \div 1) % 2 = f8
  <2> DEFINE n == byte \div 1  x == byte \div 2
  <2>1. n = 2 * x + f8 /\ x \in Nat /\ n \in Nat
    BY <1>1, <1>20, <1>9, <1>10, SMT
  <2> HIDE DEF n, x
  <2>2. n % 2 = f8
    BY <1>1, <1>11, <2>1
  <2> QED
    BY <2>2 DEF n
<1> QED
  BY <1>12, <1>13, <1>14, <1>15, <1>16, <1>17, <1>18, <1>19, SMT DEF f1, f2, f3, f4, f5, f6, f7, f8

LEMMA FlagBack ==
  ASSUME NEW S, NEW n \in Nat, NEW bytes, NEW b \in Nat, NEW k \in Nat, 1 <= k, k <= 8 * n,
         \A i \in 1..n : bytes[b + i] = FlagsOf(S, n)[i]
  PROVE  /\ ByteOf(k) \in 1..n
         /\ is_null_MSB(bytes, b, k) <=> k \in S
<1> DEFINE q == ByteOf(k)  j == ((k - 1) % BitsPerByte) + 1
           Flag(i) == IF BitsPerByte * (q - 1) + i \in S THEN 1 ELSE 0
           byte == 128 * Flag(1) + 64 * Flag(2) + 32 * Flag(3) + 16 * Flag(4)
                     + 8 * Flag(5) + 4 * Flag(6) + 2 * Flag(7) + Flag(8)
<1>1. q \in 1..n /\ j \in 1..8 /\ k = BitsPerByte * (q - 1) + j
  BY DEF ByteOf, BitsPerByte
<1>2. bytes[b + q] = byte
  BY <1>1 DEF FlagsOf
<1>3. \A i : Flag(i) \in {0, 1}
  OBVIOUS
<1>4. Flag(j) = 1 <=> k \in S
  BY <1>1
<1>5. (is_null_MSB(bytes, b, k)) = ((byte \div Bit(k)) % 2 = 1)
  BY <1>2 DEF is_null_MSB
<1>6. Bit(k) = <<128, 64, 32, 16, 8, 4, 2, 1>>[j]
  BY DEF Bit
<1> HIDE DEF q, Flag, j
<1>7. /\ (byte \div 128) % 2 = Flag(1) /\ (byte \div 64) % 2 = Flag(2)
      /\ (byte \div 32) % 2 = Flag(3) /\ (byte \div 16) % 2 = Flag(4)
      /\ (byte \div 8) % 2 = Flag(5) /\ (byte \div 4) % 2 = Flag(6)
      /\ (byte \div 2) % 2 = Flag(7) /\ (byte \div 1) % 2 = Flag(8)
  <2> DEFINE f == [i \in 1..8 |-> Flag(i)]
  <2>1. f \in [1..8 -> {0, 1}]
    BY <1>3
  <2>2. /\ f[1] = Flag(1) /\ f[2] = Flag(2) /\ f[3] = Flag(3) /\ f[4] = Flag(4)
        /\ f[5] = Flag(5) /\ f[6] = Flag(6) /\ f[7] = Flag(7) /\ f[8] = Flag(8)
    OBVIOUS
  <2>3. byte = 128 * f[1] + 64 * f[2] + 32 * f[3] + 16 * f[4] + 8 * f[5] + 4 * f[6] + 2 * f[7] + f[8]
    BY <2>2
  <2> HIDE DEF f, byte
  <2>4. /\ (byte \div 128) % 2 = f[1] /\ (byte \div 64) % 2 = f[2]
        /\ (byte \div 32) % 2 = f[3] /\ (byte \div 16) % 2 = f[4]
        /\ (byte \div 8) % 2 = f[5] /\ (byte \div 4) % 2 = f[6]
        /\ (byte \div 2) % 2 = f[7] /\ (byte \div 1) % 2 = f[8]
    BY <2>1, <2>3, BitsOfByte
  <2> QED
    BY <2>2, <2>4
<1> HIDE DEF byte
<1>8. (byte \div Bit(k)) % 2 = Flag(j)
  <2>1. CASE j = 1
    BY <1>6, <1>7, <2>1
  <2>2. CASE j = 2
    BY <1>6, <1>7, <2>2
  <2>3. CASE j = 3
    BY <1>6, <1>7, <2>3
  <2>4. CASE j = 4
    BY <1>6, <1>7, <2>4
  <2>5. CASE j = 5
    BY <1>6, <1>7, <2>5
  <2>6. CASE j = 6
    BY <1>6, <1>7, <2>6
  <2>7. CASE j = 7
    BY <1>6, <1>7, <2>7
  <2>8. CASE j = 8
    BY <1>6, <1>7, <2>8
  <2>9. j \in {1, 2, 3, 4, 5, 6, 7, 8}
    BY <1>1
  <2> QED
    BY <2>1, <2>2, <2>3, <2>4, <2>5, <2>6, <2>7, <2>8, <2>9
<1> QED
  BY <1>1, <1>4, <1>5, <1>8 DEF q

LEMMA Joining ==
  ASSUME NEW a \in Seq(Byte), NEW b \in Seq(Byte)
  PROVE  /\ a \o b \in Seq(Byte) /\ Len(a \o b) = Len(a) + Len(b)
         /\ Len(a) \in Nat /\ Len(b) \in Nat
         /\ \A i \in 1..Len(a) : (a \o b)[i] = a[i]
         /\ \A i \in 1..Len(b) : (a \o b)[Len(a) + i] = b[i]
OBVIOUS

LEMMA ElementsType ==
  ASSUME NEW cell \in Cell, NEW col \in Column
  PROVE  ElementsOf(cell, col) \in Seq(Byte) /\ Len(ElementsOf(cell, col)) = Len(cell.bytes)
<1>1. cell.bytes \in Seq(Byte) /\ Len(cell.bytes) \in Nat
  BY CellFacts
<1> DEFINE f == [i \in DOMAIN cell.bytes |-> IF cell.bytes[i] \in Trues THEN 49 ELSE 48]
<1>2. f \in [1..Len(cell.bytes) -> Byte]
  BY <1>1 DEF Byte
<1>3. f \in Seq(Byte) /\ Len(f) = Len(cell.bytes)
  BY <1>1, <1>2, SomeBytes
<1> QED
  BY <1>1, <1>3 DEF ElementsOf

LEMMA CellLength ==
  ASSUME NEW cell \in Cell, NEW col \in Column, Fits(cell, col, col.width)
  PROVE  LET n == Len(cell.bytes) \div SizeOf(col.type)
         IN /\ n \in 0..col.width /\ Len(cell.bytes) = n * SizeOf(col.type)
            /\ cell.null => cell.bytes = <<>> /\ n = 0
            /\ ~cell.null /\ ~col.dyn => n = col.width
<1> DEFINE size == SizeOf(col.type)
<1>1. size \in {1, 2} /\ col.width \in Nat /\ Len(cell.bytes) \in Nat
  BY SizeOfType, CellFacts
<1> HIDE DEF size
<1>2. CASE cell.null
  BY <1>1, <1>2 DEF Fits, size
<1>3. CASE ~cell.null
  <2>1. PICK n \in 0..col.width : Len(cell.bytes) = n * size /\ (col.dyn \/ n = col.width)
    BY <1>3 DEF Fits, size
  <2>2. (n * size) \div size = n
    BY <1>1
  <2> QED
    BY <1>3, <2>1, <2>2 DEF size
<1> QED
  BY <1>2, <1>3

\* What is written of a cell.
LEMMA WrittenBytes ==
  ASSUME NEW cell \in Cell, NEW col \in Column, Fits(cell, col, col.width)
  PROVE  LET w == Written(cell, col)  size == SizeOf(col.type)
             n == Len(cell.bytes) \div SizeOf(col.type)
         IN /\ w \in Seq(Byte) /\ Len(w) \in Nat /\ Len(w) >= 1
            /\ col.dyn => /\ Len(w) = WordBytes + Len(cell.bytes)
                          /\ \A i \in 1..WordBytes : w[i] = Word(n)[i]
                          /\ \A i \in 1..Len(cell.bytes) : w[WordBytes + i] = ElementsOf(cell, col)[i]
            /\ ~col.dyn => /\ Len(w) = col.width * size
                           /\ cell.null => \A i \in 1..Len(w) : w[i] = 0
                           /\ ~cell.null => w = ElementsOf(cell, col)
<1> DEFINE w == Written(cell, col)  size == SizeOf(col.type)  n == Len(cell.bytes) \div size
           E == ElementsOf(cell, col)
<1>1. /\ size \in {1, 2} /\ col.width \in Nat /\ col.width >= 1 /\ col.dyn \in BOOLEAN
      /\ cell.null \in BOOLEAN /\ Len(cell.bytes) \in Nat
  BY SizeOfType, CellFacts
<1>2. w \in Seq(Byte) /\ Len(w) \in Nat
  BY WrittenType
<1>3. E \in Seq(Byte) /\ Len(E) = Len(cell.bytes)
  BY ElementsType
<1>4. n \in Nat /\ Len(cell.bytes) = n * size /\ (~cell.null /\ ~col.dyn => n = col.width)
  BY <1>1, CellLength
<1> HIDE DEF n, E
<1>5. CASE col.dyn
  <2> DEFINE W == Word(n)
  <2>1. w = W \o E
    BY <1>5, Zenon DEF Written, n, E
  <2>2. W \in Seq(Byte) /\ Len(W) = 4
    <3> DEFINE a == (n \div 16777216) % 256  b == (n \div 65536) % 256  d == (n \div 256) % 256  e == n % 256
    <3>1. a \in Byte /\ b \in Byte /\ d \in Byte /\ e \in Byte
      BY <1>4, SMT DEF Byte
    <3>2. Word(n) = <<a, b, d, e>>
      BY SMT DEF Word
    <3> HIDE DEF a, b, d, e
    <3> QED
      BY <3>1, <3>2
  <2> HIDE DEF w, W
  <2>7. E \in Seq(Byte)
    BY <1>3
  <2>8. /\ Len(W \o E) = Len(W) + Len(E)
        /\ \A i \in 1..Len(W) : (W \o E)[i] = W[i]
        /\ \A i \in 1..Len(E) : (W \o E)[Len(W) + i] = E[i]
    BY <2>2, <2>7, Joining
  <2>3. Len(w) = WordBytes + Len(E)
    BY <2>1, <2>2, <2>8 DEF WordBytes
  <2>4. ASSUME NEW i \in 1..WordBytes
        PROVE  w[i] = W[i]
    BY <2>1, <2>2, <2>8 DEF WordBytes
  <2>5. ASSUME NEW i \in 1..Len(E)
        PROVE  w[WordBytes + i] = E[i]
    BY <2>1, <2>2, <2>8 DEF WordBytes
  <2>6. Len(w) >= 1
    BY <1>1, <1>3, <2>3 DEF WordBytes
  <2> QED
    BY <1>1, <1>2, <1>3, <1>5, <2>3, <2>4, <2>5, <2>6 DEF w, n, E, W
<1>6. CASE ~col.dyn /\ cell.null
  <2> DEFINE len == col.width * size
  <2>1. w = Zeroes(len)
    BY <1>1, <1>6, Zenon DEF Written
  <2>2. len \in Nat /\ len >= 1
    BY <1>1
  <2> HIDE DEF w, len
  <2>3. Len(w) = len /\ \A i \in 1..len : w[i] = 0
    BY <2>1, <2>2 DEF Zeroes
  <2> QED
    BY <1>1, <1>2, <1>6, <2>2, <2>3 DEF w, len
<1>7. CASE ~col.dyn /\ ~cell.null
  <2>1. w = E
    BY <1>7, Zenon DEF Written, E
  <2>2. Len(w) = col.width * size /\ Len(w) >= 1
    BY <1>1, <1>3, <1>4, <1>7, <2>1
  <2> QED
    BY <1>2, <1>7, <2>1, <2>2 DEF E
<1> QED
  BY <1>1, <1>5, <1>6, <1>7

LEMMA PieceType ==
  ASSUME NEW t \in Tables, NEW r \in 1..Len(t.rows), NEW k \in 0..Len(t.cols)
  PROVE  /\ PieceOf(t, r, k) \in Seq(Byte) /\ Len(PieceOf(t, r, k)) \in Nat
         /\ k = 0 => PieceOf(t, r, k) = FlagsOf(NullsOf(t, r), t.flagBytes)
                     /\ Len(PieceOf(t, r, k)) = t.flagBytes
         /\ k # 0 => PieceOf(t, r, k) = Written(t.rows[r][k], t.cols[k])
                     /\ Len(PieceOf(t, r, k)) >= 1
<1>1. CASE k = 0
  <2>1. t.flagBytes \in Nat
    BY TableFacts
  <2>2. FlagsOf(NullsOf(t, r), t.flagBytes) \in Seq(Byte)
    BY <2>1, FlagsType
  <2>3. Len(FlagsOf(NullsOf(t, r), t.flagBytes)) = t.flagBytes
    BY <2>1 DEF FlagsOf
  <2> QED
    BY <1>1, <2>1, <2>2, <2>3 DEF PieceOf
<1>2. CASE k # 0
  <2>1. k \in 1..Len(t.cols)
    BY <1>2, TableFacts
  <2>2. t.rows[r][k] \in Cell /\ t.cols[k] \in Column /\ Fits(t.rows[r][k], t.cols[k], t.cols[k].width)
    BY <2>1, TableFacts
  <2> QED
    BY <1>2, <2>2, WrittenBytes DEF PieceOf
<1> QED
  BY <1>1, <1>2

\* Where the column behind column l of row q begins.
RowBehind(t, q, l) == IF l = Len(t.cols) THEN q + 1 ELSE q
ColumnBehind(t, q, l) == IF l = Len(t.cols) THEN 0 ELSE l + 1

LEMMA AfterBehind ==
  ASSUME NEW t, NEW at, NEW q, NEW l
  PROVE  After(t, at, q, l) = at[RowBehind(t, q, l)][ColumnBehind(t, q, l)]
BY DEF After, RowBehind, ColumnBehind

LEMMA BeforeBehind ==
  ASSUME NEW t \in Tables, NEW q \in Nat, NEW l \in 0..Len(t.cols),
         NEW r \in Nat, NEW k \in 0..Len(t.cols)
  PROVE  /\ Before(r, k, RowBehind(t, q, l), ColumnBehind(t, q, l)) <=>
              Before(r, k, q, l) \/ (r = q /\ k = l)
         /\ Before(r, k, q, l) => /\ RowBehind(t, r, k) # RowBehind(t, q, l)
                                     \/ ColumnBehind(t, r, k) # ColumnBehind(t, q, l)
         /\ Before(r, k, q, l) \/ (r = q /\ k = l) =>
              r # RowBehind(t, q, l) \/ k # ColumnBehind(t, q, l)
<1>1. Len(t.cols) \in Nat
  BY TableFacts
<1> QED
  BY <1>1 DEF Before, RowBehind, ColumnBehind

LEMMA StayInPlace ==
  ASSUME NEW t, NEW at, NEW more, NEW bytes \in Seq(Byte), NEW piece \in Seq(Byte), NEW r, NEW k,
         NEW p \in Nat, PieceOf(t, r, k) \in Seq(Byte), PieceAt(t, at, bytes, r, k),
         at[r][k] = p, more[r][k] = p, After(t, more, r, k) = After(t, at, r, k)
  PROVE  PieceAt(t, more, bytes \o piece, r, k)
<1> DEFINE w == PieceOf(t, r, k)
<1>1. /\ After(t, at, r, k) = p + Len(w) /\ After(t, at, r, k) <= Len(bytes)
      /\ \A i \in 1..Len(w) : bytes[p + i] = w[i]
  BY DEF PieceAt
<1>2. Len(w) \in Nat /\ Len(bytes) \in Nat /\ Len(bytes \o piece) = Len(bytes) + Len(piece) /\ Len(piece) \in Nat
  OBVIOUS
<1> HIDE DEF w
<1>3. ASSUME NEW i \in 1..Len(w)
      PROVE  (bytes \o piece)[p + i] = w[i]
  <2>1. p + i \in 1..Len(bytes)
    BY <1>1, <1>2
  <2>2. (bytes \o piece)[p + i] = bytes[p + i]
    BY <2>1
  <2> QED
    BY <1>1, <2>2
<1>4. After(t, more, r, k) = p + Len(w) /\ After(t, more, r, k) <= Len(bytes \o piece)
  BY <1>1, <1>2
<1> QED
  BY <1>3, <1>4 DEF PieceAt, w

\* One more column is written.
LEMMA Extend ==
  ASSUME NEW t \in Tables, NEW at, NEW bytes \in Seq(Byte),
         NEW q \in 1..Len(t.rows), NEW l \in 0..Len(t.cols),
         LaidOut(t, at, bytes, q, l), at[q][l] = Len(bytes), CanWrite(t, q, l)
  PROVE  \E more : LET a == RowBehind(t, q, l)  b == ColumnBehind(t, q, l)
                       longer == bytes \o PieceOf(t, q, l)
                   IN LaidOut(t, more, longer, a, b) /\ more[a][b] = Len(longer)
<1> DEFINE a == RowBehind(t, q, l)  b == ColumnBehind(t, q, l)  piece == PieceOf(t, q, l)
           longer == bytes \o piece
<1>1. /\ Len(t.rows) \in Nat /\ Len(t.cols) \in Nat /\ Len(t.cols) >= 1
      /\ q \in Nat /\ q >= 1 /\ l \in Nat
  BY TableFacts
<1>2. piece \in Seq(Byte) /\ Len(piece) \in Nat
  BY PieceType
<1>3. /\ longer \in Seq(Byte) /\ Len(longer) = Len(bytes) + Len(piece) /\ Len(bytes) \in Nat
      /\ \A i \in 1..Len(piece) : longer[Len(bytes) + i] = piece[i]
  BY <1>2, Joining
<1>4. a \in Nat /\ b \in Nat /\ (a # 1 \/ b # 0)
  BY <1>1 DEF RowBehind, ColumnBehind
<1> DEFINE more == [at EXCEPT ![a][b] = Len(longer)]
<1>5. at \in [Nat -> [Nat -> Nat]] /\ at[1][0] = 0
  BY DEF LaidOut
<1> HIDE DEF a, b, piece, longer
<1>6. more \in [Nat -> [Nat -> Nat]] /\ more[a][b] = Len(longer)
  <2> DEFINE len == Len(longer)
  <2>1. len \in Nat
    BY <1>2, <1>3
  <2> HIDE DEF len
  <2>2. more = [at EXCEPT ![a][b] = len]
    BY DEF len
  <2>3. more = [at EXCEPT ![a] = [at[a] EXCEPT ![b] = len]]
    BY <2>2
  <2>4. at[a] \in [Nat -> Nat]
    BY <1>4, <1>5
  <2>5. [at[a] EXCEPT ![b] = len] \in [Nat -> Nat] /\ [at[a] EXCEPT ![b] = len][b] = len
    BY <1>4, <2>1, <2>4
  <2> QED
    BY <1>4, <1>5, <2>3, <2>5 DEF len
<1>7. \A r, k \in Nat : r # a \/ k # b => more[r][k] = at[r][k]
  BY <1>4, <1>5
<1> HIDE DEF more
<1>8. ASSUME NEW r \in 1..Len(t.rows), NEW k \in 0..Len(t.cols), Before(r, k, q, l)
      PROVE  PieceAt(t, more, longer, r, k) /\ CanWrite(t, r, k)
  <2>1. PieceAt(t, at, bytes, r, k) /\ CanWrite(t, r, k)
    BY <1>8 DEF LaidOut
  <2>2. r # a \/ k # b
    BY <1>1, <1>8, BeforeBehind DEF a, b
  <2>3. more[r][k] = at[r][k] /\ at[r][k] \in Nat
    <3>1. r \in Nat /\ k \in Nat
      BY <1>1
    <3> QED
      BY <1>5, <1>7, <2>2, <3>1
  <2>4. After(t, more, r, k) = After(t, at, r, k)
    <3> DEFINE x == RowBehind(t, r, k)  y == ColumnBehind(t, r, k)
    <3>1. x \in Nat /\ y \in Nat
      BY <1>1 DEF RowBehind, ColumnBehind
    <3>2. x # a \/ y # b
      BY <1>1, <1>8, BeforeBehind DEF a, b
    <3>3. more[x][y] = at[x][y]
      BY <1>7, <3>1, <3>2
    <3> QED
      BY <3>3, AfterBehind
  <2>5. PieceOf(t, r, k) \in Seq(Byte)
    BY PieceType
  <2>6. PieceAt(t, more, bytes \o piece, r, k)
    BY <1>2, <2>1, <2>3, <2>4, <2>5, StayInPlace
  <2> QED
    BY <2>1, <2>6 DEF longer
<1>9. PieceAt(t, more, longer, q, l)
  <2>1. q # a \/ l # b
    BY <1>1, BeforeBehind DEF a, b
  <2>2. more[q][l] = Len(bytes)
    BY <1>1, <1>7, <2>1
  <2>3. After(t, more, q, l) = Len(longer)
    BY <1>6, AfterBehind DEF a, b
  <2> QED
    BY <1>2, <1>3, <2>2, <2>3 DEF PieceAt, piece
<1>10. ASSUME NEW r \in 1..Len(t.rows), NEW k \in 0..Len(t.cols), Before(r, k, a, b)
       PROVE  PieceAt(t, more, longer, r, k) /\ CanWrite(t, r, k)
  <2>1. Before(r, k, q, l) \/ (r = q /\ k = l)
    BY <1>1, <1>10, BeforeBehind DEF a, b
  <2> QED
    BY <1>8, <1>9, <2>1
<1>11. more[1][0] = 0
  BY <1>4, <1>5, <1>7
<1>12. ASSUME IsByteColumn(t), t.flagBytes = 1
       PROVE  more[a][b] = 2 * (a - 1) + b
  <2>1. Len(bytes) = 2 * (q - 1) + l
    BY <1>12 DEF LaidOut
  <2>2. Len(piece) = 1
    <3>1. CASE l = 0
      BY <1>12, <3>1, PieceType DEF piece
    <3>2. CASE l # 0
      <4>1. l = 1 /\ Len(t.cols) = 1
        BY <1>1, <1>12, <3>2 DEF IsByteColumn
      <4>2. t.rows[q][1] \in Cell /\ t.cols[1] \in Column /\ Fits(t.rows[q][1], t.cols[1], t.cols[1].width)
        BY <4>1, TableFacts
      <4>3. Len(Written(t.rows[q][1], t.cols[1])) = t.cols[1].width * SizeOf(t.cols[1].type)
        BY <1>12, <4>2, WrittenBytes DEF IsByteColumn
      <4> QED
        BY <1>12, <3>2, <4>1, <4>3 DEF IsByteColumn, piece, PieceOf
    <3> QED
      BY <3>1, <3>2
  <2>3. CASE l = 0
    BY <1>1, <1>3, <1>6, <1>12, <2>1, <2>2, <2>3 DEF a, b, RowBehind, ColumnBehind, IsByteColumn
  <2>4. CASE l # 0
    <3>1. l = 1 /\ a = q + 1 /\ b = 0
      BY <1>1, <1>12, <2>4 DEF a, b, RowBehind, ColumnBehind, IsByteColumn
    <3> QED
      BY <1>1, <1>3, <1>6, <2>1, <2>2, <3>1
  <2> QED
    BY <2>3, <2>4
<1>14. ASSUME NEW r \in 1..Len(t.rows), NEW k \in 1..Len(t.cols), Before(r, k, a, b) \/ (r = a /\ k = b)
       PROVE  more[r][k] >= t.flagBytes
  <2>1. r \in Nat /\ k \in 0..Len(t.cols) /\ k \in Nat /\ t.flagBytes \in Nat
    BY <1>1, TableFacts
  <2>2. CASE r # a \/ k # b
    <3>1. Before(r, k, q, l) \/ (r = q /\ k = l)
      BY <1>1, <1>14, <2>1, <2>2, BeforeBehind DEF a, b
    <3>2. at[r][k] >= t.flagBytes
      BY <3>1 DEF LaidOut
    <3> QED
      BY <1>7, <2>1, <2>2, <3>2
  <2>3. CASE r = a /\ k = b
    <3>1. l # Len(t.cols) /\ r = q /\ k = l + 1
      BY <1>1, <2>1, <2>3 DEF a, b, RowBehind, ColumnBehind
    <3>2. more[r][k] = Len(bytes) + Len(piece)
      BY <1>3, <1>6, <2>3
    <3>3. CASE l = 0
      <4>1. Len(piece) = t.flagBytes
        BY <3>3, PieceType DEF piece
      <4> QED
        BY <1>3, <2>1, <3>2, <4>1
    <3>4. CASE l # 0
      <4>1. l \in 1..Len(t.cols)
        BY <1>1, <3>4
      <4>2. Len(bytes) >= t.flagBytes
        BY <4>1 DEF LaidOut
      <4> QED
        BY <1>2, <1>3, <2>1, <3>2, <4>2
    <3> QED
      BY <3>3, <3>4
  <2> QED
    BY <2>2, <2>3
<1>13. LaidOut(t, more, longer, a, b)
  BY <1>6, <1>10, <1>11, <1>12, <1>14 DEF LaidOut
<1> QED
  BY <1>6, <1>13 DEF a, b, longer, piece

----------------------------------------------------------------------------
\* Which tables are meant.
LEMMA TableKept == TableInv /\ [Next]_vars => TableInv'
<1> SUFFICES ASSUME TableInv, [Next]_vars
             PROVE  TableInv'
  OBVIOUS
<1>1. table' = table /\ cols' = cols /\ (phase' = "writing" => phase = "writing" /\ widths' = widths)
  BY DEF Next, vars, input, place, Throw, BeginRow, WriteFlags, WriteCell, CannotWrite, Transmit,
         BeginSizing, SizeCell, EndSizing, BeginFilling, BeginFillingRow, FillCell, CannotInsert,
         EndFilling, Return
<1> QED
  BY <1>1 DEF TableInv

LEMMA TheTable ==
  ASSUME TableInv, WrittenTable
  PROVE  table \in Tables /\ cols = table.cols
BY DEF TableInv, WrittenTable

\* What is written of it.
LEMMA WrittenInit == Init => WrittenInv
<1> SUFFICES ASSUME Init, WrittenTable, phase = "writing"
             PROVE  \E at : LaidOut(table, at, streams[1], Len(rows) + 1, c)
                            /\ at[Len(rows) + 1][c] = Len(streams[1])
  BY DEF WrittenInv
<1>1. table \in Tables /\ streams = <<<<>>>> /\ rows = <<>> /\ c = 0
  BY DEF Init, WrittenTable
<1> DEFINE at == [r \in Nat |-> [k \in Nat |-> 0]]
<1>2. Len(rows) + 1 = 1 /\ Len(streams[1]) = 0
  BY <1>1
<1>3. \A r \in 1..Len(table.rows), k \in 0..Len(table.cols) : ~Before(r, k, 1, 0)
  BY <1>1, TableFacts DEF Before
<1>4. at \in [Nat -> [Nat -> Nat]] /\ at[1][0] = 0
  OBVIOUS
<1> HIDE DEF at
<1>6. at[1][0] = 2 * (1 - 1) + 0
  BY <1>4
<1>7. \A r \in 1..Len(table.rows), k \in 1..Len(table.cols) : ~(Before(r, k, 1, 0) \/ (r = 1 /\ k = 0))
  BY <1>1, TableFacts DEF Before
<1>5. LaidOut(table, at, streams[1], 1, 0)
  BY <1>3, <1>4, <1>6, <1>7, Zenon DEF LaidOut
<1> QED
  BY <1>1, <1>2, <1>4, <1>5

LEMMA RowAtWork ==
  ASSUME Inv, TableInv, WrittenTable, phase = "writing"
  PROVE  /\ table \in Tables /\ cols = table.cols /\ streams[1] \in Seq(Byte) /\ streams = <<streams[1]>>
         /\ Len(rows) \in Nat /\ c \in 0..Len(table.cols)
         /\ Len(rows) < Len(table.rows) => Len(rows) + 1 \in 1..Len(table.rows)
         /\ c > 0 => Len(rows) < Len(table.rows)
<1>1. table \in Tables /\ cols = table.cols
  BY TheTable
<1>2. TypesInv /\ WritingInv
  BY DEF Inv
<1>3. Len(rows) \in Nat /\ c \in 0..Len(table.cols) /\ (c > 0 => Len(rows) < Len(table.rows))
  BY <1>1, <1>2 DEF TypesInv, WritingInv
<1>4. Len(streams) = 1 /\ streams \in Seq(Seq(Byte))
  BY <1>2 DEF TypesInv, WritingInv
<1>5. streams[1] \in Seq(Byte) /\ streams = <<streams[1]>>
  BY <1>4
<1>6. Len(table.rows) \in Nat
  BY <1>1, TableFacts
<1> QED
  BY <1>1, <1>3, <1>5, <1>6

LEMMA WrittenFlags == Inv /\ TableInv /\ WrittenInv /\ WriteFlags => WrittenInv'
<1> SUFFICES ASSUME Inv, TableInv, WrittenInv, WriteFlags, WrittenTable
             PROVE  WrittenInv'
  BY DEF WrittenInv, WrittenTable, WriteFlags, input
<1>1. phase = "writing" /\ c = 0 /\ Len(rows) < Len(table.rows)
      /\ streams' = <<streams[1] \o FlagsOf({k \in DOMAIN cols : RowToWrite[k].null}, table.flagBytes)>>
      /\ c' = 1 /\ table' = table /\ rows' = rows
  BY DEF WriteFlags, input
<1>2. /\ table \in Tables /\ cols = table.cols /\ streams[1] \in Seq(Byte) /\ Len(rows) \in Nat
      /\ Len(rows) + 1 \in 1..Len(table.rows) /\ 0 \in 0..Len(table.cols)
  BY <1>1, RowAtWork
<1> DEFINE t == table  bytes == streams[1]  q == Len(rows) + 1
<1>3. PICK at : LaidOut(t, at, bytes, q, 0) /\ at[q][0] = Len(bytes)
  BY <1>1 DEF WrittenInv
<1>4. CanWrite(t, q, 0)
  BY DEF CanWrite
<1>5. streams' = <<bytes \o PieceOf(t, q, 0)>>
  BY <1>1, <1>2 DEF PieceOf, NullsOf, RowToWrite
<1>6. RowBehind(t, q, 0) = q /\ ColumnBehind(t, q, 0) = 1
  BY <1>2, TableFacts DEF RowBehind, ColumnBehind
<1>7. PICK more : LaidOut(t, more, bytes \o PieceOf(t, q, 0), q, 1)
                  /\ more[q][1] = Len(bytes \o PieceOf(t, q, 0))
  BY <1>2, <1>3, <1>4, <1>6, Extend
<1>8. streams'[1] = bytes \o PieceOf(t, q, 0)
  BY <1>5
<1>9. LaidOut(table', more, streams'[1], Len(rows') + 1, c') /\ more[Len(rows') + 1][c'] = Len(streams'[1])
  BY <1>1, <1>7, <1>8
<1> QED
  BY <1>9 DEF WrittenInv

LEMMA WrittenCell == Inv /\ TableInv /\ WrittenInv /\ WriteCell => WrittenInv'
<1> SUFFICES ASSUME Inv, TableInv, WrittenInv, WriteCell, WrittenTable
             PROVE  WrittenInv'
  BY DEF WrittenInv, WrittenTable, WriteCell, input
<1>1. /\ phase = "writing" /\ c > 0 /\ Writable(RowToWrite[c], cols[c])
      /\ streams' = <<streams[1] \o Written(RowToWrite[c], cols[c])>>
      /\ c' = IF LastColumn THEN 0 ELSE c + 1
      /\ rows' = IF LastColumn THEN Append(rows, RowToWrite) ELSE rows
      /\ table' = table
  BY DEF WriteCell, input
<1>2. /\ table \in Tables /\ cols = table.cols /\ streams[1] \in Seq(Byte) /\ Len(rows) \in Nat
      /\ Len(rows) + 1 \in 1..Len(table.rows) /\ c \in 0..Len(table.cols)
  BY <1>1, RowAtWork
<1> DEFINE t == table  bytes == streams[1]  q == Len(rows) + 1
<1>3. PICK at : LaidOut(t, at, bytes, q, c) /\ at[q][c] = Len(bytes)
  BY <1>1 DEF WrittenInv
<1>4. CanWrite(t, q, c)
  BY <1>1, <1>2 DEF CanWrite, RowToWrite
<1>5. streams' = <<bytes \o PieceOf(t, q, c)>>
  <2>1. c # 0
    BY <1>1
  <2>2. PieceOf(t, q, c) = Written(RowToWrite[c], cols[c])
    BY <1>2, <2>1, Zenon DEF PieceOf, RowToWrite
  <2> QED
    BY <1>1, <2>2, Zenon
<1>6. Len(rows') + 1 = RowBehind(t, q, c) /\ c' = ColumnBehind(t, q, c)
  <2>1. rows \in Seq(Seq(Cell))
    BY DEF Inv, TypesInv
  <2>2. Len(Append(rows, RowToWrite)) = Len(rows) + 1
    BY <2>1
  <2> QED
    BY <1>1, <1>2, <2>2 DEF RowBehind, ColumnBehind, LastColumn
<1>7. PICK more : LaidOut(t, more, bytes \o PieceOf(t, q, c), Len(rows') + 1, c')
                  /\ more[Len(rows') + 1][c'] = Len(bytes \o PieceOf(t, q, c))
  BY <1>2, <1>3, <1>4, <1>6, Extend
<1>8. streams'[1] = bytes \o PieceOf(t, q, c)
  BY <1>5
<1>9. LaidOut(table', more, streams'[1], Len(rows') + 1, c') /\ more[Len(rows') + 1][c'] = Len(streams'[1])
  BY <1>1, <1>7, <1>8
<1> QED
  BY <1>9 DEF WrittenInv

LEMMA WrittenKept == Inv /\ TableInv /\ WrittenInv /\ [Next]_vars => WrittenInv'
<1> SUFFICES ASSUME Inv, TableInv, WrittenInv, [Next]_vars, ~WriteFlags, ~WriteCell
             PROVE  WrittenInv'
  BY WrittenFlags, WrittenCell
<1>1. phase' # "writing" \/ UNCHANGED vars
  BY DEF Next, Throw, BeginRow, CannotWrite, Transmit,
         BeginSizing, SizeCell, EndSizing, BeginFilling, BeginFillingRow, FillCell, CannotInsert,
         EndFilling, Return
<1>2. CASE UNCHANGED vars
  BY <1>2 DEF vars, input, place, WrittenInv, WrittenTable
<1> QED
  BY <1>1, <1>2 DEF WrittenInv

LEMMA TableSent == Inv /\ TableInv /\ WrittenInv /\ Transmit => SentInv'
<1> SUFFICES ASSUME Inv, TableInv, WrittenInv, Transmit, WrittenTable
             PROVE  SentInv'
  BY DEF SentInv, WrittenTable, Transmit, input
<1>1. /\ phase = "writing" /\ c = 0 /\ Len(rows) = Len(table.rows)
      /\ streams' = <<Decoded(streams[1])>> /\ table' = table
  BY DEF Transmit, input
<1>2. table \in Tables /\ streams[1] \in Seq(Byte)
  BY <1>1, RowAtWork
<1> DEFINE t == table  bytes == streams[1]  n == Len(t.rows)  pad == Padding(bytes)  zeroes == Zeroes(pad)
<1>3. PICK at : LaidOut(t, at, bytes, n + 1, 0) /\ at[n + 1][0] = Len(bytes)
  BY <1>1 DEF WrittenInv
<1>4. pad \in Nat /\ pad = Pad(Len(bytes))
  <2> DEFINE len == Len(bytes)
  <2>1. len \in Nat
    BY <1>2
  <2> HIDE DEF len
  <2>2. (3 - (len % 3)) % 3 \in Nat
    <3> DEFINE x == len % 3
    <3>1. x \in {0, 1, 2}
      BY <2>1, SMT
    <3> HIDE DEF x
    <3>2. 3 - x \in {1, 2, 3}
      BY <3>1
    <3> QED
      BY <3>2 DEF x
  <2> QED
    BY <2>2 DEF Padding, Pad, len
<1> HIDE DEF pad
<1>5. zeroes \in Seq(Byte) /\ Len(zeroes) = pad /\ \A i \in 1..pad : zeroes[i] = 0
  <2>1. Zeroes(pad) \in Seq(Byte)
    BY <1>4, ZeroesType
  <2>2. Zeroes(pad) = [i \in 1..pad |-> 0]
    BY DEF Zeroes
  <2>3. Len(Zeroes(pad)) = pad /\ \A i \in 1..pad : Zeroes(pad)[i] = 0
    BY <1>4, <2>2
  <2> QED
    BY <2>1, <2>3
<1> HIDE DEF zeroes
<1> DEFINE longer == bytes \o zeroes
<1>6. Len(longer) = Len(bytes) + pad /\ \A i \in 1..pad : longer[Len(bytes) + i] = 0
  <2>1. /\ Len(bytes \o zeroes) = Len(bytes) + Len(zeroes)
        /\ \A i \in 1..Len(zeroes) : (bytes \o zeroes)[Len(bytes) + i] = zeroes[i]
    BY <1>2, <1>5, Joining
  <2> QED
    BY <1>5, <2>1
<1>7. ASSUME NEW r \in 1..Len(t.rows), NEW k \in 0..Len(t.cols), Before(r, k, n + 1, 0)
      PROVE  PieceAt(t, at, longer, r, k) /\ CanWrite(t, r, k)
  <2>1. PieceAt(t, at, bytes, r, k) /\ CanWrite(t, r, k)
    BY <1>3, <1>7 DEF LaidOut
  <2>2. at[r][k] \in Nat
    <3>1. r \in Nat /\ k \in Nat
      BY <1>2, TableFacts
    <3>2. at \in [Nat -> [Nat -> Nat]]
      BY <1>3 DEF LaidOut
    <3> QED
      BY <3>1, <3>2
  <2>3. PieceOf(t, r, k) \in Seq(Byte)
    BY <1>2, PieceType
  <2> QED
    BY <1>2, <1>5, <2>1, <2>2, <2>3, StayInPlace
<1> HIDE DEF longer
<1>8. LaidOut(t, at, longer, n + 1, 0)
  BY <1>3, <1>7 DEF LaidOut
<1>9. EndOf(t, at) = Len(bytes)
  BY <1>3 DEF EndOf
<1>10. Sent(t, at, longer)
  BY <1>4, <1>6, <1>8, <1>9 DEF Sent
<1>11. streams' = <<longer>>
  BY <1>1 DEF Decoded, longer, zeroes, pad
<1>12. Len(streams') = 1 /\ streams'[1] = longer
  BY <1>11
<1> QED
  BY <1>1, <1>10, <1>12 DEF SentInv

LEMMA SentKept == Inv /\ TableInv /\ WrittenInv /\ SentInv /\ [Next]_vars => SentInv'
<1> SUFFICES ASSUME Inv, TableInv, WrittenInv, SentInv, [Next]_vars, ~Transmit,
                    phase' \in {"sizing", "filling", "read"}
             PROVE  SentInv'
  BY TableSent DEF SentInv
<1>1. phase \in {"sizing", "filling", "read"} /\ streams' = streams /\ table' = table
  BY DEF Next, vars, input, place, Throw, BeginRow, WriteFlags, WriteCell, CannotWrite,
         BeginSizing, SizeCell, EndSizing, BeginFilling, BeginFillingRow, FillCell, CannotInsert,
         EndFilling, Return
<1> QED
  BY <1>1 DEF SentInv, WrittenTable

LEMMA SentWritable ==
  ASSUME TableInv, WrittenTable, NEW at, NEW bytes, Sent(table, at, bytes)
  PROVE  AllWritable
<1>1. table \in Tables /\ cols = table.cols
  BY TheTable
<1>2. DOMAIN table.rows = 1..Len(table.rows) /\ DOMAIN cols = 1..Len(table.cols)
  <2>1. table.rows \in Seq(Seq(Cell)) /\ table.cols \in Seq(Column)
    BY <1>1, TablesAssumption
  <2> QED
    BY <1>1, <2>1
<1>3. ASSUME NEW r \in 1..Len(table.rows), NEW k \in 1..Len(table.cols)
      PROVE  Writable(table.rows[r][k], cols[k])
  <2>1. Len(table.rows) \in Nat /\ Len(table.cols) \in Nat
    BY <1>1, TableFacts
  <2>2. Before(r, k, Len(table.rows) + 1, 0) /\ k \in 0..Len(table.cols) /\ k > 0
    BY <2>1 DEF Before
  <2>3. CanWrite(table, r, k)
    BY <2>2 DEF Sent, LaidOut
  <2> QED
    BY <1>1, <2>2, <2>3 DEF CanWrite
<1> QED
  BY <1>2, <1>3 DEF AllWritable

----------------------------------------------------------------------------
\* What a table is found to be in its stream.
LEMMA FlagsSize ==
  ASSUME NEW t \in Tables
  PROVE  LET n == bits_to_bytes(Len(t.cols))
         IN n \in Nat /\ n >= 1 /\ Len(t.cols) <= 8 * n /\ n <= t.flagBytes
<1>1. Len(t.cols) \in Nat /\ Len(t.cols) >= 1 /\ t.flagBytes \in Nat /\ t.flagBytes >= bits_to_bytes(Len(t.cols))
  BY TableFacts
<1> DEFINE m == Len(t.cols)  n == (m + 8 - 1) \div 8
<1>2. m \in Nat /\ m >= 1
  BY <1>1
<1> HIDE DEF m
<1>3. n \in Nat /\ n >= 1 /\ m <= 8 * n
  BY <1>2, SMT
<1> QED
  BY <1>1, <1>3 DEF bits_to_bytes, BitsPerByte, m

LEMMA SentPiece ==
  ASSUME NEW t \in Tables, NEW at, NEW bytes, Sent(t, at, bytes),
         NEW r \in 1..Len(t.rows), NEW k \in 0..Len(t.cols)
  PROVE  /\ at \in [Nat -> [Nat -> Nat]] /\ at[r][k] \in Nat /\ After(t, at, r, k) \in Nat
         /\ EndOf(t, at) \in Nat
         /\ PieceAt(t, at, bytes, r, k) /\ CanWrite(t, r, k)
<1>1. Len(t.rows) \in Nat /\ Len(t.cols) \in Nat
  BY TableFacts
<1>2. Before(r, k, Len(t.rows) + 1, 0)
  BY <1>1 DEF Before
<1>3. at \in [Nat -> [Nat -> Nat]]
  BY DEF Sent, LaidOut
<1>4. r \in Nat /\ k \in Nat /\ r + 1 \in Nat /\ k + 1 \in Nat /\ 0 \in Nat /\ Len(t.rows) + 1 \in Nat
  BY <1>1
<1>5. \A x, y \in Nat : at[x][y] \in Nat
  BY <1>3
<1>6. After(t, at, r, k) \in Nat
  BY <1>4, <1>5 DEF After
<1>7. EndOf(t, at) \in Nat
  BY <1>4, <1>5 DEF EndOf
<1> QED
  BY <1>2, <1>3, <1>4, <1>5, <1>6, <1>7 DEF Sent, LaidOut

\* Of the null flags of row r.
LEMMA SentFlags ==
  ASSUME NEW t \in Tables, NEW at, NEW bytes, Sent(t, at, bytes), NEW r \in 1..Len(t.rows)
  PROVE  /\ at[r][0] \in Nat /\ at[r][1] = at[r][0] + t.flagBytes /\ at[r][1] <= Len(bytes)
         /\ \A i \in 1..t.flagBytes : bytes[at[r][0] + i] = FlagsOf(NullsOf(t, r), t.flagBytes)[i]
         /\ \A k \in 1..Len(t.cols) : is_null_MSB(bytes, at[r][0], k) <=> t.rows[r][k].null
<1>1. 0 \in 0..Len(t.cols) /\ Len(t.cols) >= 1 /\ t.flagBytes \in Nat /\ Len(t.cols) \in Nat
  BY TableFacts
<1>2. at[r][0] \in Nat /\ PieceAt(t, at, bytes, r, 0)
  BY <1>1, SentPiece
<1>3. PieceOf(t, r, 0) = FlagsOf(NullsOf(t, r), t.flagBytes) /\ Len(PieceOf(t, r, 0)) = t.flagBytes
  BY <1>1, PieceType
<1>4. After(t, at, r, 0) = at[r][1]
  BY <1>1 DEF After
<1>5. \A i \in 1..t.flagBytes : bytes[at[r][0] + i] = FlagsOf(NullsOf(t, r), t.flagBytes)[i]
  BY <1>2, <1>3 DEF PieceAt
<1>6. ASSUME NEW k \in 1..Len(t.cols)
      PROVE  is_null_MSB(bytes, at[r][0], k) <=> t.rows[r][k].null
  <2>1. k \in Nat /\ 1 <= k /\ k <= 8 * t.flagBytes
    BY <1>1, FlagsSize
  <2>2. is_null_MSB(bytes, at[r][0], k) <=> k \in NullsOf(t, r)
    BY <1>1, <1>2, <1>5, <2>1, FlagBack
  <2>3. k \in DOMAIN t.cols
    BY TableFacts
  <2> QED
    BY <2>2, <2>3 DEF NullsOf
<1> QED
  BY <1>2, <1>3, <1>4, <1>5, <1>6 DEF PieceAt

\* Of the cell of column k of row r.
CellSent(t, at, bytes, r, k) ==
  LET p == at[r][k]  q == After(t, at, r, k)  cell == t.rows[r][k]  col == t.cols[k]
      size == SizeOf(col.type)  n == LengthIn(t, r, k)
  IN /\ p \in Nat /\ q \in Nat /\ p < q /\ q <= Len(bytes) /\ p >= t.flagBytes
     /\ n \in Nat /\ Len(cell.bytes) = n * size
     /\ col.dyn => /\ p + WordBytes <= Len(bytes) /\ big_dword(bytes, p) = n
                   /\ \A i \in 1..WordBytes : bytes[p + i] = Word(n)[i]
                   /\ q = p + WordBytes + n * size
                   /\ \A i \in 1..Len(cell.bytes) : bytes[p + WordBytes + i] = ElementsOf(cell, col)[i]
     /\ ~col.dyn => /\ q = p + col.width * size
                    /\ cell.null => \A i \in 1..(q - p) : bytes[p + i] = 0
                    /\ ~cell.null => /\ n = col.width
                                     /\ \A i \in 1..Len(cell.bytes) :
                                          bytes[p + i] = ElementsOf(cell, col)[i]

LEMMA SmallerByte ==
  ASSUME NEW b \in Byte, NEW a \in Nat, a <= b
  PROVE  a \in Byte
BY DEF Byte

LEMMA SentCell ==
  ASSUME NEW t \in Tables, NEW at, NEW bytes \in Seq(Byte), Sent(t, at, bytes),
         NEW r \in 1..Len(t.rows), NEW k \in 1..Len(t.cols)
  PROVE  CellSent(t, at, bytes, r, k)
<1> DEFINE p == at[r][k]  q == After(t, at, r, k)  cell == t.rows[r][k]  col == t.cols[k]
           size == SizeOf(col.type)  n == LengthIn(t, r, k)  w == Written(cell, col)
<1>1. k \in 0..Len(t.cols) /\ k # 0 /\ r \in Nat /\ Len(t.rows) \in Nat /\ Len(t.cols) \in Nat
      /\ t.flagBytes \in Nat
  BY TableFacts
<1>2. cell \in Cell /\ col \in Column /\ Fits(cell, col, col.width) /\ IsUInt32(col.width)
  BY TableFacts
<1>3. p \in Nat /\ q \in Nat /\ PieceAt(t, at, bytes, r, k)
  BY <1>1, SentPiece
<1>4. PieceOf(t, r, k) = w
  BY <1>1, PieceType
<1>5. q = p + Len(w) /\ q <= Len(bytes) /\ \A i \in 1..Len(w) : bytes[p + i] = w[i]
  BY <1>3, <1>4 DEF PieceAt
<1>6. p >= t.flagBytes
  <2>1. Before(r, k, Len(t.rows) + 1, 0)
    BY <1>1 DEF Before
  <2> QED
    BY <2>1 DEF Sent, LaidOut
<1>7. /\ n \in 0..col.width /\ Len(cell.bytes) = n * size
      /\ ~cell.null /\ ~col.dyn => n = col.width
  BY <1>2, CellLength DEF LengthIn
<1>8. /\ Len(w) \in Nat /\ Len(w) >= 1 /\ size \in {1, 2} /\ col.width \in Nat /\ Len(cell.bytes) \in Nat
      /\ col.dyn => /\ Len(w) = WordBytes + Len(cell.bytes)
                    /\ \A i \in 1..WordBytes : w[i] = Word(n)[i]
                    /\ \A i \in 1..Len(cell.bytes) : w[WordBytes + i] = ElementsOf(cell, col)[i]
      /\ ~col.dyn => /\ Len(w) = col.width * size
                     /\ cell.null => \A i \in 1..Len(w) : w[i] = 0
                     /\ ~cell.null => w = ElementsOf(cell, col)
  BY <1>2, WrittenBytes, SizeOfType, CellFacts DEF LengthIn
<1> HIDE DEF p, q, n, w, size
<1>9. n \in Nat /\ p < q
  BY <1>3, <1>5, <1>7, <1>8
<1>10. ASSUME col.dyn
       PROVE  /\ p + WordBytes <= Len(bytes) /\ big_dword(bytes, p) = n
              /\ \A i \in 1..WordBytes : bytes[p + i] = Word(n)[i]
              /\ q = p + WordBytes + n * size
              /\ \A i \in 1..Len(cell.bytes) : bytes[p + WordBytes + i] = ElementsOf(cell, col)[i]
  <2>1. Len(w) = WordBytes + Len(cell.bytes)
    BY <1>8, <1>10
  <2>2. ASSUME NEW i \in 1..WordBytes
        PROVE  bytes[p + i] = Word(n)[i]
    <3>1. i \in 1..Len(w)
      <4> DEFINE len == Len(cell.bytes)
      <4>1. len \in Nat /\ i \in 1..4 /\ Len(w) = 4 + len
        BY <1>8, <2>1 DEF WordBytes
      <4> HIDE DEF len
      <4> QED
        BY <4>1
    <3> QED
      BY <1>5, <1>8, <1>10, <3>1
  <2>3. ASSUME NEW i \in 1..Len(cell.bytes)
        PROVE  bytes[p + WordBytes + i] = ElementsOf(cell, col)[i]
    <3>1. WordBytes + i \in 1..Len(w) /\ p + (WordBytes + i) = p + WordBytes + i
      <4> DEFINE len == Len(cell.bytes)
      <4>1. len \in Nat /\ i \in 1..len /\ Len(w) = 4 + len /\ p \in Nat
        BY <1>3, <1>8, <2>1 DEF WordBytes
      <4> HIDE DEF len
      <4> QED
        BY <4>1 DEF WordBytes
    <3>2. bytes[p + (WordBytes + i)] = w[WordBytes + i]
      BY <1>5, <3>1
    <3> QED
      BY <1>8, <1>10, <3>1, <3>2
  <2>4. IsUInt32(n)
    <3> DEFINE a == n \div 16777216  b == col.width \div 16777216
    <3>1. b \in Byte /\ n <= col.width /\ n \in Nat /\ col.width \in Nat
      BY <1>2, <1>7, <1>8 DEF IsUInt32
    <3>2. a \in Nat /\ a <= b
      <4> DEFINE x == col.width
      <4>1. n \in Nat /\ x \in Nat /\ n <= x
        BY <3>1
      <4> HIDE DEF x
      <4>2. n \div 16777216 \in Nat /\ n \div 16777216 <= x \div 16777216
        BY <4>1, SMT
      <4> QED
        BY <4>2, SMT DEF x
    <3> HIDE DEF a, b
    <3>3. a \in Byte
      <4>1. b \in Byte /\ a \in Nat /\ a <= b
        BY <3>1, <3>2
      <4> QED
        BY <4>1, SmallerByte
    <3> QED
      BY <3>3, SMT DEF a, IsUInt32
  <2>5. big_dword(bytes, p) = n
    BY <1>3, <1>9, <2>2, <2>4, WordBack
  <2>6. p + WordBytes <= Len(bytes)
    <3> DEFINE len == Len(cell.bytes)
    <3>1. q = p + Len(w) /\ q <= Len(bytes) /\ Len(w) = 4 + len /\ len \in Nat /\ p \in Nat
      BY <1>3, <1>5, <1>8, <2>1 DEF WordBytes
    <3>2. Len(bytes) \in Nat
      OBVIOUS
    <3> HIDE DEF len
    <3> QED
      BY <3>1, <3>2 DEF WordBytes
  <2>7. q = p + WordBytes + n * size
    BY <1>3, <1>5, <1>7, <1>8, <2>1 DEF WordBytes
  <2> QED
    BY <2>2, <2>3, <2>5, <2>6, <2>7
<1>11. ASSUME ~col.dyn
       PROVE  /\ q = p + col.width * size
              /\ cell.null => \A i \in 1..(q - p) : bytes[p + i] = 0
              /\ ~cell.null => /\ n = col.width
                               /\ \A i \in 1..Len(cell.bytes) : bytes[p + i] = ElementsOf(cell, col)[i]
  <2>1. q = p + col.width * size /\ q - p = Len(w)
    <3>1. q = p + Len(w) /\ p \in Nat /\ Len(w) \in Nat
      BY <1>3, <1>5, <1>8
    <3>2. Len(w) = col.width * size
      BY <1>8, <1>11
    <3>3. q - p = Len(w)
      BY <3>1
    <3> QED
      BY <3>1, <3>2, <3>3
  <2>2. ASSUME cell.null, NEW i \in 1..(q - p)
        PROVE  bytes[p + i] = 0
    BY <1>5, <1>8, <1>11, <2>1, <2>2
  <2>3. ASSUME ~cell.null
        PROVE  n = col.width /\ \A i \in 1..Len(cell.bytes) : bytes[p + i] = ElementsOf(cell, col)[i]
    <3>1. Len(w) = Len(cell.bytes)
      BY <1>2, <1>8, <1>11, <2>3, ElementsType
    <3> QED
      BY <1>5, <1>7, <1>8, <1>11, <2>3, <3>1
  <2> QED
    BY <2>1, <2>2, <2>3
<1> QED
  BY <1>3, <1>5, <1>6, <1>7, <1>9, <1>10, <1>11 DEF p, q, n, size, CellSent

----------------------------------------------------------------------------
\* The widths the first pass has found.
LEMMA WidthsAtFirst ==
  ASSUME NEW t \in Tables, NEW w, \A k \in DOMAIN t.cols : w[k] = 1
  PROVE  WidthsOf(t, w, 1, 0)
<1>1. ASSUME NEW r \in 1..Len(t.rows), NEW k \in DOMAIN t.cols
      PROVE  ~Before(r, k, 1, 0)
  <2>1. k \in Nat /\ r \in Nat /\ r >= 1
    BY TableFacts
  <2> QED
    BY <2>1 DEF Before
<1> QED
  BY <1>1 DEF WidthsOf, WidthOf

LEMMA WidthsOfRow ==
  ASSUME NEW t \in Tables, NEW w, NEW q \in Nat, WidthsOf(t, w, q, 0)
  PROVE  WidthsOf(t, w, q, 1)
<1>1. ASSUME NEW r \in 1..Len(t.rows), NEW k \in DOMAIN t.cols
      PROVE  Before(r, k, q, 1) <=> Before(r, k, q, 0)
  <2>1. k \in Nat /\ k >= 1
    BY TableFacts
  <2> QED
    BY <2>1 DEF Before
<1> QED
  BY <1>1 DEF WidthsOf, WidthOf

LEMMA WidthsOfCell ==
  ASSUME NEW t \in Tables, NEW q \in 1..Len(t.rows), NEW l \in 1..Len(t.cols),
         NEW w, NEW v, \A k \in 1..Len(t.cols) : w[k] \in Nat,
         WidthsOf(t, w, q, l), \A k \in 1..Len(t.cols) : k # l => v[k] = w[k],
         LengthIn(t, q, l) \in Nat,
         t.cols[l].dyn => v[l] = Longest(w[l], LengthIn(t, q, l)),
         ~t.cols[l].dyn => v[l] = t.cols[l].width
  PROVE  WidthsOf(t, v, RowBehind(t, q, l), ColumnBehind(t, q, l))
<1> DEFINE a == RowBehind(t, q, l)  b == ColumnBehind(t, q, l)
<1>1. DOMAIN t.cols = 1..Len(t.cols) /\ Len(t.cols) \in Nat /\ Len(t.rows) \in Nat /\ q \in Nat
  BY TableFacts
<1>2. ASSUME NEW r \in 1..Len(t.rows), NEW k \in 1..Len(t.cols)
      PROVE  Before(r, k, a, b) <=> Before(r, k, q, l) \/ (r = q /\ k = l)
  <2>1. r \in Nat /\ k \in 0..Len(t.cols) /\ l \in 0..Len(t.cols)
    BY <1>1
  <2> QED
    BY <1>1, <2>1, BeforeBehind
<1> HIDE DEF a, b
<1>3. ASSUME NEW k \in 1..Len(t.cols)
      PROVE  WidthOf(t, v, k, a, b)
  <2>1. WidthOf(t, w, k, q, l)
    BY <1>1 DEF WidthsOf
  <2>2. CASE k # l
    <3>1. v[k] = w[k] /\ \A r \in 1..Len(t.rows) : Before(r, k, a, b) <=> Before(r, k, q, l)
      BY <1>2, <2>2
    <3> QED
      BY <2>1, <3>1 DEF WidthOf
  <2>3. CASE k = l /\ ~t.cols[k].dyn
    BY <2>3 DEF WidthOf
  <2>4. CASE k = l /\ t.cols[k].dyn
    <3> DEFINE n == LengthIn(t, q, l)  x == w[l]
    <3>1. v[l] = (IF n > x THEN n ELSE x) /\ n \in Nat /\ x \in Nat
      BY <2>4 DEF Longest
    <3>2. /\ x >= 1 /\ \A r \in 1..Len(t.rows) : Before(r, l, q, l) => LengthIn(t, r, l) <= x
          /\ x = 1 \/ \E r \in 1..Len(t.rows) : Before(r, l, q, l) /\ LengthIn(t, r, l) = x
      BY <2>1, <2>4, Zenon DEF WidthOf
    <3>3. \A r \in 1..Len(t.rows) : Before(r, l, a, b) <=> Before(r, l, q, l) \/ r = q
      BY <1>2
    <3>4. ASSUME NEW r \in 1..Len(t.rows), Before(r, l, a, b)
          PROVE  LengthIn(t, r, l) <= v[l]
      <4> DEFINE y == LengthIn(t, r, l)
      <4>1. CASE r = q
        BY <3>1, <4>1
      <4>2. CASE r # q
        <5>1. r \in Nat /\ t.rows[r][l] \in Cell /\ t.cols[l] \in Column
              /\ Fits(t.rows[r][l], t.cols[l], t.cols[l].width)
          BY <1>1, TableFacts
        <5>2. y \in 0..t.cols[l].width
          BY <5>1, CellLength DEF LengthIn
        <5>3. y <= x
          BY <3>2, <3>3, <3>4, <4>2
        <5>4. y \in Nat
          BY <5>1, <5>2, SizeOfType
        <5> HIDE DEF x, y, n
        <5>5. y <= v[l]
          BY <3>1, <5>3, <5>4
        <5> QED
          BY <5>5 DEF y
      <4> QED
        BY <4>1, <4>2
    <3>5. v[l] = 1 \/ \E r \in 1..Len(t.rows) : Before(r, l, a, b) /\ LengthIn(t, r, l) = v[l]
      <4>1. CASE v[l] = n
        BY <3>3, <4>1
      <4>2. CASE v[l] = x
        BY <3>2, <3>3, <4>2
      <4> QED
        BY <3>1, <4>1, <4>2
    <3>6. v[l] >= 1
      <4> HIDE DEF x, n
      <4> QED
        BY <3>1, <3>2
    <3> QED
      BY <2>4, <3>4, <3>5, <3>6, Zenon DEF WidthOf
  <2> QED
    BY <2>2, <2>3, <2>4
<1> QED
  BY <1>1, <1>3 DEF WidthsOf, a, b

LEMMA WidthsAtLast ==
  ASSUME NEW t \in Tables, NEW w, NEW v, NEW q, WidthsOf(t, w, q, 0),
         \A k \in DOMAIN t.cols : v[k] = w[k] \/ (~t.cols[k].dyn /\ v[k] = t.cols[k].width)
  PROVE  WidthsOf(t, v, q, 0)
<1>1. ASSUME NEW k \in DOMAIN t.cols
      PROVE  WidthOf(t, v, k, q, 0)
  <2>1. WidthOf(t, w, k, q, 0)
    BY DEF WidthsOf
  <2>2. CASE v[k] = w[k]
    BY <2>1, <2>2 DEF WidthOf
  <2>3. CASE ~t.cols[k].dyn /\ v[k] = t.cols[k].width
    BY <2>3 DEF WidthOf
  <2> QED
    BY <2>2, <2>3
<1> QED
  BY <1>1 DEF WidthsOf

----------------------------------------------------------------------------
\* The first pass over a table without flags to spare.
LEMMA ExactTable ==
  ASSUME Inv, TableInv, SentInv, Exact, phase \in {"sizing", "filling", "read"}
  PROVE  /\ table \in Tables /\ cols = table.cols /\ table.flagBytes = null_flags_size
         /\ Len(streams) = 1 /\ DOMAIN streams = {1} /\ streams[1] \in Seq(Byte)
         /\ Len(streams[1]) \in Nat /\ counts[1] \in Nat /\ s \in Nat /\ s >= 1 /\ c \in 0..Len(cols)
         /\ pos \in Nat /\ start \in Nat /\ DOMAIN widths = 1..Len(cols)
         /\ \A k \in 1..Len(cols) : widths[k] \in Nat
         /\ null_flags_size \in Nat /\ null_flags_size >= 1 /\ Len(cols) \in Nat /\ Len(cols) >= 1
         /\ Len(table.rows) \in Nat
<1>1. table \in Tables /\ cols = table.cols /\ table.flagBytes = null_flags_size /\ Len(streams) = 1
  BY TheTable DEF Exact, SentInv
<1>2. TypesInv
  BY DEF Inv
<1>3. streams \in Seq(Seq(Byte)) /\ DOMAIN streams = {1}
  BY <1>1, <1>2 DEF TypesInv
<1>4. streams[1] \in Seq(Byte) /\ Len(streams[1]) \in Nat /\ counts[1] \in Nat
  <2>1. streams[1] \in Seq(Byte)
    BY <1>3
  <2>2. counts \in [{1} -> Nat]
    BY <1>2, <1>3 DEF TypesInv
  <2> QED
    BY <2>1, <2>2
<1>5. null_flags_size \in Nat /\ null_flags_size >= 1
  BY <1>1, FlagsSize DEF null_flags_size
<1>6. Len(cols) \in Nat /\ Len(cols) >= 1 /\ Len(table.rows) \in Nat /\ DOMAIN cols = 1..Len(cols)
  BY <1>1, TableFacts
<1>7. DOMAIN widths = 1..Len(cols) /\ \A k \in 1..Len(cols) : widths[k] \in Nat
  BY <1>2, <1>6 DEF TypesInv
<1> QED
  BY <1>1, <1>2, <1>3, <1>4, <1>5, <1>6, <1>7 DEF TypesInv

LEMMA PadOf ==
  ASSUME NEW n \in Nat
  PROVE  Pad(n) \in 0..2 /\ (Pad(n) = 2 => n % 3 = 1)
<1> DEFINE x == n % 3
<1>1. x \in {0, 1, 2}
  BY SMT
<1> HIDE DEF x
<1>2. (3 - x) % 3 \in 0..2 /\ ((3 - x) % 3 = 2 => x = 1)
  BY <1>1
<1> QED
  BY <1>2 DEF Pad, x

\* The padding is two bytes only.
LEMMA EndFacts ==
  ASSUME NEW t \in Tables, NEW at, NEW bytes, Sent(t, at, bytes)
  PROVE  /\ EndOf(t, at) \in Nat /\ Pad(EndOf(t, at)) \in 0..2
         /\ Len(bytes) = EndOf(t, at) + Pad(EndOf(t, at))
         /\ \A i \in 1..Pad(EndOf(t, at)) : bytes[EndOf(t, at) + i] = 0
         /\ IsByteColumn(t) /\ t.flagBytes = 1 =>
              EndOf(t, at) = 2 * Len(t.rows) /\ (Pad(EndOf(t, at)) = 2 => (2 * Len(t.rows)) % 3 = 1)
<1>1. at \in [Nat -> [Nat -> Nat]] /\ Len(t.rows) \in Nat
  BY TableFacts DEF Sent, LaidOut
<1>2. EndOf(t, at) \in Nat
  <2>1. Len(t.rows) + 1 \in Nat
    BY <1>1
  <2> QED
    BY <1>1, <2>1 DEF EndOf
<1>3. ASSUME IsByteColumn(t), t.flagBytes = 1
      PROVE  EndOf(t, at) = 2 * Len(t.rows)
  <2>1. at[Len(t.rows) + 1][0] = 2 * ((Len(t.rows) + 1) - 1) + 0
    BY <1>3 DEF Sent, LaidOut
  <2> QED
    BY <1>1, <2>1 DEF EndOf
<1> QED
  BY <1>2, <1>3, PadOf DEF Sent

LEMMA ByteColumnPadding ==
  ASSUME TableInv, WrittenTable
  PROVE  PaddingIsARow <=> IsByteColumn(table) /\ (2 * Len(table.rows)) % 3 = 1
BY TheTable DEF PaddingIsARow, IsByteColumn

LEMMA SizingSent == Inv /\ TableInv /\ WrittenInv /\ Transmit => ExactSizingInv'
<1> SUFFICES ASSUME Inv, TableInv, WrittenInv, Transmit, Exact'
             PROVE  ExactSizingInv'
  BY DEF ExactSizingInv
<1>1. /\ phase = "writing" /\ c = 0 /\ phase' = "sizing" /\ table' = table /\ cols' = cols
      /\ UNCHANGED <<place, counts, widths>>
  BY DEF Transmit, input
<1>2. WrittenTable /\ WrittenTable'
  BY <1>1 DEF Exact, WrittenTable
<1>3. table \in Tables /\ cols = table.cols /\ Len(table.rows) \in Nat
  BY <1>2, TheTable, TableFacts
<1>4. SentInv'
  BY TableSent
<1>5. PICK at : Sent(table, at, streams'[1])
  BY <1>1, <1>2, <1>4 DEF SentInv
<1>6. s = 1 /\ pos = 0 /\ counts[1] = 0 /\ \A k \in DOMAIN cols : widths[k] = 1
  BY <1>1 DEF Inv, WritingInv, TableInv
<1>7. at[1][0] = 0
  BY <1>5 DEF Sent, LaidOut
<1>8. WidthsOf(table, widths, 1, 0)
  BY <1>3, <1>6, WidthsAtFirst
<1>9. InTable(at, 1)'
  BY <1>1, <1>3, <1>6, <1>7, <1>8 DEF InTable, place
<1>10. counts'[1] + 1 = 1
  BY <1>1, <1>6
<1> QED
  BY <1>1, <1>5, <1>9, <1>10 DEF ExactSizingInv

LEMMA SizingRow == Inv /\ TableInv /\ SentInv /\ ExactSizingInv /\ BeginSizing => ExactSizingInv'
<1> SUFFICES ASSUME Inv, TableInv, SentInv, ExactSizingInv, BeginSizing, Exact'
             PROVE  ExactSizingInv'
  BY DEF ExactSizingInv
<1>1. /\ phase = "sizing" /\ s <= Len(streams) /\ c = 0 /\ pos + null_flags_size < Len(Stream)
      /\ start' = pos /\ pos' = pos + null_flags_size /\ c' = 1
      /\ UNCHANGED <<table, cols, phase, streams, s, counts, widths>>
  BY DEF BeginSizing, BeginRow, input
<1>2. Exact
  BY <1>1 DEF Exact, WrittenTable, null_flags_size
<1> DEFINE n == Len(table.rows)  m == Len(cols)
<1>3. /\ table \in Tables /\ cols = table.cols /\ table.flagBytes = null_flags_size
      /\ Len(streams) = 1 /\ counts[1] \in Nat /\ s \in Nat /\ s >= 1 /\ pos \in Nat
      /\ null_flags_size \in Nat /\ null_flags_size >= 1 /\ m \in Nat /\ m >= 1 /\ n \in Nat
      /\ Len(streams[1]) \in Nat
  BY <1>1, <1>2, ExactTable
<1>4. s = 1 /\ Stream = streams[1]
  BY <1>1, <1>3 DEF Stream
<1>5. PICK at : Sent(table, at, streams[1]) /\ (InTable(at, counts[1] + 1) \/ InPadding(at) \/ Counted(at))
  BY <1>1, <1>2 DEF ExactSizingInv
<1> DEFINE r == counts[1] + 1
<1>6. InTable(at, r)
  <2>1. ~InPadding(at)
    BY <1>1, <1>3, <1>4 DEF InPadding
  <2>2. ~Counted(at)
    BY <1>1, <1>3, <1>4 DEF Counted
  <2> QED
    BY <1>5, <2>1, <2>2
<1>7. r <= n + 1 /\ pos = at[r][0] /\ WidthsOf(table, widths, r, 0)
  BY <1>1, <1>6 DEF InTable
<1>8. CASE r <= n
  <2>1. r \in 1..n /\ r \in Nat
    BY <1>3, <1>8
  <2>2. at[r][1] = at[r][0] + table.flagBytes
    BY <1>3, <1>5, <2>1, SentFlags
  <2>3. WidthsOf(table, widths, r, 1)
    BY <1>3, <1>7, <2>1, WidthsOfRow
  <2>4. InTable(at, r)'
    BY <1>1, <1>3, <1>4, <1>7, <1>8, <2>2, <2>3 DEF InTable
  <2> QED
    BY <1>1, <1>5, <2>4 DEF ExactSizingInv
<1>9. CASE r = n + 1
  <2> DEFINE e == EndOf(table, at)
  <2>1. /\ e \in Nat /\ Pad(e) \in 0..2 /\ Len(streams[1]) = e + Pad(e)
    BY <1>3, <1>5, EndFacts
  <2>2. pos = e
    BY <1>7, <1>9 DEF EndOf
  <2> HIDE DEF e
  <2>3. null_flags_size = 1 /\ Pad(e) = 2
    BY <1>1, <1>3, <1>4, <2>1, <2>2
  <2>4. counts[1] = n
    BY <1>3, <1>9
  <2>5. /\ s' = 1 /\ counts'[1] = n /\ null_flags_size' = 1 /\ Len(streams'[1]) = e + 2
        /\ c' = 1 /\ start' = e /\ pos' = start' + 1 /\ table' = table /\ widths' = widths
    BY <1>1, <1>4, <2>1, <2>2, <2>3, <2>4 DEF null_flags_size
  <2>6. InPadding(at)'
    BY <1>7, <1>9, <2>5 DEF InPadding, e
  <2> QED
    BY <1>1, <1>5, <2>6 DEF ExactSizingInv
<1> QED
  BY <1>3, <1>7, <1>8, <1>9

\* A cell of the table is found to be where it was written, as long as it was.
LEMMA CellOfTableSized ==
  ASSUME Inv, TableInv, SentInv, Exact, phase = "sizing", c > 0, s = 1,
         NEW at, Sent(table, at, streams[1]), NEW r \in 1..Len(table.rows),
         pos = at[r][c], start = at[r][0], WidthsOf(table, widths, r, c),
         SizedFixed \/ SizedNoArray \/ SizedArray
  PROVE  /\ pos' = After(table, at, r, c) /\ pos' <= Len(Stream)
         /\ WidthsOf(table, widths', RowBehind(table, r, c), ColumnBehind(table, r, c))
<1>1. /\ table \in Tables /\ cols = table.cols /\ streams[1] \in Seq(Byte)
      /\ Len(cols) \in Nat /\ c \in 0..Len(cols) /\ DOMAIN widths = 1..Len(cols)
      /\ \A k \in 1..Len(cols) : widths[k] \in Nat
  BY ExactTable
<1>2. c \in 1..Len(table.cols) /\ Stream = streams[1]
  BY <1>1 DEF Stream
<1> DEFINE cell == table.rows[r][c]  n == LengthIn(table, r, c)  q == After(table, at, r, c)
           size == SizeOf(cols[c].type)  w == widths
<1>3. /\ pos \in Nat /\ q \in Nat /\ q <= Len(Stream) /\ n \in Nat /\ Len(cell.bytes) = n * size
      /\ cols[c].dyn => HasWord /\ WordAt(pos) = n /\ q = pos + WordBytes + n * size
      /\ ~cols[c].dyn => q = pos + cols[c].width * size
  <2> DEFINE p == at[r][c]  col == table.cols[c]
  <2>1. /\ p \in Nat /\ q \in Nat /\ q <= Len(streams[1]) /\ n \in Nat
        /\ Len(cell.bytes) = n * SizeOf(col.type)
        /\ col.dyn => /\ p + WordBytes <= Len(streams[1]) /\ big_dword(streams[1], p) = n
                      /\ q = p + WordBytes + n * SizeOf(col.type)
        /\ ~col.dyn => q = p + col.width * SizeOf(col.type)
    <3>1. CellSent(table, at, streams[1], r, c)
      BY <1>1, <1>2, SentCell
    <3> QED
      BY <3>1 DEF CellSent
  <2>2. p = pos /\ col = cols[c]
    BY <1>1
  <2>3. (HasWord <=> p + WordBytes <= Len(streams[1])) /\ WordAt(pos) = big_dword(streams[1], p)
    BY <1>2, <2>2 DEF HasWord, WordAt
  <2> HIDE DEF n, q, p, col
  <2> QED
    BY <1>2, <2>1, <2>2, <2>3
<1>4. IsNull <=> cell.null
  BY <1>1, <1>2, SentFlags DEF IsNull
<1>5. cell.null => n = 0
  <2>1. cell \in Cell /\ cols[c] \in Column /\ Fits(cell, cols[c], cols[c].width)
    BY <1>1, <1>2, TableFacts
  <2> QED
    BY <1>1, <2>1, CellLength DEF LengthIn
<1>6. size \in {1, 2}
  BY <1>1, <1>2, TableFacts, SizeOfType
<1> HIDE DEF n, q, size
<1>7. /\ pos' = q /\ (~cols[c].dyn => widths'[c] = cols[c].width)
      /\ cols[c].dyn => widths'[c] = Longest(w[c], n)
      /\ \A k \in 1..Len(cols) : k # c => widths'[k] = w[k]
  <2>1. CASE SizedFixed
    <3>1. widths' = [w EXCEPT ![c] = cols[c].width] /\ pos' = pos + cols[c].width * size /\ ~cols[c].dyn
      BY <2>1 DEF SizedFixed, size
    <3> QED
      BY <1>1, <1>2, <1>3, <3>1
  <2>2. CASE SizedNoArray
    <3>1. cols[c].dyn /\ cell.null /\ pos' = pos + WordBytes /\ widths' = w
      BY <1>3, <1>4, <2>2 DEF SizedNoArray
    <3>2. n = 0 /\ w[c] \in Nat
      BY <1>1, <1>2, <1>5, <3>1
    <3>3. Longest(w[c], n) = w[c]
      BY <3>2 DEF Longest
    <3>4. q = pos + WordBytes
      BY <1>3, <1>6, <3>1, <3>2 DEF WordBytes
    <3> QED
      BY <3>1, <3>3, <3>4
  <2>3. CASE SizedArray
    <3>1. cols[c].dyn /\ widths' = [w EXCEPT ![c] = Longest(@, n)] /\ pos' = pos + WordBytes + n * size
      BY <1>3, <2>3 DEF SizedArray, size
    <3> QED
      BY <1>1, <1>2, <1>3, <3>1
  <2> QED
    BY <2>1, <2>2, <2>3
<1>8. WidthsOf(table, widths', RowBehind(table, r, c), ColumnBehind(table, r, c))
  BY <1>1, <1>2, <1>3, <1>7, WidthsOfCell DEF n
<1> QED
  BY <1>3, <1>7, <1>8 DEF q

\* A cell of the padding is no cell of a row, or the only one.
LEMMA CellOfPaddingSized ==
  ASSUME Inv, TableInv, SentInv, Exact, phase = "sizing", c > 0, s = 1,
         NEW at, Sent(table, at, streams[1]), InPadding(at),
         SizedFixed \/ SizedNoArray \/ SizedArray
  PROVE  /\ c = 1 \/ (c = 2 /\ ~PaddingIsARow /\ pos' > Len(Stream))
         /\ c = 1 => \/ pos' > Len(Stream) /\ ~PaddingIsARow
                     \/ pos' = Len(Stream) /\ (PaddingIsARow <=> Len(cols) = 1)
         /\ WidthsOf(table, widths', Len(table.rows) + 1, 0)
<1> DEFINE e == EndOf(table, at)  size == SizeOf(cols[c].type)  len == Len(Stream)
<1>1. /\ table \in Tables /\ cols = table.cols /\ streams[1] \in Seq(Byte) /\ Stream = streams[1]
      /\ Len(cols) \in Nat /\ Len(cols) >= 1 /\ c \in 1..Len(cols) /\ DOMAIN widths = 1..Len(cols)
      /\ DOMAIN cols = 1..Len(cols)
      /\ table.flagBytes = null_flags_size /\ Len(table.rows) \in Nat /\ pos \in Nat /\ len \in Nat
  BY ExactTable, TableFacts DEF Stream
<1>2. /\ e \in Nat /\ Pad(e) \in 0..2 /\ len = e + Pad(e)
      /\ \A i \in 1..Pad(e) : Stream[e + i] = 0
      /\ IsByteColumn(table) /\ table.flagBytes = 1 => (Pad(e) = 2 => (2 * Len(table.rows)) % 3 = 1)
  BY <1>1, EndFacts
<1>3. /\ WidthsOf(table, widths, Len(table.rows) + 1, 0)
      /\ null_flags_size = 1 /\ len = e + 2
      /\ (c = 1 /\ start = e /\ pos = e + 1) \/ (~PaddingIsARow /\ c = 2 /\ pos = len)
  BY <1>1 DEF InPadding
<1>4. /\ cols[c].width \in Nat /\ cols[c].width >= 1 /\ size \in {1, 2} /\ cols[c].dyn \in BOOLEAN
  BY <1>1, TableFacts, SizeOfType
<1> HIDE DEF e, len
<1>5. pos >= e + 1 /\ ~HasWord
  BY <1>1, <1>2, <1>3 DEF HasWord, WordBytes, len
<1>6. c = 1 => ~IsNull
  <2>1. ASSUME c = 1
        PROVE  ~is_null_MSB(Stream, e, 1)
    <3>1. ByteOf(1) = 1 /\ Bit(1) = 128
      BY DEF ByteOf, Bit, BitsPerByte
    <3>2. Stream[e + 1] = 0
      BY <1>2, <1>3
    <3>3. (0 \div 128) % 2 = 0
      OBVIOUS
    <3> QED
      BY <3>1, <3>2, <3>3 DEF is_null_MSB
  <2> QED
    BY <1>3, <2>1 DEF IsNull
<1>7. ~SizedArray
  BY <1>5 DEF SizedArray
<1>8. CASE SizedNoArray
  <2>1. pos' = pos + WordBytes /\ widths' = widths /\ cols[c].dyn
    BY <1>8 DEF SizedNoArray
  <2>2. pos' > len
    BY <1>1, <1>2, <1>3, <2>1 DEF WordBytes
  <2>3. c = 1 => ~PaddingIsARow
    BY <2>1 DEF PaddingIsARow
  <2> QED
    BY <1>1, <1>3, <2>1, <2>2, <2>3 DEF len
<1>9. CASE SizedFixed
  <2> DEFINE bytes == cols[c].width * size
  <2>1. pos' = pos + bytes /\ widths' = [widths EXCEPT ![c] = cols[c].width] /\ ~cols[c].dyn
    BY <1>9 DEF SizedFixed
  <2>2. bytes \in Nat /\ bytes >= 1
    BY <1>4
  <2>3. WidthsOf(table, widths', Len(table.rows) + 1, 0)
    <3>1. \A k \in DOMAIN table.cols : widths'[k] = widths[k] \/ (~table.cols[k].dyn /\ widths'[k] = table.cols[k].width)
      BY <1>1, <2>1
    <3> QED
      BY <1>1, <1>3, <3>1, WidthsAtLast
  <2>4. c = 1 => (PaddingIsARow <=> Len(cols) = 1 /\ bytes = 1)
    <3>1. ASSUME c = 1, Len(cols) = 1, bytes = 1
          PROVE  PaddingIsARow
      <4>1. IsByteColumn(table)
        BY <1>1, <2>1, <3>1 DEF IsByteColumn
      <4>2. Pad(e) = 2
        BY <1>2, <1>3
      <4>3. (2 * Len(table.rows)) % 3 = 1
        BY <1>1, <1>2, <1>3, <4>1, <4>2
      <4> QED
        BY <2>1, <3>1, <4>3 DEF PaddingIsARow
    <3> QED
      BY <3>1 DEF PaddingIsARow
  <2> HIDE DEF bytes
  <2>5. CASE c = 1 /\ bytes = 1
    <3>1. pos' = len
      BY <1>1, <1>2, <1>3, <2>1, <2>5
    <3> QED
      BY <2>3, <2>4, <2>5, <3>1 DEF len
  <2>6. CASE c = 1 /\ bytes # 1
    <3>1. pos' > len
      BY <1>1, <1>2, <1>3, <2>1, <2>2, <2>6
    <3> QED
      BY <1>1, <2>3, <2>4, <2>6, <3>1 DEF len
  <2>7. CASE c # 1
    <3>1. pos' > len
      BY <1>1, <1>2, <1>3, <2>1, <2>2, <2>7
    <3> QED
      BY <1>3, <2>3, <2>7, <3>1 DEF len
  <2> QED
    BY <2>5, <2>6, <2>7
<1> QED
  BY <1>7, <1>8, <1>9

LEMMA SizingCell == Inv /\ TableInv /\ SentInv /\ ExactSizingInv /\ SizeCell => ExactSizingInv'
<1> SUFFICES ASSUME Inv, TableInv, SentInv, ExactSizingInv, SizeCell, Exact'
             PROVE  ExactSizingInv'
  BY DEF ExactSizingInv
<1> DEFINE over == LastColumn \/ pos' > Len(Stream)
           counted == LastColumn /\ pos' <= Len(Stream)
<1>1. /\ phase = "sizing" /\ c > 0 /\ (SizedFixed \/ SizedNoArray \/ SizedArray)
      /\ c' = IF over THEN 0 ELSE c + 1
      /\ counts' = IF counted THEN [counts EXCEPT ![s] = @ + 1] ELSE counts
      /\ UNCHANGED <<table, cols, phase, streams, s, start>>
  BY DEF SizeCell, input
<1>2. Exact
  BY <1>1 DEF Exact, WrittenTable, null_flags_size
<1> DEFINE n == Len(table.rows)  m == Len(cols)  len == Len(streams[1])
<1>3. /\ table \in Tables /\ cols = table.cols /\ counts[1] \in Nat /\ DOMAIN streams = {1}
      /\ m \in Nat /\ m >= 1 /\ n \in Nat /\ len \in Nat /\ c \in 0..m
  BY <1>1, <1>2, ExactTable
<1>4. DOMAIN counts = {1}
  BY <1>3 DEF Inv, TypesInv
<1>5. PICK at : Sent(table, at, streams[1]) /\ (InTable(at, counts[1] + 1) \/ InPadding(at) \/ Counted(at))
  BY <1>1, <1>2 DEF ExactSizingInv
<1> DEFINE r == counts[1] + 1
<1>6. CASE InTable(at, r)
  <2>1. s = 1 /\ r \in 1..n /\ pos = at[r][c] /\ start = at[r][0] /\ WidthsOf(table, widths, r, c)
    BY <1>1, <1>3, <1>6 DEF InTable
  <2>2. /\ pos' = After(table, at, r, c) /\ pos' <= Len(Stream)
        /\ WidthsOf(table, widths', RowBehind(table, r, c), ColumnBehind(table, r, c))
    BY <1>1, <1>2, <1>5, <2>1, CellOfTableSized
  <2>3. pos' \in Nat /\ Len(Stream) \in Nat
    <3>1. c \in 0..Len(table.cols)
      BY <1>3
    <3>2. After(table, at, r, c) \in Nat
      BY <1>3, <1>5, <2>1, <3>1, SentPiece
    <3> QED
      BY <1>3, <2>1, <2>2, <3>2 DEF Stream
  <2>4. over <=> LastColumn
    BY <2>2, <2>3
  <2>5. c' = ColumnBehind(table, r, c)
    BY <1>1, <1>3, <2>4 DEF ColumnBehind, LastColumn
  <2>6. counts'[1] + 1 = RowBehind(table, r, c) /\ counts'[1] \in Nat
    <3>1. CASE LastColumn
      BY <1>1, <1>3, <1>4, <2>1, <2>2, <3>1 DEF RowBehind, LastColumn
    <3>2. CASE ~LastColumn
      BY <1>1, <1>3, <3>2 DEF RowBehind, LastColumn
    <3> QED
      BY <3>1, <3>2
  <2> DEFINE a == RowBehind(table, r, c)  b == ColumnBehind(table, r, c)
  <2>7. pos' = at[a][b]
    BY <2>2, AfterBehind
  <2>8. (b = 0 /\ a <= n + 1) \/ (b > 0 /\ a = r)
    BY <1>3, <2>1 DEF RowBehind, ColumnBehind
  <2> HIDE DEF a, b
  <2>9. PICK x : x = a
    OBVIOUS
  <2>10. InTable(at, x)'
    <3>1. s' = 1 /\ c' = b /\ pos' = at[x][c'] /\ WidthsOf(table', widths', x, c')
      BY <1>1, <2>1, <2>2, <2>5, <2>7, <2>9 DEF a, b
    <3>2. x <= IF c' = 0 THEN Len(table'.rows) + 1 ELSE Len(table'.rows)
      BY <1>1, <1>3, <2>1, <2>8, <2>9, <3>1
    <3>3. c' > 0 => start' = at[x][0]
      BY <1>1, <2>1, <2>8, <2>9, <3>1
    <3> QED
      BY <3>1, <3>2, <3>3 DEF InTable
  <2>11. InTable(at, counts[1] + 1)'
    <3>1. counts'[1] + 1 = x
      BY <2>6, <2>9 DEF a
    <3> QED
      BY <2>10, <3>1
  <2> QED
    BY <1>1, <1>5, <2>11 DEF ExactSizingInv
<1>7. CASE InPadding(at)
  <2>1. s = 1 /\ counts[1] = n /\ null_flags_size = 1 /\ len = EndOf(table, at) + 2 /\ Stream = streams[1]
    BY <1>7 DEF InPadding, Stream
  <2>2. /\ c = 1 \/ (c = 2 /\ ~PaddingIsARow /\ pos' > len)
        /\ c = 1 => (pos' > len /\ ~PaddingIsARow) \/ (pos' = len /\ (PaddingIsARow <=> m = 1))
        /\ WidthsOf(table, widths', n + 1, 0)
    BY <1>1, <1>2, <1>5, <1>7, <2>1, CellOfPaddingSized
  <2>3. /\ s' = 1 /\ table' = table /\ widths' = widths' /\ null_flags_size' = 1
        /\ Len(streams'[1]) = EndOf(table, at) + 2 /\ (PaddingIsARow' <=> PaddingIsARow)
    BY <1>1, <2>1 DEF null_flags_size, PaddingIsARow
  <2>4. CASE pos' > len /\ ~PaddingIsARow
    <3>1. ~(pos' <= len)
      <4>1. pos' \in Nat
        BY SizeCellKeeps DEF Inv, TypesInv
      <4> QED
        BY <1>3, <2>4, <4>1
    <3>2. c' = 0 /\ counts' = counts
      BY <1>1, <2>1, <2>4, <3>1
    <3>3. InPadding(at)'
      BY <1>1, <2>1, <2>2, <2>3, <2>4, <3>2 DEF InPadding
    <3> QED
      BY <1>1, <1>5, <3>3 DEF ExactSizingInv
  <2>5. CASE c = 1 /\ pos' = len /\ (PaddingIsARow <=> m = 1)
    <3>1. CASE m = 1
      <4>1. LastColumn /\ counted
        BY <1>3, <2>1, <2>5, <3>1 DEF LastColumn
      <4>2. c' = 0 /\ counts'[1] = n + 1
        BY <1>1, <1>4, <2>1, <4>1
      <4>3. PaddingIsARow'
        BY <2>3, <2>5, <3>1
      <4>4. Counted(at)'
        BY <1>1, <2>1, <2>2, <2>3, <2>5, <4>2, <4>3 DEF Counted, RowsAndPadding
      <4> QED
        BY <1>1, <1>5, <4>4 DEF ExactSizingInv
    <3>2. CASE m # 1
      <4>1. ~LastColumn /\ ~over
        BY <1>3, <2>1, <2>5, <3>2 DEF LastColumn
      <4>2. c' = 2 /\ counts' = counts
        BY <1>1, <2>5, <4>1
      <4>3. ~PaddingIsARow'
        BY <2>3, <2>5, <3>2
      <4>4. InPadding(at)'
        BY <1>1, <2>1, <2>2, <2>3, <2>5, <4>2, <4>3 DEF InPadding
      <4> QED
        BY <1>1, <1>5, <4>4 DEF ExactSizingInv
    <3> QED
      BY <3>1, <3>2
  <2> QED
    BY <2>2, <2>4, <2>5
<1>8. CASE Counted(at)
  BY <1>1, <1>8 DEF Counted
<1> QED
  BY <1>5, <1>6, <1>7, <1>8

LEMMA SizingEnd == Inv /\ TableInv /\ SentInv /\ ExactSizingInv /\ EndSizing => ExactSizingInv'
<1> SUFFICES ASSUME Inv, TableInv, SentInv, ExactSizingInv, EndSizing, Exact'
             PROVE  ExactSizingInv'
  BY DEF ExactSizingInv
<1>1. /\ phase = "sizing" /\ s <= Len(streams) /\ c = 0 /\ pos + null_flags_size >= Len(Stream)
      /\ s' = s + 1 /\ pos' = 0
      /\ UNCHANGED <<table, cols, phase, streams, c, counts, widths>>
  BY DEF EndSizing, input
<1>2. Exact
  BY <1>1 DEF Exact, WrittenTable, null_flags_size
<1> DEFINE n == Len(table.rows)
<1>3. /\ table \in Tables /\ cols = table.cols /\ table.flagBytes = null_flags_size
      /\ Len(streams) = 1 /\ counts[1] \in Nat /\ s \in Nat /\ s >= 1 /\ pos \in Nat /\ n \in Nat
      /\ null_flags_size \in Nat /\ null_flags_size >= 1 /\ Len(streams[1]) \in Nat
      /\ Len(table.cols) \in Nat /\ Len(table.cols) >= 1 /\ streams[1] \in Seq(Byte)
  BY <1>1, <1>2, ExactTable
<1>4. s = 1 /\ Stream = streams[1]
  BY <1>1, <1>3 DEF Stream
<1>5. PICK at : Sent(table, at, streams[1]) /\ (InTable(at, counts[1] + 1) \/ InPadding(at) \/ Counted(at))
  BY <1>1, <1>2 DEF ExactSizingInv
<1> DEFINE e == EndOf(table, at)
<1>6. counts[1] = RowsAndPadding /\ WidthsOf(table, widths, n + 1, 0)
  <2> DEFINE r == counts[1] + 1
  <2>1. CASE InTable(at, r)
    <3>1. r <= n + 1 /\ pos = at[r][0] /\ WidthsOf(table, widths, r, 0)
      BY <1>1, <2>1 DEF InTable
    <3>2. ~(r <= n)
      <4> SUFFICES ASSUME r <= n
                   PROVE  FALSE
        OBVIOUS
      <4>1. r \in 1..n /\ 1 \in 1..Len(table.cols)
        BY <1>3
      <4>2. at[r][0] \in Nat /\ at[r][1] = at[r][0] + null_flags_size
        BY <1>3, <1>5, <4>1, SentFlags
      <4>3. at[r][1] < Len(streams[1])
        <5> DEFINE p == at[r][1]  q == After(table, at, r, 1)
        <5>1. p \in Nat /\ q \in Nat /\ p < q /\ q <= Len(streams[1])
          BY <1>3, <1>5, <4>1, SentCell DEF CellSent
        <5> HIDE DEF p, q
        <5>2. p < Len(streams[1])
          BY <1>3, <5>1
        <5> QED
          BY <5>2 DEF p
      <4> QED
        BY <1>1, <1>3, <1>4, <3>1, <4>2, <4>3
    <3>3. r = n + 1 /\ counts[1] = n
      BY <1>3, <3>1, <3>2
    <3>4. e \in Nat /\ Pad(e) \in 0..2 /\ Len(streams[1]) = e + Pad(e)
          /\ (IsByteColumn(table) /\ table.flagBytes = 1 =>
                e = 2 * n /\ (Pad(e) = 2 => (2 * n) % 3 = 1))
      BY <1>3, <1>5, EndFacts
    <3>5. pos = e
      BY <3>1, <3>3 DEF EndOf
    <3> HIDE DEF e
    <3>6. ~PaddingIsARow
      <4> SUFFICES ASSUME PaddingIsARow
                   PROVE  FALSE
        OBVIOUS
      <4>1. IsByteColumn(table) /\ (2 * n) % 3 = 1 /\ Len(table.cols) = 1
        BY <1>2, <1>3, ByteColumnPadding DEF Exact, IsByteColumn
      <4>2. null_flags_size = 1
        BY <1>3, <4>1 DEF null_flags_size, bits_to_bytes, BitsPerByte
      <4>3. e = 2 * n /\ Pad(e) <= 1
        BY <1>1, <1>3, <1>4, <3>4, <3>5, <4>1, <4>2
      <4>4. Pad(e) = 2
        <5> DEFINE x == e % 3
        <5>1. x = 1
          BY <4>1, <4>3
        <5> HIDE DEF x
        <5>2. (3 - x) % 3 = 2
          BY <5>1
        <5> QED
          BY <5>2 DEF Pad, x
      <4> QED
        BY <4>3, <4>4
    <3> QED
      BY <3>1, <3>3, <3>6 DEF RowsAndPadding
  <2>2. CASE InPadding(at)
    BY <1>1, <2>2 DEF InPadding, RowsAndPadding
  <2>3. CASE Counted(at)
    BY <2>3 DEF Counted
  <2> QED
    BY <1>5, <2>1, <2>2, <2>3
<1>7. Counted(at)'
  BY <1>1, <1>4, <1>6 DEF Counted, RowsAndPadding, PaddingIsARow
<1> QED
  BY <1>1, <1>5, <1>7 DEF ExactSizingInv

LEMMA ExactSizingKept ==
  Inv /\ TableInv /\ WrittenInv /\ SentInv /\ ExactSizingInv /\ [Next]_vars => ExactSizingInv'
<1> SUFFICES ASSUME Inv, TableInv, WrittenInv, SentInv, ExactSizingInv, [Next]_vars,
                    ~Transmit, ~BeginSizing, ~SizeCell, ~EndSizing
             PROVE  ExactSizingInv'
  BY SizingSent, SizingRow, SizingCell, SizingEnd
<1>1. phase' # "sizing" \/ UNCHANGED vars
  BY DEF Next, Throw, BeginRow, WriteFlags, WriteCell, CannotWrite, BeginFilling, BeginFillingRow,
         FillCell, CannotInsert, EndFilling, Return
<1>2. CASE UNCHANGED vars
  BY <1>2 DEF vars, input, place, ExactSizingInv, Exact, WrittenTable, null_flags_size, InTable,
              InPadding, Counted, RowsAndPadding, PaddingIsARow
<1> QED
  BY <1>1, <1>2 DEF ExactSizingInv

LEMMA FillingStarts == Inv /\ TableInv /\ SentInv /\ ExactSizingInv /\ BeginFilling => ExactFillingInv'
<1> SUFFICES ASSUME Inv, TableInv, SentInv, ExactSizingInv, BeginFilling, Exact'
             PROVE  ExactFillingInv'
  BY DEF ExactFillingInv
<1>1. /\ phase = "sizing" /\ s > Len(streams) /\ s' = 1 /\ left' = RowsOfStream(1)
      /\ UNCHANGED <<table, cols, streams, c, pos, counts, widths, rows>>
  BY DEF BeginFilling, input
<1>2. Exact
  BY <1>1 DEF Exact, WrittenTable, null_flags_size
<1> DEFINE n == Len(table.rows)
<1>3. table \in Tables /\ cols = table.cols /\ Len(streams) = 1 /\ n \in Nat /\ DOMAIN streams = {1}
  BY <1>1, <1>2, ExactTable
<1>4. PICK at : Sent(table, at, streams[1]) /\ (InTable(at, counts[1] + 1) \/ InPadding(at) \/ Counted(at))
  BY <1>1, <1>2 DEF ExactSizingInv
<1>5. Counted(at) /\ s # 1
  BY <1>1, <1>3, <1>4 DEF InTable, InPadding
<1>6. /\ counts[1] = RowsAndPadding /\ WidthsOf(table, widths, n + 1, 0) /\ c = 0 /\ pos = 0
  BY <1>5 DEF Counted
<1>7. rows = <<>>
  BY <1>1 DEF Inv, SizingInv
<1>8. ASSUME ~PaddingIsARow
      PROVE  FillingAt(at, 1)'
  <2>1. RowsOfStream(1) = n
    <3>1. DOMAIN counts = {1}
      BY <1>3 DEF Inv, TypesInv
    <3> QED
      BY <1>6, <1>8, <3>1 DEF RowsOfStream, RowsAndPadding
  <2>2. at[1][0] = 0
    BY <1>4 DEF Sent, LaidOut
  <2> QED
    BY <1>1, <1>3, <1>6, <2>1, <2>2 DEF FillingAt
<1>9. Len(rows) = 0 /\ Len(rows) + 1 = 1
  BY <1>7
<1>10. /\ counts'[1] = RowsAndPadding' /\ WidthsOf(table', widths', Len(table'.rows) + 1, 0)
       /\ (PaddingIsARow' <=> PaddingIsARow) /\ Len(rows') = 0 /\ Len(rows') + 1 = 1
       /\ s' = 1 /\ Sent(table', at, streams'[1])
  BY <1>1, <1>4, <1>6, <1>9 DEF RowsAndPadding, PaddingIsARow
<1>11. ASSUME ~PaddingIsARow'
       PROVE  /\ Len(rows') <= Len(table'.rows) /\ \A r \in 1..Len(rows') : rows'[r] = NormalRows'[r]
              /\ s' = 1 => \E x : Sent(table', x, streams'[1]) /\ FillingAt(x, Len(rows) + 1)'
              /\ s' > 1 => Len(rows') = Len(table'.rows) /\ c' = 0
  <2>1. FillingAt(at, Len(rows) + 1)'
    BY <1>8, <1>10, <1>11
  <2> QED
    BY <1>1, <1>3, <1>10, <2>1
<1> QED
  BY <1>10, <1>11 DEF ExactFillingInv

----------------------------------------------------------------------------
\* The second pass over a table without flags to spare.
NoSpare == Exact /\ phase = "filling" /\ ~PaddingIsARow

LEMMA FillingTable ==
  ASSUME Inv, TableInv, SentInv, ExactFillingInv, NoSpare
  PROVE  /\ table \in Tables /\ cols = table.cols /\ table.flagBytes = null_flags_size
         /\ Len(streams) = 1 /\ streams[1] \in Seq(Byte) /\ s \in Nat /\ s >= 1
         /\ Len(rows) \in Nat /\ Len(rows) <= Len(table.rows) /\ Len(table.rows) \in Nat
         /\ Len(cols) \in Nat /\ Len(cols) >= 1 /\ c \in 0..Len(cols) /\ left \in Nat
         /\ \A r \in 1..Len(rows) : rows[r] = NormalRows[r]
         /\ WidthsOf(table, widths, Len(table.rows) + 1, 0)
         /\ s = 1 => /\ Stream = streams[1]
                     /\ \E at : Sent(table, at, streams[1]) /\ FillingAt(at, Len(rows) + 1)
         /\ s > 1 => Len(rows) = Len(table.rows) /\ c = 0
<1>1. Exact /\ phase = "filling"
  BY DEF NoSpare
<1>2. TypesInv
  BY DEF Inv
<1>3. Len(rows) \in Nat /\ left \in Nat
  BY <1>2 DEF TypesInv
<1>4. s = 1 => Stream = streams[1]
  BY DEF Stream
<1> QED
  BY <1>1, <1>3, <1>4, ExactTable DEF ExactFillingInv, NoSpare

\* What keeps rows, widths and counts.
LEMMA FillingKept ==
  ASSUME ExactFillingInv, Exact', phase = "filling", rows' = rows,
         UNCHANGED <<table, cols, streams, counts, widths>>,
         NoSpare => /\ s' = 1 => \E at : Sent(table, at, streams[1]) /\ FillingAt(at, Len(rows) + 1)'
                    /\ s' > 1 => Len(rows) = Len(table.rows) /\ c' = 0
  PROVE  ExactFillingInv'
<1>1. Exact
  BY DEF Exact, WrittenTable, null_flags_size
<1>2. (PaddingIsARow' <=> PaddingIsARow) /\ NormalRows' = NormalRows
  BY DEF PaddingIsARow, NormalRows
<1>3. counts'[1] = RowsAndPadding' /\ WidthsOf(table', widths', Len(table'.rows) + 1, 0)
  BY <1>1, <1>2 DEF ExactFillingInv, RowsAndPadding
<1>4. CASE PaddingIsARow
  BY <1>2, <1>3, <1>4 DEF ExactFillingInv
<1>5. CASE ~PaddingIsARow
  <2>1. NoSpare
    BY <1>1, <1>5 DEF NoSpare
  <2>2. /\ Len(rows) <= Len(table.rows) /\ \A r \in 1..Len(rows) : rows[r] = NormalRows[r]
    BY <1>1, <1>5 DEF ExactFillingInv
  <2>3. s' > 1 => Len(rows') = Len(table'.rows) /\ c' = 0
    BY <2>1
  <2>4. s' = 1 => \E at : Sent(table', at, streams'[1]) /\ FillingAt(at, Len(rows) + 1)'
    BY <2>1
  <2> QED
    BY <1>2, <1>3, <2>2, <2>3, <2>4 DEF ExactFillingInv
<1> QED
  BY <1>4, <1>5

LEMMA FillingRow == Inv /\ TableInv /\ SentInv /\ ExactFillingInv /\ BeginFillingRow => ExactFillingInv'
<1> SUFFICES ASSUME Inv, TableInv, SentInv, ExactFillingInv, BeginFillingRow, Exact'
             PROVE  ExactFillingInv'
  BY DEF ExactFillingInv
<1>1. /\ phase = "filling" /\ s <= Len(streams) /\ c = 0 /\ left > 0
      /\ start' = pos /\ pos' = pos + null_flags_size /\ c' = 1 /\ left' = left - 1 /\ cells' = <<>>
      /\ rows' = rows /\ s' = s /\ UNCHANGED <<table, cols, streams, counts, widths>>
  BY DEF BeginFillingRow, BeginRow, input
<1>2. ASSUME NoSpare
      PROVE  /\ s' = 1 => \E at : Sent(table, at, streams[1]) /\ FillingAt(at, Len(rows) + 1)'
             /\ s' > 1 => Len(rows) = Len(table.rows) /\ c' = 0
  <2> DEFINE n == Len(table.rows)  r == Len(rows) + 1
  <2>1. /\ table \in Tables /\ table.flagBytes = null_flags_size /\ Len(streams) = 1
        /\ s \in Nat /\ s >= 1 /\ left \in Nat /\ n \in Nat /\ Len(rows) \in Nat
    BY <1>2, FillingTable
  <2>2. s = 1
    BY <1>1, <2>1
  <2>3. PICK at : Sent(table, at, streams[1]) /\ FillingAt(at, r)
    BY <1>2, <2>2, FillingTable
  <2>4. r + left = n + 1 /\ pos = at[r][0]
    BY <1>1, <2>3 DEF FillingAt
  <2>5. r \in 1..n
    BY <1>1, <2>1, <2>4
  <2>6. at[r][1] = at[r][0] + null_flags_size
    BY <2>1, <2>3, <2>5, SentFlags
  <2>7. r + left' = n
    BY <1>1, <2>1, <2>4
  <2>8. FillingAt(at, Len(rows) + 1)'
    BY <1>1, <2>4, <2>6, <2>7 DEF FillingAt
  <2> QED
    BY <1>1, <2>2, <2>3, <2>8
<1> QED
  BY <1>1, <1>2, FillingKept

LEMMA FillingEnd == Inv /\ TableInv /\ SentInv /\ ExactFillingInv /\ EndFilling => ExactFillingInv'
<1> SUFFICES ASSUME Inv, TableInv, SentInv, ExactFillingInv, EndFilling, Exact'
             PROVE  ExactFillingInv'
  BY DEF ExactFillingInv
<1>1. /\ phase = "filling" /\ s <= Len(streams) /\ c = 0 /\ left = 0 /\ s' = s + 1
      /\ c' = 0 /\ rows' = rows /\ UNCHANGED <<table, cols, streams, counts, widths>>
  BY DEF EndFilling, input
<1>2. ASSUME NoSpare
      PROVE  /\ s' = 1 => \E at : Sent(table, at, streams[1]) /\ FillingAt(at, Len(rows) + 1)'
             /\ s' > 1 => Len(rows) = Len(table.rows) /\ c' = 0
  <2> DEFINE n == Len(table.rows)  r == Len(rows) + 1
  <2>1. Len(streams) = 1 /\ s \in Nat /\ s >= 1 /\ n \in Nat /\ Len(rows) \in Nat
    BY <1>2, FillingTable
  <2>2. s = 1 /\ s' = 2
    BY <1>1, <2>1
  <2>3. PICK at : FillingAt(at, r)
    BY <1>2, <2>2, FillingTable
  <2>4. r + left = n + 1
    BY <1>1, <2>3 DEF FillingAt
  <2>5. Len(rows) = n
    BY <1>1, <2>1, <2>4
  <2> QED
    BY <1>1, <2>2, <2>5
<1> QED
  BY <1>1, <1>2, FillingKept

\* The bytes of the cell at work, and where they are.
LEMMA SourceBytes ==
  ASSUME TypesInv, FillingInv, phase = "filling", c > 0, ~IsNull
  PROVE  /\ Source \in Seq(Byte) /\ Len(Source) \in Nat /\ Len(Source) = Length * SizeOf(cols[c].type)
         /\ \A i \in 1..Len(Source) : Source[i] = Stream[First + i]
         /\ Length \in Nat /\ First \in Nat /\ BehindCell = First + Length * SizeOf(cols[c].type)
         /\ ~cols[c].dyn => Length = cols[c].width /\ First = pos
         /\ cols[c].dyn => Length = WordAt(pos) /\ First = pos + WordBytes
<1>1. /\ Source \in Seq(Byte) /\ Length \in Nat /\ Len(Source) = Length * SizeOf(cols[c].type)
      /\ ~cols[c].dyn => Length = widths[c]
  BY ArrayAtWork
<1>2. /\ c \in DOMAIN cols /\ s \in DOMAIN streams /\ BehindCell <= Len(Stream)
      /\ CellAt(cols, Stream, widths, start, c, pos, BehindCell)
  BY CellAtWork
<1>3. Len(Stream) \in Nat /\ Stream \in Seq(Byte)
  BY <1>2, StreamType
<1>4. pos \in Nat /\ SizeOf(cols[c].type) \in {1, 2}
  BY <1>2, ColumnsType DEF TypesInv
<1>5. First \in Nat
  BY <1>4 DEF First, WordBytes
<1>6. BehindCell = Behind
  BY DEF BehindCell
<1>7. Behind = First + Length * SizeOf(cols[c].type)
  BY DEF Behind
<1>8. ASSUME NEW i \in 1..Len(Source)
      PROVE  Source[i] = Stream[First + i]
  <2> DEFINE f == First  b == Behind  bytes == Stream
  <2>1. f \in Nat /\ b \in Nat /\ b <= Len(bytes) /\ b = f + Len(Source) /\ bytes \in Seq(Byte)
        /\ Source = SubSeq(bytes, f + 1, b) /\ Len(Source) \in Nat
    BY <1>1, <1>2, <1>3, <1>4, <1>5, <1>6, <1>7 DEF Source
  <2> HIDE DEF f, b, bytes
  <2>2. i \in 1..((b + 1) - (f + 1))
    BY <2>1
  <2>3. SubSeq(bytes, f + 1, b)[i] = bytes[f + 1 + i - 1]
    BY <2>1, <2>2
  <2>4. f + 1 + i - 1 = f + i
    BY <2>1
  <2> QED
    BY <2>1, <2>3, <2>4 DEF f, bytes
<1>9. ~cols[c].dyn => Length = cols[c].width /\ First = pos
  BY <1>1, <1>2 DEF CellAt, First
<1>10. cols[c].dyn => Length = WordAt(pos) /\ First = pos + WordBytes
  BY DEF Length, First
<1> QED
  BY <1>1, <1>5, <1>6, <1>7, <1>8, <1>9, <1>10

LEMMA OtherBytes ==
  ASSUME NEW cell \in Cell, NEW b
  PROVE  [cell EXCEPT !.bytes = b] = [null |-> cell.null, bytes |-> b]
BY DEF Cell

\* Writing an element and reading it normalises it.
LEMMA ElementsRead ==
  ASSUME NEW cell \in Cell, NEW col \in Column, ~cell.null, NEW src \in Seq(Byte),
         Len(src) = Len(cell.bytes), \A i \in 1..Len(src) : src[i] = ElementsOf(cell, col)[i]
  PROVE  /\ col.type # "bool" => Normal(cell, col) = [null |-> FALSE, bytes |-> src]
         /\ col.type = "bool" =>
              /\ Normal(cell, col) =
                   [null |-> FALSE, bytes |-> [i \in DOMAIN src |-> IF src[i] \in Trues THEN 1 ELSE 0]]
              /\ ToSet(src) \subseteq {48, 49}
<1>1. /\ cell.bytes \in Seq(Byte) /\ Len(cell.bytes) \in Nat /\ cell.null \in BOOLEAN
      /\ cell = [null |-> cell.null, bytes |-> cell.bytes]
  BY CellFacts
<1>2. DOMAIN src = 1..Len(src) /\ DOMAIN cell.bytes = 1..Len(src)
  BY <1>1
<1>3. CASE col.type # "bool"
  <2>1. ElementsOf(cell, col) = cell.bytes
    BY <1>3 DEF ElementsOf
  <2>2. src = cell.bytes
    BY <1>1, <2>1
  <2>3. Normal(cell, col) = cell
    BY <1>3 DEF Normal
  <2>4. cell = [null |-> FALSE, bytes |-> src]
    BY <1>1, <2>2, Zenon
  <2> QED
    BY <1>3, <2>3, <2>4
<1>4. CASE col.type = "bool"
  <2>1. \A i \in 1..Len(src) : src[i] = (IF cell.bytes[i] \in Trues THEN 49 ELSE 48)
    BY <1>2, <1>4 DEF ElementsOf
  <2>2. 49 \in Trues /\ 48 \notin Trues
    BY DEF Trues
  <2>3. \A i \in 1..Len(src) : (src[i] \in Trues <=> cell.bytes[i] \in Trues) /\ src[i] \in {48, 49}
    BY <2>1, <2>2
  <2> DEFINE f == [i \in DOMAIN src |-> IF src[i] \in Trues THEN 1 ELSE 0]
             g == [i \in DOMAIN cell.bytes |-> IF cell.bytes[i] \in Trues THEN 1 ELSE 0]
  <2>4. f = g
    BY <1>2, <2>3
  <2>5. Normal(cell, col) = [cell EXCEPT !.bytes = g]
    BY <1>4 DEF Normal
  <2> HIDE DEF f, g
  <2>6. [cell EXCEPT !.bytes = g] = [null |-> FALSE, bytes |-> g]
    <3>1. [cell EXCEPT !.bytes = g] = [null |-> cell.null, bytes |-> g]
      BY OtherBytes
    <3> QED
      BY <1>1, <3>1, Zenon
  <2>7. ToSet(src) \subseteq {48, 49}
    BY <1>2, <2>3 DEF ToSet
  <2> QED
    BY <1>4, <2>4, <2>5, <2>6, <2>7 DEF f
<1> QED
  BY <1>3, <1>4

LEMMA NullRead ==
  ASSUME NEW cell \in Cell, NEW col \in Column, cell.null, cell.bytes = <<>>
  PROVE  Normal(cell, col) = [null |-> TRUE, bytes |-> <<>>]
<1>1. cell.null \in BOOLEAN /\ cell = [null |-> cell.null, bytes |-> cell.bytes]
  BY CellFacts
<1>2. cell = [null |-> TRUE, bytes |-> <<>>]
  BY <1>1, Zenon
<1>3. CASE col.type = "bool"
  <2>1. [i \in DOMAIN cell.bytes |-> IF cell.bytes[i] \in Trues THEN 1 ELSE 0] = <<>>
    OBVIOUS
  <2>2. Normal(cell, col) = [cell EXCEPT !.bytes = <<>>]
    BY <1>3, <2>1 DEF Normal
  <2> QED
    BY <1>2, <2>2, OtherBytes
<1>4. CASE col.type # "bool"
  BY <1>2, <1>4 DEF Normal
<1> QED
  BY <1>3, <1>4

\* A cell of the table is read where it was written, as it was.
LEMMA CellOfTableRead ==
  ASSUME Inv, TableInv, SentInv, ExactFillingInv, NoSpare, c > 0, s = 1,
         NEW at, Sent(table, at, streams[1]), NEW r \in 1..Len(table.rows),
         pos = at[r][c], start = at[r][0]
  PROVE  /\ BehindCell = After(table, at, r, c) /\ CellRead = NormalRows[r][c]
         /\ Inserts /\ BehindCell <= Len(Stream) /\ BehindCell \in Nat
<1>1. /\ table \in Tables /\ cols = table.cols /\ streams[1] \in Seq(Byte) /\ Stream = streams[1]
      /\ Len(cols) \in Nat /\ c \in 1..Len(cols) /\ Len(table.rows) \in Nat
  BY FillingTable DEF Stream
<1>2. TypesInv /\ FillingInv /\ phase = "filling"
  BY DEF Inv, NoSpare
<1> DEFINE cell == table.rows[r][c]  col == cols[c]  n == LengthIn(table, r, c)
           q == After(table, at, r, c)  size == SizeOf(col.type)
<1>3. cell \in Cell /\ col \in Column /\ Fits(cell, col, col.width)
  BY <1>1, TableFacts
<1>4. /\ q \in Nat /\ q <= Len(Stream) /\ n \in Nat /\ Len(cell.bytes) = n * size
      /\ col.dyn => /\ WordAt(pos) = n /\ q = pos + WordBytes + n * size
                    /\ \A i \in 1..Len(cell.bytes) : Stream[pos + WordBytes + i] = ElementsOf(cell, col)[i]
      /\ ~col.dyn => /\ q = pos + col.width * size
                     /\ ~cell.null => /\ n = col.width
                                      /\ \A i \in 1..Len(cell.bytes) : Stream[pos + i] = ElementsOf(cell, col)[i]
  <2> DEFINE p == at[r][c]  d == table.cols[c]
  <2>1. /\ q \in Nat /\ q <= Len(streams[1]) /\ n \in Nat /\ Len(cell.bytes) = n * SizeOf(d.type)
        /\ d.dyn => /\ big_dword(streams[1], p) = n /\ q = p + WordBytes + n * SizeOf(d.type)
                    /\ \A i \in 1..Len(cell.bytes) :
                         streams[1][p + WordBytes + i] = ElementsOf(cell, d)[i]
        /\ ~d.dyn => /\ q = p + d.width * SizeOf(d.type)
                     /\ ~cell.null => /\ n = d.width
                                      /\ \A i \in 1..Len(cell.bytes) :
                                           streams[1][p + i] = ElementsOf(cell, d)[i]
    <3>1. c \in 1..Len(table.cols) /\ table \in Tables /\ streams[1] \in Seq(Byte)
      BY <1>1
    <3>2. CellSent(table, at, streams[1], r, c)
      BY <3>1, SentCell
    <3> QED
      BY <3>2 DEF CellSent
  <2>2. p = pos /\ d = col
    BY <1>1
  <2> HIDE DEF n, q, p, d, cell, col
  <2> QED
    BY <1>1, <2>1, <2>2 DEF WordAt
<1>5. IsNull <=> cell.null
  BY <1>1, SentFlags DEF IsNull
<1>6. NormalRows[r][c] = Normal(cell, col)
  <2>1. r \in DOMAIN table.rows /\ c \in DOMAIN cols
    BY <1>1, TablesAssumption
  <2> QED
    BY <2>1 DEF NormalRows
<1>7. BehindCell \in Nat /\ CellAt(cols, Stream, widths, start, c, pos, BehindCell)
  BY <1>2, CellAtWork
<1>8. size \in {1, 2} /\ col.width \in Nat /\ cell.null \in BOOLEAN /\ col.dyn \in BOOLEAN
  BY <1>3, SizeOfType, CellFacts
<1>9. CASE IsNull
  <2>1. cell.bytes = <<>> /\ n = 0
    <3>1. n = Len(cell.bytes) \div SizeOf(col.type)
      BY <1>1 DEF LengthIn
    <3>2. cell.null
      BY <1>5, <1>9
    <3> HIDE DEF n, cell, col
    <3> QED
      BY <1>3, <3>1, <3>2, CellLength
  <2>2. CellRead = [null |-> TRUE, bytes |-> <<>>]
    BY <1>9, Zenon DEF CellRead
  <2>3. Normal(cell, col) = [null |-> TRUE, bytes |-> <<>>]
    BY <1>3, <1>5, <1>9, <2>1, NullRead
  <2>4. ~col.dyn => widths[c] = col.width
    BY <1>7 DEF CellAt
  <2>5. BehindCell = q
    <3>1. CASE col.dyn
      <4>1. BehindCell = pos + WordBytes
        BY <1>9, <3>1 DEF BehindCell
      <4>2. q = pos + WordBytes + n * size /\ n = 0 /\ pos + WordBytes \in Nat
        BY <1>2, <1>4, <2>1, <3>1 DEF TypesInv, WordBytes
      <4> HIDE DEF n, q, size
      <4> QED
        BY <1>8, <4>1, <4>2
    <3>2. CASE ~col.dyn
      BY <1>4, <1>9, <2>4, <3>2 DEF BehindCell
    <3> QED
      BY <3>1, <3>2
  <2> QED
    BY <1>4, <1>6, <1>7, <1>9, <2>2, <2>3, <2>5 DEF Inserts
<1>10. CASE ~IsNull
  <2>1. /\ Source \in Seq(Byte) /\ Len(Source) \in Nat /\ Len(Source) = Length * size
        /\ \A i \in 1..Len(Source) : Source[i] = Stream[First + i]
        /\ Length \in Nat /\ First \in Nat /\ BehindCell = First + Length * size
        /\ ~col.dyn => Length = col.width /\ First = pos
        /\ col.dyn => Length = WordAt(pos) /\ First = pos + WordBytes
    BY <1>2, <1>10, SourceBytes
  <2>2. ~cell.null
    BY <1>5, <1>10
  <2>3. Length = n /\ BehindCell = q
    BY <1>4, <1>8, <2>1, <2>2
  <2>4. Len(Source) = Len(cell.bytes)
    BY <1>4, <2>1, <2>3
  <2>5. \A i \in 1..Len(Source) : Source[i] = ElementsOf(cell, col)[i]
    BY <1>4, <1>8, <2>1, <2>2, <2>4
  <2>6. /\ col.type # "bool" => Normal(cell, col) = [null |-> FALSE, bytes |-> Source]
        /\ col.type = "bool" =>
             /\ Normal(cell, col) =
                  [null |-> FALSE, bytes |-> [i \in DOMAIN Source |-> IF Source[i] \in Trues THEN 1 ELSE 0]]
             /\ ToSet(Source) \subseteq {48, 49}
    <3> DEFINE src == Source
    <3>1. src \in Seq(Byte) /\ Len(src) = Len(cell.bytes) /\ \A i \in 1..Len(src) : src[i] = ElementsOf(cell, col)[i]
      BY <2>1, <2>4, <2>5
    <3> HIDE DEF src, cell, col
    <3> QED
      BY <1>3, <2>2, <3>1, ElementsRead DEF src
  <2>7. CellRead = Normal(cell, col)
    <3>1. CASE col.type = "bool"
      BY <1>10, <2>6, <3>1, Zenon DEF CellRead
    <3>2. CASE col.type # "bool"
      BY <1>10, <2>6, <3>2, Zenon DEF CellRead
    <3> QED
      BY <3>1, <3>2
  <2>8. Length <= widths[c]
    BY <1>2, <1>10, ArrayAtWork
  <2>9. col.type = "bool" => ToSet(Source) \subseteq (Trues \cup Falses) \ {0, 1}
    <3>1. {48, 49} \subseteq (Trues \cup Falses) \ {0, 1}
      BY DEF Trues, Falses
    <3> QED
      BY <2>6, <3>1
  <2>10. Inserts
    BY <2>8, <2>9 DEF Inserts
  <2> QED
    BY <1>4, <1>6, <1>7, <2>3, <2>7, <2>10
<1> QED
  BY <1>9, <1>10

LEMMA FillingCell == Inv /\ TableInv /\ SentInv /\ ExactFillingInv /\ FillCell => ExactFillingInv'
<1> SUFFICES ASSUME Inv, TableInv, SentInv, ExactFillingInv, FillCell, Exact'
             PROVE  ExactFillingInv'
  BY DEF ExactFillingInv
<1>1. /\ phase = "filling" /\ c > 0 /\ cells' = Append(cells, CellRead) /\ pos' = BehindCell
      /\ c' = IF LastColumn THEN 0 ELSE c + 1
      /\ rows' = IF LastColumn /\ pos' <= Len(Stream) THEN Append(rows, cells') ELSE rows
      /\ UNCHANGED <<table, cols, phase, streams, s, left, start, counts, widths>>
  BY DEF FillCell, input
<1>2. Exact
  BY <1>1 DEF Exact, WrittenTable, null_flags_size
<1>3. (PaddingIsARow' <=> PaddingIsARow) /\ NormalRows' = NormalRows
  BY <1>1 DEF PaddingIsARow, NormalRows
<1>4. counts'[1] = RowsAndPadding' /\ WidthsOf(table', widths', Len(table'.rows) + 1, 0)
  BY <1>1, <1>2, <1>3 DEF ExactFillingInv, RowsAndPadding
<1>5. CASE PaddingIsARow
  BY <1>3, <1>4, <1>5 DEF ExactFillingInv
<1>6. CASE ~PaddingIsARow
  <2> DEFINE n == Len(table.rows)  r == Len(rows) + 1  m == Len(cols)
  <2>1. NoSpare
    BY <1>1, <1>2, <1>6 DEF NoSpare
  <2>2. /\ table \in Tables /\ cols = table.cols /\ s \in Nat /\ s >= 1 /\ n \in Nat
        /\ Len(rows) \in Nat /\ Len(rows) <= n /\ left \in Nat /\ m \in Nat /\ c \in 1..m
        /\ \A i \in 1..Len(rows) : rows[i] = NormalRows[i]
    BY <1>1, <2>1, FillingTable
  <2>3. s = 1
    BY <1>1, <2>1, <2>2, FillingTable
  <2>4. PICK at : Sent(table, at, streams[1]) /\ FillingAt(at, r)
    BY <2>1, <2>3, FillingTable
  <2>5. /\ r + left = n /\ pos = at[r][c] /\ start = at[r][0] /\ Len(cells) = c - 1
        /\ \A k \in 1..(c - 1) : cells[k] = NormalRows[r][k]
    BY <1>1, <2>2, <2>4 DEF FillingAt
  <2>6. r \in 1..n
    BY <2>2, <2>5
  <2>7. pos' = After(table, at, r, c) /\ CellRead = NormalRows[r][c] /\ pos' <= Len(Stream)
    BY <1>1, <2>1, <2>3, <2>4, <2>5, <2>6, CellOfTableRead
  <2>8. cells \in Seq(Cell) /\ rows \in Seq(Seq(Cell))
    BY DEF Inv, TypesInv
  <2>9. Len(cells') = c /\ \A k \in 1..c : cells'[k] = NormalRows[r][k]
    <3>1. Len(cells') = c
      BY <1>1, <2>2, <2>5, <2>8
    <3>2. ASSUME NEW k \in 1..c
          PROVE  cells'[k] = NormalRows[r][k]
      <4>1. CASE k = c
        BY <1>1, <2>2, <2>5, <2>7, <2>8, <4>1
      <4>2. CASE k # c
        <5>1. k \in 1..(c - 1) /\ k \in 1..Len(cells)
          BY <2>2, <2>5, <4>2
        <5>2. cells'[k] = cells[k]
          BY <1>1, <2>8, <5>1
        <5> QED
          BY <2>5, <5>1, <5>2
      <4> QED
        BY <4>1, <4>2
    <3> QED
      BY <3>1, <3>2
  <2>10. CASE LastColumn
    <3>1. c' = 0 /\ rows' = Append(rows, cells') /\ c = m /\ c = Len(table.cols)
      BY <1>1, <2>2, <2>7, <2>10 DEF LastColumn
    <3>2. Len(rows') = r /\ rows'[r] = cells' /\ \A i \in 1..Len(rows) : rows'[i] = rows[i]
      BY <2>2, <2>8, <3>1
    <3>3. cells' = NormalRows[r]
      <4>1. DOMAIN table.rows = 1..n /\ DOMAIN cols = 1..m
        BY <2>2, TablesAssumption
      <4>2. NormalRows[r] = [k \in 1..m |-> Normal(table.rows[r][k], cols[k])]
        BY <2>6, <4>1 DEF NormalRows
      <4>3. cells' \in Seq(Cell)
        BY FillCellKeeps DEF Inv, TypesInv
      <4>4. cells' = [k \in 1..m |-> cells'[k]]
        BY <2>9, <3>1, <4>3
      <4> DEFINE f == NormalRows[r]
      <4>5. f = [k \in 1..m |-> f[k]]
        BY <4>2
      <4>6. \A k \in 1..m : cells'[k] = f[k]
        BY <2>9, <3>1
      <4> HIDE DEF f
      <4>7. cells' = f
        BY <4>4, <4>5, <4>6
      <4> QED
        BY <4>7 DEF f
    <3>4. \A i \in 1..Len(rows') : rows'[i] = NormalRows[i]
      <4>1. ASSUME NEW i \in 1..Len(rows')
            PROVE  rows'[i] = NormalRows[i]
        <5>1. i = r \/ i \in 1..Len(rows)
          BY <2>2, <3>2
        <5> QED
          BY <2>2, <3>2, <3>3, <5>1
      <4> QED
        BY <4>1
    <3>5. PICK x : x = r + 1
      OBVIOUS
    <3>6. FillingAt(at, x)'
      <4>1. pos' = at[x][0]
        BY <2>7, <3>1, <3>5 DEF After
      <4>2. x + left = n + 1
        <5> HIDE DEF r, n
        <5>1. r \in Nat /\ r + left = n /\ left \in Nat /\ n \in Nat
          BY <2>2, <2>5 DEF r, n
        <5> QED
          BY <3>5, <5>1
      <4> QED
        BY <1>1, <3>1, <4>1, <4>2 DEF FillingAt
    <3>7. Len(rows') + 1 = x
      BY <3>2, <3>5
    <3>8. FillingAt(at, Len(rows) + 1)'
      BY <3>6, <3>7
    <3>9. Len(rows') <= Len(table'.rows) /\ \A i \in 1..Len(rows') : rows'[i] = NormalRows'[i]
      BY <1>1, <1>3, <2>2, <2>6, <3>2, <3>4
    <3>10. s' = 1 /\ Sent(table', at, streams'[1])
      BY <1>1, <2>3, <2>4
    <3> QED
      BY <1>4, <3>8, <3>9, <3>10 DEF ExactFillingInv
  <2>11. CASE ~LastColumn
    <3>1. c' = c + 1 /\ rows' = rows /\ c # Len(table.cols)
      BY <1>1, <2>2, <2>11 DEF LastColumn
    <3>2. PICK x : x = r
      OBVIOUS
    <3>3. FillingAt(at, x)'
      <4>1. pos' = at[x][c']
        BY <2>7, <3>1, <3>2 DEF After
      <4>2. c' > 0 /\ c' - 1 = c
        BY <2>2, <3>1
      <4> QED
        BY <1>1, <1>3, <2>5, <2>9, <3>2, <4>1, <4>2 DEF FillingAt
    <3>4. Len(rows') + 1 = x
      BY <3>1, <3>2
    <3>5. FillingAt(at, Len(rows) + 1)'
      BY <3>3, <3>4
    <3>6. Len(rows') <= Len(table'.rows) /\ \A i \in 1..Len(rows') : rows'[i] = NormalRows'[i]
      BY <1>1, <1>3, <2>2, <3>1
    <3>7. s' = 1 /\ Sent(table', at, streams'[1])
      BY <1>1, <2>3, <2>4
    <3> QED
      BY <1>4, <3>5, <3>6, <3>7 DEF ExactFillingInv
  <2> QED
    BY <2>10, <2>11
<1> QED
  BY <1>5, <1>6

LEMMA CannotInsertOrWrite ==
  Inv /\ TableInv /\ SentInv /\ ExactFillingInv /\ (CannotInsert \/ CannotWrite) => FailedInv'
<1> SUFFICES ASSUME Inv, TableInv, SentInv, ExactFillingInv, CannotInsert \/ CannotWrite, WrittenTable'
             PROVE  FailedInv'
  BY DEF FailedInv
<1>1. UNCHANGED <<table, cols, streams>>
  BY DEF CannotInsert, CannotWrite, Throw, input
<1>2. /\ WrittenTable /\ table' = table /\ null_flags_size' = null_flags_size
      /\ (AllWritable' <=> AllWritable) /\ (PaddingIsARow' <=> PaddingIsARow)
  BY <1>1 DEF WrittenTable, null_flags_size, AllWritable, PaddingIsARow
<1>3. CASE CannotWrite
  <2>1. phase = "writing" /\ c > 0 /\ ~Writable(RowToWrite[c], cols[c])
    BY <1>3 DEF CannotWrite
  <2>2. /\ table \in Tables /\ cols = table.cols /\ Len(rows) \in Nat /\ c \in 0..Len(table.cols)
        /\ Len(rows) + 1 \in 1..Len(table.rows)
    BY <1>2, <2>1, RowAtWork
  <2>3. Len(rows) + 1 \in DOMAIN table.rows /\ c \in DOMAIN cols
    BY <2>1, <2>2, TablesAssumption
  <2>4. ~AllWritable
    BY <2>1, <2>3 DEF AllWritable, RowToWrite
  <2> QED
    BY <1>2, <2>4 DEF FailedInv
<1>4. CASE CannotInsert
  <2>1. phase = "filling" /\ c > 0 /\ ~Inserts
    BY <1>4 DEF CannotInsert
  <2>2. CASE Exact /\ ~PaddingIsARow
    <3>1. NoSpare
      BY <2>1, <2>2 DEF NoSpare
    <3>2. /\ s \in Nat /\ s >= 1 /\ Len(rows) \in Nat /\ Len(table.rows) \in Nat /\ left \in Nat
      BY <3>1, FillingTable
    <3>3. s = 1
      BY <2>1, <3>1, <3>2, FillingTable
    <3>4. PICK at : Sent(table, at, streams[1]) /\ FillingAt(at, Len(rows) + 1)
      BY <3>1, <3>3, FillingTable
    <3> DEFINE r == Len(rows) + 1
    <3>5. r + left = Len(table.rows) /\ pos = at[r][c] /\ start = at[r][0]
      BY <2>1, <3>2, <3>4 DEF FillingAt
    <3>6. r \in 1..Len(table.rows)
      BY <3>2, <3>5
    <3>7. Inserts
      BY <2>1, <3>1, <3>3, <3>4, <3>5, <3>6, CellOfTableRead
    <3> QED
      BY <2>1, <3>7
  <2>3. CASE ~(Exact /\ ~PaddingIsARow)
    BY <1>2, <2>3 DEF FailedInv, Exact
  <2> QED
    BY <2>2, <2>3
<1> QED
  BY <1>3, <1>4

LEMMA FailedKept ==
  Inv /\ TableInv /\ SentInv /\ ExactFillingInv /\ FailedInv /\ [Next]_vars => FailedInv'
<1> SUFFICES ASSUME Inv, TableInv, SentInv, ExactFillingInv, FailedInv, [Next]_vars,
                    ~CannotInsert, ~CannotWrite
             PROVE  FailedInv'
  BY CannotInsertOrWrite
<1>1. phase' # "failed" \/ UNCHANGED vars
  BY DEF Next, BeginRow, WriteFlags, WriteCell, Transmit, BeginSizing, SizeCell, EndSizing,
         BeginFilling, BeginFillingRow, FillCell, EndFilling, Return
<1>2. CASE UNCHANGED vars
  BY <1>2 DEF vars, input, FailedInv, WrittenTable, null_flags_size, AllWritable, PaddingIsARow
<1> QED
  BY <1>1, <1>2 DEF FailedInv

LEMMA ExactFillingKept ==
  Inv /\ TableInv /\ SentInv /\ ExactSizingInv /\ ExactFillingInv /\ [Next]_vars => ExactFillingInv'
<1> SUFFICES ASSUME Inv, TableInv, SentInv, ExactSizingInv, ExactFillingInv, [Next]_vars,
                    ~BeginFilling, ~BeginFillingRow, ~FillCell, ~EndFilling
             PROVE  ExactFillingInv'
  BY FillingStarts, FillingRow, FillingCell, FillingEnd
<1>1. phase' # "filling" \/ UNCHANGED vars
  BY DEF Next, Throw, BeginRow, WriteFlags, WriteCell, CannotWrite, Transmit, BeginSizing, SizeCell,
         EndSizing, CannotInsert, Return
<1>2. CASE UNCHANGED vars
  <2>1. CASE phase = "filling" /\ Exact'
    <3>1. ExactFillingInv /\ UNCHANGED <<table, cols, streams, counts, widths, rows, s, c, left, pos, start, cells>>
      BY <1>2 DEF vars, input, place
    <3>2. (NoSpare <=> NoSpare) /\ Exact /\ NormalRows' = NormalRows
      BY <2>1, <3>1 DEF Exact, WrittenTable, null_flags_size, NormalRows
    <3>3. ASSUME NoSpare
          PROVE  /\ s' = 1 => \E at : Sent(table, at, streams[1]) /\ FillingAt(at, Len(rows) + 1)'
                 /\ s' > 1 => Len(rows) = Len(table.rows) /\ c' = 0
      <4>1. /\ s = 1 => \E at : Sent(table, at, streams[1]) /\ FillingAt(at, Len(rows) + 1)
            /\ s > 1 => Len(rows) = Len(table.rows) /\ c = 0
        BY <3>3, FillingTable
      <4>2. ASSUME NEW at, FillingAt(at, Len(rows) + 1)
            PROVE  FillingAt(at, Len(rows) + 1)'
        BY <3>1, <3>2, <4>2 DEF FillingAt
      <4> QED
        BY <3>1, <4>1, <4>2
    <3> QED
      BY <2>1, <3>1, <3>3, FillingKept
  <2>2. CASE ~(phase = "filling" /\ Exact')
    BY <1>2, <2>2 DEF vars, ExactFillingInv
  <2> QED
    BY <2>1, <2>2
<1> QED
  BY <1>1, <1>2 DEF ExactFillingInv

----------------------------------------------------------------------------
\* What is read of it.
LEMMA ReadRows ==
  ASSUME Inv, TableInv, SentInv, ExactFillingInv, NoSpare, s > Len(streams)
  PROVE  rows = NormalRows
<1>1. /\ table \in Tables /\ Len(streams) = 1 /\ s \in Nat /\ Len(table.rows) \in Nat
      /\ \A r \in 1..Len(rows) : rows[r] = NormalRows[r]
  BY FillingTable
<1>2. Len(rows) = Len(table.rows)
  BY <1>1, FillingTable
<1>3. DOMAIN table.rows = 1..Len(table.rows)
  BY <1>1, TablesAssumption
<1>4. NormalRows = [r \in 1..Len(table.rows) |-> NormalRows[r]]
  BY <1>3 DEF NormalRows
<1>5. rows \in Seq(Seq(Cell))
  BY DEF Inv, TypesInv
<1> DEFINE f == NormalRows
<1>6. f = [r \in 1..Len(rows) |-> f[r]] /\ \A r \in 1..Len(rows) : rows[r] = f[r]
  BY <1>1, <1>2, <1>4
<1> HIDE DEF f
<1>7. rows = [r \in 1..Len(rows) |-> rows[r]]
  BY <1>5
<1>8. rows = f
  BY <1>6, <1>7
<1> QED
  BY <1>8 DEF f

LEMMA PaddingRead ==
  ASSUME Inv, TableInv, SentInv, Exact, phase = "filling", s > Len(streams),
         counts[1] = Len(table.rows) + 1
  PROVE  rows # NormalRows
<1>1. table \in Tables /\ DOMAIN streams = {1} /\ Len(table.rows) \in Nat /\ s # 1
  <2>1. Len(streams) = 1
    BY ExactTable
  <2>2. s # 1
    BY <2>1
  <2> QED
    BY <2>2, ExactTable
<1>2. DOMAIN counts = {1}
  BY <1>1 DEF Inv, TypesInv
<1> DEFINE n == Len(table.rows)
<1>3. RowsCounted = {1} \X (1..(n + 1))
  BY <1>2 DEF RowsCounted
<1>4. Cardinality(RowsCounted) = n + 1
  <2>1. n \in Nat
    BY <1>1
  <2> HIDE DEF n
  <2>2. IsFiniteSet(1..(n + 1)) /\ Cardinality(1..(n + 1)) = n + 1
    BY <2>1, FS_Interval
  <2>3. IsFiniteSet({1}) /\ Cardinality({1}) = 1
    BY FS_Singleton
  <2>4. Cardinality({1} \X (1..(n + 1))) = Cardinality({1}) * Cardinality(1..(n + 1))
    BY <2>2, <2>3, FS_Product
  <2> QED
    BY <1>3, <2>1, <2>2, <2>3, <2>4
<1>5. Len(rows) = n + 1
  <2>1. \A x : Pending(RowsCounted, s, x) = {}
    BY <1>1, NothingPending DEF Inv
  <2>2. Cardinality(Pending(RowsCounted, s, IF c > 0 THEN left + 1 ELSE left)) = 0
    BY <2>1, FS_EmptySet
  <2>3. Len(rows) + 0 = n + 1
    BY <1>4, <2>2 DEF Inv, CountsInv
  <2>4. Len(rows) \in Nat
    BY DEF Inv, TypesInv
  <2> QED
    BY <2>3, <2>4
<1>6. rows \in Seq(Seq(Cell)) /\ DOMAIN table.rows = 1..n
  BY <1>1, TablesAssumption DEF Inv, TypesInv
<1>7. DOMAIN rows = 1..(n + 1) /\ DOMAIN NormalRows = 1..n
  BY <1>5, <1>6 DEF NormalRows
<1>8. n + 1 \in 1..(n + 1) /\ n + 1 \notin 1..n
  BY <1>1
<1> QED
  BY <1>7, <1>8

LEMMA ExactReadKept ==
  Inv /\ TableInv /\ SentInv /\ ExactFillingInv /\ ExactReadInv /\ [Next]_vars => ExactReadInv'
<1> SUFFICES ASSUME Inv, TableInv, SentInv, ExactFillingInv, ExactReadInv, [Next]_vars,
                    Exact', phase' = "read"
             PROVE  ExactReadInv'
  BY DEF ExactReadInv
<1>1. CASE Return
  <2>1. /\ phase = "filling" /\ s > Len(streams)
        /\ UNCHANGED <<table, cols, streams, counts, widths, rows>>
    BY <1>1 DEF Return, input
  <2>2. Exact /\ (PaddingIsARow' <=> PaddingIsARow) /\ NormalRows' = NormalRows
    BY <2>1 DEF Exact, WrittenTable, null_flags_size, PaddingIsARow, NormalRows
  <2>3. WidthsOf(table', widths', Len(table'.rows) + 1, 0) /\ counts[1] = RowsAndPadding
    BY <2>1, <2>2 DEF ExactFillingInv
  <2>4. CASE ~PaddingIsARow
    <3>1. rows = NormalRows
      BY <2>1, <2>2, <2>4, ReadRows DEF NoSpare
    <3> QED
      BY <2>1, <2>2, <2>3, <2>4, <3>1 DEF ExactReadInv
  <2>5. CASE PaddingIsARow
    <3>1. counts[1] = Len(table.rows) + 1
      BY <2>3, <2>5 DEF RowsAndPadding
    <3>2. rows # NormalRows
      BY <2>1, <2>2, <3>1, PaddingRead
    <3> QED
      BY <2>1, <2>2, <2>3, <2>5, <3>2 DEF ExactReadInv
  <2> QED
    BY <2>4, <2>5
<1>2. CASE UNCHANGED vars
  BY <1>2 DEF vars, input, ExactReadInv, Exact, WrittenTable, null_flags_size, PaddingIsARow, NormalRows
<1>3. CASE ~Return /\ ~UNCHANGED vars
  BY <1>3 DEF Next, Throw, BeginRow, WriteFlags, WriteCell, CannotWrite, Transmit, BeginSizing, SizeCell,
         EndSizing, BeginFilling, BeginFillingRow, FillCell, CannotInsert, EndFilling
<1> QED
  BY <1>1, <1>2, <1>3

LEMMA LongestIsMax ==
  ASSUME NEW S, S \subseteq Nat, NEW x \in S, \A y \in S : y <= x
  PROVE  Max(S) = x
<1>1. \A y \in S : x >= y
  OBVIOUS
<1>2. PICK m : m = Max(S)
  OBVIOUS
<1>3. m \in S /\ \A y \in S : m >= y
  BY <1>1, <1>2 DEF Max
<1>4. m >= x /\ x >= m /\ m \in Nat /\ x \in Nat
  BY <1>1, <1>3
<1> QED
  BY <1>2, <1>4

LEMMA NormalLength ==
  ASSUME NEW cell \in Cell, NEW col
  PROVE  Len(Normal(cell, col).bytes) = Len(cell.bytes)
<1>1. cell.bytes \in Seq(Byte) /\ Len(cell.bytes) \in Nat
  BY CellFacts
<1>2. CASE col.type = "bool"
  <2> DEFINE f == [i \in DOMAIN cell.bytes |-> IF cell.bytes[i] \in Trues THEN 1 ELSE 0]
  <2>1. f \in [1..Len(cell.bytes) -> Byte]
    BY <1>1 DEF Byte
  <2>2. Len(f) = Len(cell.bytes)
    BY <1>1, <2>1, SomeBytes
  <2>3. Normal(cell, col) = [cell EXCEPT !.bytes = f]
    BY <1>2 DEF Normal
  <2> HIDE DEF f
  <2>4. Normal(cell, col) = [null |-> cell.null, bytes |-> f]
    BY <2>3, OtherBytes
  <2> QED
    BY <2>2, <2>4
<1>3. CASE col.type # "bool"
  BY <1>3 DEF Normal
<1> QED
  BY <1>2, <1>3

LEMMA WidthsRead ==
  ASSUME Inv, TableInv, SentInv, ExactReadInv
  PROVE  WidthsAreOfTheLongest
<1> SUFFICES ASSUME Exact, phase = "read", NEW k \in DOMAIN cols, cols[k].dyn
             PROVE  widths[k] = Max({1} \cup {Len(rows[r][k].bytes) \div SizeOf(cols[k].type) : r \in DOMAIN rows})
  BY DEF WidthsAreOfTheLongest, Exact
<1> DEFINE n == Len(table.rows)  size == SizeOf(cols[k].type)
           S == {1} \cup {Len(rows[r][k].bytes) \div size : r \in DOMAIN rows}
<1>1. /\ table \in Tables /\ cols = table.cols /\ n \in Nat /\ Len(cols) \in Nat
      /\ \A j \in 1..Len(cols) : widths[j] \in Nat
  BY ExactTable
<1>2. k \in 1..Len(cols) /\ DOMAIN table.rows = 1..n /\ k \in 1..Len(table.cols)
  BY <1>1, TablesAssumption
<1>3. ~PaddingIsARow
  <2>1. Len(cols) = 1 => k = 1
    BY <1>2
  <2> QED
    BY <2>1 DEF PaddingIsARow
<1>4. rows = NormalRows /\ WidthsOf(table, widths, n + 1, 0)
  BY <1>3 DEF ExactReadInv
<1>5. ASSUME NEW r \in 1..n
      PROVE  /\ Len(rows[r][k].bytes) \div size = LengthIn(table, r, k) /\ LengthIn(table, r, k) \in Nat
             /\ Before(r, k, n + 1, 0)
  <2> DEFINE cell == table.rows[r][k]
  <2>1. cell \in Cell /\ cols[k] \in Column /\ Fits(cell, cols[k], cols[k].width)
    BY <1>1, <1>2, TableFacts
  <2>2. rows[r][k] = Normal(cell, cols[k])
    BY <1>2, <1>4 DEF NormalRows
  <2>3. Len(rows[r][k].bytes) = Len(cell.bytes)
    BY <2>1, <2>2, NormalLength
  <2>4. LengthIn(table, r, k) = Len(cell.bytes) \div size
    BY <1>1 DEF LengthIn
  <2>5. Len(cell.bytes) \div size \in Nat
    <3>1. Len(cell.bytes) \div size \in 0..cols[k].width
      BY <2>1, CellLength
    <3> QED
      BY <2>1, <3>1, SizeOfType
  <2>6. Before(r, k, n + 1, 0)
    BY <1>1 DEF Before
  <2> QED
    BY <2>3, <2>4, <2>5, <2>6
<1>6. DOMAIN rows = 1..n
  BY <1>2, <1>4 DEF NormalRows
<1>7. S = {1} \cup {LengthIn(table, r, k) : r \in 1..n}
  BY <1>5, <1>6
<1> DEFINE x == widths[k]
<1>8. /\ x >= 1 /\ \A r \in 1..n : LengthIn(table, r, k) <= x
      /\ x = 1 \/ \E r \in 1..n : LengthIn(table, r, k) = x
  <2>1. WidthOf(table, widths, k, n + 1, 0)
    BY <1>1, <1>4 DEF WidthsOf
  <2> QED
    BY <1>1, <1>5, <2>1, Zenon DEF WidthOf
<1>9. x \in Nat
  BY <1>1, <1>2
<1> HIDE DEF x
<1>10. S \subseteq Nat
  BY <1>5, <1>7
<1>11. x \in S
  BY <1>7, <1>8
<1>12. \A y \in S : y <= x
  BY <1>7, <1>8, <1>9
<1> HIDE DEF S
<1>13. Max(S) = x
  BY <1>10, <1>11, <1>12, LongestIsMax
<1> QED
  BY <1>13 DEF S, x

----------------------------------------------------------------------------
\* The second pass over a table with flags to spare: what is equal to what was
\* read of it before it is zero, if everything before it is.
LEMMA Least ==
  ASSUME NEW S, S \subseteq Nat, S # {}
  PROVE  \E x \in S : \A y \in S : x <= y
<1> DEFINE R == OpToRel(<, Nat)
<1>1. IsWellFoundedOn(R, Nat)
  BY NatLessThanWellFounded
<1>2. PICK x \in S : \A y \in S : <<y, x>> \notin R
  BY <1>1, WFMin
<1>3. ASSUME NEW y \in S
      PROVE  x <= y
  <2>1. x \in Nat /\ y \in Nat
    OBVIOUS
  <2>2. ~(y < x)
    BY <1>2, <2>1 DEF OpToRel
  <2> QED
    BY <2>1, <2>2
<1> QED
  BY <1>3

LEMMA ZeroesRead ==
  ASSUME NEW bytes, NEW lo \in Nat, NEW p \in Nat, NEW z \in Nat, NEW len \in Nat, lo <= p, p < z,
         ZeroUpTo(bytes, lo, z), \A i \in 1..len : bytes[p + i] = bytes[z + i]
  PROVE  ZeroUpTo(bytes, lo, z + len)
<1> DEFINE S == {i \in 1..len : bytes[z + i] # 0}
<1>1. S = {}
  <2> SUFFICES ASSUME S # {}
               PROVE  FALSE
    OBVIOUS
  <2>1. S \subseteq Nat
    OBVIOUS
  <2>2. PICK i \in S : \A j \in S : i <= j
    BY <2>1, Least
  <2>3. i \in 1..len /\ bytes[z + i] # 0 /\ bytes[p + i] = bytes[z + i]
    BY <2>2
  <2>4. CASE p + i <= z
    <3>1. p + i \in (lo + 1)..z
      BY <2>3, <2>4
    <3> QED
      BY <2>3, <3>1 DEF ZeroUpTo
  <2>5. CASE p + i > z
    <3>1. PICK j \in 1..len : p + i = z + j /\ j < i
      <4>1. (p + i) - z \in 1..len /\ p + i = z + ((p + i) - z) /\ (p + i) - z < i
        BY <2>3, <2>5
      <4> QED
        BY <4>1
    <3>2. j \notin S
      BY <2>2, <2>3, <3>1
    <3> QED
      BY <2>3, <3>1, <3>2
  <2> QED
    BY <2>3, <2>4, <2>5
<1>2. ASSUME NEW i \in (lo + 1)..(z + len)
      PROVE  bytes[i] = 0
  <2>1. CASE i <= z
    <3>1. i \in (lo + 1)..z
      BY <2>1
    <3> QED
      BY <3>1 DEF ZeroUpTo
  <2>2. CASE i > z
    <3>1. PICK j \in 1..len : i = z + j
      <4>1. i - z \in 1..len /\ i = z + (i - z)
        BY <2>2
      <4> QED
        BY <4>1
    <3>2. j \notin S
      BY <1>1
    <3> QED
      BY <3>1, <3>2
  <2> QED
    BY <2>1, <2>2
<1> QED
  BY <1>2 DEF ZeroUpTo

LEMMA MoreZeroes ==
  ASSUME NEW bytes, NEW lo \in Nat, NEW z \in Nat, NEW len \in Nat,
         ZeroUpTo(bytes, lo, z), \A i \in 1..len : bytes[z + i] = 0
  PROVE  ZeroUpTo(bytes, lo, z + len)
<1>1. ASSUME NEW i \in (lo + 1)..(z + len)
      PROVE  bytes[i] = 0
  <2>1. CASE i <= z
    <3>1. i \in (lo + 1)..z
      BY <2>1
    <3> QED
      BY <3>1 DEF ZeroUpTo
  <2>2. CASE i > z
    <3>1. i - z \in 1..len /\ i = z + (i - z)
      BY <2>2
    <3> QED
      BY <3>1
  <2> QED
    BY <2>1, <2>2
<1> QED
  BY <1>1 DEF ZeroUpTo

LEMMA SameWord ==
  ASSUME NEW bytes \in Seq(Byte), NEW p \in Nat, NEW z \in Nat,
         p + WordBytes <= Len(bytes), z + WordBytes <= Len(bytes),
         big_dword(bytes, p) = big_dword(bytes, z)
  PROVE  \A i \in 1..WordBytes : bytes[p + i] = bytes[z + i]
<1> DEFINE a1 == bytes[p + 1]  a2 == bytes[p + 2]  a3 == bytes[p + 3]  a4 == bytes[p + 4]
           b1 == bytes[z + 1]  b2 == bytes[z + 2]  b3 == bytes[z + 3]  b4 == bytes[z + 4]
<1>1. ASSUME NEW q \in Nat, q + WordBytes <= Len(bytes), NEW i \in 1..4
      PROVE  bytes[q + i] \in Byte
  <2>1. q + i \in 1..Len(bytes)
    BY <1>1 DEF WordBytes
  <2> QED
    BY <2>1
<1>2. a1 \in Byte /\ a2 \in Byte /\ a3 \in Byte /\ a4 \in Byte
  BY <1>1
<1>3. b1 \in Byte /\ b2 \in Byte /\ b3 \in Byte /\ b4 \in Byte
  BY <1>1
<1>4. 16777216 * a1 + 65536 * a2 + 256 * a3 + a4 = 16777216 * b1 + 65536 * b2 + 256 * b3 + b4
  BY SMT DEF big_dword
<1> HIDE DEF a1, a2, a3, a4, b1, b2, b3, b4
<1>5. a1 = b1 /\ a2 = b2 /\ a3 = b3 /\ a4 = b4
  BY <1>2, <1>3, <1>4, SMTT(60) DEF Byte
<1>6. ASSUME NEW i \in 1..WordBytes
      PROVE  bytes[p + i] = bytes[z + i]
  <2>1. i \in {1, 2, 3, 4}
    BY SMT DEF WordBytes
  <2>2. CASE i = 1
    BY <1>5, <2>2, Zenon DEF a1, b1
  <2>3. CASE i = 2
    BY <1>5, <2>3, Zenon DEF a2, b2
  <2>4. CASE i = 3
    BY <1>5, <2>4, Zenon DEF a3, b3
  <2>5. CASE i = 4
    BY <1>5, <2>5, Zenon DEF a4, b4
  <2> QED
    BY <2>1, <2>2, <2>3, <2>4, <2>5
<1> QED
  BY <1>6

LEMMA WordOfZero == \A i \in 1..WordBytes : Word(0)[i] = 0
<1>1. /\ (0 \div 16777216) % 256 = 0 /\ (0 \div 65536) % 256 = 0 /\ (0 \div 256) % 256 = 0
      /\ 0 % 256 = 0
  BY SMT
<1>2. Word(0) = <<0, 0, 0, 0>>
  BY <1>1, SMT DEF Word
<1>3. ASSUME NEW i \in 1..WordBytes
      PROVE  Word(0)[i] = 0
  <2>1. i \in {1, 2, 3, 4}
    BY SMT DEF WordBytes
  <2> QED
    BY <1>2, <2>1
<1> QED
  BY <1>3

LEMMA LengthUInt32 ==
  ASSUME NEW t \in Tables, NEW r \in 1..Len(t.rows), NEW k \in 1..Len(t.cols)
  PROVE  IsUInt32(LengthIn(t, r, k))
<1> DEFINE n == LengthIn(t, r, k)  w == t.cols[k].width
<1>1. IsUInt32(w) /\ w \in Nat /\ n \in 0..w
  <2>1. t.rows[r][k] \in Cell /\ t.cols[k] \in Column /\ Fits(t.rows[r][k], t.cols[k], w) /\ IsUInt32(w)
    BY TableFacts
  <2> QED
    BY <2>1, CellLength, SizeOfType DEF LengthIn
<1> HIDE DEF n, w
<1> DEFINE a == n \div 16777216  b == w \div 16777216
<1>2. a \in Nat /\ a <= b
  BY <1>1, SMT
<1>3. b \in Byte
  BY <1>1, SMT DEF IsUInt32
<1> HIDE DEF a, b
<1>4. a \in Byte
  BY <1>2, <1>3 DEF Byte
<1> QED
  BY <1>4, SMT DEF a, n, IsUInt32

LEMMA SpareTable ==
  ASSUME Inv, TableInv, SentInv, Spare, phase = "filling"
  PROVE  /\ table \in Tables /\ cols = table.cols /\ Len(streams) = 1 /\ streams[1] \in Seq(Byte)
         /\ s \in Nat /\ s >= 1 /\ c \in 0..Len(cols) /\ Len(cols) \in Nat /\ Len(cols) >= 1
         /\ Len(table.rows) \in Nat /\ Len(rows) \in Nat /\ pos \in Nat /\ start \in Nat
         /\ null_flags_size \in Nat /\ null_flags_size >= 1 /\ Len(cols) <= 8 * null_flags_size
         /\ table.flagBytes \in Nat /\ table.flagBytes > null_flags_size
         /\ \E at : Sent(table, at, streams[1])
         /\ TypesInv /\ FillingInv
<1>1. table \in Tables /\ cols = table.cols /\ Len(streams) = 1 /\ \E at : Sent(table, at, streams[1])
  BY TheTable DEF Spare, SentInv
<1>2. TypesInv /\ FillingInv
  BY DEF Inv
<1>3. streams[1] \in Seq(Byte)
  <2>1. streams \in Seq(Seq(Byte))
    BY <1>2 DEF TypesInv
  <2> QED
    BY <1>1, <2>1
<1>4. Len(rows) \in Nat
  BY <1>2 DEF TypesInv
<1>5. null_flags_size \in Nat /\ null_flags_size >= 1 /\ Len(cols) <= 8 * null_flags_size
  BY <1>1, FlagsSize DEF null_flags_size
<1>6. Len(cols) \in Nat /\ Len(cols) >= 1 /\ Len(table.rows) \in Nat /\ table.flagBytes \in Nat
  BY <1>1, TableFacts
<1> QED
  BY <1>1, <1>2, <1>3, <1>4, <1>5, <1>6 DEF TypesInv, Spare

\* A cell that is read as the one that was written, from before it.
LEMMA SpareCell ==
  ASSUME Inv, TableInv, SentInv, Spare, phase = "filling", c > 0, s = 1, Inserts,
         NEW at, Sent(table, at, streams[1]), NEW r \in 1..Len(table.rows),
         pos >= null_flags_size, pos < at[r][c], CellRead = NormalRows[r][c]
  PROVE  /\ IsNull <=> table.rows[r][c].null
         /\ BehindCell \in Nat /\ BehindCell >= null_flags_size
         /\ BehindCell < After(table, at, r, c) /\ BehindCell <= Len(Stream)
         /\ ZeroUpTo(streams[1], null_flags_size, at[r][c]) =>
              ZeroUpTo(streams[1], null_flags_size, After(table, at, r, c))
<1> DEFINE cell == table.rows[r][c]  col == cols[c]  n == LengthIn(table, r, c)
           z == at[r][c]  q == After(table, at, r, c)  size == SizeOf(col.type)  lo == null_flags_size
<1>1. /\ table \in Tables /\ cols = table.cols /\ streams[1] \in Seq(Byte) /\ Stream = streams[1]
      /\ Len(cols) \in Nat /\ c \in 1..Len(cols) /\ Len(table.rows) \in Nat /\ pos \in Nat /\ lo \in Nat
      /\ TypesInv /\ FillingInv
  BY SpareTable DEF Stream
<1>2. cell \in Cell /\ col \in Column /\ Fits(cell, col, col.width) /\ IsUInt32(col.width)
  BY <1>1, TableFacts
<1>3. /\ z \in Nat /\ q \in Nat /\ q <= Len(Stream) /\ n \in Nat /\ Len(cell.bytes) = n * size
      /\ col.dyn => /\ z + WordBytes <= Len(Stream) /\ big_dword(Stream, z) = n
                    /\ \A i \in 1..WordBytes : Stream[z + i] = Word(n)[i]
                    /\ q = z + WordBytes + n * size
      /\ ~col.dyn => /\ q = z + col.width * size
                     /\ cell.null => \A i \in 1..(q - z) : Stream[z + i] = 0
                     /\ ~cell.null => /\ n = col.width
                                      /\ \A i \in 1..Len(cell.bytes) : Stream[z + i] = ElementsOf(cell, col)[i]
  <2> DEFINE d == table.cols[c]
  <2>1. /\ z \in Nat /\ q \in Nat /\ q <= Len(streams[1]) /\ n \in Nat /\ Len(cell.bytes) = n * SizeOf(d.type)
        /\ d.dyn => /\ z + WordBytes <= Len(streams[1]) /\ big_dword(streams[1], z) = n
                    /\ \A i \in 1..WordBytes : streams[1][z + i] = Word(n)[i]
                    /\ q = z + WordBytes + n * SizeOf(d.type)
        /\ ~d.dyn => /\ q = z + d.width * SizeOf(d.type)
                     /\ cell.null => \A i \in 1..(q - z) : streams[1][z + i] = 0
                     /\ ~cell.null => /\ n = d.width
                                      /\ \A i \in 1..Len(cell.bytes) :
                                           streams[1][z + i] = ElementsOf(cell, d)[i]
    <3>1. c \in 1..Len(table.cols)
      BY <1>1
    <3>2. CellSent(table, at, streams[1], r, c)
      BY <1>1, <3>1, SentCell
    <3> QED
      BY <3>2 DEF CellSent
  <2>2. d = col
    BY <1>1
  <2> HIDE DEF n, q, z, d, cell, col
  <2> QED
    BY <1>1, <2>1, <2>2
<1>12. pos >= lo /\ pos < z
  OBVIOUS
<1>4. size \in {1, 2} /\ col.width \in Nat /\ col.width >= 1 /\ cell.null \in BOOLEAN /\ col.dyn \in BOOLEAN
      /\ cell.bytes \in Seq(Byte) /\ Len(cell.bytes) \in Nat /\ col.type \in Types
  BY <1>2, SizeOfType, CellFacts
<1>5. CellRead = Normal(cell, col)
  <2>1. r \in DOMAIN table.rows /\ c \in DOMAIN cols
    BY <1>1, TablesAssumption
  <2> QED
    BY <2>1 DEF NormalRows
<1>6. /\ BehindCell \in Nat /\ BehindCell <= Len(Stream)
      /\ CellAt(cols, Stream, widths, start, c, pos, BehindCell)
  BY <1>1, CellAtWork
<1>7. cell.null => n = 0 /\ cell.bytes = <<>>
  <2>1. n = Len(cell.bytes) \div SizeOf(col.type)
    BY <1>1 DEF LengthIn
  <2> HIDE DEF n, cell, col
  <2> QED
    BY <1>2, <2>1, CellLength
<1>8. Normal(cell, col).null = cell.null
  <2>1. CASE col.type = "bool"
    BY <2>1, OtherBytes, <1>2 DEF Normal
  <2>2. CASE col.type # "bool"
    BY <2>2 DEF Normal
  <2> QED
    BY <2>1, <2>2
<1>9. IsNull <=> cell.null
  <2>1. CellRead.null = IF IsNull THEN TRUE ELSE FALSE
    BY DEF CellRead
  <2> QED
    BY <1>4, <1>5, <1>8, <2>1
<1>10. CASE IsNull
  <2>1. n = 0 /\ cell.bytes = <<>> /\ Len(cell.bytes) = 0
    BY <1>7, <1>9, <1>10
  <2>2. CASE col.dyn
    <3>1. BehindCell = pos + 4
      BY <1>10, <2>2 DEF BehindCell, WordBytes
    <3>2. q = z + 4
      <4> HIDE DEF n, q, z, size
      <4> QED
        BY <1>3, <1>4, <2>1, <2>2 DEF WordBytes
    <3>3. \A i \in 1..4 : Stream[z + i] = 0
      <4>1. \A i \in 1..WordBytes : Stream[z + i] = Word(n)[i]
        BY <1>3, <2>2
      <4>2. \A i \in 1..WordBytes : Word(n)[i] = 0
        BY <2>1, WordOfZero
      <4> HIDE DEF n, z
      <4> QED
        BY <4>1, <4>2 DEF WordBytes
    <3>4. ZeroUpTo(Stream, lo, z) => ZeroUpTo(Stream, lo, z + 4)
      BY <1>1, <1>3, <3>3, MoreZeroes
    <3>5. BehindCell >= lo /\ BehindCell < q
      <4>1. z \in Nat /\ lo \in Nat /\ pos \in Nat
        BY <1>1, <1>3
      <4> HIDE DEF q, z, lo
      <4> QED
        BY <1>12, <3>1, <3>2, <4>1
    <3> HIDE DEF q, z, lo
    <3> QED
      BY <1>1, <1>6, <1>9, <3>2, <3>4, <3>5 DEF q, z, lo
  <2>3. CASE ~col.dyn
    <3> DEFINE len == col.width * size
    <3>1. BehindCell = pos + len
      BY <1>6, <1>10, <2>3 DEF BehindCell, CellAt
    <3>2. q = z + len /\ len \in Nat
      BY <1>3, <1>4, <2>3
    <3>3. \A i \in 1..len : Stream[z + i] = 0
      <4> HIDE DEF q, z, len
      <4>1. q - z = len
        BY <1>3, <3>2
      <4> QED
        BY <1>3, <1>9, <1>10, <2>3, <4>1
    <3> HIDE DEF len
    <3>4. ZeroUpTo(Stream, lo, z) => ZeroUpTo(Stream, lo, z + len)
      BY <1>1, <1>3, <3>2, <3>3, MoreZeroes
    <3>5. BehindCell >= lo /\ BehindCell < q
      <4>1. z \in Nat /\ lo \in Nat /\ pos \in Nat
        BY <1>1, <1>3
      <4> HIDE DEF q, z, lo
      <4> QED
        BY <1>12, <3>1, <3>2, <4>1
    <3> HIDE DEF q, z, lo
    <3> QED
      BY <1>1, <1>6, <1>9, <3>2, <3>4, <3>5 DEF q, z, lo
  <2> QED
    BY <2>2, <2>3
<1>11. CASE ~IsNull
  <2>1. /\ Source \in Seq(Byte) /\ Len(Source) \in Nat /\ Len(Source) = Length * size
        /\ \A i \in 1..Len(Source) : Source[i] = Stream[First + i]
        /\ Length \in Nat /\ First \in Nat /\ BehindCell = First + Length * size
        /\ ~col.dyn => Length = col.width /\ First = pos
        /\ col.dyn => Length = WordAt(pos) /\ First = pos + WordBytes
    BY <1>1, <1>11, SourceBytes
  <2>2. ~cell.null
    BY <1>9, <1>11
  <2>3. Len(CellRead.bytes) = Len(Source)
    <3>1. CASE col.type = "bool"
      <4> DEFINE src == Source
                 f == [i \in DOMAIN src |-> IF src[i] \in Trues THEN 1 ELSE 0]
      <4>1. CellRead = [null |-> FALSE, bytes |-> f]
        BY <1>11, <3>1, Zenon DEF CellRead
      <4>2. src \in Seq(Byte) /\ Len(src) \in Nat
        BY <2>1
      <4> HIDE DEF src
      <4>3. f \in [1..Len(src) -> Byte]
        BY <4>2 DEF Byte
      <4>4. Len(f) = Len(src)
        BY <4>2, <4>3, SomeBytes
      <4> QED
        BY <4>1, <4>4 DEF src
    <3>2. CASE col.type # "bool"
      <4>1. CellRead = [null |-> FALSE, bytes |-> Source]
        BY <1>11, <3>2, Zenon DEF CellRead
      <4> QED
        BY <4>1
    <3> QED
      BY <3>1, <3>2
  <2>4. Len(Source) = Len(cell.bytes)
    <3>1. Len(Normal(cell, col).bytes) = Len(cell.bytes)
      BY <1>2, NormalLength
    <3> QED
      BY <1>5, <2>3, <3>1
  <2>5. Length * size = n * size
    BY <1>3, <2>1, <2>4
  <2>6. CASE col.dyn
    <3>1. Length = n
      <4> DEFINE a == Length
      <4>1. a \in Nat /\ n \in Nat /\ size \in {1, 2} /\ a * size = n * size
        BY <1>3, <1>4, <2>1, <2>5
      <4> HIDE DEF a, n, size
      <4>2. a = n
        <5>1. CASE size = 1
          BY <4>1, <5>1
        <5>2. CASE size = 2
          BY <4>1, <5>2
        <5> QED
          BY <4>1, <5>1, <5>2
      <4> QED
        BY <4>2 DEF a
    <3>2. BehindCell = pos + 4 + n * size /\ q = z + 4 + n * size
      BY <1>3, <2>1, <2>6, <3>1 DEF WordBytes
    <3>3. n * size \in Nat
      BY <1>3, <1>4
    <3>4. BehindCell >= lo /\ BehindCell < q
      <4> DEFINE x == n * size
      <4>1. BehindCell = pos + 4 + x /\ q = z + 4 + x /\ x \in Nat /\ z \in Nat /\ lo \in Nat
        BY <1>1, <1>3, <3>2, <3>3
      <4> HIDE DEF x, z, lo, q
      <4> QED
        BY <1>1, <1>12, <4>1
    <3>5. ASSUME ZeroUpTo(Stream, lo, z)
          PROVE  ZeroUpTo(Stream, lo, q)
      <4>1. big_dword(Stream, pos) = big_dword(Stream, z)
        BY <1>3, <2>1, <2>6, <3>1 DEF WordAt
      <4>2. pos + WordBytes <= Len(Stream)
        BY <1>1, <1>11, <2>6, ArrayAtWork DEF HasWord
      <4>3. \A i \in 1..WordBytes : Stream[pos + i] = Stream[z + i]
        <5>1. Stream \in Seq(Byte) /\ pos \in Nat /\ z \in Nat /\ z + WordBytes <= Len(Stream)
          BY <1>1, <1>3, <2>6
        <5> HIDE DEF z
        <5> QED
          BY <4>1, <4>2, <5>1, SameWord
      <4>4. ZeroUpTo(Stream, lo, z + 4)
        BY <1>1, <1>3, <3>5, <4>3, ZeroesRead DEF WordBytes
      <4>5. \A i \in 1..WordBytes : Word(n)[i] = 0
        <5>1. ASSUME NEW i \in 1..WordBytes
              PROVE  Word(n)[i] = 0
          <6>1. z + i \in (lo + 1)..(z + 4)
            <7>1. i \in 1..4 /\ z \in Nat /\ lo \in Nat
              BY <1>1, <1>3 DEF WordBytes
            <7> HIDE DEF z, lo
            <7> QED
              BY <1>1, <1>12, <7>1
          <6> QED
            BY <1>3, <2>6, <4>4, <6>1 DEF ZeroUpTo
        <5> QED
          BY <5>1
      <4>6. IsUInt32(n)
        BY <1>1, LengthUInt32
      <4>7. n = 0
        BY <1>3, <4>5, <4>6, ZeroWord
      <4>8. q = z + 4
        <5> HIDE DEF n, q, z, size
        <5> QED
          BY <1>3, <1>4, <3>2, <4>7
      <4> QED
        BY <4>4, <4>8
    <3> QED
      BY <1>1, <1>6, <1>9, <3>4, <3>5
  <2>7. CASE ~col.dyn
    <3> DEFINE len == Len(Source)
    <3>1. len \in Nat /\ len >= 1 /\ BehindCell = pos + len /\ q = z + len
      <4>1. len = col.width * size /\ BehindCell = pos + col.width * size /\ q = z + col.width * size
        BY <1>3, <2>1, <2>7
      <4>2. col.width * size >= 1
        BY <1>4
      <4> QED
        BY <2>1, <4>1, <4>2
    <3>2. \A i \in 1..len : Source[i] = Stream[pos + i]
      BY <2>1, <2>7
    <3>3. BehindCell >= lo /\ BehindCell < q
      <4>1. /\ BehindCell = pos + len /\ q = z + len /\ len \in Nat /\ len >= 1
            /\ z \in Nat /\ lo \in Nat /\ pos \in Nat
        BY <1>1, <1>3, <3>1
      <4> HIDE DEF len, z, lo, q
      <4> QED
        BY <1>12, <4>1
    <3>4. ASSUME ZeroUpTo(Stream, lo, z)
          PROVE  ZeroUpTo(Stream, lo, q)
      <4>1. CASE col.type = "bool"
        <5>1. ToSet(Source) \subseteq (Trues \cup Falses) \ {0, 1}
          BY <1>11, <4>1 DEF Inserts
        <5>2. Source[1] \in ToSet(Source)
          BY <2>1, <3>1 DEF ToSet
        <5>3. Source[1] = Stream[pos + 1]
          BY <3>1, <3>2
        <5>4. pos + 1 \in (lo + 1)..z
          <6> HIDE DEF z, lo
          <6> QED
            BY <1>1, <1>3 DEF z, lo
        <5>5. Stream[pos + 1] = 0
          BY <3>4, <5>4 DEF ZeroUpTo
        <5> QED
          BY <5>1, <5>2, <5>3, <5>5
      <4>2. CASE col.type # "bool"
        <5>1. CellRead = [null |-> FALSE, bytes |-> Source]
          BY <1>11, <4>2, Zenon DEF CellRead
        <5>2. Normal(cell, col) = cell
          BY <4>2 DEF Normal
        <5>6. CellRead.bytes = Source
          BY <5>1
        <5>7. ElementsOf(cell, col) = cell.bytes
          BY <4>2 DEF ElementsOf
        <5>3. Source = cell.bytes /\ ElementsOf(cell, col) = cell.bytes
          BY <1>5, <5>2, <5>6, <5>7
        <5>4. \A i \in 1..len : Stream[pos + i] = Stream[z + i]
          BY <1>3, <2>2, <2>7, <3>2, <5>3
        <5>5. ZeroUpTo(Stream, lo, z + len)
          <6> HIDE DEF len
          <6> QED
            BY <1>1, <1>3, <3>1, <3>4, <5>4, ZeroesRead
        <5> QED
          BY <3>1, <5>5
      <4> QED
        BY <4>1, <4>2
    <3> QED
      BY <1>1, <1>6, <1>9, <3>3, <3>4
  <2> QED
    BY <1>4, <2>6, <2>7
<1> QED
  BY <1>10, <1>11

LEMMA NoFlag ==
  ASSUME NEW S, NEW n \in Nat, NEW i \in 1..n, \A j \in 1..8 : 8 * (i - 1) + j \notin S
  PROVE  FlagsOf(S, n)[i] = 0
<1> DEFINE Flag(j) == IF BitsPerByte * (i - 1) + j \in S THEN 1 ELSE 0
<1>1. FlagsOf(S, n)[i] = 128 * Flag(1) + 64 * Flag(2) + 32 * Flag(3) + 16 * Flag(4)
                           + 8 * Flag(5) + 4 * Flag(6) + 2 * Flag(7) + Flag(8)
  BY DEF FlagsOf
<1>2. \A j \in 1..8 : Flag(j) = 0
  BY DEF BitsPerByte
<1> HIDE DEF Flag
<1>3. Flag(1) = 0 /\ Flag(2) = 0 /\ Flag(3) = 0 /\ Flag(4) = 0 /\ Flag(5) = 0 /\ Flag(6) = 0 /\ Flag(7) = 0 /\ Flag(8) = 0
  BY <1>2
<1> QED
  BY <1>1, <1>3

\* All the flags of a row without nulls are zero, and those to spare always.
LEMMA FlagsToSpare ==
  ASSUME NEW t \in Tables, NEW r, NEW i \in 1..t.flagBytes,
         i > bits_to_bytes(Len(t.cols)) \/ NullsOf(t, r) = {}
  PROVE  FlagsOf(NullsOf(t, r), t.flagBytes)[i] = 0
<1>1. /\ t.flagBytes \in Nat /\ Len(t.cols) \in Nat /\ DOMAIN t.cols = 1..Len(t.cols)
      /\ bits_to_bytes(Len(t.cols)) \in Nat /\ Len(t.cols) <= 8 * bits_to_bytes(Len(t.cols))
  BY TableFacts, FlagsSize
<1> DEFINE n == bits_to_bytes(Len(t.cols))  m == Len(t.cols)
<1>2. ASSUME NEW j \in 1..8
      PROVE  8 * (i - 1) + j \notin NullsOf(t, r)
  <2>1. CASE NullsOf(t, r) = {}
    BY <2>1
  <2>2. CASE i > n
    <3>1. n \in Nat /\ m \in Nat /\ m <= 8 * n /\ i \in Nat /\ i > n
      BY <1>1, <2>2
    <3> HIDE DEF n, m
    <3>2. ~(8 * (i - 1) + j <= m)
      BY <3>1
    <3>3. 8 * (i - 1) + j \notin 1..m
      BY <3>1, <3>2
    <3> QED
      BY <1>1, <3>3 DEF NullsOf, m
  <2> QED
    BY <2>1, <2>2
<1> QED
  BY <1>1, <1>2, NoFlag

\* Where the flags of a row are found before it, in zeroes, it has no nulls.
LEMMA NoNullsFound ==
  ASSUME NEW t \in Tables, NEW at, NEW bytes, Sent(t, at, bytes), NEW r \in 1..Len(t.rows),
         NEW lo \in Nat, NEW b \in Nat, lo <= b, b < at[r][0], ZeroUpTo(bytes, lo, at[r][0]),
         \A k \in 1..Len(t.cols) : t.rows[r][k].null <=> is_null_MSB(bytes, b, k)
  PROVE  NullsOf(t, r) = {}
<1> DEFINE S == NullsOf(t, r)  n == t.flagBytes  z == at[r][0]
<1> SUFFICES ASSUME S # {}
             PROVE  FALSE
  OBVIOUS
<1>1. /\ Len(t.cols) \in Nat /\ DOMAIN t.cols = 1..Len(t.cols) /\ n \in Nat /\ Len(t.cols) <= 8 * n
  BY TableFacts, FlagsSize
<1>2. z \in Nat /\ \A i \in 1..n : bytes[z + i] = FlagsOf(S, n)[i]
  BY SentFlags
<1>3. S \subseteq 1..Len(t.cols)
  BY <1>1 DEF NullsOf
<1>4. PICK k \in S : \A j \in S : k <= j
  BY <1>3, Least
<1>5. k \in 1..Len(t.cols) /\ k \in Nat /\ 1 <= k /\ k <= 8 * n /\ t.rows[r][k].null
  BY <1>1, <1>3, <1>4 DEF NullsOf
<1>6. is_null_MSB(bytes, b, k)
  BY <1>5
<1> DEFINE i == ByteOf(k)
<1>7. i \in 1..n /\ 8 * (i - 1) + 1 <= k
  BY <1>1, <1>5, SMT DEF ByteOf, BitsPerByte
<1> HIDE DEF i, S, n, z
<1>8. bytes[b + i] # 0
  <2>1. ASSUME bytes[b + i] = 0
        PROVE  ~is_null_MSB(bytes, b, k)
    <3> DEFINE d == Bit(k)
    <3>1. d \in {128, 64, 32, 16, 8, 4, 2, 1}
      <4> DEFINE j == ((k - 1) % BitsPerByte) + 1
      <4>1. j \in 1..8
        BY <1>5, SMT DEF BitsPerByte
      <4>2. d = <<128, 64, 32, 16, 8, 4, 2, 1>>[j]
        BY DEF Bit
      <4> HIDE DEF d, j
      <4> QED
        BY <4>1, <4>2
    <3> HIDE DEF d
    <3>2. (0 \div d) % 2 = 0
      BY <3>1
    <3> QED
      BY <2>1, <3>2 DEF is_null_MSB, d, i
  <2> QED
    BY <1>6, <2>1
<1>9. CASE b + i <= z
  <2>1. b + i \in (lo + 1)..z
    BY <1>1, <1>2, <1>7, <1>9
  <2>2. ZeroUpTo(bytes, lo, z)
    BY DEF z
  <2> QED
    BY <1>8, <2>1, <2>2 DEF ZeroUpTo
<1>10. CASE b + i > z
  <2>1. b < z
    BY DEF z
  <2>2. PICK j \in 1..n : b + i = z + j /\ j < i
    <3>1. (b + i) - z \in 1..n /\ b + i = z + ((b + i) - z) /\ (b + i) - z < i
      BY <1>1, <1>2, <1>7, <1>10, <2>1
    <3> QED
      BY <3>1
  <2>3. \A x \in 1..8 : 8 * (j - 1) + x \notin S
    <3>1. ASSUME NEW x \in 1..8, 8 * (j - 1) + x \in S
          PROVE  FALSE
      <4>1. k <= 8 * (j - 1) + x
        BY <1>4, <3>1 DEF S
      <4>2. i \in Nat /\ j \in Nat /\ j + 1 <= i /\ x \in 1..8
        BY <1>1, <1>7, <2>2
      <4>3. 8 * (j - 1) + x < 8 * (i - 1) + 1
        BY <4>2
      <4> QED
        BY <1>5, <1>7, <4>1, <4>2, <4>3
    <3> QED
      BY <3>1
  <2>4. FlagsOf(S, n)[j] = 0
    BY <1>1, <2>3, NoFlag
  <2>5. bytes[z + j] = 0
    BY <1>2, <2>4
  <2> QED
    BY <1>8, <2>2, <2>5
<1> QED
  <2>1. b + i \in Nat
    BY <1>1, <1>7
  <2> QED
    BY <1>2, <1>9, <1>10, <2>1

\* A table of zeroes only.
LEMMA ZeroTable ==
  ASSUME TableInv, WrittenTable, NEW at, NEW bytes \in Seq(Byte), Sent(table, at, bytes),
         null_flags_size <= table.flagBytes, ZeroUpTo(bytes, null_flags_size, EndOf(table, at))
  PROVE  AllZero
<1>1. table \in Tables /\ cols = table.cols
  BY TheTable
<1> DEFINE e == EndOf(table, at)  lo == null_flags_size
<1>2. e \in Nat /\ Pad(e) \in Nat /\ Len(bytes) = e + Pad(e) /\ \A i \in 1..Pad(e) : bytes[e + i] = 0
  <2>1. e \in Nat /\ Pad(e) \in 0..2
    BY <1>1, EndFacts
  <2>2. Len(bytes) = e + Pad(e) /\ \A i \in 1..Pad(e) : bytes[e + i] = 0
    BY DEF Sent
  <2> HIDE DEF e
  <2> QED
    BY <2>1, <2>2
<1>3. lo \in Nat /\ table.flagBytes \in Nat /\ lo <= table.flagBytes
  BY <1>1, FlagsSize, TableFacts DEF null_flags_size
<1>4. ZeroUpTo(bytes, lo, Len(bytes))
  <2>1. ZeroUpTo(bytes, lo, e + Pad(e))
    BY <1>2, <1>3, MoreZeroes
  <2> QED
    BY <1>2, <2>1
<1> HIDE DEF e, lo
<1>5. ASSUME NEW r \in 1..Len(table.rows), NEW k \in 1..Len(table.cols)
      PROVE  ToSet(table.rows[r][k].bytes) \subseteq {0}
  <2> DEFINE cell == table.rows[r][k]  col == table.cols[k]  p == at[r][k]  q == After(table, at, r, k)
             size == SizeOf(col.type)  n == LengthIn(table, r, k)
             f == IF col.dyn THEN p + WordBytes ELSE p
  <2>1. cell \in Cell /\ col \in Column /\ Fits(cell, col, col.width)
    BY <1>1, TableFacts
  <2>2. cell.bytes \in Seq(Byte) /\ Len(cell.bytes) \in Nat /\ cell.null \in BOOLEAN /\ col.dyn \in BOOLEAN
    BY <2>1, CellFacts, SizeOfType
  <2>3. CellSent(table, at, bytes, r, k)
    BY <1>1, SentCell
  <2>4. CASE cell.null
    <3>1. cell.bytes = <<>>
      BY <2>1, <2>4 DEF Fits
    <3> QED
      BY <3>1 DEF ToSet
  <2>5. CASE ~cell.null
    <3>1. /\ p \in Nat /\ q \in Nat /\ q <= Len(bytes) /\ p >= table.flagBytes
          /\ Len(cell.bytes) = n * size /\ n * size \in Nat
          /\ col.dyn => q = p + WordBytes + n * size
          /\ ~col.dyn => q = p + col.width * size /\ n = col.width
      BY <2>2, <2>3, <2>5 DEF CellSent
    <3>2. \A i \in 1..Len(cell.bytes) : bytes[f + i] = ElementsOf(cell, col)[i]
      BY <2>3, <2>5 DEF CellSent
    <3>3. f \in Nat /\ f >= lo /\ f + Len(cell.bytes) <= Len(bytes) /\ Len(bytes) \in Nat
      <4> DEFINE len == n * size
      <4>1. q = f + len /\ f >= p /\ f \in Nat
        <5>1. CASE col.dyn
          <6>1. f = p + 4 /\ q = p + 4 + len
            BY <3>1, <5>1 DEF WordBytes
          <6> HIDE DEF f, q, len, p
          <6> QED
            BY <3>1, <6>1 DEF len
        <5>2. CASE ~col.dyn
          BY <3>1, <5>2
        <5> QED
          BY <2>2, <5>1, <5>2
      <4>2. Len(cell.bytes) = len /\ q <= Len(bytes) /\ p >= table.flagBytes /\ p \in Nat
        BY <3>1
      <4>3. Len(bytes) \in Nat
        OBVIOUS
      <4> HIDE DEF f, q, len, p
      <4> QED
        BY <1>3, <4>1, <4>2, <4>3
    <3>4. ASSUME NEW i \in 1..Len(cell.bytes)
          PROVE  ElementsOf(cell, col)[i] = 0
      <4>1. f + i \in (lo + 1)..Len(bytes)
        <5> DEFINE len == Len(cell.bytes)
        <5>1. f \in Nat /\ f >= lo /\ f + len <= Len(bytes) /\ Len(bytes) \in Nat /\ i \in 1..len /\ len \in Nat
          BY <2>2, <3>3
        <5> HIDE DEF f, len
        <5> QED
          BY <1>3, <5>1
      <4>2. bytes[f + i] = 0
        BY <1>4, <4>1 DEF ZeroUpTo
      <4> QED
        BY <3>2, <4>2
    <3>5. ASSUME NEW i \in 1..Len(cell.bytes)
          PROVE  cell.bytes[i] = 0
      <4>1. CASE col.type = "bool"
        <5>1. ElementsOf(cell, col)[i] \in {48, 49}
          BY <2>2, <4>1 DEF ElementsOf
        <5> QED
          BY <3>4, <5>1
      <4>2. CASE col.type # "bool"
        BY <3>4, <4>2 DEF ElementsOf
      <4> QED
        BY <4>1, <4>2
    <3> QED
      BY <2>2, <3>5 DEF ToSet
  <2> QED
    BY <2>4, <2>5
<1>6. DOMAIN table.rows = 1..Len(table.rows) /\ DOMAIN cols = 1..Len(table.cols)
  BY <1>1, TablesAssumption
<1> QED
  BY <1>5, <1>6 DEF AllZero

----------------------------------------------------------------------------
\* The flags of a row are zero where no column has one: those to spare of the first
\* row, and all of a row without nulls.
LEMMA FlagsZero ==
  ASSUME NEW t \in Tables, NEW at, NEW bytes, Sent(t, at, bytes), NEW r \in 1..Len(t.rows),
         ZeroUpTo(bytes, bits_to_bytes(Len(t.cols)), at[r][0]), r = 1 \/ NullsOf(t, r) = {}
  PROVE  ZeroUpTo(bytes, bits_to_bytes(Len(t.cols)), at[r][1])
<1> DEFINE lo == bits_to_bytes(Len(t.cols))  n == t.flagBytes  z == at[r][0]
<1>1. /\ z \in Nat /\ at[r][1] = z + n /\ n \in Nat /\ lo \in Nat
      /\ \A i \in 1..n : bytes[z + i] = FlagsOf(NullsOf(t, r), n)[i]
  BY SentFlags, FlagsSize, TableFacts
<1>2. CASE NullsOf(t, r) = {}
  <2>1. \A i \in 1..n : bytes[z + i] = 0
    <3>1. ASSUME NEW i \in 1..n
          PROVE  bytes[z + i] = 0
      BY <1>1, <1>2, FlagsToSpare
    <3> QED
      BY <3>1
  <2> HIDE DEF n, z, lo
  <2>2. ZeroUpTo(bytes, lo, z)
    BY DEF lo, z
  <2>3. ZeroUpTo(bytes, lo, z + n)
    BY <1>1, <2>1, <2>2, MoreZeroes
  <2> QED
    BY <1>1, <2>3 DEF lo
<1>3. CASE r = 1
  <2>1. z = 0
    BY <1>3 DEF Sent, LaidOut
  <2>2. ASSUME NEW i \in (lo + 1)..(z + n)
        PROVE  bytes[i] = 0
    <3>1. i \in 1..n /\ i > lo /\ z + i = i
      <4> HIDE DEF n, z, lo
      <4> QED
        BY <1>1, <2>1
    <3>2. FlagsOf(NullsOf(t, r), n)[i] = 0
      BY <3>1, FlagsToSpare
    <3> QED
      BY <1>1, <3>1, <3>2
  <2> QED
    BY <1>1, <2>2 DEF ZeroUpTo
<1> QED
  BY <1>2, <1>3

LEMMA SpareStart == Inv /\ TableInv /\ SentInv /\ BeginFilling => SpareFillingInv'
<1> SUFFICES ASSUME Inv, TableInv, SentInv, BeginFilling, Spare'
             PROVE  SpareFillingInv'
  BY DEF SpareFillingInv
<1>1. /\ phase = "sizing" /\ s > Len(streams) /\ s' = 1
      /\ UNCHANGED <<table, cols, streams, c, pos, start, cells, rows>>
  BY DEF BeginFilling, input
<1>2. WrittenTable /\ null_flags_size' = null_flags_size
  BY <1>1 DEF Spare, WrittenTable, null_flags_size
<1>3. table \in Tables /\ cols = table.cols /\ Len(table.rows) \in Nat
  BY <1>2, TheTable, TableFacts
<1>4. Len(streams) = 1 /\ \E at : Sent(table, at, streams[1])
  BY <1>1, <1>2 DEF SentInv
<1>5. s \notin DOMAIN streams
  <2>1. streams \in Seq(Seq(Byte)) /\ s \in Nat
    BY DEF Inv, TypesInv
  <2> QED
    BY <1>1, <2>1
<1>6. c = 0 /\ pos = 0 /\ rows = <<>>
  <2>1. c \in 0..Len(cols) /\ Len(cols) \in Nat
    BY DEF Inv, TypesInv
  <2>2. c > 0 => s \in DOMAIN streams
    BY <1>1 DEF Inv, SizingInv
  <2>3. c = 0
    BY <1>5, <2>1, <2>2
  <2> QED
    BY <1>1, <1>5, <2>3 DEF Inv, SizingInv
<1>7. PICK at : Sent(table, at, streams[1])
  BY <1>4
<1>8. ZeroUpTo(streams[1], null_flags_size, at[1][0])
  <2>1. at[1][0] = 0 /\ null_flags_size \in Nat
    BY <1>3, <1>7, FlagsSize DEF Sent, LaidOut, null_flags_size
  <2>2. (null_flags_size + 1)..0 = {}
    BY <2>1
  <2> QED
    BY <2>1, <2>2 DEF ZeroUpTo
<1>9. Lagging(at, 1)'
  BY <1>1, <1>2, <1>6, <1>8 DEF Lagging
<1>10. Len(rows') = 0 /\ Len(rows') + 1 = 1
  BY <1>1, <1>6
<1>11. CASE Len(table.rows) > 0
  <2>1. Lagging(at, Len(rows) + 1)'
    BY <1>9, <1>10
  <2>2. s' = 1 /\ Len(rows') < Len(table'.rows) /\ Sent(table', at, streams'[1])
    BY <1>1, <1>7, <1>10, <1>11
  <2> QED
    BY <2>1, <2>2 DEF SpareFillingInv
<1>12. CASE Len(table.rows) = 0
  <2>1. DOMAIN table.rows = {}
    BY <1>3, <1>12, TablesAssumption
  <2>2. AllZero'
    BY <1>1, <2>1 DEF AllZero
  <2>3. ~(Len(rows') < Len(table'.rows))
    BY <1>1, <1>10, <1>12
  <2> QED
    BY <2>2, <2>3 DEF SpareFillingInv
<1> QED
  BY <1>3, <1>11, <1>12

LEMMA SpareRow == Inv /\ TableInv /\ SentInv /\ SpareFillingInv /\ BeginFillingRow => SpareFillingInv'
<1> SUFFICES ASSUME Inv, TableInv, SentInv, SpareFillingInv, BeginFillingRow, Spare'
             PROVE  SpareFillingInv'
  BY DEF SpareFillingInv
<1>1. /\ phase = "filling" /\ s <= Len(streams) /\ c = 0
      /\ start' = pos /\ pos' = pos + null_flags_size /\ c' = 1 /\ cells' = <<>>
      /\ rows' = rows /\ s' = s /\ UNCHANGED <<table, cols, streams>>
  BY DEF BeginFillingRow, BeginRow, input
<1>2. /\ Spare /\ null_flags_size' = null_flags_size /\ NormalRows' = NormalRows /\ (AllZero' <=> AllZero)
  BY <1>1 DEF Spare, WrittenTable, null_flags_size, NormalRows, AllZero
<1> DEFINE n == Len(table.rows)  lo == null_flags_size  fb == table.flagBytes
<1>3. /\ table \in Tables /\ cols = table.cols /\ n \in Nat /\ Len(rows) \in Nat /\ pos \in Nat
      /\ lo \in Nat /\ fb \in Nat /\ fb > lo
  BY <1>1, <1>2, SpareTable
<1>4. CASE ~(s = 1 /\ Len(rows) < n)
  BY <1>1, <1>2, <1>4 DEF SpareFillingInv
<1>5. CASE s = 1 /\ Len(rows) < n
  <2>1. PICK at : Sent(table, at, streams[1]) /\ (Matches(Len(rows) + 1, c) => Lagging(at, Len(rows) + 1))
    BY <1>1, <1>2, <1>5 DEF SpareFillingInv
  <2>2. PICK r : r = Len(rows) + 1
    OBVIOUS
  <2>3. r \in 1..n /\ r \in Nat /\ Len(rows) = r - 1
    BY <1>3, <1>5, <2>2
  <2>4. ASSUME Matches(r, 1)'
        PROVE  Lagging(at, r)'
    <3>1. Matches(r, c)
      <4>1. \A q \in 1..(r - 1) : rows[q] = NormalRows[q]
        BY <1>1, <1>2, <2>4 DEF Matches
      <4>2. 1..(c - 1) = {}
        BY <1>1
      <4> QED
        BY <2>3, <4>1, <4>2 DEF Matches
    <3>2. Lagging(at, r)
      BY <2>1, <2>2, <3>1
    <3>3. /\ ZeroUpTo(streams[1], lo, at[r][0])
          /\ IF r = 1 THEN pos = 0 ELSE pos >= lo /\ pos < at[r][0]
      BY <1>1, <3>2 DEF Lagging
    <3>4. at[r][0] \in Nat /\ at[r][1] = at[r][0] + fb
      BY <1>3, <2>1, <2>3, SentFlags
    <3>5. r = 1 => at[r][0] = 0
      BY <2>1 DEF Sent, LaidOut
    <3>6. pos + lo >= lo /\ pos + lo < at[r][1]
      <4> DEFINE z == at[r][0]  q == at[r][1]
      <4>1. z \in Nat /\ q = z + fb /\ (r = 1 => z = 0) /\ (IF r = 1 THEN pos = 0 ELSE pos >= lo /\ pos < z)
        BY <3>3, <3>4, <3>5
      <4> HIDE DEF z, q, lo, fb
      <4>2. pos + lo >= lo /\ pos + lo < q
        <5>1. CASE r = 1
          BY <1>3, <4>1, <5>1
        <5>2. CASE r # 1
          BY <1>3, <4>1, <5>2
        <5> QED
          BY <5>1, <5>2
      <4> QED
        BY <4>2 DEF q, lo
    <3>7. r = 1 \/ NullsOf(table, r) = {} => ZeroUpTo(streams[1], lo, at[r][1])
      BY <1>3, <2>1, <2>3, <3>3, FlagsZero DEF null_flags_size
    <3>8. 1..(c' - 1) = {} /\ c' = 1
      BY <1>1
    <3>9. Lagging(at, r)' <=>
            /\ ZeroUpTo(streams[1], lo, at[r][0])
            /\ IF r = 1 THEN pos = 0 ELSE pos >= lo /\ pos < at[r][0]
            /\ pos + lo >= lo /\ pos + lo < at[r][1]
            /\ r = 1 \/ NullsOf(table, r) = {} => ZeroUpTo(streams[1], lo, at[r][1])
      BY <1>1, <1>2, <3>8 DEF Lagging
    <3> QED
      BY <3>3, <3>6, <3>7, <3>9
  <2>5. Matches(Len(rows) + 1, c)' => Lagging(at, Len(rows) + 1)'
    <3>1. Len(rows') + 1 = r /\ c' = 1
      BY <1>1, <2>2
    <3> QED
      BY <2>4, <3>1
  <2>6. s' = 1 /\ Len(rows') < Len(table'.rows) /\ Sent(table', at, streams'[1])
    BY <1>1, <1>5, <2>1
  <2> QED
    BY <2>5, <2>6 DEF SpareFillingInv
<1> QED
  BY <1>4, <1>5

LEMMA SpareEnd == Inv /\ TableInv /\ SentInv /\ SpareFillingInv /\ EndFilling => SpareFillingInv'
<1> SUFFICES ASSUME Inv, TableInv, SentInv, SpareFillingInv, EndFilling, Spare'
             PROVE  SpareFillingInv'
  BY DEF SpareFillingInv
<1>1. /\ phase = "filling" /\ s' = s + 1 /\ rows' = rows /\ UNCHANGED <<table, cols>>
  BY DEF EndFilling, input
<1>2. /\ Spare /\ NormalRows' = NormalRows /\ (AllZero' <=> AllZero)
  BY <1>1 DEF Spare, WrittenTable, null_flags_size, NormalRows, AllZero
<1>3. table \in Tables /\ s \in Nat /\ s >= 1 /\ s' # 1 /\ Len(rows) \in Nat /\ Len(table.rows) \in Nat
  <2>1. table \in Tables /\ s \in Nat /\ s >= 1 /\ Len(rows) \in Nat /\ Len(table.rows) \in Nat
    BY <1>1, <1>2, SpareTable
  <2> QED
    BY <1>1, <2>1
<1>4. CASE Len(rows) < Len(table.rows)
  <2>1. DOMAIN NormalRows = 1..Len(table.rows)
    BY <1>3, TablesAssumption DEF NormalRows
  <2>2. DOMAIN rows = 1..Len(rows)
    BY DEF Inv, TypesInv
  <2>3. Len(table.rows) \in 1..Len(table.rows) /\ Len(table.rows) \notin 1..Len(rows)
    BY <1>3, <1>4
  <2>4. rows # NormalRows
    BY <2>1, <2>2, <2>3
  <2> QED
    BY <1>1, <1>2, <1>3, <2>4 DEF SpareFillingInv
<1>5. CASE ~(Len(rows) < Len(table.rows))
  BY <1>1, <1>2, <1>3, <1>5 DEF SpareFillingInv
<1> QED
  BY <1>4, <1>5

\* A cell that is read as it was written leaves the second pass behind, too, and
\* the row it ends has no nulls unless it is the first one.
LEMMA SpareCellFound ==
  ASSUME Inv, TableInv, SentInv, Spare, phase = "filling", c > 0, s = 1, Inserts,
         NEW at, Sent(table, at, streams[1]), NEW r \in 1..Len(table.rows), Lagging(at, r),
         CellRead = NormalRows[r][c]
  PROVE  /\ \A k \in 1..c : table.rows[r][k].null <=> is_null_MSB(streams[1], start, k)
         /\ BehindCell >= null_flags_size /\ BehindCell < After(table, at, r, c)
         /\ r = 1 \/ NullsOf(table, r) = {} =>
              ZeroUpTo(streams[1], null_flags_size, After(table, at, r, c))
         /\ LastColumn => ZeroUpTo(streams[1], null_flags_size, After(table, at, r, c))
<1> DEFINE lo == null_flags_size  m == Len(cols)
<1>1. /\ table \in Tables /\ cols = table.cols /\ m \in Nat /\ c \in 1..m /\ start \in Nat /\ lo \in Nat
  BY SpareTable
<1>2. /\ ZeroUpTo(streams[1], lo, at[r][0])
      /\ IF r = 1 THEN start = 0 ELSE start >= lo /\ start < at[r][0]
      /\ pos >= lo /\ pos < at[r][c]
      /\ \A k \in 1..(c - 1) : table.rows[r][k].null <=> is_null_MSB(streams[1], start, k)
      /\ r = 1 \/ NullsOf(table, r) = {} => ZeroUpTo(streams[1], lo, at[r][c])
  BY DEF Lagging
<1>3. /\ IsNull <=> table.rows[r][c].null
      /\ BehindCell >= lo /\ BehindCell < After(table, at, r, c)
      /\ ZeroUpTo(streams[1], lo, at[r][c]) => ZeroUpTo(streams[1], lo, After(table, at, r, c))
  BY <1>2, SpareCell
<1>4. ASSUME NEW k \in 1..c
      PROVE  table.rows[r][k].null <=> is_null_MSB(streams[1], start, k)
  <2>1. CASE k = c
    BY <1>3, <2>1 DEF IsNull, Stream
  <2>2. CASE k # c
    <3>1. k \in 1..(c - 1)
      BY <1>1, <2>2
    <3> QED
      BY <1>2, <3>1
  <2> QED
    BY <2>1, <2>2
<1>5. ASSUME LastColumn, r # 1
      PROVE  NullsOf(table, r) = {}
  <2>1. \A k \in 1..Len(table.cols) : table.rows[r][k].null <=> is_null_MSB(streams[1], start, k)
    BY <1>1, <1>4, <1>5 DEF LastColumn
  <2>2. lo <= start /\ start < at[r][0]
    BY <1>1, <1>2, <1>5
  <2> QED
    BY <1>1, <1>2, <2>1, <2>2, NoNullsFound
<1> QED
  BY <1>2, <1>3, <1>4, <1>5

LEMMA SpareFilled == Inv /\ TableInv /\ SentInv /\ SpareFillingInv /\ FillCell => SpareFillingInv'
<1> SUFFICES ASSUME Inv, TableInv, SentInv, SpareFillingInv, FillCell, Spare'
             PROVE  SpareFillingInv'
  BY DEF SpareFillingInv
<1>1. /\ phase = "filling" /\ c > 0 /\ Inserts /\ cells' = Append(cells, CellRead) /\ pos' = BehindCell
      /\ c' = (IF LastColumn THEN 0 ELSE c + 1)
      /\ rows' = (IF LastColumn /\ pos' <= Len(Stream) THEN Append(rows, cells') ELSE rows)
      /\ s' = s /\ start' = start /\ UNCHANGED <<table, cols, streams>>
  BY DEF FillCell, input
<1>2. /\ Spare /\ null_flags_size' = null_flags_size /\ NormalRows' = NormalRows /\ (AllZero' <=> AllZero)
  BY <1>1 DEF Spare, WrittenTable, null_flags_size, NormalRows, AllZero
<1> DEFINE n == Len(table.rows)  lo == null_flags_size  m == Len(cols)
<1>3. /\ table \in Tables /\ cols = table.cols /\ n \in Nat /\ Len(rows) \in Nat /\ pos \in Nat
      /\ lo \in Nat /\ m \in Nat /\ m >= 1 /\ c \in 1..m /\ s \in Nat /\ s >= 1 /\ Len(streams) = 1
      /\ streams[1] \in Seq(Byte) /\ table.flagBytes > lo /\ table.flagBytes \in Nat
  BY <1>1, <1>2, SpareTable
<1>4. s = 1 /\ Len(cells) = c - 1 /\ cells \in Seq(Cell) /\ rows \in Seq(Seq(Cell)) /\ cells' \in Seq(Cell)
  <2>1. s \in DOMAIN streams /\ Len(cells) = c - 1
    BY <1>1 DEF Inv, FillingInv, CellsInv
  <2>2. streams \in Seq(Seq(Byte)) /\ cells \in Seq(Cell) /\ rows \in Seq(Seq(Cell))
    BY DEF Inv, TypesInv
  <2>3. cells' \in Seq(Cell)
    BY FillCellKeeps DEF Inv, TypesInv
  <2> QED
    BY <1>3, <2>1, <2>2, <2>3
<1>5. DOMAIN NormalRows = 1..n /\ \A q \in 1..n : DOMAIN NormalRows[q] = 1..m
  <2>1. DOMAIN table.rows = 1..n /\ DOMAIN cols = 1..m
    BY <1>3, TablesAssumption
  <2> QED
    BY <2>1 DEF NormalRows
<1>6. BehindCell <= Len(Stream)
  BY <1>1, CellAtWork DEF Inv
<1>7. rows' = IF LastColumn THEN Append(rows, cells') ELSE rows
  BY <1>1, <1>6
<1>8. CASE ~(Len(rows) < n)
  <2>1. rows' = NormalRows => AllZero
    <3>1. CASE LastColumn
      <4>1. rows' = Append(rows, cells')
        BY <1>7, <3>1
      <4>2. Len(rows') = Len(rows) + 1 /\ rows' \in Seq(Seq(Cell))
        BY <1>4, <4>1
      <4>3. DOMAIN rows' = 1..(Len(rows) + 1)
        BY <4>2
      <4>4. Len(rows) + 1 \in 1..(Len(rows) + 1) /\ Len(rows) + 1 \notin 1..n
        BY <1>3, <1>8
      <4> QED
        BY <1>5, <4>3, <4>4
    <3>2. CASE ~LastColumn
      BY <1>1, <1>2, <1>7, <1>8, <3>2 DEF SpareFillingInv
    <3> QED
      BY <3>1, <3>2
  <2>2. ~(Len(rows') < n)
    BY <1>3, <1>4, <1>7, <1>8
  <2>3. ~(Len(rows') < Len(table'.rows))
    BY <1>1, <2>2
  <2> QED
    BY <1>2, <2>1, <2>3 DEF SpareFillingInv
<1>9. CASE Len(rows) < n
  <2>1. PICK at : Sent(table, at, streams[1]) /\ (Matches(Len(rows) + 1, c) => Lagging(at, Len(rows) + 1))
    BY <1>1, <1>2, <1>4, <1>9 DEF SpareFillingInv
  <2>2. PICK r : r = Len(rows) + 1
    OBVIOUS
  <2>3. r \in 1..n /\ r \in Nat /\ Len(rows) = r - 1
    BY <1>3, <1>9, <2>2
  <2> DEFINE q == After(table, at, r, c)
  <2>4. ASSUME \A i \in 1..(r - 1) : rows[i] = NormalRows[i],
               \A k \in 1..c : cells'[k] = NormalRows[r][k]
        PROVE  /\ \A k \in 1..c : table.rows[r][k].null <=> is_null_MSB(streams[1], start, k)
               /\ IF r = 1 THEN start = 0 ELSE start >= lo /\ start < at[r][0]
               /\ ZeroUpTo(streams[1], lo, at[r][0])
               /\ BehindCell >= lo /\ BehindCell < q
               /\ r = 1 \/ NullsOf(table, r) = {} => ZeroUpTo(streams[1], lo, q)
               /\ LastColumn => ZeroUpTo(streams[1], lo, q)
    <3>1. CellRead = NormalRows[r][c]
      <4>1. cells'[c] = CellRead
        BY <1>1, <1>3, <1>4
      <4> QED
        BY <1>3, <2>4, <4>1
    <3>2. \A k \in 1..(c - 1) : cells[k] = NormalRows[r][k]
      <4>1. ASSUME NEW k \in 1..(c - 1)
            PROVE  cells[k] = NormalRows[r][k]
        <5>1. k \in 1..c /\ k \in 1..Len(cells)
          BY <1>3, <1>4
        <5>2. cells'[k] = cells[k]
          BY <1>1, <1>4, <5>1
        <5> QED
          BY <2>4, <5>1, <5>2
      <4> QED
        BY <4>1
    <3>3. Lagging(at, r)
      BY <2>1, <2>2, <2>3, <2>4, <3>2 DEF Matches
    <3>4. /\ IF r = 1 THEN start = 0 ELSE start >= lo /\ start < at[r][0]
          /\ ZeroUpTo(streams[1], lo, at[r][0])
      BY <1>1, <3>3 DEF Lagging
    <3>5. /\ \A k \in 1..c : table.rows[r][k].null <=> is_null_MSB(streams[1], start, k)
          /\ BehindCell >= null_flags_size /\ BehindCell < After(table, at, r, c)
          /\ r = 1 \/ NullsOf(table, r) = {} =>
               ZeroUpTo(streams[1], null_flags_size, After(table, at, r, c))
          /\ LastColumn => ZeroUpTo(streams[1], null_flags_size, After(table, at, r, c))
      BY <1>1, <1>2, <1>4, <2>1, <2>3, <3>1, <3>3, SpareCellFound
    <3> QED
      BY <3>4, <3>5
  <2>5. CASE ~LastColumn
    <3>1. c' = c + 1 /\ rows' = rows /\ c' > 0 /\ c' - 1 = c /\ q = at[r][c + 1]
      BY <1>1, <1>3, <1>7, <2>5 DEF LastColumn, After
    <3>2. ASSUME Matches(r, c)'
          PROVE  Lagging(at, r)'
      <4>1. /\ \A i \in 1..(r - 1) : rows[i] = NormalRows[i]
            /\ \A k \in 1..c : cells'[k] = NormalRows[r][k]
        <5>1. \A k \in 1..(c' - 1) : cells'[k] = NormalRows'[r][k]
          BY <3>2 DEF Matches
        <5> QED
          BY <1>2, <3>1, <3>2, <5>1 DEF Matches
      <4>2. /\ \A k \in 1..c : table.rows[r][k].null <=> is_null_MSB(streams[1], start, k)
            /\ IF r = 1 THEN start = 0 ELSE start >= lo /\ start < at[r][0]
            /\ ZeroUpTo(streams[1], lo, at[r][0])
            /\ BehindCell >= lo /\ BehindCell < at[r][c + 1]
            /\ r = 1 \/ NullsOf(table, r) = {} => ZeroUpTo(streams[1], lo, at[r][c + 1])
        BY <2>4, <3>1, <4>1
      <4>3. c' # 0
        BY <3>1, <1>3
      <4> QED
        BY <1>1, <1>2, <3>1, <4>2, <4>3 DEF Lagging
    <3>3. Matches(Len(rows) + 1, c)' => Lagging(at, Len(rows) + 1)'
      <4>1. Len(rows') + 1 = r
        BY <2>2, <3>1
      <4> QED
        BY <3>2, <4>1
    <3>4. s' = 1 /\ Len(rows') < Len(table'.rows) /\ Sent(table', at, streams'[1])
      BY <1>1, <1>4, <1>9, <2>1, <3>1
    <3> QED
      BY <3>3, <3>4 DEF SpareFillingInv
  <2>6. CASE LastColumn
    <3>1. c' = 0 /\ rows' = Append(rows, cells') /\ c = m /\ q = at[r + 1][0]
      BY <1>1, <1>3, <1>7, <2>6 DEF LastColumn, After
    <3>2. Len(rows') = r /\ rows'[r] = cells' /\ \A i \in 1..(r - 1) : rows'[i] = rows[i]
      <4>1. Len(rows) + 1 = r
        BY <2>2
      <4> QED
        BY <1>4, <2>3, <3>1, <4>1
    <3>3. ASSUME \A i \in 1..r : rows'[i] = NormalRows[i]
          PROVE  BehindCell >= lo /\ BehindCell < q /\ ZeroUpTo(streams[1], lo, q)
      <4>1. \A i \in 1..(r - 1) : rows[i] = NormalRows[i]
        <5>1. \A i \in 1..(r - 1) : i \in 1..r
          BY <2>3
        <5> QED
          BY <3>2, <3>3, <5>1
      <4>2. cells' = NormalRows[r]
        <5>1. r \in 1..r
          BY <2>3
        <5> QED
          BY <3>2, <3>3, <5>1
      <4> QED
        BY <2>4, <2>6, <4>1, <4>2
    <3>4. CASE r < n
      <4>1. PICK x : x = r + 1
        OBVIOUS
      <4>2. x # 1 /\ x - 1 = r
        BY <2>3, <4>1
      <4>3. ASSUME Matches(x, 0)'
            PROVE  Lagging(at, x)'
        <5>1. \A i \in 1..r : rows'[i] = NormalRows[i]
          BY <1>2, <4>2, <4>3 DEF Matches
        <5>2. BehindCell >= lo /\ BehindCell < at[x][0] /\ ZeroUpTo(streams[1], lo, at[x][0])
          BY <3>1, <3>3, <4>1, <5>1
        <5> QED
          BY <1>1, <1>2, <3>1, <4>2, <5>2 DEF Lagging
      <4>4. Matches(Len(rows) + 1, c)' => Lagging(at, Len(rows) + 1)'
        <5>1. Len(rows') + 1 = x
          BY <3>2, <4>1
        <5> QED
          BY <3>1, <4>3, <5>1
      <4>5. s' = 1 /\ Len(rows') < Len(table'.rows) /\ Sent(table', at, streams'[1])
        BY <1>1, <1>4, <2>1, <3>2, <3>4
      <4> QED
        BY <4>4, <4>5 DEF SpareFillingInv
    <3>5. CASE ~(r < n)
      <4>1. r = n
        BY <1>3, <2>3, <3>5
      <4>2. ASSUME rows' = NormalRows
            PROVE  AllZero
        <5>1. ZeroUpTo(streams[1], lo, EndOf(table, at))
          BY <3>1, <3>3, <4>1, <4>2 DEF EndOf
        <5>2. lo <= table.flagBytes
          BY <1>3
        <5> QED
          BY <1>2, <1>3, <2>1, <5>1, <5>2, ZeroTable DEF Spare
      <4>3. ~(Len(rows') < Len(table'.rows))
        BY <1>1, <3>2, <3>5
      <4> QED
        BY <1>2, <4>2, <4>3 DEF SpareFillingInv
    <3> QED
      BY <3>4, <3>5
  <2> QED
    BY <2>5, <2>6
<1> QED
  BY <1>3, <1>8, <1>9

LEMMA SpareFillingKept ==
  Inv /\ TableInv /\ SentInv /\ SpareFillingInv /\ [Next]_vars => SpareFillingInv'
<1> SUFFICES ASSUME Inv, TableInv, SentInv, SpareFillingInv, [Next]_vars,
                    ~BeginFilling, ~BeginFillingRow, ~FillCell, ~EndFilling
             PROVE  SpareFillingInv'
  BY SpareStart, SpareRow, SpareFilled, SpareEnd
<1>1. phase' # "filling" \/ UNCHANGED vars
  BY DEF Next, Throw, BeginRow, WriteFlags, WriteCell, CannotWrite, Transmit, BeginSizing, SizeCell,
         EndSizing, CannotInsert, Return
<1>2. CASE UNCHANGED vars
  <2>1. UNCHANGED <<table, cols, streams, phase, rows, s, c, pos, start, cells>>
    BY <1>2 DEF vars, input, place
  <2>2. (Spare' <=> Spare) /\ null_flags_size' = null_flags_size /\ NormalRows' = NormalRows
        /\ (AllZero' <=> AllZero)
    BY <2>1 DEF Spare, WrittenTable, null_flags_size, NormalRows, AllZero
  <2>3. PICK r : r = Len(rows) + 1
    OBVIOUS
  <2>4. (Matches(r, c)' <=> Matches(r, c)) /\ Len(rows') + 1 = r
    BY <2>1, <2>2, <2>3 DEF Matches
  <2>5. ASSUME NEW at, Lagging(at, r)
        PROVE  Lagging(at, r)'
    BY <2>1, <2>2, <2>5 DEF Lagging
  <2>6. CASE phase = "filling" /\ Spare /\ s = 1 /\ Len(rows) < Len(table.rows)
    <3>1. PICK at : Sent(table, at, streams[1]) /\ (Matches(r, c) => Lagging(at, r))
      BY <2>3, <2>6 DEF SpareFillingInv
    <3>2. Matches(Len(rows) + 1, c)' => Lagging(at, Len(rows) + 1)'
      BY <2>4, <2>5, <3>1
    <3> QED
      BY <2>1, <2>6, <3>1, <3>2 DEF SpareFillingInv
  <2>7. CASE ~(phase = "filling" /\ Spare /\ s = 1 /\ Len(rows) < Len(table.rows))
    BY <2>1, <2>2, <2>7 DEF SpareFillingInv
  <2> QED
    BY <2>6, <2>7
<1> QED
  BY <1>1, <1>2 DEF SpareFillingInv

LEMMA SpareReadKept ==
  Inv /\ TableInv /\ SentInv /\ SpareFillingInv /\ SpareReadInv /\ [Next]_vars => SpareReadInv'
<1> SUFFICES ASSUME Inv, TableInv, SentInv, SpareFillingInv, SpareReadInv, [Next]_vars,
                    Spare', phase' = "read"
             PROVE  SpareReadInv'
  BY DEF SpareReadInv
<1>1. CASE Return
  <2>1. phase = "filling" /\ s > Len(streams) /\ UNCHANGED <<table, cols, rows>>
    BY <1>1 DEF Return, input
  <2>2. Spare /\ NormalRows' = NormalRows /\ (AllZero' <=> AllZero)
    BY <2>1 DEF Spare, WrittenTable, null_flags_size, NormalRows, AllZero
  <2>3. s # 1
    <3>1. Len(streams) = 1
      BY <2>1, <2>2, SpareTable
    <3> QED
      BY <2>1, <3>1
  <2> QED
    BY <2>1, <2>2, <2>3 DEF SpareFillingInv, SpareReadInv
<1>2. CASE UNCHANGED vars
  <2>1. UNCHANGED <<table, cols, phase, rows>>
    BY <1>2 DEF vars, input
  <2>2. Spare /\ NormalRows' = NormalRows /\ (AllZero' <=> AllZero)
    BY <2>1 DEF Spare, WrittenTable, null_flags_size, NormalRows, AllZero
  <2> QED
    BY <2>1, <2>2 DEF SpareReadInv
<1>3. CASE ~Return /\ ~UNCHANGED vars
  BY <1>3 DEF Next, Throw, BeginRow, WriteFlags, WriteCell, CannotWrite, Transmit, BeginSizing, SizeCell,
         EndSizing, BeginFilling, BeginFillingRow, FillCell, CannotInsert, EndFilling
<1> QED
  BY <1>1, <1>2, <1>3

----------------------------------------------------------------------------
\* What is written, what is found by the two passes over it, and what is read.
ReadBackInv ==
  /\ TableInv /\ WrittenInv /\ SentInv /\ FailedInv
  /\ ExactSizingInv /\ ExactFillingInv /\ ExactReadInv
  /\ SpareFillingInv /\ SpareReadInv

LEMMA ReadBackInit == Init => ReadBackInv
<1> SUFFICES ASSUME Init PROVE ReadBackInv
  OBVIOUS
<1>1. (phase = "writing" /\ table \in Tables /\ cols = table.cols) \/ (phase = "sizing" /\ table = NoTable)
  BY DEF Init
<1>2. TableInv
  <2>1. \A k \in DOMAIN cols : widths[k] = 1
    BY DEF Init
  <2> QED
    BY <1>1, <2>1 DEF TableInv
<1>3. WrittenInv
  BY <1>1, WrittenInit
<1>4. phase = "writing" \/ ~WrittenTable
  BY <1>1 DEF WrittenTable
<1> QED
  BY <1>2, <1>3, <1>4 DEF ReadBackInv, SentInv, FailedInv, ExactSizingInv, ExactFillingInv, ExactReadInv,
                          SpareFillingInv, SpareReadInv, Exact, Spare

LEMMA ReadBackKept == Inv /\ ReadBackInv /\ [Next]_vars => ReadBackInv'
<1> SUFFICES ASSUME Inv, ReadBackInv, [Next]_vars PROVE ReadBackInv'
  OBVIOUS
<1>1. TableInv' /\ WrittenInv' /\ SentInv'
  BY TableKept, WrittenKept, SentKept DEF ReadBackInv
<1>2. FailedInv'
  BY FailedKept DEF ReadBackInv
<1>3. ExactSizingInv' /\ ExactFillingInv' /\ ExactReadInv'
  BY ExactSizingKept, ExactFillingKept, ExactReadKept DEF ReadBackInv
<1>4. SpareFillingInv' /\ SpareReadInv'
  BY SpareFillingKept, SpareReadKept DEF ReadBackInv
<1> QED
  BY <1>1, <1>2, <1>3, <1>4 DEF ReadBackInv

\* Of any table: what write_binary2() has written and read_binary2() reads again is
\* the table exactly if every cell can be written, column 0 is as wide as the null
\* flags are and the padding of the stream is not read as one more row.
THEOREM ReadBack == Spec => []ReadBackExactlyIfReadable
<1>1. Inv /\ ReadBackInv => ReadBackExactlyIfReadable
  <2> SUFFICES ASSUME Inv, ReadBackInv, WrittenTable, phase \in {"read", "failed"},
                      table.flagBytes > null_flags_size => ~AllZero
               PROVE  /\ phase = "read"
                      /\ rows = NormalRows
                      <=>
                      /\ AllWritable
                      /\ table.flagBytes = null_flags_size
                      /\ ~PaddingIsARow
    BY DEF ReadBackExactlyIfReadable
  <2>1. CASE phase = "failed"
    BY <2>1 DEF ReadBackInv, FailedInv
  <2>2. CASE phase = "read"
    <3>1. AllWritable
      <4>1. PICK at : Sent(table, at, streams[1])
        BY <2>2 DEF ReadBackInv, SentInv
      <4> QED
        BY <4>1, SentWritable DEF ReadBackInv
    <3>2. CASE table.flagBytes = null_flags_size
      BY <2>2, <3>1, <3>2 DEF ReadBackInv, ExactReadInv, Exact
    <3>3. CASE table.flagBytes # null_flags_size
      <4>1. table.flagBytes > null_flags_size
        <5>1. table \in Tables /\ cols = table.cols
          BY TheTable DEF ReadBackInv
        <5>2. table.flagBytes \in Nat /\ null_flags_size \in Nat /\ table.flagBytes >= null_flags_size
          BY <5>1, TableFacts, FlagsSize DEF null_flags_size
        <5> QED
          BY <3>3, <5>2
      <4> QED
        BY <2>2, <3>3, <4>1 DEF ReadBackInv, SpareReadInv, Spare
    <3> QED
      BY <3>2, <3>3
  <2> QED
    BY <2>1, <2>2
<1> QED
  BY <1>1, Invariance, ReadBackInit, ReadBackKept, PTL DEF Spec

\* Of any table without flags to spare: compute_column_array_sizes() makes a column
\* of variable length as wide as the longest array that is read of it, and at
\* least one element wide.
THEOREM WidthsFound == Spec => []WidthsAreOfTheLongest
<1>1. Inv /\ ReadBackInv => WidthsAreOfTheLongest
  BY WidthsRead DEF ReadBackInv
<1> QED
  BY <1>1, Invariance, ReadBackInit, ReadBackKept, PTL DEF Spec
=============================================================================
