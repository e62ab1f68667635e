-------------------------- MODULE TableOps_proofs ---------------------------
(***************************************************************************)
(* The tables the command-line program makes, for every set of operands      *)
(* with well-placed flags: each table is sound, row by row.  Then those that  *)
(* a client can make of any tables and of one another: each is well formed,  *)
(* and what becomes of its flags and lengths.                                *)
(***************************************************************************)
EXTENDS TableOps, FiniteSetTheorems, SequenceTheorems, WellFoundedInduction, TLAPS

\* A well-formed table whose null flags are right, with none behind its columns.
Sound(t) ==
  /\ WellFormed(t)
  /\ \A r \in DOMAIN t.rows :
       FlagsRight(t.rows[r]) /\ t.rows[r].bits \subseteq 0..(Len(t.cols) - 1)

\* What every reader of text guarantees: set_column_info(), read_ipac_table()
\* and read_tabledata() all round the number of columns up to bytes, and set no
\* flags but those of columns.
ReaderTables == \A t \in Sources : Sound(t) /\ ~Padded(t)

SoundRow(row, cols) ==
  /\ row \in RowOfTable
  /\ row.bits \subseteq 0..(Len(cols) - 1)
  /\ Len(row.cells) = Len(cols)
  /\ FlagsRight(row)

LEMMA SoundRows ==
  ASSUME NEW t, Sound(t), NEW r \in DOMAIN t.rows
  PROVE  SoundRow(t.rows[r], t.cols) /\ t.cols \in Seq(Column)
<1>1. t \in Table /\ t.rows \in Seq(RowOfTable) /\ t.cols \in Seq(Column)
  BY DEF Sound, WellFormed, Table
<1>2. t.rows[r] \in RowOfTable
  BY <1>1
<1> QED
  BY <1>1, <1>2 DEF Sound, WellFormed, SoundRow

LEMMA Appended ==
  ASSUME NEW S, NEW seq \in Seq(S), NEW e \in S
  PROVE  /\ Append(seq, e) \in Seq(S) /\ Len(Append(seq, e)) = Len(seq) + 1
         /\ Append(seq, e)[Len(seq) + 1] = e
         /\ \A i \in 1..Len(seq) : Append(seq, e)[i] = seq[i]
BY AppendProperties

\* Flag b of the second table goes right behind the columns of the first.
LEMMA PlaceBehindColumns ==
  ASSUME NEW t, WellFormed(t), ~Padded(t), NEW b \in Nat
  PROVE  PlaceOfFlag(t, b) = Len(t.cols) + b
<1>1. /\ t.flagBytes \in Nat /\ t.cols \in Seq(Column) /\ Len(t.cols) \in Nat
      /\ 8 * t.flagBytes >= Len(t.cols)
  BY DEF WellFormed, Table, BitsPerByte
<1>2. CASE Len(t.cols) % 8 = 0
  <2>1. ~(t.flagBytes > Len(t.cols) \div 8)
    BY <1>2 DEF Padded, BitsPerByte
  <2>2. 8 * t.flagBytes = Len(t.cols)
    <3> DEFINE n == Len(t.cols)
               f == t.flagBytes
    <3> HIDE DEF n, f
    <3>1. n \in Nat /\ f \in Nat /\ 8 * f >= n /\ n % 8 = 0 /\ ~(f > n \div 8)
      BY <1>1, <1>2, <2>1 DEF n, f
    <3>2. n = 8 * (n \div 8) + (n % 8)
      BY <3>1
    <3>3. n \div 8 \in Nat
      BY <3>1
    <3>4. 8 * f = n
      BY <3>1, <3>2, <3>3
    <3> QED
      BY <3>4 DEF n, f
  <2> QED
    BY <1>1, <1>2, <2>2 DEF PlaceOfFlag, BitsPerByte
<1>3. CASE Len(t.cols) % 8 # 0
  BY <1>3 DEF PlaceOfFlag, BitsPerByte
<1> QED
  BY <1>2, <1>3

\* The constructor's flags have room for all columns.
LEMMA FlagsFit ==
  ASSUME NEW cols \in Seq(Column)
  PROVE  FlagBytesFor(cols) \in Nat /\ 8 * FlagBytesFor(cols) > Len(cols)
<1>1. Len(cols) \in Nat
  OBVIOUS
<1> QED
  BY <1>1 DEF FlagBytesFor, bits_to_bytes, BitsPerByte

\* The row combine_data_details() makes of two sound rows is sound.
LEMMA CombinedRowSound ==
  ASSUME NEW t1, NEW t2, Sound(t1), Sound(t2), ~Padded(t1), NEW d,
         d.flagBytes = FlagBytesFor(t1.cols \o t2.cols),
         NEW r \in DOMAIN t1.rows, r \in DOMAIN t2.rows,
         NEW s \in Seq(Nat)
  PROVE  SoundRow([bits  |-> CombinedFlags(t1, t2, d, r),
                   cells |-> t1.rows[r].cells \o t2.rows[r].cells,
                   sizes |-> s], t1.cols \o t2.cols)
<1> DEFINE n1 == Len(t1.cols)
           n2 == Len(t2.cols)
           b1 == t1.rows[r].bits
           b2 == t2.rows[r].bits
           c1 == t1.rows[r].cells
           c2 == t2.rows[r].cells
           cols == t1.cols \o t2.cols
<1>1. /\ SoundRow(t1.rows[r], t1.cols) /\ t1.cols \in Seq(Column)
      /\ SoundRow(t2.rows[r], t2.cols) /\ t2.cols \in Seq(Column)
  BY SoundRows
<1> HIDE DEF n1, n2, b1, b2, c1, c2, cols
<1>2. /\ b1 \subseteq 0..(n1 - 1) /\ b2 \subseteq 0..(n2 - 1)
      /\ c1 \in Seq(Cell) /\ c2 \in Seq(Cell) /\ Len(c1) = n1 /\ Len(c2) = n2
      /\ n1 \in Nat /\ n2 \in Nat
      /\ \A c \in 1..n1 : (c - 1) \in b1 <=> c1[c].null
      /\ \A c \in 1..n2 : (c - 1) \in b2 <=> c2[c].null
  <2>1. ASSUME NEW t, NEW row, SoundRow(row, t.cols), t.cols \in Seq(Column)
        PROVE  /\ row.bits \subseteq 0..(Len(t.cols) - 1) /\ row.cells \in Seq(Cell)
               /\ Len(row.cells) = Len(t.cols) /\ Len(t.cols) \in Nat
               /\ \A c \in 1..Len(t.cols) : (c - 1) \in row.bits <=> row.cells[c].null
    <3>1. row.cells \in Seq(Cell) /\ Len(row.cells) = Len(t.cols) /\ FlagsRight(row)
          /\ row.bits \subseteq 0..(Len(t.cols) - 1)
      BY <2>1 DEF SoundRow, RowOfTable
    <3>2. DOMAIN row.cells = 1..Len(t.cols)
      BY <3>1
    <3> QED
      BY <2>1, <3>1, <3>2 DEF FlagsRight
  <2> QED
    BY <1>1, <2>1 DEF n1, n2, b1, b2, c1, c2
<1>3. cols \in Seq(Column) /\ Len(cols) = n1 + n2
  BY <1>1, ConcatProperties DEF n1, n2, cols
<1>4. d.flagBytes \in Nat /\ 8 * d.flagBytes > n1 + n2
  BY <1>3, FlagsFit DEF cols
<1>5. \A x \in b2 : PlaceOfFlag(t1, x) = n1 + x
  <2>1. b2 \subseteq Nat
    BY <1>2
  <2> QED
    BY <2>1, PlaceBehindColumns DEF Sound, n1
<1>6. CombinedFlags(t1, t2, d, r) = b1 \cup {n1 + x : x \in b2}
  <2>0. FlagsToCopy(t1, t2, r) = b2
    <3>1. \A x \in b2 : x < n2
      BY <1>2
    <3> QED
      BY <3>1 DEF FlagsToCopy, b2, n2
  <2>1. CombinedFlags(t1, t2, d, r) =
          {b \in b1 \cup {n1 + x : x \in b2} : b < 8 * d.flagBytes}
    BY <1>5, <2>0 DEF CombinedFlags, Within, BitsPerByte, b1, b2
  <2>2. \A b \in b1 \cup {n1 + x : x \in b2} : b < 8 * d.flagBytes
    BY <1>2, <1>4
  <2> QED
    BY <2>1, <2>2
<1>7. b1 \cup {n1 + x : x \in b2} \subseteq 0..(n1 + n2 - 1)
  <2>1. \A b \in b1 : b \in 0..(n1 + n2 - 1)
    BY <1>2
  <2>2. \A x \in b2 : n1 + x \in 0..(n1 + n2 - 1)
    BY <1>2
  <2> QED
    BY <2>1, <2>2
<1>8. /\ c1 \o c2 \in Seq(Cell) /\ Len(c1 \o c2) = n1 + n2
      /\ \A c \in 1..(n1 + n2) : (c1 \o c2)[c] = IF c <= n1 THEN c1[c] ELSE c2[c - n1]
  BY <1>2, ConcatProperties
<1>9. ASSUME NEW c \in 1..(n1 + n2)
      PROVE  (c - 1) \in b1 \cup {n1 + x : x \in b2} <=> (c1 \o c2)[c].null
  <2>1. CASE c <= n1
    <3>1. (c - 1) \notin {n1 + x : x \in b2}
      BY <1>2, <2>1
    <3>2. (c1 \o c2)[c] = c1[c] /\ c \in 1..n1
      BY <1>2, <1>8, <2>1
    <3> QED
      BY <1>2, <3>1, <3>2
  <2>2. CASE ~(c <= n1)
    <3>1. (c - 1) \notin b1 /\ c - n1 \in 1..n2
      BY <1>2, <2>2
    <3>2. (c - 1) \in {n1 + x : x \in b2} <=> (c - n1 - 1) \in b2
      BY <1>2, <2>2
    <3>3. (c1 \o c2)[c] = c2[c - n1]
      BY <1>8, <2>2
    <3>4. (c - n1 - 1) \in b2 <=> c2[c - n1].null
      BY <1>2, <3>1
    <3> QED
      BY <3>1, <3>2, <3>3, <3>4
  <2> QED
    BY <2>1, <2>2
<1> DEFINE row == [bits |-> CombinedFlags(t1, t2, d, r), cells |-> c1 \o c2, sizes |-> s]
<1>10. row \in RowOfTable
  <2>1. CombinedFlags(t1, t2, d, r) \subseteq Nat
    BY <1>2, <1>6, <1>7
  <2> QED
    BY <2>1, <1>8 DEF RowOfTable
<1> DEFINE placed == b1 \cup {n1 + x : x \in b2}
           last == n1 + n2 - 1
<1>11. row.bits = placed /\ row.cells = c1 \o c2 /\ placed \subseteq 0..last
  BY <1>6, <1>7
<1>12. SoundRow(row, cols)
  <2> HIDE DEF row
  <2>1. FlagsRight(row)
    <3>1. DOMAIN (c1 \o c2) = 1..(n1 + n2)
      BY <1>8
    <3>2. SUFFICES ASSUME NEW c \in DOMAIN row.cells
                   PROVE  (c - 1) \in row.bits <=> row.cells[c].null
      BY Zenon DEF FlagsRight
    <3>3. c \in 1..(n1 + n2)
      BY <1>11, <3>1
    <3> QED
      BY <1>9, <1>11, <3>3, Zenon
  <2>2. row.bits \subseteq 0..(Len(cols) - 1)
    <3>1. Len(cols) - 1 = last
      BY <1>2, <1>3
    <3> HIDE DEF placed, last
    <3> QED
      BY <1>11, <3>1, Zenon
  <2>3. Len(row.cells) = Len(cols)
    BY <1>3, <1>8, <1>11, Zenon
  <2> QED
    BY <1>10, <2>1, <2>2, <2>3 DEF SoundRow
<1> QED
  BY <1>12 DEF c1, c2, cols

\* The row add_cntr_column() makes of a sound row is sound.
LEMMA CounterRowSound ==
  ASSUME NEW t, Sound(t), NEW r \in DOMAIN t.rows, NEW s \in Seq(Nat), NEW col \in Column,
         NEW d, d.flagBytes = FlagBytesFor(Append(t.cols, col))
  PROVE  SoundRow([bits  |-> Within(t.rows[r].bits, d),
                   cells |-> Append(t.rows[r].cells, CounterCell),
                   sizes |-> s], Append(t.cols, col))
<1> DEFINE n == Len(t.cols)
           b1 == t.rows[r].bits
           c1 == t.rows[r].cells
           c2 == Append(t.rows[r].cells, CounterCell)
           cols == Append(t.cols, col)
           row == [bits |-> Within(b1, d), cells |-> c2, sizes |-> s]
<1>1. SoundRow(t.rows[r], t.cols) /\ t.cols \in Seq(Column)
  BY SoundRows
<1>2. /\ b1 \subseteq 0..(n - 1) /\ b1 \in SUBSET Nat /\ c1 \in Seq(Cell) /\ Len(c1) = n
      /\ n \in Nat /\ FlagsRight(t.rows[r])
  BY <1>1 DEF SoundRow, RowOfTable
<1>3. \A c \in 1..n : (c - 1) \in b1 <=> c1[c].null
  <2>1. DOMAIN c1 = 1..n
    BY <1>2
  <2> QED
    BY <1>2, <2>1 DEF FlagsRight
<1>4. /\ c2 \in Seq(Cell) /\ Len(c2) = n + 1
      /\ c2[n + 1] = CounterCell /\ \A c \in 1..n : c2[c] = c1[c]
  <2>1. CounterCell \in Cell
    BY CounterAssumption
  <2> QED
    BY <1>2, <2>1, Appended, SMTT(30)
<1>5. cols \in Seq(Column) /\ Len(cols) = n + 1
  BY <1>1, Appended, ZenonT(30)
<1>6. row \in RowOfTable /\ row.bits = b1 /\ row.cells = c2
  <2>1. 8 * d.flagBytes > n + 1 /\ d.flagBytes \in Nat
    BY <1>5, FlagsFit
  <2> HIDE DEF n, b1, c1, c2, cols
  <2>2. \A b \in b1 : b < 8 * d.flagBytes
    BY <1>2, <2>1
  <2>3. Within(b1, d) = b1
    BY <2>2 DEF Within, BitsPerByte
  <2> QED
    BY <1>2, <1>4, <2>3 DEF RowOfTable
<1> HIDE DEF n, b1, c1, c2, cols, row
<1>7. FlagsRight(row)
  <2>1. SUFFICES ASSUME NEW c \in DOMAIN row.cells
                 PROVE  (c - 1) \in row.bits <=> row.cells[c].null
    BY Zenon DEF FlagsRight
  <2>2. c \in 1..(n + 1)
    BY <1>4, <1>6
  <2>3. CASE c = n + 1
    <3>1. (c - 1) \notin row.bits
      BY <1>2, <1>6, <2>3
    <3>2. ~row.cells[c].null
      BY <1>4, <1>6, <2>3, CounterAssumption
    <3> QED
      BY <3>1, <3>2
  <2>4. CASE c # n + 1
    <3>1. c \in 1..n
      BY <1>2, <2>2, <2>4
    <3> QED
      BY <1>3, <1>4, <1>6, <3>1, Zenon
  <2> QED
    BY <2>3, <2>4
<1>8. row.bits \subseteq 0..(Len(cols) - 1) /\ Len(row.cells) = Len(cols)
  BY <1>2, <1>4, <1>5, <1>6
<1>9. SoundRow(row, cols)
  BY <1>6, <1>7, <1>8 DEF SoundRow
<1> QED
  BY <1>9 DEF row, cols, b1, c2

----------------------------------------------------------------------------
\* Row by row: the table d, with columns cols, is built up to at most n rows.
Building(d, cols, n) ==
  /\ d \in Table
  /\ d.cols = cols /\ d.flagBytes = FlagBytesFor(cols)
  /\ Len(d.rows) <= n
  /\ \A r \in DOMAIN d.rows : SoundRow(d.rows[r], cols)

CounterColumn == [name |-> CounterName, dyn |-> FALSE]

Idle == op = "idle" /\ src = <<>> /\ dest = NoTable

Combining ==
  /\ op = "combining"
  /\ \E t1, t2 \in Sources :
       /\ src = <<t1, t2>> /\ Len(t1.rows) = Len(t2.rows)
       /\ Building(dest, t1.cols \o t2.cols, Len(t1.rows))

Counting ==
  /\ op = "counting"
  /\ \E t \in Sources :
       /\ src = <<t>>
       /\ Building(dest, Append(t.cols, CounterColumn), Len(t.rows))

\* The inductive invariant of the command-line program: what is finished is
\* sound, and what is being built is so far.
CliInv ==
  /\ \A t \in made : Sound(t)
  /\ sizes \in Seq(Nat)
  /\ Idle \/ Combining \/ Counting

LEMMA BeginBuilding ==
  ASSUME NEW cols \in Seq(Column), NEW n \in Nat
  PROVE  Building([cols |-> cols, flagBytes |-> FlagBytesFor(cols), rows |-> <<>>], cols, n)
<1> DEFINE d == [cols |-> cols, flagBytes |-> FlagBytesFor(cols), rows |-> <<>>]
<1>1. d \in Table
  <2>1. FlagBytesFor(cols) \in Nat /\ <<>> \in Seq(RowOfTable)
    BY FlagsFit
  <2> QED
    BY <2>1 DEF Table
<1>2. DOMAIN d.rows = {} /\ Len(d.rows) = 0
  OBVIOUS
<1> QED
  BY <1>1, <1>2 DEF Building

LEMMA EmitBuilding ==
  ASSUME NEW cols, NEW n \in Nat, NEW d, Building(d, cols, n), Len(d.rows) < n,
         NEW row, SoundRow(row, cols)
  PROVE  Building([d EXCEPT !.rows = Append(@, row)], cols, n)
<1> DEFINE rs == Append(d.rows, row)
           e == [d EXCEPT !.rows = rs]
<1>1. d \in Table /\ d.rows \in Seq(RowOfTable) /\ row \in RowOfTable
  BY DEF Building, Table, SoundRow
<1>2. /\ rs \in Seq(RowOfTable) /\ Len(rs) = Len(d.rows) + 1 /\ rs[Len(d.rows) + 1] = row
      /\ \A r \in 1..Len(d.rows) : rs[r] = d.rows[r]
  BY <1>1, Appended
<1>3. e \in Table /\ e.cols = d.cols /\ e.flagBytes = d.flagBytes /\ e.rows = rs
  <2> HIDE DEF rs
  <2> QED
    BY <1>1, <1>2 DEF Table
<1>4. e \in Table /\ e.cols = cols /\ e.flagBytes = FlagBytesFor(cols) /\ e.rows = rs
  BY <1>3, Zenon DEF Building
<1> HIDE DEF rs, e
<1>5. \A r \in DOMAIN rs : SoundRow(rs[r], cols)
  <2>1. \A r \in 1..Len(d.rows) : SoundRow(d.rows[r], cols)
    <3>1. DOMAIN d.rows = 1..Len(d.rows)
      BY <1>1
    <3> QED
      BY <3>1 DEF Building
  <2>2. TAKE r \in DOMAIN rs
  <2>3. r \in 1..Len(d.rows) \/ r = Len(d.rows) + 1
    BY <1>1, <1>2
  <2> QED
    BY <1>2, <2>1, <2>3, Zenon
<1>6. Len(rs) <= n
  BY <1>1, <1>2
<1> QED
  BY <1>4, <1>5, <1>6, Zenon DEF e, rs, Building

LEMMA BuiltIsSound ==
  ASSUME NEW cols \in Seq(Column), cols # <<>>, NEW n \in Nat, NEW d, Building(d, cols, n)
  PROVE  Sound(d)
<1>1. d.flagBytes \in Nat /\ 8 * d.flagBytes > Len(d.cols) /\ Len(d.cols) \in Nat
  <2>1. FlagBytesFor(cols) \in Nat /\ 8 * FlagBytesFor(cols) > Len(cols)
    BY FlagsFit
  <2> QED
    BY <2>1 DEF Building
<1>2. \A r \in DOMAIN d.rows :
        /\ d.rows[r].bits \subseteq 0..(Len(d.cols) - 1)
        /\ Len(d.rows[r].cells) = Len(d.cols) /\ FlagsRight(d.rows[r])
  BY DEF Building, SoundRow
<1>3. 0..(Len(d.cols) - 1) \subseteq 0..(8 * d.flagBytes - 1)
  BY <1>1
<1>4. \A r \in DOMAIN d.rows : d.rows[r].bits \subseteq 0..(8 * d.flagBytes - 1)
  BY <1>2, <1>3
<1> QED
  BY <1>1, <1>2, <1>4 DEF Building, Sound, WellFormed, BitsPerByte

LEMMA ZerosType ==
  ASSUME NEW n \in Nat
  PROVE  Zeros(n) \in Seq(Nat)
BY DEF Zeros

LEMMA NumDynamicType ==
  ASSUME NEW cols \in Seq(Column)
  PROVE  NumDynamic(cols) \in Nat
<1>1. DOMAIN cols = 1..Len(cols) /\ Len(cols) \in Nat
  OBVIOUS
<1>2. IsFiniteSet(1..Len(cols))
  BY <1>1, FS_Interval
<1>3. IsFiniteSet({c \in DOMAIN cols : cols[c].dyn})
  BY <1>1, <1>2, FS_Subset
<1> QED
  BY <1>3, FS_CardinalityType DEF NumDynamic

\* What the two operations hand to the Row is a sequence of lengths.
LEMMA ZeroedThenType ==
  ASSUME sizes \in Seq(Nat), NEW s \in Seq(Nat)
  PROVE  ZeroedThen(s) \in Seq(Nat)
<1>1. Zeros(Len(sizes)) \in Seq(Nat)
  BY ZerosType
<1> QED
  BY <1>1 DEF ZeroedThen

LEMMA SizesIfAnyType ==
  ASSUME NEW t, Sound(t), NEW r \in DOMAIN t.rows
  PROVE  SizesIfAny(t, r) \in Seq(Nat)
<1>1. t.rows[r] \in RowOfTable
  BY SoundRows DEF SoundRow
<1>2. t.rows[r].sizes \in Seq(Nat)
  BY <1>1 DEF RowOfTable
<1> QED
  BY <1>2 DEF SizesIfAny

\* The columns of the two kinds of new table.
LEMMA NewColumns ==
  ASSUME NEW t, Sound(t)
  PROVE  /\ t.cols \in Seq(Column) /\ t.cols # <<>> /\ Len(t.rows) \in Nat
         /\ t.rows \in Seq(RowOfTable)
         /\ CounterColumn \in Column
         /\ Append(t.cols, CounterColumn) \in Seq(Column)
         /\ Append(t.cols, CounterColumn) # <<>>
         /\ \A u : Sound(u) => t.cols \o u.cols \in Seq(Column) /\ t.cols \o u.cols # <<>>
<1>1. t.cols \in Seq(Column) /\ t.cols # <<>> /\ t.rows \in Seq(RowOfTable)
  BY DEF Sound, WellFormed, Table
<1>2. CounterColumn \in Column
  BY CounterAssumption DEF CounterColumn, Column
<1>3. Append(t.cols, CounterColumn) \in Seq(Column)
      /\ Append(t.cols, CounterColumn) # <<>>
  <2>1. Len(Append(t.cols, CounterColumn)) = Len(t.cols) + 1 /\ Len(t.cols) \in Nat
        /\ Append(t.cols, CounterColumn) \in Seq(Column)
    BY <1>1, <1>2, Appended
  <2> HIDE DEF CounterColumn
  <2>2. Len(Append(t.cols, CounterColumn)) # 0
    BY <2>1
  <2> QED
    BY <2>1, <2>2
<1>4. ASSUME NEW u, Sound(u)
      PROVE  t.cols \o u.cols \in Seq(Column) /\ t.cols \o u.cols # <<>>
  <2>1. u.cols \in Seq(Column)
    BY <1>4 DEF Sound, WellFormed, Table
  <2>2. t.cols \o u.cols \in Seq(Column) /\ Len(t.cols \o u.cols) = Len(t.cols) + Len(u.cols)
    BY <1>1, <2>1, ConcatProperties
  <2>3. Len(t.cols) > 0 /\ Len(t.cols) \in Nat /\ Len(u.cols) \in Nat
    BY <1>1, <2>1
  <2> QED
    BY <2>2, <2>3
<1> QED
  BY <1>1, <1>2, <1>3, <1>4

----------------------------------------------------------------------------
LEMMA CliInvInit ==
  Init => CliInv
BY DEF Init, CliInv, Idle

LEMMA BeginCombineCliInv ==
  ASSUME ReaderTables, CliInv, NEW t1 \in Sources, NEW t2 \in Sources, BeginCombine(t1, t2)
  PROVE  CliInv'
<1>1. Sound(t1) /\ Sound(t2)
  BY DEF ReaderTables
<1> DEFINE cols == t1.cols \o t2.cols
<1>2. cols \in Seq(Column) /\ Len(t1.rows) \in Nat
  BY <1>1, NewColumns
<1>3. /\ op' = "combining" /\ src' = <<t1, t2>> /\ Len(t1.rows) = Len(t2.rows)
      /\ dest' = [cols |-> cols, flagBytes |-> FlagBytesFor(cols), rows |-> <<>>]
      /\ sizes' = Zeros(NumDynamic(cols)) /\ made' = made
  BY DEF BeginCombine, Begin
<1> HIDE DEF cols
<1>4. Building(dest', cols, Len(t1.rows))
  BY <1>2, <1>3, BeginBuilding
<1>5. sizes' \in Seq(Nat)
  BY <1>2, <1>3, NumDynamicType, ZerosType
<1>6. Combining'
  BY <1>3, <1>4, Zenon DEF cols, Combining
<1> QED
  BY <1>3, <1>5, <1>6 DEF CliInv

LEMMA BeginCounterCliInv ==
  ASSUME ReaderTables, CliInv, NEW t \in Sources, BeginCounter(t)
  PROVE  CliInv'
<1>1. Sound(t)
  BY DEF ReaderTables
<1> DEFINE cols == Append(t.cols, CounterColumn)
<1>2. cols \in Seq(Column) /\ Len(t.rows) \in Nat
  BY <1>1, NewColumns
<1>3. /\ op' = "counting" /\ src' = <<t>>
      /\ dest' = [cols |-> cols, flagBytes |-> FlagBytesFor(cols), rows |-> <<>>]
      /\ sizes' = Zeros(NumDynamic(cols)) /\ made' = made
  BY DEF BeginCounter, Begin, CounterColumn
<1> HIDE DEF cols
<1>4. Building(dest', cols, Len(t.rows))
  BY <1>2, <1>3, BeginBuilding
<1>5. sizes' \in Seq(Nat)
  BY <1>2, <1>3, NumDynamicType, ZerosType
<1>6. Counting'
  BY <1>3, <1>4, Zenon DEF cols, Counting
<1> QED
  BY <1>3, <1>5, <1>6 DEF CliInv

LEMMA CombineRowCliInv ==
  ASSUME ReaderTables, CliInv, CombineRow
  PROVE  CliInv'
<1>1. PICK t1 \in Sources, t2 \in Sources :
        /\ src = <<t1, t2>> /\ Len(t1.rows) = Len(t2.rows)
        /\ Building(dest, t1.cols \o t2.cols, Len(t1.rows))
  BY DEF CliInv, CombineRow, Idle, Combining, Counting
<1>2. /\ src[1] = t1 /\ src[2] = t2
      /\ Sound(t1) /\ Sound(t2) /\ ~Padded(t1)
  BY <1>1 DEF ReaderTables
<1> DEFINE r == Len(dest.rows) + 1
           cols == t1.cols \o t2.cols
           row == [bits  |-> CombinedFlags(t1, t2, dest, r),
                   cells |-> t1.rows[r].cells \o t2.rows[r].cells,
                   sizes |-> ZeroedThen(SizesIfAny(t1, r) \o SizesIfAny(t2, r))]
<1>3. /\ op = "combining" /\ Len(dest.rows) < Len(t1.rows)
      /\ Emit(row)
  BY <1>2 DEF CombineRow
<1>4. dest.rows \in Seq(RowOfTable) /\ Len(dest.rows) \in Nat
  BY <1>1 DEF Building, Table
<1>5. r \in DOMAIN t1.rows /\ r \in DOMAIN t2.rows
  <2>1. t1.rows \in Seq(RowOfTable) /\ t2.rows \in Seq(RowOfTable)
    BY <1>2, NewColumns
  <2> DEFINE n == Len(dest.rows)
  <2>2. n \in Nat /\ n < Len(t1.rows) /\ Len(t1.rows) = Len(t2.rows)
    BY <1>1, <1>3, <1>4
  <2>3. /\ DOMAIN t1.rows = 1..Len(t1.rows) /\ Len(t1.rows) \in Nat
        /\ DOMAIN t2.rows = 1..Len(t2.rows)
    BY <2>1
  <2>4. r = n + 1
    OBVIOUS
  <2> HIDE DEF n, r
  <2> QED
    BY <2>2, <2>3, <2>4
<1> HIDE DEF r
<1>6. row.sizes \in Seq(Nat)
  <2>1. SizesIfAny(t1, r) \in Seq(Nat) /\ SizesIfAny(t2, r) \in Seq(Nat)
    BY <1>2, <1>5, SizesIfAnyType
  <2>2. SizesIfAny(t1, r) \o SizesIfAny(t2, r) \in Seq(Nat)
    BY <2>1
  <2> QED
    BY <2>2, ZeroedThenType DEF CliInv
<1>7. SoundRow(row, cols)
  <2>1. dest.flagBytes = FlagBytesFor(t1.cols \o t2.cols)
    BY <1>1 DEF Building
  <2> QED
    BY <1>2, <1>5, <1>6, <2>1, CombinedRowSound
<1> HIDE DEF row, cols
<1>8. Building(dest', cols, Len(t1.rows))
  <2>1. Len(t1.rows) \in Nat
    BY <1>2, NewColumns
  <2> QED
    BY <1>1, <1>3, <1>7, <2>1, EmitBuilding DEF Emit, cols
<1>9. /\ op' = "combining" /\ src' = <<t1, t2>> /\ made' = made
      /\ sizes' = row.sizes
  BY <1>1, <1>3 DEF Emit
<1>10. Combining'
  BY <1>1, <1>8, <1>9, Zenon DEF Combining, cols
<1> QED
  BY <1>6, <1>9, <1>10 DEF CliInv

LEMMA CounterRowCliInv ==
  ASSUME ReaderTables, CliInv, CounterRow
  PROVE  CliInv'
<1>1. PICK t \in Sources :
        /\ src = <<t>>
        /\ Building(dest, Append(t.cols, CounterColumn), Len(t.rows))
  BY DEF CliInv, CounterRow, Idle, Combining, Counting
<1>2. src[1] = t /\ Sound(t)
  BY <1>1 DEF ReaderTables
<1> DEFINE r == Len(dest.rows) + 1
           cols == Append(t.cols, CounterColumn)
           row == [bits  |-> Within(t.rows[r].bits, dest),
                   cells |-> Append(t.rows[r].cells, CounterCell),
                   sizes |-> ZeroedThen(SizesIfAny(t, r))]
<1>3. /\ op = "counting" /\ Len(dest.rows) < Len(t.rows)
      /\ Emit(row)
  BY <1>2 DEF CounterRow
<1>4. dest.rows \in Seq(RowOfTable) /\ Len(dest.rows) \in Nat
  BY <1>1 DEF Building, Table
<1>5. r \in DOMAIN t.rows
  <2>1. t.rows \in Seq(RowOfTable)
    BY <1>2, NewColumns
  <2> QED
    BY <1>3, <1>4, <2>1
<1> HIDE DEF r
<1>6. row.sizes \in Seq(Nat)
  <2>1. SizesIfAny(t, r) \in Seq(Nat)
    BY <1>2, <1>5, SizesIfAnyType
  <2> QED
    BY <2>1, ZeroedThenType DEF CliInv
<1>7. SoundRow(row, cols)
  <2>1. CounterColumn \in Column /\ dest.flagBytes = FlagBytesFor(Append(t.cols, CounterColumn))
    BY <1>1, <1>2, NewColumns DEF Building
  <2> QED
    BY <1>2, <1>5, <1>6, <2>1, CounterRowSound
<1> HIDE DEF row, cols
<1>8. Building(dest', cols, Len(t.rows))
  <2>1. Len(t.rows) \in Nat
    BY <1>2, NewColumns
  <2> QED
    BY <1>1, <1>3, <1>7, <2>1, EmitBuilding DEF Emit, cols
<1>9. /\ op' = "counting" /\ src' = <<t>> /\ made' = made
      /\ sizes' = row.sizes
  BY <1>1, <1>3 DEF Emit
<1>10. Counting'
  BY <1>1, <1>8, <1>9, Zenon DEF Counting, cols
<1> QED
  BY <1>6, <1>9, <1>10 DEF CliInv

\* What is being built is sound at every moment, finished or not.
LEMMA DestIsSound ==
  ASSUME ReaderTables, Combining \/ Counting
  PROVE  Sound(dest)
<1>1. CASE Combining
  <2>1. PICK t1 \in Sources, t2 \in Sources :
          Building(dest, t1.cols \o t2.cols, Len(t1.rows))
    BY <1>1 DEF Combining
  <2>2. Sound(t1) /\ Sound(t2)
    BY DEF ReaderTables
  <2>3. t1.cols \o t2.cols \in Seq(Column) /\ t1.cols \o t2.cols # <<>> /\ Len(t1.rows) \in Nat
    BY <2>2, NewColumns
  <2> QED
    BY <2>1, <2>3, BuiltIsSound
<1>2. CASE Counting
  <2>1. PICK t \in Sources : Building(dest, Append(t.cols, CounterColumn), Len(t.rows))
    BY <1>2 DEF Counting
  <2>2. Sound(t)
    BY DEF ReaderTables
  <2>3. /\ Append(t.cols, CounterColumn) \in Seq(Column)
        /\ Append(t.cols, CounterColumn) # <<>> /\ Len(t.rows) \in Nat
    BY <2>2, NewColumns
  <2> QED
    BY <2>1, <2>3, BuiltIsSound
<1> QED
  BY <1>1, <1>2

LEMMA ReturnCliInv ==
  ASSUME ReaderTables, CliInv, Return
  PROVE  CliInv'
<1>1. Sound(dest)
  BY DestIsSound DEF CliInv, Return, Idle
<1>2. \A t \in made' : Sound(t)
  BY <1>1 DEF CliInv, Return
<1>3. sizes' \in Seq(Nat) /\ Idle'
  BY DEF Return, Idle
<1> QED
  BY <1>2, <1>3 DEF CliInv

LEMMA CliInvStep ==
  ASSUME ReaderTables, CliInv, [CliNext]_vars
  PROVE  CliInv'
<1>1. ASSUME NEW t1 \in Sources, NEW t2 \in Sources, BeginCombine(t1, t2)
      PROVE  CliInv'
  BY <1>1, BeginCombineCliInv
<1>2. ASSUME NEW t \in Sources, BeginCounter(t)
      PROVE  CliInv'
  BY <1>2, BeginCounterCliInv
<1>3. CASE CombineRow
  BY <1>3, CombineRowCliInv
<1>4. CASE CounterRow
  BY <1>4, CounterRowCliInv
<1>5. CASE Return
  BY <1>5, ReturnCliInv
<1>6. CASE UNCHANGED vars
  BY <1>6 DEF vars, CliInv, Idle, Combining, Counting
<1> QED
  BY <1>1, <1>2, <1>3, <1>4, <1>5, <1>6 DEF CliNext, Build

LEMMA CliInvTypeOK ==
  ASSUME ReaderTables, CliInv
  PROVE  TypeOK
<1>1. \A t \in made : WellFormed(t)
  BY DEF CliInv, Sound
<1>2. CASE Idle
  BY <1>1, <1>2 DEF TypeOK, CliInv, Idle
<1>3. CASE Combining
  <2>1. PICK t1 \in Sources, t2 \in Sources : src = <<t1, t2>>
    BY <1>3 DEF Combining
  <2>2. WellFormed(t1) /\ WellFormed(t2) /\ t1 \in Table /\ t2 \in Table
    BY DEF ReaderTables, Sound, WellFormed
  <2>3. src \in Seq(Table) /\ src # <<>> /\ \A i \in DOMAIN src : WellFormed(src[i])
    BY <2>1, <2>2
  <2>4. WellFormed(dest) /\ op = "combining"
    BY <1>3, DestIsSound DEF Sound, Combining
  <2> QED
    BY <1>1, <2>3, <2>4 DEF TypeOK, CliInv
<1>4. CASE Counting
  <2>1. PICK t \in Sources : src = <<t>>
    BY <1>4 DEF Counting
  <2>2. WellFormed(t) /\ t \in Table
    BY DEF ReaderTables, Sound, WellFormed
  <2>3. src \in Seq(Table) /\ src # <<>> /\ \A i \in DOMAIN src : WellFormed(src[i])
    BY <2>1, <2>2
  <2>4. WellFormed(dest) /\ op = "counting"
    BY <1>4, DestIsSound DEF Sound, Counting
  <2> QED
    BY <1>1, <2>3, <2>4 DEF TypeOK, CliInv
<1> QED
  BY <1>2, <1>3, <1>4 DEF CliInv

LEMMA CliInvFlags ==
  ASSUME ReaderTables, CliInv
  PROVE  FlagsFollowColumns
<1>1. ASSUME NEW t \in made, NEW r \in DOMAIN t.rows
      PROVE  FlagsRight(t.rows[r])
  BY <1>1 DEF CliInv, Sound
<1>2. ASSUME NEW r \in DOMAIN dest.rows
      PROVE  FlagsRight(dest.rows[r])
  <2>1. CASE Idle
    <3>1. dest.rows = <<>>
      BY <2>1 DEF Idle, NoTable
    <3> QED
      BY <1>2, <3>1
  <2>2. CASE Combining \/ Counting
    BY <1>2, <2>2, DestIsSound DEF Sound
  <2> QED
    BY <2>1, <2>2 DEF CliInv
<1> QED
  BY <1>1, <1>2, Zenon DEF FlagsFollowColumns

\* The tables combine_tables() and add_counter_column() make of what the
\* readers of text produce are well formed: room for every null flag, a cell
\* for every column, at every moment and for any tables.
THEOREM CliTypeOK ==
  ASSUME ReaderTables
  PROVE  CliSpec => []TypeOK
<1>1. Init => CliInv
  BY CliInvInit
<1>2. CliInv /\ [CliNext]_vars => CliInv'
  BY CliInvStep
<1>3. CliInv => TypeOK
  BY CliInvTypeOK
<1> QED
  BY <1>1, <1>2, <1>3, PTL DEF CliSpec

\* Every null flag of every table the command-line program makes tells whether
\* its cell is null: the flags of the second operand land behind the columns of
\* the first, whatever the numbers of columns.
THEOREM CliFlagsFollowColumns ==
  ASSUME ReaderTables
  PROVE  CliSpec => []FlagsFollowColumns
<1>1. Init => CliInv
  BY CliInvInit
<1>2. CliInv /\ [CliNext]_vars => CliInv'
  BY CliInvStep
<1>3. CliInv => FlagsFollowColumns
  BY CliInvFlags
<1> QED
  BY <1>1, <1>2, <1>3, PTL DEF CliSpec

----------------------------------------------------------------------------
(***************************************************************************)
(* Any well-formed tables, and any made of them, as operands.  ApiInv says   *)
(* of the table being built what BuildInv says for each operation, and that  *)
(* the Row has a zero for each of its columns of variable length.            *)
(***************************************************************************)
WellRow(row, cols) ==
  /\ row \in RowOfTable
  /\ row.bits \subseteq 0..(BitsPerByte * FlagBytesFor(cols) - 1)
  /\ Len(row.cells) = Len(cols)

Built(d, cols, n) ==
  /\ d \in Table
  /\ d.cols = cols /\ d.flagBytes = FlagBytesFor(cols)
  /\ Len(d.rows) <= n
  /\ \A r \in DOMAIN d.rows : WellRow(d.rows[r], cols)

BuildInv ==
  /\ op = "combining" =>
       /\ Len(src) = 2 /\ Len(src[1].rows) = Len(src[2].rows)
       /\ Built(dest, src[1].cols \o src[2].cols, Len(src[1].rows))
  /\ op = "counting" =>
       /\ Len(src) = 1
       /\ Built(dest, Append(src[1].cols, CounterColumn), Len(src[1].rows))
  /\ op # "idle" => Len(sizes) >= NumDynamic(dest.cols)

ApiInv == TypeOK /\ BuildInv

LEMMA BuiltNothing ==
  ASSUME NEW cols \in Seq(Column), NEW n \in Nat
  PROVE  Built([cols |-> cols, flagBytes |-> FlagBytesFor(cols), rows |-> <<>>], cols, n)
<1> DEFINE d == [cols |-> cols, flagBytes |-> FlagBytesFor(cols), rows |-> <<>>]
<1>1. d \in Table
  <2>1. FlagBytesFor(cols) \in Nat /\ <<>> \in Seq(RowOfTable)
    BY FlagsFit
  <2> QED
    BY <2>1 DEF Table
<1>2. DOMAIN d.rows = {} /\ Len(d.rows) = 0
  OBVIOUS
<1> QED
  BY <1>1, <1>2 DEF Built

LEMMA BuiltOneMore ==
  ASSUME NEW cols, NEW n \in Nat, NEW d, Built(d, cols, n), Len(d.rows) < n,
         NEW row, WellRow(row, cols), NEW e,
         e = [cols |-> d.cols, flagBytes |-> d.flagBytes, rows |-> Append(d.rows, row)]
  PROVE  Built(e, cols, n)
<1> DEFINE rs == Append(d.rows, row)
<1>0. e = [cols |-> d.cols, flagBytes |-> d.flagBytes, rows |-> rs]
  OBVIOUS
<1>1. d \in Table /\ d.rows \in Seq(RowOfTable) /\ row \in RowOfTable
  BY DEF Built, Table, WellRow
<1>2. /\ rs \in Seq(RowOfTable) /\ Len(rs) = Len(d.rows) + 1 /\ rs[Len(d.rows) + 1] = row
      /\ \A r \in 1..Len(d.rows) : rs[r] = d.rows[r]
  BY <1>1, Appended
<1>3. e \in Table /\ e.cols = d.cols /\ e.flagBytes = d.flagBytes /\ e.rows = rs
  <2> HIDE DEF rs
  <2> QED
    BY <1>0, <1>1, <1>2 DEF Table
<1>4. e \in Table /\ e.cols = cols /\ e.flagBytes = FlagBytesFor(cols) /\ e.rows = rs
  BY <1>3, Zenon DEF Built
<1> HIDE DEF rs
<1>5. \A r \in DOMAIN rs : WellRow(rs[r], cols)
  <2>1. \A r \in 1..Len(d.rows) : WellRow(d.rows[r], cols)
    <3>1. DOMAIN d.rows = 1..Len(d.rows)
      BY <1>1
    <3> QED
      BY <3>1 DEF Built
  <2>2. TAKE r \in DOMAIN rs
  <2>3. r \in 1..Len(d.rows) \/ r = Len(d.rows) + 1
    BY <1>1, <1>2
  <2> QED
    BY <1>2, <2>1, <2>3, Zenon
<1>6. Len(rs) <= n
  BY <1>1, <1>2
<1> QED
  BY <1>4, <1>5, <1>6, Zenon DEF Built

LEMMA BuiltIsWellFormed ==
  ASSUME NEW cols \in Seq(Column), cols # <<>>, NEW n \in Nat, NEW d, Built(d, cols, n)
  PROVE  WellFormed(d)
<1>1. 8 * d.flagBytes >= Len(d.cols)
  <2>1. FlagBytesFor(cols) \in Nat /\ 8 * FlagBytesFor(cols) > Len(cols) /\ Len(cols) \in Nat
    BY FlagsFit
  <2> QED
    BY <2>1 DEF Built
<1> QED
  BY <1>1 DEF Built, WellFormed, WellRow, BitsPerByte

\* What is said of a well-formed table.
LEMMA OfWellFormed ==
  ASSUME NEW t, WellFormed(t)
  PROVE  /\ t \in Table /\ t.cols \in Seq(Column) /\ t.cols # <<>> /\ Len(t.cols) \in Nat
         /\ Len(t.cols) > 0
         /\ t.rows \in Seq(RowOfTable) /\ Len(t.rows) \in Nat /\ DOMAIN t.rows = 1..Len(t.rows)
         /\ t.flagBytes \in Nat
         /\ \A r \in DOMAIN t.rows :
              /\ t.rows[r].bits \subseteq Nat /\ t.rows[r].cells \in Seq(Cell)
              /\ t.rows[r].sizes \in Seq(Nat)
              /\ Len(t.rows[r].cells) = Len(t.cols)
<1>1. t \in Table /\ t.cols \in Seq(Column) /\ t.cols # <<>> /\ t.rows \in Seq(RowOfTable)
      /\ t.flagBytes \in Nat
  BY DEF WellFormed, Table
<1>2. Len(t.cols) \in Nat /\ Len(t.cols) > 0 /\ Len(t.rows) \in Nat /\ DOMAIN t.rows = 1..Len(t.rows)
  BY <1>1
<1>3. ASSUME NEW r \in DOMAIN t.rows
      PROVE  /\ t.rows[r].bits \subseteq Nat /\ t.rows[r].cells \in Seq(Cell)
             /\ t.rows[r].sizes \in Seq(Nat)
             /\ Len(t.rows[r].cells) = Len(t.cols)
  <2>1. t.rows[r] \in RowOfTable
    BY <1>1
  <2> QED
    BY <2>1 DEF RowOfTable, WellFormed
<1> QED
  BY <1>1, <1>2, <1>3

\* The columns of a new table.
LEMMA ColumnsOfNew ==
  ASSUME NEW t, WellFormed(t)
  PROVE  /\ CounterColumn \in Column
         /\ Append(t.cols, CounterColumn) \in Seq(Column)
         /\ Append(t.cols, CounterColumn) # <<>>
         /\ Len(Append(t.cols, CounterColumn)) = Len(t.cols) + 1
         /\ \A u : WellFormed(u) =>
              /\ t.cols \o u.cols \in Seq(Column) /\ t.cols \o u.cols # <<>>
              /\ Len(t.cols \o u.cols) = Len(t.cols) + Len(u.cols)
<1>1. t.cols \in Seq(Column) /\ Len(t.cols) > 0 /\ Len(t.cols) \in Nat
  BY OfWellFormed
<1>2. CounterColumn \in Column
  BY CounterAssumption DEF CounterColumn, Column
<1>3. /\ Append(t.cols, CounterColumn) \in Seq(Column)
      /\ Len(Append(t.cols, CounterColumn)) = Len(t.cols) + 1
  BY <1>1, <1>2, Appended
<1>4. Append(t.cols, CounterColumn) # <<>>
  <2> HIDE DEF CounterColumn
  <2> QED
    BY <1>1, <1>3
<1>5. ASSUME NEW u, WellFormed(u)
      PROVE  /\ t.cols \o u.cols \in Seq(Column) /\ t.cols \o u.cols # <<>>
             /\ Len(t.cols \o u.cols) = Len(t.cols) + Len(u.cols)
  <2>1. u.cols \in Seq(Column) /\ Len(u.cols) \in Nat
    BY <1>5, OfWellFormed
  <2>2. t.cols \o u.cols \in Seq(Column) /\ Len(t.cols \o u.cols) = Len(t.cols) + Len(u.cols)
    BY <1>1, <2>1, ConcatProperties
  <2> QED
    BY <1>1, <2>1, <2>2
<1> QED
  BY <1>2, <1>3, <1>4, <1>5

\* Bytes of flags that are copied stay inside of those of the new table.
LEMMA WithinType ==
  ASSUME NEW flags \in SUBSET Nat, NEW cols \in Seq(Column), NEW d, d.flagBytes = FlagBytesFor(cols)
  PROVE  /\ Within(flags, d) \subseteq 0..(BitsPerByte * FlagBytesFor(cols) - 1)
         /\ Within(flags, d) \subseteq Nat
         /\ \A b \in 0..Len(cols) : b \in Within(flags, d) <=> b \in flags
<1>1. FlagBytesFor(cols) \in Nat /\ 8 * FlagBytesFor(cols) > Len(cols) /\ Len(cols) \in Nat
  BY FlagsFit
<1> DEFINE f == FlagBytesFor(cols)
<1> HIDE DEF f
<1>2. Within(flags, d) = {b \in flags : b < 8 * f}
  BY DEF Within, BitsPerByte, f
<1>3. f \in Nat /\ 8 * f > Len(cols) /\ Len(cols) \in Nat
  BY <1>1 DEF f
<1>4. Within(flags, d) \subseteq 0..(8 * f - 1)
  <2>1. ASSUME NEW b \in Within(flags, d)
        PROVE  b \in 0..(8 * f - 1)
    <3>1. b \in Nat /\ b < 8 * f
      BY <1>2, <2>1
    <3> QED
      BY <1>3, <3>1
  <2> QED
    BY <2>1
<1>5. \A b \in 0..Len(cols) : b \in Within(flags, d) <=> b \in flags
  BY <1>2, <1>3
<1>6. Within(flags, d) \subseteq 0..(BitsPerByte * FlagBytesFor(cols) - 1)
  BY <1>4 DEF BitsPerByte, f
<1>7. Within(flags, d) \subseteq Nat
  BY <1>2
<1> QED
  BY <1>5, <1>6, <1>7

\* Every flag of a second table goes behind the columns of the first.
LEMMA PlaceBehind ==
  ASSUME NEW t, WellFormed(t), NEW b \in Nat
  PROVE  PlaceOfFlag(t, b) \in Nat /\ PlaceOfFlag(t, b) >= Len(t.cols)
<1>1. t.flagBytes \in Nat /\ Len(t.cols) \in Nat /\ 8 * t.flagBytes >= Len(t.cols)
  BY OfWellFormed DEF WellFormed, BitsPerByte
<1>2. CASE Len(t.cols) % 8 = 0
  <2>1. PlaceOfFlag(t, b) = 8 * t.flagBytes + b
    BY <1>2 DEF PlaceOfFlag, BitsPerByte
  <2> QED
    BY <1>1, <2>1
<1>3. CASE Len(t.cols) % 8 # 0
  <2>1. PlaceOfFlag(t, b) = Len(t.cols) + b
    BY <1>3 DEF PlaceOfFlag, BitsPerByte
  <2> QED
    BY <1>1, <2>1
<1> QED
  BY <1>2, <1>3

LEMMA CombinedFlagsType ==
  ASSUME NEW t1, NEW t2, WellFormed(t1), WellFormed(t2), NEW r \in DOMAIN t1.rows, r \in DOMAIN t2.rows,
         NEW d, d.flagBytes = FlagBytesFor(t1.cols \o t2.cols)
  PROVE  /\ CombinedFlags(t1, t2, d, r) \subseteq 0..(BitsPerByte * FlagBytesFor(t1.cols \o t2.cols) - 1)
         /\ CombinedFlags(t1, t2, d, r) \subseteq Nat
<1> DEFINE flags == t1.rows[r].bits \cup {PlaceOfFlag(t1, x) : x \in FlagsToCopy(t1, t2, r)}
           cols == t1.cols \o t2.cols
<1>1. cols \in Seq(Column) /\ Len(cols) = Len(t1.cols) + Len(t2.cols)
  BY ColumnsOfNew
<1>2. t1.rows[r].bits \subseteq Nat /\ t2.rows[r].bits \subseteq Nat
  BY OfWellFormed
<1>3. \A x \in FlagsToCopy(t1, t2, r) : PlaceOfFlag(t1, x) \in Nat
  BY <1>2, PlaceBehind DEF FlagsToCopy
<1>4. flags \in SUBSET Nat
  BY <1>2, <1>3
<1>5. CombinedFlags(t1, t2, d, r) = Within(flags, d)
  BY DEF CombinedFlags
<1> HIDE DEF flags, cols
<1>6. /\ Within(flags, d) \subseteq 0..(BitsPerByte * FlagBytesFor(cols) - 1)
      /\ Within(flags, d) \subseteq Nat
  BY <1>1, <1>4, WithinType, ZenonT(30) DEF cols
<1> QED
  BY <1>5, <1>6 DEF cols

\* The places the flags of the second table are copied to.
Placed(t1, t2, r) == {PlaceOfFlag(t1, x) : x \in FlagsToCopy(t1, t2, r)}

LEMMA CombinedFlagsMembers ==
  ASSUME NEW t1, NEW t2, WellFormed(t1), WellFormed(t2), NEW r \in DOMAIN t1.rows, r \in DOMAIN t2.rows,
         NEW d, d.flagBytes = FlagBytesFor(t1.cols \o t2.cols),
         NEW b \in 0..(Len(t1.cols) + Len(t2.cols))
  PROVE  b \in CombinedFlags(t1, t2, d, r) <=>
           b \in t1.rows[r].bits \/ b \in Placed(t1, t2, r)
<1> DEFINE flags == t1.rows[r].bits \cup {PlaceOfFlag(t1, x) : x \in FlagsToCopy(t1, t2, r)}
           cols == t1.cols \o t2.cols
<1>1. cols \in Seq(Column) /\ Len(cols) = Len(t1.cols) + Len(t2.cols)
  BY ColumnsOfNew
<1>2. t1.rows[r].bits \subseteq Nat /\ t2.rows[r].bits \subseteq Nat
  BY OfWellFormed
<1>3. \A x \in FlagsToCopy(t1, t2, r) : PlaceOfFlag(t1, x) \in Nat
  BY <1>2, PlaceBehind DEF FlagsToCopy
<1>4. flags \in SUBSET Nat
  BY <1>2, <1>3
<1>5. CombinedFlags(t1, t2, d, r) = Within(flags, d)
  BY DEF CombinedFlags
<1>6. b \in flags <=> b \in t1.rows[r].bits \/ b \in Placed(t1, t2, r)
  BY DEF Placed
<1>7. b \in 0..Len(cols)
  BY <1>1
<1> HIDE DEF flags, cols
<1>8. \A c \in 0..Len(cols) : c \in Within(flags, d) <=> c \in flags
  BY <1>1, <1>4, WithinType DEF cols
<1> QED
  BY <1>5, <1>6, <1>7, <1>8, Zenon

\* The lengths that are put behind the zeros of the Row.
LEMMA LengthsOfRow ==
  ASSUME NEW t, WellFormed(t), NEW r \in DOMAIN t.rows
  PROVE  SizesIfAny(t, r) \in Seq(Nat)
<1>1. t.rows[r].sizes \in Seq(Nat)
  BY OfWellFormed
<1> QED
  BY <1>1 DEF SizesIfAny

LEMMA ZeroesInFront ==
  ASSUME sizes \in Seq(Nat), NEW s \in Seq(Nat)
  PROVE  /\ ZeroedThen(s) \in Seq(Nat)
         /\ Len(ZeroedThen(s)) >= Len(sizes)
         /\ \A i \in 1..Len(sizes) : ZeroedThen(s)[i] = 0
<1> DEFINE z == Zeros(Len(sizes))
<1>1. Len(sizes) \in Nat /\ Len(s) \in Nat
  OBVIOUS
<1>2. z \in Seq(Nat) /\ Len(z) = Len(sizes) /\ \A i \in 1..Len(sizes) : z[i] = 0
  BY <1>1 DEF Zeros
<1> HIDE DEF z
<1>3. /\ z \o s \in Seq(Nat) /\ Len(z \o s) = Len(z) + Len(s)
      /\ \A i \in 1..(Len(z) + Len(s)) : (z \o s)[i] = IF i <= Len(z) THEN z[i] ELSE s[i - Len(z)]
  BY <1>2, ConcatProperties
<1>4. \A i \in 1..Len(sizes) : (z \o s)[i] = 0
  BY <1>1, <1>2, <1>3
<1> QED
  BY <1>1, <1>2, <1>3, <1>4 DEF ZeroedThen, z

----------------------------------------------------------------------------
LEMMA ApiInvInit ==
  Init => ApiInv
BY DEF Init, ApiInv, TypeOK, BuildInv, NoTable

\* The table an operation begins with has no row yet.
LEMMA BeginApiInv ==
  ASSUME ApiInv, NEW name \in {"combining", "counting"}, NEW ts \in Seq(Table), ts # <<>>,
         \A i \in DOMAIN ts : WellFormed(ts[i]), NEW cols \in Seq(Column), cols # <<>>,
         Begin(name, ts, cols)
  PROVE  /\ TypeOK'
         /\ op' = name /\ src' = ts
         /\ \A n \in Nat : Built(dest', cols, n)
         /\ Len(sizes') >= NumDynamic(dest'.cols)
<1>1. /\ op' = name /\ src' = ts /\ made' = made
      /\ dest' = [cols |-> cols, flagBytes |-> FlagBytesFor(cols), rows |-> <<>>]
      /\ sizes' = Zeros(NumDynamic(cols))
  BY DEF Begin
<1>2. \A n \in Nat : Built(dest', cols, n)
  BY <1>1, BuiltNothing
<1>3. WellFormed(dest')
  BY <1>2, BuiltIsWellFormed
<1>4. sizes' \in Seq(Nat) /\ Len(sizes') >= NumDynamic(dest'.cols)
  <2>1. NumDynamic(cols) \in Nat
    BY NumDynamicType
  <2>2. Zeros(NumDynamic(cols)) \in Seq(Nat) /\ Len(Zeros(NumDynamic(cols))) = NumDynamic(cols)
    BY <2>1 DEF Zeros
  <2>3. dest'.cols = cols
    BY <1>1
  <2> QED
    BY <1>1, <2>1, <2>2, <2>3
<1>5. \A t \in made' : WellFormed(t)
  BY <1>1 DEF ApiInv, TypeOK
<1>6. TypeOK'
  BY <1>1, <1>3, <1>4, <1>5 DEF TypeOK
<1> QED
  BY <1>1, <1>2, <1>4, <1>6

LEMMA BeginCombineApiInv ==
  ASSUME ApiInv, NEW t1, NEW t2, WellFormed(t1), WellFormed(t2), BeginCombine(t1, t2)
  PROVE  ApiInv'
<1> DEFINE ts == <<t1, t2>>
           cols == t1.cols \o t2.cols
<1>1. t1 \in Table /\ t2 \in Table /\ Len(t1.rows) \in Nat /\ Len(t1.rows) = Len(t2.rows)
  BY OfWellFormed DEF BeginCombine
<1>2. ts \in Seq(Table) /\ ts # <<>> /\ Len(ts) = 2 /\ ts[1] = t1 /\ ts[2] = t2
      /\ \A i \in DOMAIN ts : WellFormed(ts[i])
  BY <1>1
<1>3. cols \in Seq(Column) /\ cols # <<>>
  BY ColumnsOfNew
<1>4. Begin("combining", ts, cols)
  BY DEF BeginCombine
<1> HIDE DEF ts, cols
<1>5. /\ TypeOK' /\ op' = "combining" /\ src' = ts
      /\ \A n \in Nat : Built(dest', cols, n)
      /\ Len(sizes') >= NumDynamic(dest'.cols)
  BY <1>2, <1>3, <1>4, BeginApiInv
<1>6. Built(dest', cols, Len(t1.rows))
  BY <1>1, <1>5
<1>7. BuildInv'
  BY <1>1, <1>2, <1>5, <1>6 DEF BuildInv, cols
<1> QED
  BY <1>5, <1>7 DEF ApiInv

LEMMA BeginCounterApiInv ==
  ASSUME ApiInv, NEW t, WellFormed(t), BeginCounter(t)
  PROVE  ApiInv'
<1> DEFINE ts == <<t>>
           cols == Append(t.cols, CounterColumn)
<1>1. t \in Table /\ Len(t.rows) \in Nat
  BY OfWellFormed
<1>2. ts \in Seq(Table) /\ ts # <<>> /\ Len(ts) = 1 /\ ts[1] = t
      /\ \A i \in DOMAIN ts : WellFormed(ts[i])
  BY <1>1
<1>3. cols \in Seq(Column) /\ cols # <<>>
  BY ColumnsOfNew
<1>4. Begin("counting", ts, cols)
  BY DEF BeginCounter, CounterColumn
<1> HIDE DEF ts, cols
<1>5. /\ TypeOK' /\ op' = "counting" /\ src' = ts
      /\ \A n \in Nat : Built(dest', cols, n)
      /\ Len(sizes') >= NumDynamic(dest'.cols)
  BY <1>2, <1>3, <1>4, BeginApiInv
<1>6. Built(dest', cols, Len(t.rows))
  BY <1>1, <1>5
<1>7. BuildInv'
  BY <1>1, <1>2, <1>5, <1>6 DEF BuildInv, cols
<1> QED
  BY <1>5, <1>7 DEF ApiInv

\* A row of the right shape is put behind those that are there.
LEMMA EmitApiInv ==
  ASSUME ApiInv, op # "idle", NEW cols \in Seq(Column), cols # <<>>, NEW n \in Nat,
         Built(dest, cols, n), Len(dest.rows) < n,
         NEW row, WellRow(row, cols), NEW s \in Seq(Nat), row.sizes = ZeroedThen(s), Emit(row)
  PROVE  /\ TypeOK' /\ op' = op /\ src' = src
         /\ Built(dest', cols, n)
         /\ Len(sizes') >= NumDynamic(dest'.cols)
         /\ Len(dest'.rows) = Len(dest.rows) + 1 /\ LastRow(dest') = row /\ dest'.cols = cols
<1>1. /\ dest' = [dest EXCEPT !.rows = Append(@, row)]
      /\ sizes' = row.sizes /\ made' = made /\ op' = op /\ src' = src
  BY DEF Emit
<1>2. /\ Built(dest', cols, n) /\ dest'.cols = cols
      /\ Len(dest'.rows) = Len(dest.rows) + 1
      /\ dest'.rows[Len(dest.rows) + 1] = row
  <2>1. ASSUME NEW e,
               e = [cols |-> dest.cols, flagBytes |-> dest.flagBytes, rows |-> Append(dest.rows, row)]
        PROVE  /\ Built(e, cols, n) /\ e.cols = cols
               /\ Len(e.rows) = Len(dest.rows) + 1 /\ e.rows[Len(dest.rows) + 1] = row
    <3>1. Built(dest, cols, n) /\ Len(dest.rows) < n /\ WellRow(row, cols)
      OBVIOUS
    <3>2. Built(e, cols, n)
      BY <2>1, <3>1, BuiltOneMore, Zenon
    <3>3. dest.rows \in Seq(RowOfTable) /\ row \in RowOfTable
      BY DEF Built, Table, WellRow
    <3>4. /\ Len(Append(dest.rows, row)) = Len(dest.rows) + 1
          /\ Append(dest.rows, row)[Len(dest.rows) + 1] = row
      BY <3>3, Appended
    <3>5. e.cols = cols /\ e.rows = Append(dest.rows, row)
      BY <2>1 DEF Built
    <3> QED
      BY <3>2, <3>4, <3>5, Zenon
  <2>2. dest' = [cols |-> dest.cols, flagBytes |-> dest.flagBytes, rows |-> Append(dest.rows, row)]
    <3>1. dest \in Table
      BY DEF Built
    <3> QED
      BY <1>1, <3>1 DEF Table
  <2> QED
    BY <2>1, <2>2, Zenon
<1>3. LastRow(dest') = row
  BY <1>2 DEF LastRow
<1>4. WellFormed(dest')
  BY <1>2, BuiltIsWellFormed
<1>5. dest.cols = cols /\ sizes \in Seq(Nat) /\ Len(sizes) >= NumDynamic(dest.cols)
  BY DEF Built, ApiInv, BuildInv, TypeOK
<1>6. sizes' \in Seq(Nat) /\ Len(sizes') >= NumDynamic(dest'.cols)
  <2>1. ZeroedThen(s) \in Seq(Nat) /\ Len(ZeroedThen(s)) >= Len(sizes)
    BY <1>5, ZeroesInFront
  <2>2. NumDynamic(cols) \in Nat
    BY NumDynamicType
  <2> QED
    BY <1>1, <1>2, <1>5, <2>1, <2>2
<1>7. TypeOK'
  BY <1>1, <1>4, <1>6 DEF ApiInv, TypeOK
<1> QED
  BY <1>1, <1>2, <1>3, <1>6, <1>7

\* What is known of the operands while a row is combined.
LEMMA CombineOperands ==
  ASSUME ApiInv, CombineRow, NEW r, r = Len(dest.rows) + 1
  PROVE  /\ WellFormed(src[1]) /\ WellFormed(src[2]) /\ Len(src) = 2
         /\ r \in DOMAIN src[1].rows /\ r \in DOMAIN src[2].rows
         /\ Len(src[1].rows) \in Nat /\ Len(dest.rows) < Len(src[1].rows)
         /\ Built(dest, src[1].cols \o src[2].cols, Len(src[1].rows))
<1>1. op = "combining" /\ Len(dest.rows) < Len(src[1].rows)
  BY DEF CombineRow
<1>2. /\ Len(src) = 2 /\ Len(src[1].rows) = Len(src[2].rows)
      /\ Built(dest, src[1].cols \o src[2].cols, Len(src[1].rows))
  BY <1>1 DEF ApiInv, BuildInv
<1>3. WellFormed(src[1]) /\ WellFormed(src[2])
  <2>1. src \in Seq(Table) /\ \A i \in DOMAIN src : WellFormed(src[i])
    BY DEF ApiInv, TypeOK
  <2>2. 1 \in DOMAIN src /\ 2 \in DOMAIN src
    BY <1>2, <2>1
  <2> QED
    BY <2>1, <2>2
<1>4. /\ DOMAIN src[1].rows = 1..Len(src[1].rows) /\ Len(src[1].rows) \in Nat
      /\ DOMAIN src[2].rows = 1..Len(src[2].rows)
  BY <1>3, OfWellFormed
<1>5. Len(dest.rows) \in Nat
  <2>1. dest.rows \in Seq(RowOfTable)
    BY <1>2 DEF Built, Table
  <2> QED
    BY <2>1
<1> QED
  BY <1>1, <1>2, <1>3, <1>4, <1>5

LEMMA CombineRowApiInv ==
  ASSUME ApiInv, CombineRow, NEW r, r = Len(dest.rows) + 1
  PROVE  /\ ApiInv'
         /\ op' = op /\ src' = src /\ Len(dest'.rows) = r
         /\ dest'.cols = src[1].cols \o src[2].cols
         /\ LastRow(dest') =
              [bits  |-> CombinedFlags(src[1], src[2], dest, r),
               cells |-> src[1].rows[r].cells \o src[2].rows[r].cells,
               sizes |-> ZeroedThen(SizesIfAny(src[1], r) \o SizesIfAny(src[2], r))]
<1> DEFINE t1 == src[1]
           t2 == src[2]
           cols == t1.cols \o t2.cols
           s == SizesIfAny(t1, r) \o SizesIfAny(t2, r)
           row == [bits  |-> CombinedFlags(t1, t2, dest, r),
                   cells |-> t1.rows[r].cells \o t2.rows[r].cells,
                   sizes |-> ZeroedThen(s)]
<1>1. /\ WellFormed(t1) /\ WellFormed(t2) /\ Len(src) = 2
      /\ r \in DOMAIN t1.rows /\ r \in DOMAIN t2.rows
      /\ Len(t1.rows) \in Nat /\ Len(dest.rows) < Len(t1.rows)
      /\ Built(dest, cols, Len(t1.rows))
  BY CombineOperands
<1>2. op = "combining" /\ Emit(row)
  BY DEF CombineRow
<1> HIDE DEF t1, t2
<1>3. cols \in Seq(Column) /\ cols # <<>> /\ Len(cols) = Len(t1.cols) + Len(t2.cols)
  BY <1>1, ColumnsOfNew
<1>4. s \in Seq(Nat) /\ row.sizes = ZeroedThen(s) /\ ZeroedThen(s) \in Seq(Nat)
  <2>1. SizesIfAny(t1, r) \in Seq(Nat) /\ SizesIfAny(t2, r) \in Seq(Nat)
    BY <1>1, LengthsOfRow
  <2>2. s \in Seq(Nat)
    BY <2>1
  <2>3. sizes \in Seq(Nat)
    BY DEF ApiInv, TypeOK
  <2> HIDE DEF s
  <2> QED
    BY <2>2, <2>3, ZeroesInFront
<1>5. WellRow(row, cols)
  <2>1. dest.flagBytes = FlagBytesFor(cols)
    BY <1>1 DEF Built
  <2>2. /\ row.bits \subseteq 0..(BitsPerByte * FlagBytesFor(cols) - 1)
        /\ row.bits \subseteq Nat
    BY <1>1, <2>1, CombinedFlagsType
  <2>3. /\ t1.rows[r].cells \in Seq(Cell) /\ Len(t1.rows[r].cells) = Len(t1.cols)
        /\ t2.rows[r].cells \in Seq(Cell) /\ Len(t2.rows[r].cells) = Len(t2.cols)
    BY <1>1, OfWellFormed
  <2>4. row.cells \in Seq(Cell) /\ Len(row.cells) = Len(t1.cols) + Len(t2.cols)
    <3> DEFINE c1 == t1.rows[r].cells
               c2 == t2.rows[r].cells
    <3>1. row.cells = c1 \o c2
      OBVIOUS
    <3> HIDE DEF row
    <3>2. c1 \o c2 \in Seq(Cell) /\ Len(c1 \o c2) = Len(c1) + Len(c2)
      BY <2>3, ConcatProperties
    <3> QED
      BY <2>3, <3>1, <3>2
  <2>5. row \in RowOfTable
    BY <1>4, <2>2, <2>4 DEF RowOfTable
  <2> HIDE DEF row, cols
  <2> QED
    BY <1>3, <2>2, <2>4, <2>5 DEF WellRow
<1> HIDE DEF row, cols, s
<1>6. /\ TypeOK' /\ op' = op /\ src' = src
      /\ Built(dest', cols, Len(t1.rows))
      /\ Len(sizes') >= NumDynamic(dest'.cols)
      /\ Len(dest'.rows) = Len(dest.rows) + 1 /\ LastRow(dest') = row /\ dest'.cols = cols
  BY <1>1, <1>2, <1>3, <1>4, <1>5, EmitApiInv
<1>7. BuildInv'
  <2>1. Len(src) = 2 /\ Len(src[1].rows) = Len(src[2].rows)
    BY <1>2 DEF ApiInv, BuildInv
  <2> QED
    BY <1>2, <1>6, <2>1 DEF BuildInv, cols, t1, t2
<1> QED
  BY <1>6, <1>7 DEF ApiInv, row, cols, s, t1, t2

LEMMA CounterOperand ==
  ASSUME ApiInv, CounterRow, NEW r, r = Len(dest.rows) + 1
  PROVE  /\ WellFormed(src[1]) /\ Len(src) = 1
         /\ r \in DOMAIN src[1].rows
         /\ Len(src[1].rows) \in Nat /\ Len(dest.rows) < Len(src[1].rows)
         /\ Built(dest, Append(src[1].cols, CounterColumn), Len(src[1].rows))
<1>1. op = "counting" /\ Len(dest.rows) < Len(src[1].rows)
  BY DEF CounterRow
<1>2. /\ Len(src) = 1
      /\ Built(dest, Append(src[1].cols, CounterColumn), Len(src[1].rows))
  BY <1>1 DEF ApiInv, BuildInv
<1>3. WellFormed(src[1])
  <2>1. src \in Seq(Table) /\ \A i \in DOMAIN src : WellFormed(src[i])
    BY DEF ApiInv, TypeOK
  <2>2. 1 \in DOMAIN src
    BY <1>2, <2>1
  <2> QED
    BY <2>1, <2>2
<1>4. DOMAIN src[1].rows = 1..Len(src[1].rows) /\ Len(src[1].rows) \in Nat
  BY <1>3, OfWellFormed
<1>5. Len(dest.rows) \in Nat
  <2>1. dest.rows \in Seq(RowOfTable)
    BY <1>2 DEF Built, Table
  <2> QED
    BY <2>1
<1> QED
  BY <1>1, <1>2, <1>3, <1>4, <1>5

LEMMA CounterRowApiInv ==
  ASSUME ApiInv, CounterRow, NEW r, r = Len(dest.rows) + 1
  PROVE  /\ ApiInv'
         /\ op' = op /\ src' = src /\ Len(dest'.rows) = r
         /\ dest'.cols = Append(src[1].cols, CounterColumn)
         /\ LastRow(dest') =
              [bits  |-> Within(src[1].rows[r].bits, dest),
               cells |-> Append(src[1].rows[r].cells, CounterCell),
               sizes |-> ZeroedThen(SizesIfAny(src[1], r))]
<1> DEFINE t == src[1]
           cols == Append(t.cols, CounterColumn)
           s == SizesIfAny(t, r)
           row == [bits  |-> Within(t.rows[r].bits, dest),
                   cells |-> Append(t.rows[r].cells, CounterCell),
                   sizes |-> ZeroedThen(s)]
<1>1. /\ WellFormed(t) /\ Len(src) = 1
      /\ r \in DOMAIN t.rows
      /\ Len(t.rows) \in Nat /\ Len(dest.rows) < Len(t.rows)
      /\ Built(dest, cols, Len(t.rows))
  BY CounterOperand
<1>2. op = "counting" /\ Emit(row)
  BY DEF CounterRow
<1> HIDE DEF t
<1>3. cols \in Seq(Column) /\ cols # <<>> /\ Len(cols) = Len(t.cols) + 1
  BY <1>1, ColumnsOfNew
<1>4. s \in Seq(Nat) /\ row.sizes = ZeroedThen(s) /\ ZeroedThen(s) \in Seq(Nat)
  <2>1. s \in Seq(Nat)
    BY <1>1, LengthsOfRow
  <2>2. sizes \in Seq(Nat)
    BY DEF ApiInv, TypeOK
  <2> HIDE DEF s
  <2> QED
    BY <2>1, <2>2, ZeroesInFront
<1>5. WellRow(row, cols)
  <2>1. dest.flagBytes = FlagBytesFor(cols)
    BY <1>1 DEF Built
  <2>2. /\ t.rows[r].bits \subseteq Nat
        /\ t.rows[r].cells \in Seq(Cell) /\ Len(t.rows[r].cells) = Len(t.cols)
    BY <1>1, OfWellFormed
  <2>3. /\ row.bits \subseteq 0..(BitsPerByte * FlagBytesFor(cols) - 1)
        /\ row.bits \subseteq Nat
    <3> DEFINE b1 == t.rows[r].bits
    <3>1. row.bits = Within(b1, dest)
      OBVIOUS
    <3>2. b1 \in SUBSET Nat
      BY <2>2
    <3>3. cols \in Seq(Column)
      BY <1>3
    <3> HIDE DEF cols, row, b1
    <3>4. Within(b1, dest) \subseteq 0..(BitsPerByte * FlagBytesFor(cols) - 1)
      BY <2>1, <3>2, <3>3, WithinType, Zenon
    <3>5. Within(b1, dest) \subseteq Nat
      BY <3>2 DEF Within
    <3> QED
      BY <3>1, <3>4, <3>5, Zenon
  <2>4. row.cells \in Seq(Cell) /\ Len(row.cells) = Len(t.cols) + 1
    <3> DEFINE c1 == t.rows[r].cells
    <3>1. row.cells = Append(c1, CounterCell)
      OBVIOUS
    <3>2. c1 \in Seq(Cell) /\ Len(c1) = Len(t.cols) /\ CounterCell \in Cell
      BY <2>2, CounterAssumption
    <3> HIDE DEF row, c1
    <3>3. Append(c1, CounterCell) \in Seq(Cell) /\ Len(Append(c1, CounterCell)) = Len(c1) + 1
      BY <3>2, Appended
    <3> QED
      BY <3>1, <3>2, <3>3
  <2>5. row \in RowOfTable
    BY <1>4, <2>3, <2>4 DEF RowOfTable
  <2> HIDE DEF row, cols
  <2> QED
    BY <1>3, <2>3, <2>4, <2>5 DEF WellRow
<1> HIDE DEF row, cols, s
<1>6. /\ TypeOK' /\ op' = op /\ src' = src
      /\ Built(dest', cols, Len(t.rows))
      /\ Len(sizes') >= NumDynamic(dest'.cols)
      /\ Len(dest'.rows) = Len(dest.rows) + 1 /\ LastRow(dest') = row /\ dest'.cols = cols
  BY <1>1, <1>2, <1>3, <1>4, <1>5, EmitApiInv
<1>7. BuildInv'
  BY <1>1, <1>2, <1>6 DEF BuildInv, cols, t
<1> QED
  BY <1>6, <1>7 DEF ApiInv, row, cols, s, t

LEMMA ReturnApiInv ==
  ASSUME ApiInv, Return
  PROVE  ApiInv'
<1>1. WellFormed(dest)
  BY DEF ApiInv, TypeOK, Return
<1>2. \A t \in made' : WellFormed(t)
  BY <1>1 DEF ApiInv, TypeOK, Return
<1>3. op' = "idle" /\ src' = <<>> /\ dest' = NoTable /\ sizes' = <<>>
  BY DEF Return
<1> QED
  BY <1>2, <1>3 DEF ApiInv, TypeOK, BuildInv

LEMMA ApiInvStep ==
  ASSUME ApiInv, [ApiNext]_vars
  PROVE  ApiInv'
<1>0. \A t \in Sources \cup made : WellFormed(t)
  BY SourcesAssumption DEF ApiInv, TypeOK
<1>1. ASSUME NEW t1 \in Sources \cup made, NEW t2 \in Sources \cup made, BeginCombine(t1, t2)
      PROVE  ApiInv'
  BY <1>0, <1>1, BeginCombineApiInv
<1>2. ASSUME NEW t \in Sources \cup made, BeginCounter(t)
      PROVE  ApiInv'
  BY <1>0, <1>2, BeginCounterApiInv
<1>3. CASE CombineRow
  BY <1>3, CombineRowApiInv
<1>4. CASE CounterRow
  BY <1>4, CounterRowApiInv
<1>5. CASE Return
  BY <1>5, ReturnApiInv
<1>6. CASE UNCHANGED vars
  BY <1>6 DEF vars, ApiInv, TypeOK, BuildInv
<1> QED
  BY <1>1, <1>2, <1>3, <1>4, <1>5, <1>6 DEF ApiNext, Build

\* Any tables, and any tables made of them, are combined into well-formed tables:
\* no flag is written behind the bytes of flags, and every row has a cell for each
\* column, although the flags of a padded table are not where they belong.
THEOREM ApiTypeOK ==
  ApiSpec => []TypeOK
<1>1. Init => ApiInv
  BY ApiInvInit
<1>2. ApiInv /\ [ApiNext]_vars => ApiInv'
  BY ApiInvStep
<1>3. ApiInv => TypeOK
  BY DEF ApiInv
<1> QED
  BY <1>1, <1>2, <1>3, PTL DEF ApiSpec

----------------------------------------------------------------------------
\* The steps that a step property of the rows is about.
LEMMA RowSteps ==
  ASSUME ApiInv, ApiNext, op # "idle", op' = op
  PROVE  CombineRow \/ CounterRow
BY DEF ApiNext, Build, BeginCombine, BeginCounter, Begin, Return

\* The n-th column of variable length is one of them.
LEMMA RankRange ==
  ASSUME NEW cols \in Seq(Column), NEW c \in DOMAIN cols, cols[c].dyn
  PROVE  Rank(cols, c) \in 1..NumDynamic(cols)
<1> DEFINE S == {b \in 1..c : cols[b].dyn}
           D == {b \in DOMAIN cols : cols[b].dyn}
<1>1. DOMAIN cols = 1..Len(cols) /\ Len(cols) \in Nat /\ c \in 1..Len(cols)
  OBVIOUS
<1>2. IsFiniteSet(D)
  <2>1. IsFiniteSet(1..Len(cols))
    BY <1>1, FS_Interval
  <2> QED
    BY <1>1, <2>1, FS_Subset
<1>3. S \subseteq D /\ c \in S
  BY <1>1
<1> HIDE DEF S, D
<1>4. IsFiniteSet(S) /\ Cardinality(S) <= Cardinality(D)
  BY <1>2, <1>3, FS_Subset
<1>5. Cardinality(S) # 0
  BY <1>3, <1>4, FS_EmptySet
<1>6. Cardinality(S) \in Nat /\ Cardinality(D) \in Nat
  BY <1>2, <1>4, FS_CardinalityType
<1>7. Rank(cols, c) = Cardinality(S) /\ NumDynamic(cols) = Cardinality(D)
  BY DEF Rank, NumDynamic, S, D
<1> QED
  BY <1>4, <1>5, <1>6, <1>7

\* Lengths that start with a zero for every column of variable length are right for
\* empty arrays only.
LEMMA ZeroLengths ==
  ASSUME NEW cols \in Seq(Column), NEW row, NEW n \in Nat, n >= NumDynamic(cols),
         row.sizes \in Seq(Nat), Len(row.sizes) >= n, \A i \in 1..n : row.sizes[i] = 0
  PROVE  LengthsRight(cols, row) <=>
           \A c \in DOMAIN cols : cols[c].dyn => row.cells[c].len = 0
<1>1. ASSUME NEW c \in DOMAIN cols, cols[c].dyn
      PROVE  Rank(cols, c) <= Len(row.sizes) /\ row.sizes[Rank(cols, c)] = 0
  <2>1. Rank(cols, c) \in 1..NumDynamic(cols)
    BY <1>1, RankRange
  <2>2. NumDynamic(cols) \in Nat /\ Len(row.sizes) \in Nat
    BY NumDynamicType
  <2>3. Rank(cols, c) \in 1..n
    BY <2>1, <2>2
  <2> QED
    BY <2>2, <2>3
<1>2. ASSUME NEW c \in DOMAIN cols
      PROVE  (cols[c].dyn => /\ Rank(cols, c) <= Len(row.sizes)
                             /\ row.sizes[Rank(cols, c)] = row.cells[c].len)
             <=> (cols[c].dyn => row.cells[c].len = 0)
  BY <1>1
<1> QED
  BY <1>2, Zenon DEF LengthsRight

LEMMA LengthsStep ==
  ASSUME ApiInv, ApiNext, op # "idle", op' = op
  PROVE  LengthsRight(dest'.cols, LastRow(dest')) <=>
           \A c \in DOMAIN dest'.cols : dest'.cols[c].dyn => LastRow(dest').cells[c].len = 0
<1> DEFINE r == Len(dest.rows) + 1
<1>1. sizes \in Seq(Nat) /\ Len(sizes) >= NumDynamic(dest.cols)
  BY DEF ApiInv, TypeOK, BuildInv
<1>2. CASE CombineRow
  <2> DEFINE s == SizesIfAny(src[1], r) \o SizesIfAny(src[2], r)
  <2>1. /\ WellFormed(src[1]) /\ WellFormed(src[2])
        /\ r \in DOMAIN src[1].rows /\ r \in DOMAIN src[2].rows
        /\ Built(dest, src[1].cols \o src[2].cols, Len(src[1].rows))
    BY <1>2, CombineOperands
  <2>2. dest'.cols = src[1].cols \o src[2].cols /\ LastRow(dest').sizes = ZeroedThen(s)
    <3>1. /\ dest'.cols = src[1].cols \o src[2].cols
          /\ LastRow(dest') =
               [bits  |-> CombinedFlags(src[1], src[2], dest, r),
                cells |-> src[1].rows[r].cells \o src[2].rows[r].cells,
                sizes |-> ZeroedThen(s)]
      BY <1>2, CombineRowApiInv
    <3> DEFINE b == CombinedFlags(src[1], src[2], dest, r)
               c == src[1].rows[r].cells \o src[2].rows[r].cells
               z == ZeroedThen(s)
               new == LastRow(dest')
    <3>2. new = [bits |-> b, cells |-> c, sizes |-> z]
      BY <3>1
    <3> HIDE DEF s, b, c, z, new
    <3>3. new.sizes = z
      BY <3>2
    <3> QED
      BY <3>1, <3>3 DEF z, new
  <2>3. s \in Seq(Nat)
    <3> HIDE DEF r
    <3>1. SizesIfAny(src[1], r) \in Seq(Nat) /\ SizesIfAny(src[2], r) \in Seq(Nat)
      BY <2>1, LengthsOfRow
    <3> QED
      BY <3>1
  <2>4. dest.cols = dest'.cols /\ dest'.cols \in Seq(Column)
    BY <2>1, <2>2, ColumnsOfNew DEF Built
  <2> HIDE DEF s
  <2>5. /\ ZeroedThen(s) \in Seq(Nat) /\ Len(ZeroedThen(s)) >= Len(sizes)
        /\ \A i \in 1..Len(sizes) : ZeroedThen(s)[i] = 0
    BY <1>1, <2>3, ZeroesInFront
  <2> DEFINE cs  == dest'.cols
             new == LastRow(dest')
  <2>6. /\ cs \in Seq(Column) /\ Len(sizes) \in Nat /\ Len(sizes) >= NumDynamic(cs)
        /\ new.sizes \in Seq(Nat) /\ Len(new.sizes) >= Len(sizes)
        /\ \A i \in 1..Len(sizes) : new.sizes[i] = 0
    BY <1>1, <2>2, <2>4, <2>5
  <2> HIDE DEF cs, new
  <2>7. LengthsRight(cs, new) <=> \A c \in DOMAIN cs : cs[c].dyn => new.cells[c].len = 0
    BY <2>6, ZeroLengths
  <2> QED
    BY <2>7 DEF cs, new
<1>3. CASE CounterRow
  <2> DEFINE s == SizesIfAny(src[1], r)
  <2>1. /\ WellFormed(src[1]) /\ r \in DOMAIN src[1].rows
        /\ Built(dest, Append(src[1].cols, CounterColumn), Len(src[1].rows))
    BY <1>3, CounterOperand
  <2>2. dest'.cols = Append(src[1].cols, CounterColumn) /\ LastRow(dest').sizes = ZeroedThen(s)
    BY <1>3, CounterRowApiInv
  <2>3. s \in Seq(Nat)
    <3> HIDE DEF r
    <3> QED
      BY <2>1, LengthsOfRow
  <2>4. dest.cols = dest'.cols /\ dest'.cols \in Seq(Column)
    BY <2>1, <2>2, ColumnsOfNew DEF Built
  <2> HIDE DEF s
  <2>5. /\ ZeroedThen(s) \in Seq(Nat) /\ Len(ZeroedThen(s)) >= Len(sizes)
        /\ \A i \in 1..Len(sizes) : ZeroedThen(s)[i] = 0
    BY <1>1, <2>3, ZeroesInFront
  <2> DEFINE cs  == dest'.cols
             new == LastRow(dest')
  <2>6. /\ cs \in Seq(Column) /\ Len(sizes) \in Nat /\ Len(sizes) >= NumDynamic(cs)
        /\ new.sizes \in Seq(Nat) /\ Len(new.sizes) >= Len(sizes)
        /\ \A i \in 1..Len(sizes) : new.sizes[i] = 0
    BY <1>1, <2>2, <2>4, <2>5
  <2> HIDE DEF cs, new
  <2>7. LengthsRight(cs, new) <=> \A c \in DOMAIN cs : cs[c].dyn => new.cells[c].len = 0
    BY <2>6, ZeroLengths
  <2> QED
    BY <2>7 DEF cs, new
<1> QED
  BY <1>2, <1>3, RowSteps

\* get_dynamic_array_size() of a new table: whatever tables it was made of, the row is
\* right about its arrays exactly if all of them are empty.
THEOREM ApiLengths ==
  ApiSpec => LengthsOfNewRowsAreZero
<1>1. Init => ApiInv
  BY ApiInvInit
<1>2. ApiInv /\ [ApiNext]_vars => ApiInv'
  BY ApiInvStep
<1>3. ApiInv /\ [ApiNext]_vars =>
        [op # "idle" /\ op' = op =>
           (LengthsRight(dest'.cols, LastRow(dest')) <=>
              \A c \in DOMAIN dest'.cols : dest'.cols[c].dyn => LastRow(dest').cells[c].len = 0)]_vars
  BY LengthsStep
<1> QED
  BY <1>1, <1>2, <1>3, PTL DEF ApiSpec, LengthsOfNewRowsAreZero

----------------------------------------------------------------------------
LEMMA LeastElement ==
  ASSUME NEW A \in SUBSET Nat, A # {}
  PROVE  \E a \in A : \A b \in A : a <= b
<1>1. PICK a \in A : \A b \in A : <<b, a>> \notin OpToRel(<, Nat)
  BY NatLessThanWellFounded, WFMin
<1>2. ASSUME NEW b \in A
      PROVE  a <= b
  <2>1. ~(b < a)
    BY <1>1 DEF OpToRel
  <2> QED
    BY <2>1
<1> QED
  BY <1>2

\* The row new is made of the row first and n cells behind its cells.
Extends(new, first, n) ==
  /\ first.bits \subseteq Nat /\ first.cells \in Seq(Cell)
  /\ new.cells \in Seq(Cell) /\ Len(new.cells) = Len(first.cells) + n
  /\ \A c \in 1..Len(first.cells) : new.cells[c] = first.cells[c]
  /\ \A b \in 0..(Len(first.cells) - 1) : b \in new.bits <=> b \in first.bits

\* Its flags are right if those of the cells behind are.
LEMMA FlagsOfExtended ==
  ASSUME NEW n \in Nat, NEW new, NEW first, Extends(new, first, n), FlagsRight(first)
  PROVE  FlagsRight(new) <=>
           \A b \in Len(first.cells)..(Len(new.cells) - 1) :
             b \in new.bits <=> b \in Added(new, first)
<1> DEFINE m == Len(first.cells)
           k == Len(new.cells)
<1>1. /\ m \in Nat /\ k = m + n /\ DOMAIN first.cells = 1..m /\ DOMAIN new.cells = 1..k
      /\ \A c \in 1..m : new.cells[c] = first.cells[c]
      /\ \A b \in 0..(m - 1) : b \in new.bits <=> b \in first.bits
  BY DEF Extends
<1> HIDE DEF m, k
<1>2. ASSUME NEW c \in 1..m
      PROVE  (c - 1) \in new.bits <=> new.cells[c].null
  <2>1. c - 1 \in 0..(m - 1)
    BY <1>1
  <2>2. (c - 1) \in first.bits <=> first.cells[c].null
    BY <1>1 DEF FlagsRight
  <2> QED
    BY <1>1, <2>1, <2>2
<1>3. ASSUME NEW b \in m..(k - 1)
      PROVE  b \in Added(new, first) <=> new.cells[b + 1].null
  BY <1>3 DEF Added, m, k
<1>4. ASSUME FlagsRight(new), NEW b \in m..(k - 1)
      PROVE  b \in new.bits <=> b \in Added(new, first)
  <2>1. b + 1 \in 1..k /\ (b + 1) - 1 = b
    BY <1>1
  <2>2. ((b + 1) - 1) \in new.bits <=> new.cells[b + 1].null
    BY <1>1, <1>4, <2>1 DEF FlagsRight
  <2> QED
    BY <1>3, <2>1, <2>2
<1>5. ASSUME \A b \in m..(k - 1) : b \in new.bits <=> b \in Added(new, first)
      PROVE  FlagsRight(new)
  <2>1. ASSUME NEW c \in 1..k
        PROVE  (c - 1) \in new.bits <=> new.cells[c].null
    <3>1. CASE c \in 1..m
      BY <1>2, <3>1
    <3>2. CASE c \notin 1..m
      <4>1. c - 1 \in m..(k - 1) /\ (c - 1) + 1 = c
        BY <1>1, <3>2
      <4>2. (c - 1) \in Added(new, first) <=> new.cells[(c - 1) + 1].null
        BY <1>3, <4>1
      <4> QED
        BY <1>5, <4>1, <4>2
    <3> QED
      BY <3>1, <3>2
  <2> QED
    BY <1>1, <2>1 DEF FlagsRight
<1> QED
  BY <1>4, <1>5 DEF m, k

\* Flags behind the first row's columns and the flags of what was added: together right
\* exactly if the former are among the latter.
LEMMA StraysMatter ==
  ASSUME NEW n \in Nat, NEW new, NEW first, Extends(new, first, n), FlagsRight(first),
         \A b \in Len(first.cells)..(Len(new.cells) - 1) :
           b \in new.bits <=> b \in Stray(new, first) \/ b \in Added(new, first)
  PROVE  FlagsRight(new) <=> Stray(new, first) \subseteq Added(new, first)
<1> DEFINE m == Len(first.cells)
           k == Len(new.cells)
<1>1. FlagsRight(new) <=> \A b \in m..(k - 1) : b \in new.bits <=> b \in Added(new, first)
  BY FlagsOfExtended
<1>2. Stray(new, first) \subseteq m..(k - 1)
  <2>1. first.bits \subseteq Nat /\ m \in Nat /\ k \in Nat
    BY DEF Extends
  <2> QED
    BY <2>1 DEF Stray
<1> HIDE DEF m, k
<1>3. \A b \in m..(k - 1) :
        b \in new.bits <=> b \in Stray(new, first) \/ b \in Added(new, first)
  BY DEF m, k
<1> QED
  BY <1>1, <1>2, <1>3, Zenon

\* The flags of the second row, seen from the new row: those of the cells added.
LEMMA AddedFlags ==
  ASSUME NEW n \in Nat, NEW new, NEW first, NEW second, Extends(new, first, n),
         second.cells \in Seq(Cell), Len(second.cells) = n, FlagsRight(second),
         \A x \in 1..n : new.cells[Len(first.cells) + x] = second.cells[x],
         NEW b \in Len(first.cells)..(Len(new.cells) - 1)
  PROVE  b \in Added(new, first) <=> b - Len(first.cells) \in second.bits
<1> DEFINE m == Len(first.cells)
<1>1. m \in Nat /\ Len(new.cells) = m + n /\ DOMAIN second.cells = 1..n
  BY DEF Extends
<1> HIDE DEF m
<1>2. b \in m..(m + n - 1) /\ \A x \in 1..n : new.cells[m + x] = second.cells[x]
  BY <1>1 DEF m
<1> DEFINE x == b - m + 1
<1>3. x \in 1..n /\ m + x = b + 1 /\ x - 1 = b - m
  BY <1>1, <1>2
<1> HIDE DEF x
<1>4. (x - 1) \in second.bits <=> second.cells[x].null
  BY <1>1, <1>3 DEF FlagsRight
<1>5. new.cells[m + x] = second.cells[x]
  BY <1>2, <1>3
<1>6. b \in Added(new, first) <=> new.cells[b + 1].null
  BY DEF Added
<1> QED
  BY <1>3, <1>4, <1>5, <1>6 DEF m

\* Where the flags of the columns of the new table come from.
LEMMA FlagComesFrom ==
  ASSUME NEW t1, NEW t2, WellFormed(t1), WellFormed(t2), NEW r \in DOMAIN t1.rows,
         r \in DOMAIN t2.rows, NEW d, d.flagBytes = FlagBytesFor(t1.cols \o t2.cols),
         NEW b \in 0..(Len(t1.cols) + Len(t2.cols) - 1)
  PROVE  /\ b < Len(t1.cols) =>
              (b \in CombinedFlags(t1, t2, d, r) <=> b \in t1.rows[r].bits)
         /\ ~Padded(t1) /\ b >= Len(t1.cols) =>
              (b \in CombinedFlags(t1, t2, d, r) <=>
                 b \in t1.rows[r].bits \/ b - Len(t1.cols) \in t2.rows[r].bits)
         /\ Padded(t1) =>
              (b \in CombinedFlags(t1, t2, d, r) <=>
                 b \in t1.rows[r].bits \/ b - BitsPerByte * t1.flagBytes \in t2.rows[r].bits)
<1> DEFINE n1 == Len(t1.cols)
           n2 == Len(t2.cols)
           b1 == t1.rows[r].bits
           b2 == t2.rows[r].bits
<1>1. n1 \in Nat /\ n2 \in Nat /\ b1 \subseteq Nat /\ b2 \subseteq Nat /\ t1.flagBytes \in Nat
  BY OfWellFormed
<1> DEFINE flags == CombinedFlags(t1, t2, d, r)
<1>0. b \in 0..(n1 + n2 - 1)
  OBVIOUS
<1>2. b \in flags <=> b \in b1 \/ \E x \in FlagsToCopy(t1, t2, r) : b = PlaceOfFlag(t1, x)
  <2>1. b \in 0..(n1 + n2)
    <3> HIDE DEF n1, n2
    <3> QED
      BY <1>0, <1>1
  <2>2. b \in flags <=> b \in b1 \/ b \in Placed(t1, t2, r)
    BY <2>1, CombinedFlagsMembers
  <2>3. b \in Placed(t1, t2, r) <=> \E x \in FlagsToCopy(t1, t2, r) : b = PlaceOfFlag(t1, x)
    BY Zenon DEF Placed
  <2> QED
    BY <2>2, <2>3, Zenon
<1> HIDE DEF n1, n2, b1, b2, flags
<1>3. \A x \in FlagsToCopy(t1, t2, r) : x \in b2 /\ x \in Nat
  BY <1>1 DEF FlagsToCopy, b2
<1>4. CASE b < n1
  <2>1. \A x \in FlagsToCopy(t1, t2, r) : PlaceOfFlag(t1, x) \in Nat /\ PlaceOfFlag(t1, x) >= n1
    BY <1>3, PlaceBehind DEF n1
  <2>2. b \in flags <=> b \in b1
    BY <1>0, <1>1, <1>2, <1>4, <2>1
  <2>3. ~(b >= n1)
    BY <1>0, <1>1, <1>4
  <2>4. ASSUME Padded(t1)
        PROVE  b - BitsPerByte * t1.flagBytes \notin b2
    <3>1. 8 * t1.flagBytes >= n1
      BY DEF WellFormed, BitsPerByte, n1
    <3>2. b - 8 * t1.flagBytes \notin Nat
      BY <1>0, <1>1, <1>4, <3>1
    <3> QED
      BY <1>1, <3>2 DEF BitsPerByte
  <2> QED
    BY <1>4, <2>2, <2>3, <2>4 DEF flags, n1, b1, b2
<1>5. CASE ~(b < n1)
  <2>1. b \in Nat /\ b >= n1 /\ b < n1 + n2
    BY <1>0, <1>1, <1>5
  <2>2. ASSUME ~Padded(t1)
        PROVE  (\E x \in FlagsToCopy(t1, t2, r) : b = PlaceOfFlag(t1, x)) <=> b - n1 \in b2
    <3>1. \A x \in FlagsToCopy(t1, t2, r) : PlaceOfFlag(t1, x) = n1 + x
      BY <1>3, <2>2, PlaceBehindColumns DEF n1
    <3>2. \A x \in FlagsToCopy(t1, t2, r) : b = n1 + x => b - n1 = x
      BY <1>1, <1>3
    <3>3. b - n1 \in b2 => b - n1 \in FlagsToCopy(t1, t2, r) /\ b = n1 + (b - n1)
      <4>1. b = n1 + (b - n1) /\ b - n1 < n2
        BY <1>1, <2>1
      <4> QED
        BY <4>1 DEF FlagsToCopy, b2, n2
    <3>4. ASSUME NEW x \in FlagsToCopy(t1, t2, r), b = PlaceOfFlag(t1, x)
          PROVE  b - n1 \in b2
      BY <1>3, <3>1, <3>2, <3>4
    <3>5. ASSUME b - n1 \in b2
          PROVE  \E x \in FlagsToCopy(t1, t2, r) : b = PlaceOfFlag(t1, x)
      BY <3>1, <3>3, <3>5
    <3> QED
      BY <3>4, <3>5
  <2>3. ASSUME Padded(t1)
        PROVE  (\E x \in FlagsToCopy(t1, t2, r) : b = PlaceOfFlag(t1, x))
               <=> b - BitsPerByte * t1.flagBytes \in b2
    <3> DEFINE f == BitsPerByte * t1.flagBytes
    <3>1. f \in Nat
      BY <1>1 DEF BitsPerByte
    <3>2. FlagsToCopy(t1, t2, r) = b2 /\ \A x \in Nat : PlaceOfFlag(t1, x) = f + x
      BY <2>3 DEF Padded, FlagsToCopy, PlaceOfFlag, b2
    <3> HIDE DEF f
    <3>3. \A x \in b2 : b = f + x <=> x = b - f
      BY <1>1, <2>1, <3>1
    <3>4. (\E x \in FlagsToCopy(t1, t2, r) : b = PlaceOfFlag(t1, x)) <=> b - f \in b2
      BY <1>1, <3>2, <3>3
    <3> QED
      BY <3>4 DEF f
  <2> QED
    BY <1>2, <1>5, <2>2, <2>3 DEF flags, n1, b1, b2
<1> QED
  BY <1>4, <1>5 DEF n1

\* The row add_cntr_column() makes: the flags behind the columns of the table it counts
\* are now the counter's.
LEMMA CounterFlags ==
  ASSUME NEW t, WellFormed(t), NEW r \in DOMAIN t.rows, FlagsRight(t.rows[r]),
         NEW d, d.flagBytes = FlagBytesFor(Append(t.cols, CounterColumn)), NEW new,
         new.bits = Within(t.rows[r].bits, d),
         new.cells = Append(t.rows[r].cells, CounterCell)
  PROVE  FlagsRight(new) <=> Stray(new, t.rows[r]) \subseteq Added(new, t.rows[r])
<1> DEFINE first == t.rows[r]
           m == Len(t.cols)
           cols == Append(t.cols, CounterColumn)
<1>1. /\ first.bits \subseteq Nat /\ first.bits \in SUBSET Nat /\ first.cells \in Seq(Cell)
      /\ Len(first.cells) = m /\ m \in Nat
  BY OfWellFormed
<1>2. cols \in Seq(Column) /\ Len(cols) = m + 1
  BY ColumnsOfNew
<1>3. new.bits = Within(first.bits, d) /\ new.cells = Append(first.cells, CounterCell)
      /\ d.flagBytes = FlagBytesFor(cols) /\ FlagsRight(first)
  OBVIOUS
<1> HIDE DEF first, m, cols
<1>4. CounterCell \in Cell /\ ~CounterCell.null
  BY CounterAssumption
<1>5. /\ new.cells \in Seq(Cell) /\ Len(new.cells) = m + 1
      /\ new.cells[m + 1] = CounterCell
      /\ \A c \in 1..m : new.cells[c] = first.cells[c]
  BY <1>1, <1>3, <1>4, Appended
<1>6. \A b \in 0..(m + 1) : b \in new.bits <=> b \in first.bits
  <2>1. \A b \in 0..Len(cols) : b \in Within(first.bits, d) <=> b \in first.bits
    BY <1>1, <1>2, <1>3, WithinType
  <2> QED
    BY <1>2, <1>3, <2>1
<1>7. Extends(new, first, 1)
  <2>1. \A b \in 0..(m - 1) : b \in new.bits <=> b \in first.bits
    BY <1>1, <1>6
  <2> QED
    BY <1>1, <1>5, <2>1 DEF Extends
<1>8. Added(new, first) = {}
  BY <1>1, <1>4, <1>5 DEF Added
<1>9. \A b \in m..(Len(new.cells) - 1) :
        b \in new.bits <=> b \in Stray(new, first) \/ b \in Added(new, first)
  <2>1. \A b \in m..m : b \in first.bits <=> b \in Stray(new, first)
    BY <1>1, <1>5 DEF Stray
  <2>2. Len(new.cells) - 1 = m
    BY <1>1, <1>5
  <2>3. \A b \in m..m : b \in new.bits <=> b \in first.bits
    BY <1>1, <1>6
  <2> QED
    BY <1>8, <2>1, <2>2, <2>3
<1>10. FlagsRight(new) <=> Stray(new, first) \subseteq Added(new, first)
  BY <1>1, <1>3, <1>7, <1>9, StraysMatter
<1> QED
  BY <1>10 DEF first

\* The row combine_data_details() makes.  Behind a first table that is not padded, the
\* flags of the second row are those of the cells added.  Behind one that is, none of
\* them is, unless there is a flag left over in the right place.
LEMMA CombineFlags ==
  ASSUME NEW t1, NEW t2, WellFormed(t1), WellFormed(t2), NEW r \in DOMAIN t1.rows,
         r \in DOMAIN t2.rows, FlagsRight(t1.rows[r]), FlagsRight(t2.rows[r]),
         NEW d, d.flagBytes = FlagBytesFor(t1.cols \o t2.cols), NEW new,
         new.bits = CombinedFlags(t1, t2, d, r),
         new.cells = t1.rows[r].cells \o t2.rows[r].cells
  PROVE  /\ ~Padded(t1) \/ Added(new, t1.rows[r]) = {} =>
              (FlagsRight(new) <=> Stray(new, t1.rows[r]) \subseteq Added(new, t1.rows[r]))
         /\ Padded(t1) /\ Added(new, t1.rows[r]) # {} /\ Stray(new, t1.rows[r]) = {} =>
              ~FlagsRight(new)
<1> DEFINE first == t1.rows[r]
           second == t2.rows[r]
           m == Len(t1.cols)
           n == Len(t2.cols)
           flags == CombinedFlags(t1, t2, d, r)
           added == Added(new, first)
           stray == Stray(new, first)
           f == BitsPerByte * t1.flagBytes
<1>1. /\ first.bits \subseteq Nat /\ first.cells \in Seq(Cell) /\ Len(first.cells) = m /\ m \in Nat
      /\ second.bits \subseteq Nat /\ second.cells \in Seq(Cell) /\ Len(second.cells) = n /\ n \in Nat
  BY OfWellFormed
<1>2. /\ new.bits = flags /\ new.cells = first.cells \o second.cells
      /\ FlagsRight(first) /\ FlagsRight(second)
  OBVIOUS
<1>3. f \in Nat /\ (Padded(t1) => f >= m + BitsPerByte)
  <2>1. t1.flagBytes \in Nat /\ m \in Nat
    BY OfWellFormed
  <2> DEFINE k == t1.flagBytes
  <2> HIDE DEF m, k
  <2>2. 8 * k \in Nat
    BY <2>1 DEF k
  <2>3. ASSUME m % 8 = 0, k > m \div 8
        PROVE  8 * k >= m + 8
    BY <2>1, <2>3 DEF k
  <2> QED
    BY <2>2, <2>3 DEF Padded, BitsPerByte, m, k
<1>4. ASSUME NEW b \in 0..(m + n - 1)
      PROVE  /\ b < m => (b \in flags <=> b \in first.bits)
             /\ ~Padded(t1) /\ b >= m => (b \in flags <=> b \in first.bits \/ b - m \in second.bits)
             /\ Padded(t1) => (b \in flags <=> b \in first.bits \/ b - f \in second.bits)
  BY FlagComesFrom
<1> HIDE DEF first, second, m, n, flags, added, stray, f
<1>5. /\ new.cells \in Seq(Cell) /\ Len(new.cells) = m + n
      /\ \A c \in 1..m : new.cells[c] = first.cells[c]
      /\ \A x \in 1..n : new.cells[m + x] = second.cells[x]
  <2> DEFINE both == first.cells \o second.cells
  <2>1. /\ both \in Seq(Cell) /\ Len(both) = m + n
        /\ \A c \in 1..(m + n) : both[c] = IF c <= m THEN first.cells[c] ELSE second.cells[c - m]
    BY <1>1, ConcatProperties, ZenonT(30)
  <2>2. new.cells = both
    BY <1>2
  <2> HIDE DEF both
  <2>3. ASSUME NEW c \in 1..m
        PROVE  both[c] = first.cells[c]
    <3>1. c \in 1..(m + n) /\ c <= m
      BY <1>1
    <3> QED
      BY <2>1, <3>1
  <2>4. ASSUME NEW x \in 1..n
        PROVE  both[m + x] = second.cells[x]
    <3> DEFINE c == m + x
    <3>1. c \in 1..(m + n) /\ ~(c <= m) /\ c - m = x
      BY <1>1
    <3> HIDE DEF c
    <3>2. both[c] = second.cells[c - m]
      BY <2>1, <3>1
    <3> QED
      BY <3>1, <3>2 DEF c
  <2> QED
    BY <2>1, <2>2, <2>3, <2>4
<1>6. Extends(new, first, n)
  <2>1. \A b \in 0..(m - 1) : b \in new.bits <=> b \in first.bits
    <3>1. TAKE b \in 0..(m - 1)
    <3>2. b \in 0..(m + n - 1) /\ b < m
      BY <1>1
    <3> QED
      BY <1>2, <1>4, <3>2
  <2> QED
    BY <1>1, <1>5, <2>1 DEF Extends
<1>7. ASSUME NEW b \in m..(m + n - 1)
      PROVE  b \in added <=> b - m \in second.bits
  <2>1. b \in Len(first.cells)..(Len(new.cells) - 1)
    BY <1>1, <1>5
  <2>2. \A x \in 1..n : new.cells[Len(first.cells) + x] = second.cells[x]
    BY <1>1, <1>5
  <2>3. b \in Added(new, first) <=> b - Len(first.cells) \in second.bits
    BY <1>1, <1>2, <1>6, <2>1, <2>2, AddedFlags
  <2> QED
    BY <1>1, <2>3 DEF added
<1>8. ASSUME NEW b \in m..(m + n - 1)
      PROVE  b \in stray <=> b \in first.bits
  BY <1>1, <1>5 DEF Stray, stray
<1>9. added \subseteq m..(m + n - 1) /\ stray \subseteq m..(m + n - 1)
  <2>1. added \subseteq m..(m + n - 1)
    <3>1. added \subseteq Len(first.cells)..(Len(new.cells) - 1)
      BY Zenon DEF Added, added
    <3>2. Len(first.cells)..(Len(new.cells) - 1) = m..(m + n - 1)
      BY <1>1, <1>5
    <3> QED
      BY <3>1, <3>2, Zenon
  <2>2. ASSUME NEW b \in stray
        PROVE  b \in m..(m + n - 1)
    <3>1. b \in first.bits /\ m <= b /\ b < m + n
      BY <1>1, <1>5 DEF Stray, stray
    <3> QED
      BY <1>1, <3>1
  <2> QED
    BY <2>1, <2>2
<1>10. ASSUME NEW b \in m..(m + n - 1)
       PROVE  b \in 0..(m + n - 1) /\ b >= m /\ ~(b < m)
  BY <1>1
<1>11. ASSUME ~Padded(t1) \/ added = {}
       PROVE  FlagsRight(new) <=> stray \subseteq added
  <2>1. ASSUME NEW b \in m..(m + n - 1)
        PROVE  b \in new.bits <=> b \in stray \/ b \in added
    <3>1. CASE ~Padded(t1)
      BY <1>2, <1>4, <1>7, <1>8, <1>10, <3>1
    <3>2. CASE Padded(t1)
      <4>1. added = {}
        BY <1>11, <3>2
      <4>2. b - f \notin second.bits
        <5>1. SUFFICES ASSUME b - f \in second.bits
                       PROVE  FALSE
          OBVIOUS
        <5>2. b - f \in Nat /\ f >= m + 8
          BY <1>1, <1>3, <3>2, <5>1 DEF BitsPerByte
        <5>3. m + (b - f) \in m..(m + n - 1) /\ (m + (b - f)) - m = b - f
          BY <1>1, <1>3, <5>2
        <5>4. m + (b - f) \in added
          BY <1>7, <5>1, <5>3
        <5> QED
          BY <4>1, <5>4
      <4> QED
        BY <1>2, <1>4, <1>8, <1>10, <3>2, <4>1, <4>2
    <3> QED
      BY <3>1, <3>2
  <2>2. \A b \in Len(first.cells)..(Len(new.cells) - 1) :
          b \in new.bits <=> b \in Stray(new, first) \/ b \in Added(new, first)
    BY <1>1, <1>5, <2>1 DEF added, stray
  <2> QED
    BY <1>1, <1>2, <1>6, <2>2, StraysMatter DEF added, stray
<1>12. ASSUME Padded(t1), added # {}, stray = {}
       PROVE  ~FlagsRight(new)
  <2>1. added \in SUBSET Nat
    BY <1>1, <1>9
  <2>2. PICK a \in added : \A b \in added : a <= b
    BY <1>12, <2>1, LeastElement
  <2>3. a \in m..(m + n - 1) /\ a \in 0..(m + n - 1) /\ a \in Nat
    BY <1>9, <1>10, <2>1
  <2>4. a \notin first.bits
    BY <1>8, <1>12, <2>3
  <2>5. a - f \notin second.bits
    <3>1. SUFFICES ASSUME a - f \in second.bits
                   PROVE  FALSE
      OBVIOUS
    <3>2. a - f \in Nat /\ f >= m + 8
      BY <1>1, <1>3, <1>12, <3>1 DEF BitsPerByte
    <3>3. m + (a - f) \in m..(m + n - 1) /\ (m + (a - f)) - m = a - f /\ ~(a <= m + (a - f))
      BY <1>1, <1>3, <2>3, <3>2
    <3>4. m + (a - f) \in added
      BY <1>7, <3>1, <3>3
    <3> QED
      BY <2>2, <3>3, <3>4
  <2>6. a \notin new.bits
    BY <1>2, <1>4, <1>12, <2>3, <2>4, <2>5
  <2>7. FlagsRight(new) <=>
          \A b \in Len(first.cells)..(Len(new.cells) - 1) : b \in new.bits <=> b \in added
    BY <1>1, <1>2, <1>6, FlagsOfExtended DEF added
  <2>8. a \in Len(first.cells)..(Len(new.cells) - 1)
    BY <1>1, <1>5, <2>3
  <2> QED
    BY <2>6, <2>7, <2>8
<1> QED
  BY <1>11, <1>12 DEF first, added, stray

LEMMA FlagsStep ==
  ASSUME ApiInv, ApiNext, op # "idle", op' = op,
         NEW r, r = Len(dest'.rows), NEW new, new = LastRow(dest'),
         NEW first, first = src[1].rows[r],
         \A i \in DOMAIN src : FlagsRight(src[i].rows[r])
  PROVE  /\ ~Misplaced(new, first) =>
              (FlagsRight(new) <=> Stray(new, first) \subseteq Added(new, first))
         /\ Misplaced(new, first) /\ Stray(new, first) = {} => ~FlagsRight(new)
<1>1. src \in Seq(Table)
  BY DEF ApiInv, TypeOK
<1>2. CASE CombineRow
  <2> DEFINE q == Len(dest.rows) + 1
             t1 == src[1]
             t2 == src[2]
  <2>1. /\ WellFormed(t1) /\ WellFormed(t2) /\ Len(src) = 2
        /\ q \in DOMAIN t1.rows /\ q \in DOMAIN t2.rows
        /\ Built(dest, t1.cols \o t2.cols, Len(t1.rows))
    BY <1>2, CombineOperands
  <2>2. /\ Len(dest'.rows) = q
        /\ LastRow(dest') = [bits  |-> CombinedFlags(t1, t2, dest, q),
                             cells |-> t1.rows[q].cells \o t2.rows[q].cells,
                             sizes |-> ZeroedThen(SizesIfAny(t1, q) \o SizesIfAny(t2, q))]
    BY <1>2, CombineRowApiInv
  <2>3. r = q
    BY <2>2
  <2> HIDE DEF q
  <2>4. /\ new.bits = CombinedFlags(t1, t2, dest, r)
        /\ new.cells = t1.rows[r].cells \o t2.rows[r].cells
    <3> DEFINE b == CombinedFlags(t1, t2, dest, r)
               c == t1.rows[r].cells \o t2.rows[r].cells
               z == ZeroedThen(SizesIfAny(t1, r) \o SizesIfAny(t2, r))
    <3>1. new = [bits |-> b, cells |-> c, sizes |-> z]
      BY <2>2, <2>3
    <3> HIDE DEF b, c, z
    <3>2. new.bits = b /\ new.cells = c
      BY <3>1
    <3> QED
      BY <3>2 DEF b, c
  <2>5. 1 \in DOMAIN src /\ 2 \in DOMAIN src
    BY <1>1, <2>1
  <2>6. FlagsRight(t1.rows[r]) /\ FlagsRight(t2.rows[r])
    BY <2>5
  <2>7. dest.flagBytes = FlagBytesFor(t1.cols \o t2.cols)
    BY <2>1 DEF Built
  <2>8. op = "combining" /\ (Misplaced(new, first) <=> Padded(t1) /\ Added(new, first) # {})
    BY <1>2 DEF CombineRow, Misplaced
  <2>9. first = t1.rows[r]
    OBVIOUS
  <2> HIDE DEF t1, t2
  <2>10. /\ ~Padded(t1) \/ Added(new, first) = {} =>
              (FlagsRight(new) <=> Stray(new, first) \subseteq Added(new, first))
         /\ Padded(t1) /\ Added(new, first) # {} /\ Stray(new, first) = {} => ~FlagsRight(new)
    <3>1. r \in DOMAIN t1.rows /\ r \in DOMAIN t2.rows
      BY <2>1, <2>3
    <3>2. /\ ~Padded(t1) \/ Added(new, t1.rows[r]) = {} =>
               (FlagsRight(new) <=> Stray(new, t1.rows[r]) \subseteq Added(new, t1.rows[r]))
          /\ Padded(t1) /\ Added(new, t1.rows[r]) # {} /\ Stray(new, t1.rows[r]) = {} =>
               ~FlagsRight(new)
      BY <2>1, <2>4, <2>6, <2>7, <3>1, CombineFlags, ZenonT(30)
    <3> QED
      BY <2>9, <3>2, Zenon
  <2> QED
    BY <2>8, <2>10, Zenon
<1>3. CASE CounterRow
  <2> DEFINE q == Len(dest.rows) + 1
             t == src[1]
  <2>1. /\ WellFormed(t) /\ Len(src) = 1 /\ q \in DOMAIN t.rows
        /\ Built(dest, Append(t.cols, CounterColumn), Len(t.rows))
    BY <1>3, CounterOperand
  <2>2. /\ Len(dest'.rows) = q
        /\ LastRow(dest') = [bits  |-> Within(t.rows[q].bits, dest),
                             cells |-> Append(t.rows[q].cells, CounterCell),
                             sizes |-> ZeroedThen(SizesIfAny(t, q))]
    BY <1>3, CounterRowApiInv
  <2>3. r = q
    BY <2>2
  <2> HIDE DEF q
  <2>4. /\ new.bits = Within(t.rows[r].bits, dest)
        /\ new.cells = Append(t.rows[r].cells, CounterCell)
    <3> DEFINE b == Within(t.rows[r].bits, dest)
               c == Append(t.rows[r].cells, CounterCell)
               z == ZeroedThen(SizesIfAny(t, r))
    <3>1. new = [bits |-> b, cells |-> c, sizes |-> z]
      BY <2>2, <2>3
    <3> HIDE DEF b, c, z
    <3>2. new.bits = b /\ new.cells = c
      BY <3>1
    <3> QED
      BY <3>2 DEF b, c
  <2>5. 1 \in DOMAIN src
    BY <1>1, <2>1
  <2>6. FlagsRight(t.rows[r])
    BY <2>5
  <2>7. dest.flagBytes = FlagBytesFor(Append(t.cols, CounterColumn))
    BY <2>1 DEF Built
  <2>8. ~Misplaced(new, first)
    BY <1>3 DEF CounterRow, Misplaced
  <2>9. first = t.rows[r]
    OBVIOUS
  <2> HIDE DEF t
  <2>10. FlagsRight(new) <=> Stray(new, first) \subseteq Added(new, first)
    BY <2>1, <2>3, <2>4, <2>6, <2>7, <2>9, CounterFlags
  <2> QED
    BY <2>8, <2>10, Zenon
<1> QED
  BY <1>2, <1>3, RowSteps

\* is_null() of a new row, whatever tables it was made of: right for the cells put behind
\* those of the first table exactly if no flag lies there already that should not, and
\* wrong if the first table has a byte of flags to spare and the second one a null.
THEOREM ApiFlags ==
  ApiSpec => PaddingMisplacesFlags
<1>1. Init => ApiInv
  BY ApiInvInit
<1>2. ApiInv /\ [ApiNext]_vars => ApiInv'
  BY ApiInvStep
<1>3. ApiInv /\ [ApiNext]_vars =>
        [op # "idle" /\ op' = op =>
           LET r     == Len(dest'.rows)
               new   == LastRow(dest')
               first == src[1].rows[r]
           IN  (\A i \in DOMAIN src : FlagsRight(src[i].rows[r])) =>
                 /\ ~Misplaced(new, first) =>
                      (FlagsRight(new) <=> Stray(new, first) \subseteq Added(new, first))
                 /\ Misplaced(new, first) /\ Stray(new, first) = {} => ~FlagsRight(new)]_vars
  BY FlagsStep
<1> QED
  BY <1>1, <1>2, <1>3, PTL DEF ApiSpec, PaddingMisplacesFlags

============================================================================
