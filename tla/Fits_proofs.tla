----------------------------- MODULE Fits_proofs -----------------------------
(***************************************************************************)
(* Tables of any size and files of any origin: what read_fits() makes of a     *)
(* cell is a function of what the file has of it, which is a function of what  *)
(* write_fits() was given.  So a round trip is that of one cell, and the       *)
(* invariant says that rows are written and read in order, with the null       *)
(* values of their columns.                                                 *)
(***************************************************************************)
EXTENDS Fits, FiniteSetTheorems, WellFoundedInduction, TLAPS

-----------------------------------------------------------------------------
(* The file's column and cell of a table's, and the other way round. *)

\* fc is the column of the file that is written for col.
WrittenColumn(col, fc) ==
  /\ fc.name = col.name /\ fc.unit = Text(col.attrs, "unit") /\ fc.width = fc.size
  /\ IF col.type = "UINT64_LE" THEN \/ fc.type = "CHAR" /\ fc.size \in Nat \ {0}
                                    \/ fc.type = "INT64_LE" /\ fc.size = col.size
                               ELSE fc.type = col.type /\ fc.size = col.size
  /\ fc.tnull = IF fc.type \in Integers6 THEN <<Null(col)>> ELSE <<>>

StoredNull(fc) ==
  CASE fc.type = "CHAR" -> <<NUL>>
    [] fc.type = "INT8_LE" -> [i \in 1..fc.size |-> 0]
    [] fc.type \in Floats -> [i \in 1..fc.size |-> NaN]
    [] fc.type \in Unsigned -> [i \in 1..fc.size |-> Scaled(fc.tnull[1])]
    [] OTHER -> [i \in 1..fc.size |-> fc.tnull[1]]
StoredOf(col, fc, x) ==
  CASE x.null -> StoredNull(fc)
    [] ~x.null /\ fc.type # "CHAR" -> x.elements
    [] OTHER -> <<WithoutTrailingBlanks(IF col.type = "CHAR" THEN x.elements
                                        ELSE Digits(x.elements))>>

IsNullElement(fc, e) == (GotNull(fc) /\ e = fc.tnull[1]) \/ (fc.type \in Floats /\ e = NaN)
ReadOf(fc, elements) ==
  CASE fc.type = "CHAR" -> ReadString(fc, elements)
    [] fc.type # "CHAR" /\ elements # <<>> /\ (\A i \in DOMAIN elements : IsNullElement(fc, elements[i]))
         -> NullCell(fc.type, fc.size)
    [] OTHER -> Cell(FALSE, elements)

ColumnRead(fc, col) == /\ col.name = fc.name /\ col.type = fc.type /\ col.size = fc.size
                       /\ col.null = get_column_null_str(fc)

WrittenColumns(cols, fcs) ==
  /\ IsSequence(fcs) /\ Len(fcs) = Len(cols)
  /\ \A c \in 1..Len(cols) : WrittenColumn(cols[c], fcs[c])
StoredRows(cols, fcs, rs) ==
  [r \in 1..Len(rs) |-> [c \in 1..Len(cols) |-> StoredOf(cols[c], fcs[c], rs[r][c])]]
ReadRows(fcs, frs) ==
  [r \in 1..Len(frs) |-> [c \in 1..Len(fcs) |-> ReadOf(fcs[c], frs[r][c])]]

\* rs has the first cells of M, row by row.
Begins(rs, M, w) ==
  /\ IsSequence(rs) /\ Len(rs) <= Len(M)
  /\ \A r \in 1..(Len(rs) - 1) : rs[r] = M[r]
  /\ rs # <<>> => LET n == Len(rs) IN /\ IsSequence(rs[n]) /\ Len(rs[n]) \in 1..w
                                      /\ \A c \in 1..Len(rs[n]) : rs[n][c] = M[n][c]

\* What is read is of a kind that does not change any more.
SettledColumn(col) == /\ col.type # "UINT64_LE"
                      /\ col.null # <<>> => col.type \in Integers6 /\ col.null[1] # Max64
SettledCell(col, x) ==
  /\ x.null => col.type # "INT8_LE" /\ x = NullCell(col.type, col.size)
  /\ ~x.null =>
       /\ col.type = "CHAR" => x.elements = <<>> \/ Last(x.elements) # Blank
       /\ col.type \in Floats => x.elements # [i \in 1..col.size |-> NaN]
       /\ col.type \in Integers6 /\ col.null # <<>> => x.elements # [i \in 1..col.size |-> col.null[1]]
Settled(cols, rs) ==
  \A c \in DOMAIN cols : SettledColumn(cols[c]) /\ \A x \in CellsOf(rs, c) : SettledCell(cols[c], x)
NothingTaken(cols, rs) == \A c \in DOMAIN cols : \A x \in CellsOf(rs, c) : ~TakenForNull(cols[c], x)
NothingLost(cols, rs) == \A c \in DOMAIN cols : \A x \in CellsOf(rs, c) : ~NullLost(cols[c], x)
\* Of a table that was read, and from which file.
Reread(cols, rs) == /\ Settled(cols, rs) /\ (trips > 1 => NothingTaken(cols, rs))
                    /\ trips > 2 => NothingLost(cols, rs)

-----------------------------------------------------------------------------
(* The invariant. *)

Writing == phase \in {"writing", "undefined"}

PhaseInv ==
  /\ stage \in {"create", "keywords", "rows out", "columns in", "rows in", "done", "failed"}
  /\ phase \in {"writing", "undefined", "entering", "reading", "distributing", "read"}
  /\ trips \in Nat /\ (phase \in {"writing", "undefined"} => trips > 0)
  /\ stage \in {"create", "rows out"} => phase = "writing"
  /\ stage = "keywords" => phase # "read"
  /\ stage \in {"columns in", "rows in", "failed"} => phase = "distributing"
  /\ stage = "done" => phase = "read"

TableInv ==
  Writing => /\ IsTable(columns, rows)
             /\ column_infos # <<>> \/ trips > 1 => Reread(columns, rows)
OutInv ==
  Writing /\ stage # "create" =>
    /\ WrittenColumns(columns, fits_columns)
    /\ Begins(fits_rows, StoredRows(columns, fits_columns, rows), Len(columns))

FileInv == ~Writing => IsFile(fits_columns, fits_rows)
WrittenInv ==
  ~Writing /\ trips > 0 =>
    /\ IsTable(before.columns, before.rows)
    /\ WrittenColumns(before.columns, fits_columns)
    /\ fits_rows = StoredRows(before.columns, fits_columns, before.rows)
    /\ before.reread \/ trips > 1 => Reread(before.columns, before.rows)
ForeignInv == trips = 0 => ~before.reread /\ SubstringsFit(fits_columns, fits_rows)

\* The null value of column c is found where column_infos says.
InfoInv(c) ==
  LET fc == fits_columns[c]  info == column_infos[c]
  IN /\ info = Info(fc.type, fc.size, GotNull(fc), info.idx)
     /\ GotNull(fc) => /\ info.idx \in 1..Len(null_values[fc.type])
                       /\ null_values[fc.type][info.idx] = fc.tnull[1]
ColumnsInv ==
  /\ IsSequence(columns) /\ Len(columns) <= Len(fits_columns)
  /\ IsSequence(column_infos) /\ Len(column_infos) = Len(columns)
  /\ null_values \in [Integers6 -> Seq(Nat)]
  /\ \A c \in 1..Len(columns) : /\ fits_columns[c].type # "COMPLEX"
                                /\ ColumnRead(fits_columns[c], columns[c]) /\ InfoInv(c)
                                /\ "attrs" \in DOMAIN columns[c]

\* A cell of column c has been read.
Visited(c) == Len(rows) > 1 \/ (rows # <<>> /\ c <= Len(rows[1]))
AttrsInv ==
  \A c \in 1..Len(columns) :
    LET fc == fits_columns[c]  field == FieldAttributesOf(fc.name)
    IN columns[c].attrs = IF Visited(c) /\ fc.unit # "" THEN Emplace(field, "unit", fc.unit)
                          ELSE field

ReadingInv ==
  /\ ~Writing /\ stage = "keywords" => columns = <<>> /\ rows = <<>>
  /\ stage = "columns in" => rows = <<>>
  /\ stage \in {"columns in", "rows in", "done"} => ColumnsInv /\ AttrsInv
  /\ stage \in {"rows in", "done"} => Len(columns) = Len(fits_columns)
  /\ stage = "rows in" => Begins(rows, ReadRows(fits_columns, fits_rows), Len(columns))
  /\ stage = "done" => rows = ReadRows(fits_columns, fits_rows)

Inv == /\ PhaseInv /\ TableInv /\ OutInv
       /\ FileInv /\ WrittenInv /\ ForeignInv /\ ReadingInv

-----------------------------------------------------------------------------
\* Of a list of labelled properties, the one at j has no value to write.
Missing(L, k) == \E i, j \in 1..k : /\ i < j /\ IsPlain(L[i])
                                   /\ "value" \notin DOMAIN L[j].prop.attrs
                                   /\ ~(IsInfo(L[j]) /\ Unnamed(L[j]))
WriterAt(L, k) ==
  /\ k \in 0..Len(L) /\ todo = SubSeq(L, k + 1, Len(L))
  /\ got_fits_keyword <=> \E i \in 1..k : IsPlain(L[i])
  /\ ~Missing(L, k)

MetaInv == IsMetadata(meta) /\ IsSequence(params)
KeywordsInv ==
  trips > 0 => LET L == Combined(original) IN
    /\ IsSequence(L)
    /\ phase = "writing" => \E k \in 0..Len(L) : WriterAt(L, k)
    /\ phase = "undefined" => Missing(L, Len(L))
    /\ phase \notin {"writing", "undefined"} => ~Missing(L, Len(L))

-----------------------------------------------------------------------------
(* Sequences. *)

LEMMA SequenceFacts ==
  ASSUME NEW s, IsSequence(s)
  PROVE  DOMAIN s = 1..Len(s) /\ Len(s) \in Nat
BY DEF IsSequence

LEMMA SequenceIsTyped ==
  ASSUME NEW s, IsSequence(s), NEW S, \A i \in 1..Len(s) : s[i] \in S
  PROVE  s \in Seq(S)
BY DEF IsSequence

LEMMA TypedIsSequence ==
  ASSUME NEW S, NEW s \in Seq(S)
  PROVE  IsSequence(s)
BY DEF IsSequence

LEMMA EqualSequences ==
  ASSUME NEW s, NEW t, IsSequence(s), IsSequence(t), Len(s) = Len(t),
         \A i \in 1..Len(s) : s[i] = t[i]
  PROVE  s = t
BY DEF IsSequence

LEMMA EmptySequence ==
  /\ IsSequence(<<>>) /\ Len(<<>>) = 0
  /\ \A s : IsSequence(s) => (s = <<>> <=> Len(s) = 0)
BY DEF IsSequence

LEMMA AppendFacts ==
  ASSUME NEW s, IsSequence(s), NEW x
  PROVE  /\ IsSequence(Append(s, x)) /\ Len(Append(s, x)) = Len(s) + 1
         /\ \A i \in 1..Len(s) : Append(s, x)[i] = s[i]
         /\ Append(s, x)[Len(s) + 1] = x
<1> DEFINE S == {s[i] : i \in 1..Len(s)} \cup {x}
<1>1. s \in Seq(S)
  <2>1. \A i \in 1..Len(s) : s[i] \in S
    OBVIOUS
  <2> HIDE DEF S
  <2> QED
    BY <2>1, SequenceIsTyped
<1>2. x \in S
  OBVIOUS
<1> HIDE DEF S
<1>3. /\ Append(s, x) \in Seq(S) /\ Len(Append(s, x)) = Len(s) + 1
      /\ \A i \in 1..Len(s) : Append(s, x)[i] = s[i]
      /\ Append(s, x)[Len(s) + 1] = x
  BY <1>1, <1>2
<1> QED
  BY <1>3, TypedIsSequence

LEMMA ConcatenationFacts ==
  ASSUME NEW s, NEW t, IsSequence(s), IsSequence(t)
  PROVE  /\ IsSequence(s \o t) /\ Len(s \o t) = Len(s) + Len(t)
         /\ \A i \in 1..Len(s) : (s \o t)[i] = s[i]
         /\ \A i \in 1..Len(t) : (s \o t)[Len(s) + i] = t[i]
<1> DEFINE S == {s[i] : i \in 1..Len(s)} \cup {t[i] : i \in 1..Len(t)}
<1>1. s \in Seq(S)
  <2>1. \A i \in 1..Len(s) : s[i] \in S
    OBVIOUS
  <2> HIDE DEF S
  <2> QED
    BY <2>1, SequenceIsTyped
<1>2. t \in Seq(S)
  <2>1. \A i \in 1..Len(t) : t[i] \in S
    OBVIOUS
  <2> HIDE DEF S
  <2> QED
    BY <2>1, SequenceIsTyped
<1> HIDE DEF S
<1>3. /\ s \o t \in Seq(S) /\ Len(s \o t) = Len(s) + Len(t)
      /\ \A i \in 1..Len(s) : (s \o t)[i] = s[i]
      /\ \A i \in 1..Len(t) : (s \o t)[Len(s) + i] = t[i]
  BY <1>1, <1>2
<1>4. IsSequence(s \o t)
  BY <1>3, TypedIsSequence
<1> QED
  BY <1>3, <1>4

LEMMA SubSeqFacts ==
  ASSUME NEW s, IsSequence(s), NEW m \in 1..(Len(s) + 1), NEW n \in 0..Len(s), m <= n + 1
  PROVE  /\ IsSequence(SubSeq(s, m, n)) /\ Len(SubSeq(s, m, n)) = n - m + 1
         /\ \A i \in 1..(n - m + 1) : SubSeq(s, m, n)[i] = s[m + i - 1]
<1> DEFINE S == {s[i] : i \in 1..Len(s)}
<1>1. s \in Seq(S)
  <2>1. \A i \in 1..Len(s) : s[i] \in S
    OBVIOUS
  <2> HIDE DEF S
  <2> QED
    BY <2>1, SequenceIsTyped
<1> HIDE DEF S
<1>2. Len(s) \in Nat
  BY <1>1
<1>3. /\ SubSeq(s, m, n) \in Seq(S) /\ Len(SubSeq(s, m, n)) = n - m + 1
      /\ \A i \in 1..(n - m + 1) : SubSeq(s, m, n)[i] = s[m + i - 1]
  BY <1>1, <1>2
<1> QED
  BY <1>3, TypedIsSequence

LEMMA LiteralSequence ==
  ASSUME NEW n \in Nat, NEW s, s = [i \in 1..n |-> s[i]]
  PROVE  IsSequence(s) /\ Len(s) = n
BY DEF IsSequence

-----------------------------------------------------------------------------
(* The least and the greatest number. *)

LEMMA LeastElement ==
  ASSUME NEW T, T \subseteq Nat, T # {}
  PROVE  \E x \in T : \A y \in T : x <= y
<1> DEFINE R == OpToRel(<, Nat)
<1>1. IsWellFoundedOn(R, Nat)
  BY NatLessThanWellFounded
<1>2. \A p \in Nat \X Nat : p[1] < p[2] => p \in R
  BY DEF OpToRel
<1> HIDE DEF R
<1>3. PICK x \in T : \A y \in T : <<y, x>> \notin R
  BY <1>1, WFMin
<1>4. \A y \in T : ~(y < x)
  BY <1>2, <1>3
<1> QED
  BY <1>4

\* What Max() finds in a set of numbers that has 0 and is bounded.
LEMMA MaxFacts ==
  ASSUME NEW n \in Nat, NEW T, T \subseteq 1..n
  PROVE  LET m == Max({0} \cup T) IN /\ m \in 0..n /\ (m = 0 \/ m \in T)
                                    /\ \A x \in T : x <= m
<1> DEFINE U == {0} \cup T
           above == {k \in 0..n : \A x \in U : x <= k}
<1>1. n \in above
  OBVIOUS
<1>2. PICK k \in above : \A j \in above : k <= j
  <2> HIDE DEF above
  <2>1. above \subseteq Nat
    BY DEF above
  <2> QED
    BY <1>1, <2>1, LeastElement
<1>3. k \in U
  <2> SUFFICES ASSUME k \notin U PROVE FALSE
    OBVIOUS
  <2>1. k # 0 /\ k \in 1..n
    BY <1>2
  <2>2. \A x \in U : x \in 0..n /\ x <= k /\ x # k
    BY <1>2
  <2>3. k - 1 \in above
    BY <2>1, <2>2
  <2> QED
    BY <1>2, <2>1, <2>3
<1>4. \E x \in U : \A y \in U : x >= y
  BY <1>2, <1>3
<1>5. Max(U) \in U /\ \A y \in U : Max(U) >= y
  <2> HIDE DEF U
  <2>1. (CHOOSE x \in U : \A y \in U : x >= y) \in U
        /\ \A y \in U : (CHOOSE x \in U : \A z \in U : x >= z) >= y
    BY <1>4, Zenon
  <2> QED
    BY <2>1 DEF Max
<1>6. Max(U) \in 0..n
  <2>1. U \subseteq 0..n
    OBVIOUS
  <2> HIDE DEF U
  <2> QED
    BY <1>5, <2>1
<1> QED
  BY <1>5, <1>6

-----------------------------------------------------------------------------
(* Blocks of one length, side by side. *)

LEMMA Multiples ==
  ASSUME NEW i \in Nat, NEW w \in Nat
  PROVE  /\ i * w \in Nat /\ (i + 1) * w = i * w + w
         /\ \A m \in Nat : i <= m => i * w <= m * w
<1>1. /\ i * w \in Nat /\ (i + 1) * w = i * w + w
  OBVIOUS
<1>2. ASSUME NEW m \in Nat, i <= m
      PROVE  i * w <= m * w
  <2>1. PICK d \in Nat : m = i + d
    <3>1. m - i \in Nat /\ m = i + (m - i)
      BY <1>2
    <3> QED
      BY <3>1
  <2>2. m * w = i * w + d * w /\ d * w \in Nat
    BY <2>1
  <2> QED
    BY <2>2, <1>1
<1> QED
  BY <1>1, <1>2

\* All but the last block have the length w.
Blocks(b, S, w) == /\ IsSequence(b) /\ b # <<>> /\ w \in Nat
                   /\ \A i \in 1..Len(b) : b[i] \in Seq(S)
                   /\ \A i \in 1..(Len(b) - 1) : Len(b[i]) = w
SideBySide(f, b, S, w) ==
  /\ f \in Seq(S) /\ Len(f) = (Len(b) - 1) * w + Len(b[Len(b)])
  /\ \A i \in 1..Len(b) : \A k \in 1..Len(b[i]) : f[(i - 1) * w + k] = b[i][k]

LEMMA FlattenSeqFacts ==
  ASSUME NEW S, NEW b, NEW w, Blocks(b, S, w)
  PROVE  SideBySide(FlattenSeq(b), b, S, w)
<1> USE DEF Blocks
<1> DEFINE n == Len(b)
           P(m, g) == g = [i \in 1..m |-> IF i = 1 THEN b[i] ELSE g[i - 1] \o b[i]]
<1>1. n \in Nat /\ n >= 1
  BY SequenceFacts, EmptySequence
<1>2. P(1, [i \in 1..1 |-> b[i]])
  OBVIOUS
<1>3. ASSUME NEW x \in 2..n, NEW g, P(x - 1, g)
      PROVE  \E h : P(x, h)
  <2> DEFINE h == [i \in 1..x |-> IF i < x THEN g[i] ELSE g[x - 1] \o b[x]]
  <2>1. \A i \in 1..(x - 1) : g[i] = IF i = 1 THEN b[i] ELSE g[i - 1] \o b[i]
    BY <1>3
  <2> HIDE DEF P
  <2>2. \A i \in 1..(x - 1) : h[i] = g[i]
    BY <1>1
  <2>3. h[x] = g[x - 1] \o b[x]
    <3>1. x \in 1..x /\ ~(x < x)
      BY <1>1
    <3> QED
      BY <3>1
  <2> HIDE DEF h
  <2>4. \A i \in 1..x : h[i] = IF i = 1 THEN b[i] ELSE h[i - 1] \o b[i]
    <3> TAKE i \in 1..x
    <3>1. CASE i = x
      <4>1. x - 1 \in 1..(x - 1) /\ i # 1
        BY <1>1, <3>1
      <4> QED
        BY <2>2, <2>3, <3>1, <4>1
    <3>2. CASE i # x
      <4>1. i \in 1..(x - 1) /\ (i # 1 => i - 1 \in 1..(x - 1))
        BY <1>1, <3>2
      <4> QED
        BY <2>1, <2>2, <4>1
    <3> QED
      BY <3>1, <3>2
  <2>5. h = [i \in 1..x |-> h[i]]
    BY DEF h
  <2>6. P(x, h)
    BY <2>4, <2>5 DEF P
  <2> QED
    BY <2>6
<1> HIDE DEF P
<1>9. \E g : P(n, g)
  <2> DEFINE T == {m \in 1..n : ~\E g : P(m, g)}
  <2> SUFFICES ASSUME T # {} PROVE FALSE
    BY <1>1
  <2>1. T \subseteq Nat
    BY <1>1
  <2>2. PICK x \in T : \A y \in T : x <= y
    BY <2>1, LeastElement
  <2>3. x \in 1..n /\ x # 1
    BY <1>2, <2>2
  <2>4. x \in 2..n /\ x - 1 \in 1..n /\ x - 1 < x
    BY <1>1, <2>3
  <2>5. x - 1 \notin T
    <3> HIDE DEF T
    <3> QED
      BY <1>1, <2>2, <2>4
  <2>6. PICK g : P(x - 1, g)
    BY <2>4, <2>5
  <2> QED
    BY <1>3, <2>2, <2>4, <2>6
<1> DEFINE f == CHOOSE g : P(n, g)
<1>10. P(n, f)
  BY <1>9, Zenon
<1>4. FlattenSeq(b) = f[n]
  BY <1>1 DEF FlattenSeq, P
<1> HIDE DEF f
<1>5. f[1] = b[1] /\ \A m \in 1..(n - 1) : f[m + 1] = f[m] \o b[m + 1]
  <2>1. \A i \in 1..n : f[i] = IF i = 1 THEN b[i] ELSE f[i - 1] \o b[i]
    BY <1>10 DEF P
  <2>2. 1 \in 1..n
    BY <1>1
  <2>3. ASSUME NEW m \in 1..(n - 1) PROVE f[m + 1] = f[m] \o b[m + 1]
    <3>1. m + 1 \in 1..n /\ m + 1 # 1 /\ (m + 1) - 1 = m
      BY <1>1
    <3> QED
      BY <2>1, <3>1
  <2> QED
    BY <2>1, <2>2, <2>3
<1> DEFINE Q(m) == /\ f[m] \in Seq(S) /\ Len(f[m]) = (m - 1) * w + Len(b[m])
                   /\ \A i \in 1..m : \A k \in 1..Len(b[i]) : f[m][(i - 1) * w + k] = b[i][k]
<1>6. Q(1)
  <2>1. b[1] \in Seq(S) /\ (1 - 1) * w = 0 /\ Len(b[1]) \in Nat
    BY <1>1
  <2>2. f[1] \in Seq(S) /\ Len(f[1]) = (1 - 1) * w + Len(b[1])
    <3>1. f[1] = b[1]
      BY <1>5
    <3>2. Len(b[1]) = (1 - 1) * w + Len(b[1])
      <4>1. \A a : \A c \in Nat : a = 0 => c = a + c
        OBVIOUS
      <4> QED
        BY <2>1, <4>1, Zenon
    <3> QED
      BY <2>1, <3>1, <3>2, Zenon
  <2>3. ASSUME NEW i \in 1..1, NEW k \in 1..Len(b[i])
        PROVE  f[1][(i - 1) * w + k] = b[i][k]
    <3>1. i = 1 /\ (i - 1) * w = 0 /\ k \in Nat
      BY <2>1
    <3>2. 0 + k = k
      BY <3>1
    <3> QED
      BY <1>5, <3>1, <3>2
  <2> QED
    BY <2>2, <2>3
<1>7. ASSUME NEW m \in 1..(n - 1), Q(m)
      PROVE  Q(m + 1)
  <2>1. m \in Nat /\ b[m + 1] \in Seq(S) /\ Len(b[m]) = w
    BY <1>1
  <2>2. (m - 1) * w + w = m * w
    BY <2>1
  <2>3. Len(f[m]) = m * w /\ f[m] \in Seq(S)
    BY <1>7, <2>1, <2>2
  <2>4. f[m + 1] = f[m] \o b[m + 1]
    BY <1>5
  <2>5. /\ f[m + 1] \in Seq(S) /\ Len(f[m + 1]) = m * w + Len(b[m + 1])
        /\ \A i \in 1..(m * w) : f[m + 1][i] = f[m][i]
        /\ \A k \in 1..Len(b[m + 1]) : f[m + 1][m * w + k] = b[m + 1][k]
    <3>1. PICK p \in Nat : p = m * w
      BY <2>1, Multiples
    <3>2. PICK s \in Seq(S) : s = f[m] /\ Len(s) = p
      BY <2>3, <3>1
    <3>3. PICK t \in Seq(S) : t = b[m + 1]
      BY <2>1
    <3>4. /\ s \o t \in Seq(S) /\ Len(s \o t) = p + Len(t)
          /\ \A i \in 1..p : (s \o t)[i] = s[i]
          /\ \A k \in 1..Len(t) : (s \o t)[p + k] = t[k]
      <4>1. s \o t \in Seq(S)
        OBVIOUS
      <4>2. IsSequence(s) /\ IsSequence(t)
        BY TypedIsSequence
      <4>3. /\ Len(s \o t) = Len(s) + Len(t)
            /\ \A i \in 1..Len(s) : (s \o t)[i] = s[i]
            /\ \A k \in 1..Len(t) : (s \o t)[Len(s) + k] = t[k]
        BY <4>2, ConcatenationFacts
      <4> QED
        BY <3>2, <4>1, <4>3, Zenon
    <3>5. f[m + 1] = s \o t
      BY <2>4, <3>2, <3>3
    <3> QED
      BY <3>1, <3>2, <3>3, <3>4, <3>5
  <2>6. ASSUME NEW i \in 1..(m + 1), NEW k \in 1..Len(b[i])
        PROVE  f[m + 1][(i - 1) * w + k] = b[i][k]
    <3>1. CASE i = m + 1
      <4>1. i - 1 = m
        BY <1>1, <3>1
      <4> QED
        BY <2>5, <3>1, <4>1
    <3>2. CASE i < m + 1
      <4>1. i - 1 \in Nat /\ i \in 1..m /\ i \in 1..(n - 1) /\ i <= m
        BY <1>1, <3>2
      <4>2. Len(b[i]) = w
        BY <4>1
      <4>3. (i - 1) * w \in Nat /\ (i - 1) * w + w = i * w /\ i * w <= m * w
        BY <4>1, <2>1, Multiples
      <4>4. (i - 1) * w + k \in 1..(m * w)
        <5> DEFINE p == (i - 1) * w
                   q == i * w
                   r == m * w
        <5>1. p \in Nat /\ p + w = q /\ q <= r /\ k \in 1..w /\ r \in Nat
          BY <2>1, <4>2, <4>3, Multiples
        <5> HIDE DEF p, q, r
        <5>2. p + k \in 1..r
          BY <5>1
        <5> QED
          BY <5>2 DEF p, r
      <4>5. f[m][(i - 1) * w + k] = b[i][k]
        BY <1>7, <4>1
      <4> QED
        BY <2>5, <4>4, <4>5
    <3> QED
      BY <1>1, <3>1, <3>2
  <2>7. (m + 1) - 1 = m
    BY <2>1
  <2> QED
    BY <2>5, <2>6, <2>7
<1>8. Q(n)
  <2> DEFINE T == {m \in 1..n : ~Q(m)}
  <2> HIDE DEF Q
  <2> SUFFICES ASSUME T # {} PROVE FALSE
    BY <1>1
  <2>1. PICK x \in T : \A y \in T : x <= y
    <3>1. T \subseteq Nat
      BY <1>1
    <3> QED
      BY <3>1, LeastElement
  <2>2. x \in 1..n /\ ~Q(x) /\ x # 1
    BY <1>6, <2>1
  <2>3. x - 1 \in 1..(n - 1) /\ (x - 1) + 1 = x
    BY <1>1, <2>2
  <2>4. x - 1 \notin T
    BY <2>1, <2>2, <1>1
  <2>5. Q(x - 1)
    BY <2>3, <2>4, <1>1
  <2>6. Q((x - 1) + 1)
    BY <1>7, <2>3, <2>5
  <2> QED
    BY <2>2, <2>3, <2>6
<1> QED
  BY <1>4, <1>8 DEF SideBySide

-----------------------------------------------------------------------------
(* Rows of cells, filled one by one. *)

IsMatrix(M, w) == /\ w \in Nat /\ IsSequence(M) /\ (M # <<>> => w > 0)
                  /\ \A r \in 1..Len(M) : IsSequence(M[r]) /\ Len(M[r]) = w

LEMMA BeginsEmpty ==
  ASSUME NEW M, NEW w, IsMatrix(M, w)
  PROVE  Begins(<<>>, M, w)
BY EmptySequence, SequenceFacts DEF Begins, IsMatrix

LEMMA LastOfRows ==
  ASSUME NEW rs, IsSequence(rs)
  PROVE  rs # <<>> => Len(rs) \in Nat /\ Len(rs) >= 1 /\ Last(rs) = rs[Len(rs)]
BY SequenceFacts, EmptySequence DEF Last

LEMMA CursorInMatrix ==
  ASSUME NEW M, NEW w, IsMatrix(M, w), NEW rs, Begins(rs, M, w),
         Cursor(rs, w)[1] \in DOMAIN M
  PROVE  Cursor(rs, w)[1] \in 1..Len(M) /\ Cursor(rs, w)[2] \in 1..w
<1>1. DOMAIN M = 1..Len(M) /\ Len(M) \in Nat
  BY SequenceFacts DEF IsMatrix
<1>2. M # <<>> /\ w \in Nat \ {0}
  BY <1>1, EmptySequence DEF IsMatrix
<1>3. CASE rs = <<>>
  BY <1>1, <1>2, <1>3 DEF Cursor
<1>4. CASE rs # <<>>
  BY <1>1, <1>2, <1>4, LastOfRows DEF Cursor, Begins
<1> QED
  BY <1>3, <1>4

LEMMA BeginsGrows ==
  ASSUME NEW M, NEW w, IsMatrix(M, w), NEW rs, Begins(rs, M, w),
         Cursor(rs, w)[1] \in DOMAIN M
  PROVE  LET at == Cursor(rs, w) IN Begins(AddCell(rs, w, M[at[1]][at[2]]), M, w)
<1> DEFINE at == Cursor(rs, w)
           x == M[at[1]][at[2]]
           n == Len(rs)
<1>1. DOMAIN M = 1..Len(M) /\ Len(M) \in Nat /\ IsSequence(rs) /\ n \in Nat
  BY SequenceFacts DEF IsMatrix, Begins
<1>2. w \in Nat \ {0}
  BY <1>1, EmptySequence DEF IsMatrix
<1>3. CASE rs = <<>> \/ Len(Last(rs)) = w
  <2>1. at = <<n + 1, 1>> /\ AddCell(rs, w, x) = Append(rs, <<x>>)
    BY <1>3 DEF Cursor, AddCell
  <2>2. at[1] = n + 1 /\ at[2] = 1 /\ n + 1 \in 1..Len(M)
    BY <1>1, <2>1
  <2>3. ASSUME rs # <<>>
        PROVE  rs[n] = M[n]
    <3>1. n \in 1..Len(M) /\ Len(rs[n]) = w
      BY <1>1, <1>3, <2>2, <2>3, LastOfRows, EmptySequence
    <3>2. IsSequence(rs[n]) /\ IsSequence(M[n]) /\ Len(M[n]) = w
          /\ \A c \in 1..w : rs[n][c] = M[n][c]
      BY <2>3, <3>1 DEF Begins, IsMatrix
    <3> QED
      BY <3>1, <3>2, EqualSequences
  <2>4. \A r \in 1..n : rs[r] = M[r]
    <3> TAKE r \in 1..n
    <3>1. rs # <<>>
      BY <1>1, EmptySequence
    <3>2. r = n \/ r \in 1..(n - 1)
      BY <1>1
    <3> QED
      BY <2>3, <3>1, <3>2 DEF Begins
  <2>5. /\ IsSequence(Append(rs, <<x>>)) /\ Len(Append(rs, <<x>>)) = n + 1
        /\ \A i \in 1..n : Append(rs, <<x>>)[i] = rs[i]
        /\ Append(rs, <<x>>)[n + 1] = <<x>>
    BY <1>1, AppendFacts
  <2>6. IsSequence(<<x>>) /\ Len(<<x>>) = 1 /\ <<x>>[1] = M[n + 1][1]
    BY <2>2 DEF IsSequence
  <2>7. Begins(Append(rs, <<x>>), M, w)
    BY <1>1, <1>2, <2>2, <2>4, <2>5, <2>6 DEF Begins
  <2> QED
    BY <2>1, <2>7
<1>4. CASE rs # <<>> /\ Len(Last(rs)) # w
  <2> DEFINE row == rs[n]
             m == Len(row)
             new == Append(Front(rs), Append(row, x))
  <2>1. /\ n >= 1 /\ Last(rs) = row /\ IsSequence(row) /\ m \in 1..w /\ m # w
        /\ \A c \in 1..m : row[c] = M[n][c]
    BY <1>4, <1>1, LastOfRows DEF Begins
  <2>2. at = <<n, m + 1>> /\ AddCell(rs, w, x) = new
    BY <1>4, <2>1 DEF Cursor, AddCell
  <2>3. at[1] = n /\ at[2] = m + 1 /\ n \in 1..Len(M)
    BY <1>1, <2>2
  <2>4. /\ IsSequence(Front(rs)) /\ Len(Front(rs)) = n - 1
        /\ \A r \in 1..(n - 1) : Front(rs)[r] = rs[r]
    <3>1. 1 \in 1..(n + 1) /\ n - 1 \in 0..n /\ 1 <= (n - 1) + 1
      BY <1>1, <2>1
    <3>2. /\ IsSequence(SubSeq(rs, 1, n - 1)) /\ Len(SubSeq(rs, 1, n - 1)) = (n - 1) - 1 + 1
          /\ \A i \in 1..((n - 1) - 1 + 1) : SubSeq(rs, 1, n - 1)[i] = rs[1 + i - 1]
      BY <1>1, <3>1, SubSeqFacts
    <3> QED
      BY <1>1, <2>1, <3>2 DEF Front
  <2>5. /\ IsSequence(Append(row, x)) /\ Len(Append(row, x)) = m + 1
        /\ \A c \in 1..m : Append(row, x)[c] = row[c]
        /\ Append(row, x)[m + 1] = x
    BY <2>1, AppendFacts
  <2>6. /\ IsSequence(new) /\ Len(new) = n
        /\ \A r \in 1..(n - 1) : new[r] = rs[r]
        /\ new[n] = Append(row, x)
    <3>1. /\ IsSequence(new) /\ Len(new) = (n - 1) + 1
          /\ \A r \in 1..(n - 1) : new[r] = Front(rs)[r]
          /\ new[(n - 1) + 1] = Append(row, x)
      BY <2>4, AppendFacts
    <3> QED
      BY <1>1, <2>1, <2>4, <3>1
  <2>7. \A r \in 1..(n - 1) : rs[r] = M[r]
    BY DEF Begins
  <2>8. m + 1 \in 1..w /\ \A c \in 1..(m + 1) : new[n][c] = M[n][c]
    <3>1. m + 1 \in 1..w
      BY <1>2, <2>1
    <3>2. ASSUME NEW c \in 1..(m + 1) PROVE new[n][c] = M[n][c]
      <4>1. c = m + 1 \/ c \in 1..m
        BY <2>1
      <4> QED
        BY <2>1, <2>3, <2>5, <2>6, <4>1
    <3> QED
      BY <3>1, <3>2
  <2> HIDE DEF new
  <2>9. Begins(new, M, w)
    BY <1>1, <2>1, <2>3, <2>5, <2>6, <2>7, <2>8 DEF Begins
  <2> QED
    BY <2>2, <2>9
<1> QED
  BY <1>3, <1>4

LEMMA BeginsEnds ==
  ASSUME NEW M, NEW w, IsMatrix(M, w), NEW rs, Begins(rs, M, w),
         Cursor(rs, w)[1] \notin DOMAIN M
  PROVE  rs = M
<1>1. DOMAIN M = 1..Len(M) /\ Len(M) \in Nat /\ IsSequence(rs) /\ Len(rs) \in Nat
      /\ Len(rs) <= Len(M) /\ w \in Nat
  BY SequenceFacts DEF IsMatrix, Begins
<1>2. CASE rs = <<>>
  <2>1. Cursor(rs, w) = <<1, 1>>
    BY <1>2, EmptySequence DEF Cursor
  <2>2. Len(M) = 0
    BY <1>1, <2>1
  <2> QED
    BY <1>2, <2>2, EmptySequence DEF IsMatrix
<1>3. CASE rs # <<>>
  <2> DEFINE n == Len(rs)
  <2>1. n >= 1 /\ Last(rs) = rs[n] /\ n \in 1..Len(M)
    BY <1>1, <1>3, LastOfRows
  <2>2. Len(rs[n]) = w /\ n + 1 \notin 1..Len(M)
    BY <1>1, <1>3, <2>1 DEF Cursor
  <2>3. rs[n] = M[n]
    <3>1. IsSequence(rs[n]) /\ IsSequence(M[n]) /\ Len(M[n]) = w
          /\ \A c \in 1..w : rs[n][c] = M[n][c]
      BY <1>3, <2>1, <2>2 DEF Begins, IsMatrix
    <3> QED
      BY <2>2, <3>1, EqualSequences
  <2>4. \A r \in 1..n : rs[r] = M[r]
    <3> TAKE r \in 1..n
    <3>1. r = n \/ r \in 1..(n - 1)
      BY <1>1
    <3> QED
      BY <2>3, <3>1 DEF Begins
  <2>5. n = Len(M)
    BY <1>1, <2>1, <2>2
  <2> QED
    BY <1>1, <2>4, <2>5, EqualSequences DEF IsMatrix
<1> QED
  BY <1>2, <1>3

-----------------------------------------------------------------------------
(* Strings of a file. *)

FileString == Seq(Characters) \cup {NUL}

LEMMA NulIsNoText == NUL \notin Seq(Characters)
<1> SUFFICES ASSUME NUL \in Seq(Characters) PROVE FALSE
  OBVIOUS
<1>1. NUL[1] \in Characters
  <2>1. Len(NUL) = 1
    BY DEF NUL
  <2>2. PICK s \in Seq(Characters) : s = NUL
    OBVIOUS
  <2> QED
    BY <2>1, <2>2
<1>2. NUL[1] = "NUL"
  BY DEF NUL
<1> QED
  BY <1>1, <1>2, LimitsAssumption

LEMMA SubstringFacts ==
  ASSUME NEW s \in FileString
  PROVE  /\ Substring(s) \in Seq(Characters)
         /\ Substring(s) # <<>> => s = Substring(s)
         /\ s # NUL => s = Substring(s)
BY DEF FileString, Substring

LEMMA UsedFacts ==
  ASSUME NEW ss \in Seq(FileString)
  PROVE  /\ Used(ss) \in 0..Len(ss)
         /\ Used(ss) # 0 => Substring(ss[Used(ss)]) # <<>>
         /\ \A i \in 1..Len(ss) : i > Used(ss) => Substring(ss[i]) = <<>>
<1> DEFINE T == {i \in DOMAIN ss : Substring(ss[i]) # <<>>}
<1>1. T \subseteq 1..Len(ss) /\ Len(ss) \in Nat
  OBVIOUS
<1>2. Used(ss) = Max({0} \cup T)
  BY DEF Used
<1>3. /\ Used(ss) \in 0..Len(ss) /\ (Used(ss) = 0 \/ Used(ss) \in T)
      /\ \A x \in T : x <= Used(ss)
  <2> HIDE DEF T
  <2> QED
    BY <1>1, <1>2, MaxFacts
<1>4. ASSUME NEW i \in 1..Len(ss), i > Used(ss) PROVE Substring(ss[i]) = <<>>
  BY <1>3, <1>4
<1> QED
  BY <1>3, <1>4

LEMMA PaddedFacts ==
  ASSUME NEW s \in Seq(Characters), NEW w \in Nat
  PROVE  /\ Padded(s, w) \in Seq(Characters) /\ Len(Padded(s, w)) = w
         /\ \A k \in 1..w : Padded(s, w)[k] = IF k \in DOMAIN s THEN s[k] ELSE Blank
<1>1. Blank \in Characters
  BY LimitsAssumption
<1>2. \A k \in 1..w : Padded(s, w)[k] \in Characters
  BY <1>1 DEF Padded
<1>3. Padded(s, w) = [k \in 1..w |-> Padded(s, w)[k]]
  BY DEF Padded
<1>4. IsSequence(Padded(s, w)) /\ Len(Padded(s, w)) = w
  BY <1>3, LiteralSequence
<1> QED
  BY <1>2, <1>4, SequenceIsTyped DEF Padded

LEMMA JoinedFacts ==
  ASSUME NEW ss \in Seq(FileString), NEW w \in Nat \ {0}
  PROVE  LET n == Used(ss)  joined == Joined(ss, w) IN
         /\ joined \in Seq(Characters)
         /\ n = 0 => joined = <<>>
         /\ n # 0 =>
              /\ Len(joined) = (n - 1) * w + Len(Substring(ss[n]))
              /\ \A i \in 1..(n - 1) : \A k \in 1..w :
                   joined[(i - 1) * w + k] = Padded(Substring(ss[i]), w)[k]
              /\ \A k \in 1..Len(Substring(ss[n])) :
                   joined[(n - 1) * w + k] = Substring(ss[n])[k]
<1> DEFINE n == Used(ss)
           b == [i \in 1..n |-> IF i < n THEN Padded(Substring(ss[i]), w) ELSE Substring(ss[i])]
           joined == Joined(ss, w)
<1>1. n \in 0..Len(ss) /\ Len(ss) \in Nat
  BY UsedFacts
<1>2. joined = FlattenSeq(b)
  BY DEF Joined
<1>3. b = [i \in 1..n |-> b[i]]
  OBVIOUS
<1>4. /\ \A i \in 1..n : i < n => b[i] = Padded(Substring(ss[i]), w)
      /\ n # 0 => b[n] = Substring(ss[n])
  BY <1>1
<1>5. \A i \in 1..n : Substring(ss[i]) \in Seq(Characters)
  BY <1>1, SubstringFacts
<1> HIDE DEF b
<1>6. IsSequence(b) /\ Len(b) = n
  BY <1>1, <1>3, LiteralSequence
<1>7. CASE n = 0
  <2>1. b = <<>>
    BY <1>6, <1>7, EmptySequence
  <2>2. joined = <<>>
    BY <1>2, <1>6, <1>7, <2>1 DEF FlattenSeq
  <2> QED
    BY <1>7, <2>2
<1>8. CASE n # 0
  <2>1. \A i \in 1..Len(b) : b[i] \in Seq(Characters)
    <3> TAKE i \in 1..Len(b)
    <3>1. i \in 1..n /\ Substring(ss[i]) \in Seq(Characters) /\ (i < n \/ i = n)
      BY <1>1, <1>5, <1>6
    <3>2. Padded(Substring(ss[i]), w) \in Seq(Characters)
      BY <3>1, PaddedFacts
    <3> QED
      BY <1>4, <3>1, <3>2
  <2>2. \A i \in 1..(Len(b) - 1) : Len(b[i]) = w
    <3> TAKE i \in 1..(Len(b) - 1)
    <3>1. i \in 1..n /\ Substring(ss[i]) \in Seq(Characters) /\ i < n
      BY <1>1, <1>5, <1>6
    <3>2. Len(Padded(Substring(ss[i]), w)) = w
      BY <3>1, PaddedFacts
    <3> QED
      BY <1>4, <3>1, <3>2
  <2>3. b # <<>>
    BY <1>6, <1>8, EmptySequence
  <2>4. /\ joined \in Seq(Characters) /\ Len(joined) = (n - 1) * w + Len(b[n])
        /\ \A i \in 1..n : \A k \in 1..Len(b[i]) : joined[(i - 1) * w + k] = b[i][k]
    <3>1. w \in Nat /\ IsSequence(b)
      BY <1>6
    <3>2. SideBySide(FlattenSeq(b), b, Characters, w)
      BY <2>1, <2>2, <2>3, <3>1, FlattenSeqFacts DEF Blocks
    <3> QED
      BY <1>2, <1>6, <3>2 DEF SideBySide
  <2>5. ASSUME NEW i \in 1..(n - 1), NEW k \in 1..w
        PROVE  joined[(i - 1) * w + k] = Padded(Substring(ss[i]), w)[k]
    <3>1. i \in 1..n /\ i < n
      BY <1>1
    <3>2. b[i] = Padded(Substring(ss[i]), w) /\ Len(b[i]) = w
      BY <1>4, <1>6, <2>2, <3>1
    <3> QED
      BY <2>4, <3>1, <3>2
  <2>6. n \in 1..n /\ b[n] = Substring(ss[n])
    BY <1>1, <1>4, <1>8
  <2> QED
    BY <1>8, <2>4, <2>5, <2>6
<1> QED
  BY <1>7, <1>8

LEMMA TrimmedFacts ==
  ASSUME NEW s \in Seq(Characters)
  PROVE  LET t == WithoutTrailingBlanks(s) IN
         /\ t \in Seq(Characters) /\ (t # <<>> => Last(t) # Blank)
         /\ t = s <=> (s = <<>> \/ Last(s) # Blank)
<1> DEFINE T == {i \in DOMAIN s : s[i] # Blank}
           m == Max({0} \cup T)
           t == WithoutTrailingBlanks(s)
<1> HIDE DEF m, t
<1>1. T \subseteq 1..Len(s) /\ Len(s) \in Nat
  OBVIOUS
<1>2. m \in 0..Len(s) /\ (m = 0 \/ m \in T) /\ \A x \in T : x <= m
  <2> HIDE DEF T
  <2> QED
    BY <1>1, MaxFacts DEF m
<1>3. t = SubSeq(s, 1, m)
  BY DEF WithoutTrailingBlanks, m, t
<1>4. t \in Seq(Characters) /\ Len(t) = m /\ \A i \in 1..m : t[i] = s[i]
  BY <1>1, <1>2, <1>3
<1>5. t # <<>> => Last(t) # Blank
  <2> SUFFICES ASSUME t # <<>> PROVE Last(t) # Blank
    OBVIOUS
  <2>1. m # 0
    BY <1>4
  <2>2. m \in 1..m /\ s[m] # Blank
    BY <1>2, <2>1
  <2> QED
    BY <1>4, <2>2 DEF Last
<1>6. ASSUME t = s PROVE s = <<>> \/ Last(s) # Blank
  BY <1>5, <1>6
<1>7. ASSUME s = <<>> \/ Last(s) # Blank PROVE t = s
  <2>1. s # <<>> => Len(s) \in T
    BY <1>7 DEF Last
  <2>2. m = Len(s)
    BY <1>1, <1>2, <2>1
  <2> QED
    BY <1>4, <2>2
<1> QED
  BY <1>4, <1>5, <1>6, <1>7 DEF t

LEMMA DigitsFacts ==
  ASSUME NEW n \in Nat \ {0}, NEW e \in [1..n -> 0..MaxU64]
  PROVE  Digits(e) \in Seq(Characters) /\ Digits(e) # <<>> /\ Last(Digits(e)) # Blank
<1> DEFINE d == Digits(e)
<1>1. IsSequence(e) /\ Len(e) = n
  BY LiteralSequence
<1>2. d = [i \in 1..(2 * n - 1) |-> IF i % 2 = 0 THEN Blank ELSE ToString(e[(i + 1) \div 2])]
  BY <1>1 DEF Digits
<1>3. \A i \in 1..(2 * n - 1) : d[i] \in Characters
  <2> TAKE i \in 1..(2 * n - 1)
  <2>1. (i + 1) \div 2 \in 1..n
    OBVIOUS
  <2>2. ToString(e[(i + 1) \div 2]) \in Characters
    BY <2>1, LimitsAssumption
  <2>3. Blank \in Characters
    BY LimitsAssumption
  <2> QED
    BY <1>2, <2>2, <2>3
<1>4. 2 * n - 1 \in Nat /\ 2 * n - 1 >= 1 /\ (2 * n - 1) % 2 # 0 /\ ((2 * n - 1) + 1) \div 2 = n
  OBVIOUS
<1>5. d[2 * n - 1] # Blank
  <2>1. d[2 * n - 1] = ToString(e[n])
    <3>1. PICK k \in 1..(2 * n - 1) : k = 2 * n - 1
      BY <1>4
    <3>2. k % 2 # 0 /\ (k + 1) \div 2 = n
      BY <1>4, <3>1
    <3>3. d[k] = ToString(e[n])
      BY <1>2, <3>2
    <3> QED
      BY <3>1, <3>3
  <2> QED
    BY <2>1, LimitsAssumption
<1>6. d = [i \in 1..(2 * n - 1) |-> d[i]]
  BY <1>2
<1> HIDE DEF d
<1>7. IsSequence(d) /\ Len(d) = 2 * n - 1
  BY <1>4, <1>6, LiteralSequence
<1>8. d \in Seq(Characters) /\ d # <<>> /\ Last(d) # Blank
  BY <1>3, <1>4, <1>5, <1>7, SequenceIsTyped, EmptySequence DEF Last
<1> QED
  BY <1>8 DEF d

-----------------------------------------------------------------------------
(* One cell, written and read. *)

LEMMA ConstantSequences ==
  ASSUME NEW n \in Nat \ {0}, NEW e, DOMAIN e = 1..n, e = [i \in 1..n |-> e[i]], NEW v
  PROVE  /\ e # <<>>
         /\ (\A i \in DOMAIN e : e[i] = v) <=> e = [i \in 1..n |-> v]
<1>1. e # <<>>
  <2>1. 1 \in DOMAIN e /\ 1 \notin DOMAIN <<>>
    OBVIOUS
  <2> QED
    BY <2>1
<1>2. (\A i \in DOMAIN e : e[i] = v) <=> e = [i \in 1..n |-> v]
  OBVIOUS
<1> QED
  BY <1>1, <1>2

LEMMA GetNullFacts ==
  /\ \A type \in Integers6 \cup {"INT8_LE"} : get_null(type) = Max64
  /\ \A type \in Floats : get_null(type) = NaN
  /\ Max64 \in Nat /\ MaxU64 \in Nat /\ NaN \in Nat
<1>1. Zero \in Nat \ {0} /\ Max64 = 2 * Zero - 1 /\ MaxU64 \in Nat
  BY LimitsAssumption
<1>2. Max64 \in Nat
  BY <1>1
<1> QED
  BY <1>1, <1>2 DEF get_null, Integers6, Floats, NaN

LEMMA NullValueFacts ==
  ASSUME NEW v, IsNullValue(v), v # <<>>
  PROVE  v \in Seq(0..Max64) /\ Len(v) = 1 /\ v[1] \in 0..Max64 /\ v[1] \in Nat
<1> DEFINE S == 0..Max64
<1>1. v \in Seq(S) /\ Len(v) = 1
  BY DEF IsNullValue
<1>2. S \subseteq Nat
  OBVIOUS
<1> HIDE DEF S
<1>3. v[1] \in S
  BY <1>1
<1> QED
  BY <1>1, <1>2, <1>3 DEF S

\* A null value of a column of unsigned integers is read as another number.
LEMMA ScaledFacts ==
  \A n \in Nat : Scaled(n) \in Nat /\ Scaled(n) # n
<1>1. Zero \in Nat \ {0}
  BY LimitsAssumption
<1> QED
  BY <1>1 DEF Scaled

LEMMA ReadStringOfOne ==
  ASSUME NEW fc, fc.width \in Nat \ {0}
  PROVE  /\ ReadString(fc, <<NUL>>) = NullCell("CHAR", fc.size)
         /\ \A s \in Seq(Characters) : ReadString(fc, <<s>>) = Cell(FALSE, s)
<1>1. ReadString(fc, <<NUL>>) = NullCell("CHAR", fc.size)
  <2>1. <<NUL>> # <<>> /\ \A i \in DOMAIN <<NUL>> : <<NUL>>[i] = NUL
    OBVIOUS
  <2> QED
    BY <2>1 DEF ReadString
<1>2. ASSUME NEW s \in Seq(Characters)
      PROVE  ReadString(fc, <<s>>) = Cell(FALSE, s)
  <2> DEFINE ss == <<s>>
             n == Used(ss)
             joined == Joined(ss, fc.width)
  <2>1. ss \in Seq(FileString) /\ Len(ss) = 1 /\ ss[1] = s /\ 1 \in DOMAIN ss
    BY DEF FileString
  <2>2. s # NUL /\ Substring(s) = s
    BY NulIsNoText DEF Substring
  <2>3. ReadString(fc, ss) = Cell(FALSE, joined)
    BY <2>1, <2>2 DEF ReadString
  <2> HIDE DEF ss
  <2>4. n \in 0..1 /\ (n # 0 => s # <<>>) /\ (n = 0 => s = <<>>)
    <3>1. n \in 0..Len(ss) /\ (n # 0 => Substring(ss[n]) # <<>>)
          /\ \A i \in 1..Len(ss) : i > n => Substring(ss[i]) = <<>>
      BY <2>1, UsedFacts
    <3> QED
      BY <2>1, <2>2, <3>1
  <2>5. CASE n = 0
    BY <2>1, <2>3, <2>4, <2>5, JoinedFacts DEF ss
  <2>6. CASE n # 0
    <3>1. n = 1 /\ Substring(ss[n]) = s
      BY <2>1, <2>2, <2>4, <2>6
    <3>2. (n - 1) * fc.width = 0
      BY <3>1
    <3>3. /\ joined \in Seq(Characters) /\ Len(joined) = 0 + Len(s)
          /\ \A k \in 1..Len(s) : joined[0 + k] = s[k]
      <4> HIDE DEF n, joined
      <4>1. /\ joined \in Seq(Characters)
            /\ Len(joined) = (n - 1) * fc.width + Len(Substring(ss[n]))
            /\ \A k \in 1..Len(Substring(ss[n])) :
                 joined[(n - 1) * fc.width + k] = Substring(ss[n])[k]
        BY <2>1, <2>6, JoinedFacts DEF n, joined
      <4> QED
        BY <3>1, <3>2, <4>1, Zenon
    <3> HIDE DEF joined
    <3>4. \A k \in 1..Len(s) : joined[k] = s[k]
      <4> TAKE k \in 1..Len(s)
      <4>1. 0 + k = k
        OBVIOUS
      <4> QED
        BY <3>3, <4>1
    <3>5. joined = s
      BY <3>3, <3>4
    <3> QED
      BY <2>3, <3>5 DEF joined, ss
  <2> QED
    BY <2>5, <2>6
<1> QED
  BY <1>1, <1>2

\* A string that is read has no blank at its end.
LEMMA ReadStringFacts ==
  ASSUME NEW fc, fc.width \in Nat \ {0}, NEW ss \in Seq(FileString),
         \A i \in DOMAIN ss : ss[i] # <<>> => Last(ss[i]) # Blank
  PROVE  LET x == ReadString(fc, ss) IN
         \/ x = NullCell("CHAR", fc.size)
         \/ /\ x = Cell(FALSE, x.elements) /\ x.elements \in Seq(Characters)
            /\ x.elements = <<>> \/ Last(x.elements) # Blank
<1> DEFINE joined == Joined(ss, fc.width)
           n == Used(ss)
<1>1. ReadString(fc, ss) = NullCell("CHAR", fc.size) \/ ReadString(fc, ss) = Cell(FALSE, joined)
  BY DEF ReadString
<1>2. joined \in Seq(Characters) /\ (joined = <<>> \/ Last(joined) # Blank)
  <2>1. n \in 0..Len(ss) /\ joined \in Seq(Characters) /\ (n = 0 => joined = <<>>)
    BY UsedFacts, JoinedFacts
  <2>2. ASSUME n # 0 PROVE Last(joined) # Blank
    <3> DEFINE s == Substring(ss[n])
               m == Len(s)
               w == fc.width
               p == (n - 1) * w
    <3>1. n \in DOMAIN ss /\ ss[n] \in FileString
      BY <2>1, <2>2
    <3>2. s \in Seq(Characters) /\ s # <<>> /\ ss[n] = s
      BY <2>2, <3>1, SubstringFacts, UsedFacts
    <3>3. m \in Nat /\ m >= 1 /\ s[m] # Blank
      BY <3>1, <3>2 DEF Last
    <3>4. Len(joined) = p + m /\ joined[p + m] = s[m]
      <4>1. m \in 1..m
        BY <3>3
      <4>2. Len(joined) = p + m /\ \A k \in 1..m : joined[p + k] = s[k]
        BY <2>2, JoinedFacts, Zenon
      <4> QED
        BY <4>1, <4>2
    <3> QED
      BY <3>3, <3>4 DEF Last
  <2> QED
    BY <2>1, <2>2
<1>3. Cell(FALSE, joined).elements = joined
  BY DEF Cell
<1> QED
  BY <1>1, <1>2, <1>3

\* The file's column of a table's is as files have them.
LEMMA WrittenColumnFacts ==
  ASSUME NEW col, IsColumn(col), NEW fc, WrittenColumn(col, fc)
  PROVE  /\ IsFileColumn(fc) /\ fc.type # "COMPLEX" /\ Null(col) \in 0..Max64
         /\ GotNull(fc) <=> fc.type \in Integers6
         /\ fc.type \in Integers6 => fc.tnull = <<Null(col)>> /\ fc.tnull[1] = Null(col)
<1>1. Null(col) \in 0..Max64
  <2>1. IsNullValue(col.null)
    BY DEF IsColumn
  <2>2. col.null # <<>> => col.null[1] \in 0..Max64
    BY <2>1, NullValueFacts
  <2> QED
    BY <2>2, GetNullFacts DEF Null, DEFAULT_NULL_VALUE
<1>2. fc.tnull = IF fc.type \in Integers6 THEN <<Null(col)>> ELSE <<>>
  BY DEF WrittenColumn
<1>3. IsNullValue(fc.tnull)
  <2>1. <<Null(col)>> \in Seq(0..Max64) /\ Len(<<Null(col)>>) = 1
    BY <1>1
  <2> QED
    BY <1>2, <2>1 DEF IsNullValue
<1>4. /\ fc.type \in Integers6 \cup Floats \cup {"INT8_LE", "CHAR"}
      /\ fc.size \in Nat \ {0} /\ fc.width \in Nat \ {0}
  <2>1. /\ col.type \in Integers6 \cup Floats \cup {"INT8_LE", "UINT64_LE", "CHAR"}
        /\ col.size \in Nat \ {0} /\ fc.width = fc.size
    BY DEF IsColumn, WrittenColumn
  <2>2. CASE col.type = "UINT64_LE"
    BY <2>1, <2>2 DEF WrittenColumn, Integers6
  <2>3. CASE col.type # "UINT64_LE"
    BY <2>1, <2>3 DEF WrittenColumn
  <2> QED
    BY <2>2, <2>3
<1>5. fc.type # "COMPLEX"
  BY <1>4 DEF Integers6, Floats
<1>6. <<Null(col)>> # <<>> /\ <<Null(col)>>[1] = Null(col)
  OBVIOUS
<1>7. GotNull(fc) <=> fc.type \in Integers6
  BY <1>2, <1>6 DEF GotNull
<1> QED
  BY <1>1, <1>2, <1>3, <1>4, <1>5, <1>6, <1>7 DEF IsFileColumn

\* And its cell.
LEMMA StoredCellFacts ==
  ASSUME NEW col, IsColumn(col), NEW fc, WrittenColumn(col, fc), NEW x, IsCell(col, x)
  PROVE  LET e == StoredOf(col, fc, x) IN
         /\ IsFileCell(fc, e)
         /\ fc.type = "CHAR" => e = IF x.null THEN <<NUL>> ELSE
              <<WithoutTrailingBlanks(IF col.type = "CHAR" THEN x.elements
                                      ELSE Digits(x.elements))>>
         /\ fc.type = "CHAR" /\ ~x.null =>
              (IF col.type = "CHAR" THEN x.elements ELSE Digits(x.elements)) \in Seq(Characters)
<1> DEFINE e == StoredOf(col, fc, x)
           s == IF col.type = "CHAR" THEN x.elements ELSE Digits(x.elements)
<1>1. x.null \in BOOLEAN
  BY DEF IsCell
<1>2. fc.type = "CHAR" => col.type \in {"CHAR", "UINT64_LE"}
  BY DEF WrittenColumn
<1>3. IsFileColumn(fc)
  BY WrittenColumnFacts
<1>4. CASE fc.type = "CHAR"
  <2>1. x.null => e = <<NUL>>
    BY <1>4 DEF StoredOf, StoredNull, Floats, Unsigned
  <2>2. ~x.null => e = <<WithoutTrailingBlanks(s)>>
    BY <1>4 DEF StoredOf
  <2>3. ASSUME ~x.null PROVE s \in Seq(Characters)
    <3>1. CASE col.type = "CHAR"
      BY <3>1 DEF IsCell
    <3>2. CASE col.type = "UINT64_LE"
      <4>1. x.elements \in [1..col.size -> 0..MaxU64] /\ col.size \in Nat \ {0}
        BY <3>2 DEF IsCell, IsColumn
      <4> QED
        BY <3>2, <4>1, DigitsFacts
    <3> QED
      BY <1>2, <1>4, <3>1, <3>2
  <2>4. \E t \in FileString : e = <<t>> /\ (t # <<>> => Last(t) # Blank)
    <3>1. CASE x.null
      <4>1. NUL \in FileString /\ Last(NUL) = "NUL"
        BY DEF FileString, NUL, Last
      <4>2. "NUL" # Blank
        BY LimitsAssumption
      <4> QED
        BY <2>1, <3>1, <4>1, <4>2
    <3>2. CASE ~x.null
      <4> DEFINE t == WithoutTrailingBlanks(s)
      <4> HIDE DEF s
      <4>1. t \in Seq(Characters) /\ (t # <<>> => Last(t) # Blank)
        BY <2>3, <3>2, TrimmedFacts
      <4> HIDE DEF t
      <4>2. t \in FileString
        BY <4>1 DEF FileString
      <4> QED
        BY <2>2, <3>2, <4>1, <4>2 DEF t
    <3> QED
      BY <1>1, <3>1, <3>2
  <2>5. IsFileCell(fc, e)
    <3>1. PICK t \in FileString : e = <<t>> /\ (t # <<>> => Last(t) # Blank)
      BY <2>4
    <3>2. <<t>> \in Seq(FileString) /\ \A i \in DOMAIN <<t>> : <<t>>[i] = t
      BY <3>1
    <3> QED
      BY <1>4, <3>1, <3>2 DEF IsFileCell, FileString
  <2> QED
    BY <1>1, <1>4, <2>1, <2>2, <2>3, <2>5
<1>5. CASE fc.type # "CHAR"
  <2>1. CASE x.null
    <3>1. StoredNull(fc) \in [1..fc.size -> Nat]
      <4>1. fc.type \in Integers6 => fc.tnull[1] \in Nat /\ Scaled(fc.tnull[1]) \in Nat
        BY WrittenColumnFacts, ScaledFacts
      <4>2. fc.type \in Integers6 \cup Floats \cup {"INT8_LE"}
        BY <1>5, WrittenColumnFacts DEF IsFileColumn
      <4> QED
        BY <1>5, <4>1, <4>2, GetNullFacts DEF StoredNull, Unsigned, Integers6
    <3> QED
      BY <1>5, <2>1, <3>1 DEF StoredOf, IsFileCell
  <2>2. CASE ~x.null
    <3>1. e = x.elements
      BY <1>5, <2>2 DEF StoredOf
    <3>2. fc.size = col.size /\ col.type # "CHAR"
      BY <1>5 DEF WrittenColumn
    <3>3. x.elements \in [1..col.size -> Nat]
      <4>1. 0..MaxU64 \subseteq Nat
        BY LimitsAssumption
      <4> QED
        BY <3>2, <4>1 DEF IsCell
    <3> QED
      BY <1>5, <3>1, <3>2, <3>3 DEF IsFileCell
  <2> QED
    BY <1>1, <1>5, <2>1, <2>2
<1> QED
  BY <1>4, <1>5

\* A column that is read is one of a table, and settled.
LEMMA ReadColumnFacts ==
  ASSUME NEW fc, IsFileColumn(fc), fc.type # "COMPLEX", NEW col, ColumnRead(fc, col)
  PROVE  /\ IsColumn(col) /\ SettledColumn(col)
         /\ GotNull(fc) => Null(col) = fc.tnull[1] /\ fc.tnull[1] \in Nat
         /\ col.null # <<>> => GotNull(fc) /\ col.null[1] = fc.tnull[1]
<1>1. fc.tnull # <<>> => fc.tnull \in Seq(0..Max64) /\ Len(fc.tnull) = 1 /\ fc.tnull[1] \in Nat
  BY NullValueFacts DEF IsFileColumn
<1>2. col.null = IF GotNull(fc) /\ fc.tnull[1] # get_null(fc.type) THEN fc.tnull ELSE <<>>
  BY DEF ColumnRead, get_column_null_str, DEFAULT_NULL_VALUE
<1>3. col.type = fc.type /\ col.size = fc.size
  BY DEF ColumnRead
<1>4. GotNull(fc) <=> fc.type \in Integers6 /\ fc.tnull # <<>>
  BY DEF GotNull
<1>5. fc.type \in Integers6 => get_null(fc.type) = Max64
  BY GetNullFacts
<1>6. IsNullValue(col.null)
  BY <1>1, <1>2, <1>4 DEF IsNullValue
<1>7. IsColumn(col)
  BY <1>3, <1>6 DEF IsColumn, IsFileColumn
<1>8. col.null # <<>> => GotNull(fc) /\ col.null = fc.tnull /\ col.null[1] # Max64
  BY <1>2, <1>4, <1>5
<1>9. SettledColumn(col)
  <2>1. col.type # "UINT64_LE"
    BY <1>3 DEF IsFileColumn, Integers6, Floats
  <2> QED
    BY <1>3, <1>4, <1>8, <2>1 DEF SettledColumn
<1>10. GotNull(fc) => Null(col) = fc.tnull[1]
  BY <1>2, <1>4, <1>5 DEF Null, DEFAULT_NULL_VALUE
<1> QED
  BY <1>1, <1>4, <1>7, <1>8, <1>9, <1>10

LEMMA ReadCellFacts ==
  ASSUME NEW fc, IsFileColumn(fc), fc.type # "COMPLEX", NEW col, ColumnRead(fc, col),
         NEW e, IsFileCell(fc, e)
  PROVE  LET y == ReadOf(fc, e) IN
         /\ IsCell(col, y) /\ SettledCell(col, y)
         /\ GotNull(fc) => ~TakenForNull(col, y)
<1> DEFINE y == ReadOf(fc, e)
<1>1. /\ col.type = fc.type /\ col.size = fc.size /\ col.size \in Nat \ {0}
      /\ fc.type \in Integers6 \cup Floats \cup {"INT8_LE", "CHAR"}
      /\ fc.width \in Nat \ {0} /\ col.type # "UINT64_LE"
  BY DEF ColumnRead, IsFileColumn, Integers6, Floats
<1>2. CASE fc.type = "CHAR"
  <2>1. y = ReadString(fc, e)
    BY <1>2 DEF ReadOf
  <2>2. e \in Seq(FileString) /\ \A i \in DOMAIN e : e[i] # <<>> => Last(e[i]) # Blank
    BY <1>2 DEF IsFileCell, FileString
  <2>3. \/ y = NullCell("CHAR", fc.size)
        \/ /\ y = Cell(FALSE, y.elements) /\ y.elements \in Seq(Characters)
           /\ y.elements = <<>> \/ Last(y.elements) # Blank
    BY <1>1, <2>1, <2>2, ReadStringFacts
  <2>4. col.type \notin Floats \cup Integers6 \cup {"INT8_LE"}
    BY <1>1, <1>2 DEF Floats, Integers6
  <2>5. CASE y = NullCell("CHAR", fc.size)
    <3>1. y = [null |-> TRUE, elements |-> <<>>] /\ <<>> \in Seq(Characters)
      BY <2>5 DEF NullCell, Cell
    <3>2. y \in [null : BOOLEAN, elements : Seq(Characters)] /\ y.null = TRUE
      BY <3>1
    <3> QED
      BY <1>1, <1>2, <2>4, <2>5, <3>2 DEF IsCell, SettledCell, TakenForNull
  <2>6. CASE /\ y = Cell(FALSE, y.elements) /\ y.elements \in Seq(Characters)
             /\ y.elements = <<>> \/ Last(y.elements) # Blank
    <3>1. y = [null |-> FALSE, elements |-> y.elements]
      BY <2>6 DEF Cell
    <3>2. y \in [null : BOOLEAN, elements : Seq(Characters)] /\ y.null = FALSE
      <4> HIDE DEF y
      <4>1. PICK s \in Seq(Characters) : y = [null |-> FALSE, elements |-> s]
        BY <2>6, <3>1
      <4> QED
        BY <4>1
    <3> QED
      BY <1>1, <1>2, <2>4, <2>6, <3>2 DEF IsCell, SettledCell, TakenForNull
  <2> QED
    BY <2>3, <2>5, <2>6
<1>3. CASE fc.type # "CHAR"
  <2>1. e \in [1..fc.size -> Nat] /\ e # <<>>
    BY <1>1, <1>3, ConstantSequences DEF IsFileCell
  <2>2. CASE \A i \in DOMAIN e : IsNullElement(fc, e[i])
    <3>1. y = NullCell(fc.type, fc.size)
      BY <1>3, <2>1, <2>2 DEF ReadOf
    <3>2. fc.type \in Integers6 \cup Floats
      BY <1>1, <2>1, <2>2 DEF IsNullElement, GotNull
    <3>3. y = [null |-> TRUE, elements |-> [i \in 1..fc.size |-> get_null(fc.type)]]
      BY <1>3, <3>1 DEF NullCell, Cell
    <3>4. get_null(fc.type) \in Nat
      BY <3>2, GetNullFacts
    <3>5. y \in [null : BOOLEAN, elements : [1..col.size -> Nat]] /\ y.null = TRUE
      BY <1>1, <3>3, <3>4
    <3>6. col.type # "INT8_LE"
      BY <1>1, <3>2 DEF Integers6, Floats
    <3> QED
      BY <1>1, <1>3, <3>1, <3>5, <3>6 DEF IsCell, SettledCell, TakenForNull
  <2>3. CASE ~\A i \in DOMAIN e : IsNullElement(fc, e[i])
    <3>1. y = [null |-> FALSE, elements |-> e]
      BY <1>3, <2>1, <2>3 DEF ReadOf, Cell
    <3>2. y \in [null : BOOLEAN, elements : [1..col.size -> Nat]] /\ y.null = FALSE /\ y.elements = e
      BY <1>1, <2>1, <3>1
    <3>3. GotNull(fc) => e # [i \in 1..col.size |-> fc.tnull[1]]
      BY <1>1, <2>1, <2>3 DEF IsNullElement
    <3>4. fc.type \in Floats => e # [i \in 1..col.size |-> NaN]
      BY <1>1, <2>1, <2>3 DEF IsNullElement
    <3>5. /\ GotNull(fc) => Null(col) = fc.tnull[1]
          /\ col.null # <<>> => GotNull(fc) /\ col.null[1] = fc.tnull[1]
      BY ReadColumnFacts
    <3>6. IsCell(col, y)
      BY <1>1, <1>3, <3>2 DEF IsCell
    <3>7. SettledCell(col, y)
      BY <1>1, <1>3, <3>2, <3>3, <3>4, <3>5 DEF SettledCell
    <3>8. GotNull(fc) => ~TakenForNull(col, y)
      BY <3>2, <3>3, <3>5 DEF TakenForNull
    <3> QED
      BY <3>6, <3>7, <3>8
  <2> QED
    BY <2>2, <2>3
<1> QED
  BY <1>2, <1>3

\* Same() and CellSurvives() of a column that was written as fc.
SameOf(col, fc, x, y) ==
  /\ x.null = y.null
  /\ ~x.null => y.elements = IF col.type = "UINT64_LE" /\ fc.type = "CHAR"
                             THEN Digits(x.elements) ELSE x.elements
SurvivesOf(col, fc, x) ==
  IF x.null THEN col.type \notin Unsigned \cup {"INT8_LE"}
  ELSE CASE col.type \in Integers6 \/ (col.type = "UINT64_LE" /\ fc.type # "CHAR") ->
              x.elements # [i \in 1..col.size |-> Null(col)]
         [] col.type \in Floats -> x.elements # [i \in 1..col.size |-> NaN]
         [] col.type = "CHAR" -> x.elements = <<>> \/ Last(x.elements) # Blank
         [] OTHER -> TRUE

\* The round trip of a cell.
LEMMA CellRoundTrip ==
  ASSUME NEW col, IsColumn(col), NEW fc, WrittenColumn(col, fc), NEW x, IsCell(col, x)
  PROVE  SameOf(col, fc, x, ReadOf(fc, StoredOf(col, fc, x))) <=> SurvivesOf(col, fc, x)
<1> DEFINE e == StoredOf(col, fc, x)
           y == ReadOf(fc, e)
<1>1. /\ x.null \in BOOLEAN /\ IsFileColumn(fc) /\ IsFileCell(fc, e)
      /\ fc.size \in Nat \ {0} /\ fc.width \in Nat \ {0}
  BY WrittenColumnFacts, StoredCellFacts DEF IsCell, IsFileColumn
<1>2. /\ GotNull(fc) <=> fc.type \in Integers6
      /\ fc.type \in Integers6 => fc.tnull[1] = Null(col)
      /\ fc.type \in Integers6 \cup Floats \cup {"INT8_LE", "CHAR"}
  BY <1>1, WrittenColumnFacts DEF IsFileColumn
<1>3. CASE fc.type = "CHAR"
  <2>1. y = ReadString(fc, e)
    BY <1>3 DEF ReadOf
  <2>2. col.type \in {"CHAR", "UINT64_LE"}
    BY <1>3 DEF WrittenColumn
  <2>3. CASE x.null
    <3>1. e = <<NUL>>
      BY <1>3, <2>3, StoredCellFacts
    <3>2. y = [null |-> TRUE, elements |-> <<>>]
      BY <1>1, <2>1, <3>1, ReadStringOfOne DEF NullCell, Cell
    <3>3. y.null = TRUE
      BY <3>2
    <3> QED
      BY <1>1, <2>2, <2>3, <3>3 DEF SameOf, SurvivesOf, Unsigned
  <2>4. CASE ~x.null
    <3> DEFINE s == IF col.type = "CHAR" THEN x.elements ELSE Digits(x.elements)
               t == WithoutTrailingBlanks(s)
    <3>1. s \in Seq(Characters) /\ e = <<t>>
      BY <1>3, <2>4, StoredCellFacts
    <3> HIDE DEF s
    <3>2. t \in Seq(Characters) /\ (t = s <=> (s = <<>> \/ Last(s) # Blank))
      BY <3>1, TrimmedFacts
    <3>3. y = Cell(FALSE, t)
      <4> HIDE DEF t
      <4> QED
        BY <1>1, <2>1, <3>1, <3>2, ReadStringOfOne
    <3>4. y.null = FALSE /\ y.elements = t
      BY <3>3 DEF Cell
    <3>5. CASE col.type = "CHAR"
      <4>1. s = x.elements
        BY <3>5 DEF s
      <4>2. SameOf(col, fc, x, y) <=> t = s
        BY <1>1, <2>4, <3>4, <3>5, <4>1 DEF SameOf
      <4>3. SurvivesOf(col, fc, x) <=> (s = <<>> \/ Last(s) # Blank)
        BY <1>1, <2>4, <3>5, <4>1 DEF SurvivesOf, Integers6, Floats
      <4> QED
        BY <3>2, <4>2, <4>3
    <3>6. CASE col.type = "UINT64_LE"
      <4>1. s = Digits(x.elements)
        BY <3>6 DEF s
      <4>2. Last(s) # Blank
        <5>1. x.elements \in [1..col.size -> 0..MaxU64] /\ col.size \in Nat \ {0}
          BY <3>6 DEF IsCell, IsColumn
        <5> QED
          BY <4>1, <5>1, DigitsFacts
      <4>3. SameOf(col, fc, x, y)
        BY <1>1, <1>3, <2>4, <3>2, <3>4, <3>6, <4>1, <4>2 DEF SameOf
      <4>4. SurvivesOf(col, fc, x)
        BY <1>1, <1>3, <2>4, <3>6 DEF SurvivesOf, Integers6, Floats
      <4> QED
        BY <4>3, <4>4
    <3> QED
      BY <2>2, <3>5, <3>6
  <2> QED
    BY <1>1, <2>3, <2>4
<1>4. CASE fc.type # "CHAR"
  <2>1. e \in [1..fc.size -> Nat] /\ e # <<>>
    BY <1>1, <1>4, ConstantSequences DEF IsFileCell
  <2>2. y = IF \A i \in DOMAIN e : IsNullElement(fc, e[i]) THEN NullCell(fc.type, fc.size)
            ELSE Cell(FALSE, e)
    BY <1>4, <2>1 DEF ReadOf
  <2>3. y.null <=> \A i \in DOMAIN e : IsNullElement(fc, e[i])
    BY <2>2 DEF NullCell, Cell
  <2>4. y.null \in BOOLEAN /\ (~y.null => y.elements = e)
    BY <2>2, <2>3 DEF NullCell, Cell
  <2>5. /\ fc.size = col.size /\ col.type # "CHAR"
        /\ col.type = "UINT64_LE" => fc.type = "INT64_LE"
        /\ col.type # "UINT64_LE" => fc.type = col.type
    BY <1>4 DEF WrittenColumn
  <2>6. CASE fc.type \in Integers6
    <3>1. fc.type \notin Floats \cup {"INT8_LE"}
      BY <2>6 DEF Integers6, Floats
    <3>2. y.null <=> e = [i \in 1..col.size |-> Null(col)]
      <4>1. y.null <=> \A i \in DOMAIN e : e[i] = Null(col)
        BY <1>2, <2>3, <2>6, <3>1 DEF IsNullElement
      <4> QED
        BY <1>1, <2>1, <2>5, <4>1
    <3>3. CASE x.null
      <4>1. SurvivesOf(col, fc, x) <=> fc.type \notin Unsigned
        BY <2>5, <2>6, <3>1, <3>3 DEF SurvivesOf, Unsigned
      <4>2. SameOf(col, fc, x, y) <=> y.null
        BY <1>1, <2>4, <3>3 DEF SameOf
      <4>3. CASE fc.type \notin Unsigned
        <5>1. e = [i \in 1..col.size |-> Null(col)]
          BY <1>2, <1>4, <2>5, <2>6, <3>1, <3>3, <4>3 DEF StoredOf, StoredNull
        <5> QED
          BY <3>2, <4>1, <4>2, <4>3, <5>1
      <4>4. CASE fc.type \in Unsigned
        <5>1. e = [i \in 1..col.size |-> Scaled(Null(col))]
          BY <1>2, <1>4, <2>5, <2>6, <3>1, <3>3, <4>4 DEF StoredOf, StoredNull
        <5>2. Scaled(Null(col)) # Null(col)
          BY WrittenColumnFacts, ScaledFacts
        <5>3. 1 \in 1..col.size
          BY <1>1, <2>5
        <5>4. e # [i \in 1..col.size |-> Null(col)]
          BY <5>1, <5>2, <5>3
        <5> QED
          BY <3>2, <4>1, <4>2, <4>4, <5>4
      <4> QED
        BY <4>3, <4>4
    <3>4. CASE ~x.null
      <4>1. e = x.elements
        BY <1>4, <3>4 DEF StoredOf
      <4>2. SameOf(col, fc, x, y) <=> ~y.null
        BY <1>1, <1>4, <2>4, <3>4, <4>1 DEF SameOf
      <4>3. SurvivesOf(col, fc, x) <=> x.elements # [i \in 1..col.size |-> Null(col)]
        <5>1. col.type \in Integers6 \/ (col.type = "UINT64_LE" /\ fc.type # "CHAR")
          BY <1>4, <2>5, <2>6
        <5>2. col.type \notin Floats \cup {"CHAR"}
          BY <2>5, <2>6, <3>1 DEF Floats
        <5> QED
          BY <3>4, <5>1, <5>2 DEF SurvivesOf
      <4> QED
        BY <3>2, <4>1, <4>2, <4>3
    <3> QED
      BY <1>1, <3>3, <3>4
  <2>7. CASE fc.type \in Floats
    <3>1. fc.type \notin Integers6 \cup {"INT8_LE"} /\ col.type = fc.type
      BY <2>5, <2>7 DEF Integers6, Floats
    <3>2. y.null <=> e = [i \in 1..col.size |-> NaN]
      <4>1. y.null <=> \A i \in DOMAIN e : e[i] = NaN
        BY <1>2, <2>3, <2>7, <3>1 DEF IsNullElement
      <4> QED
        BY <1>1, <2>1, <2>5, <4>1
    <3>3. CASE x.null
      <4>1. e = [i \in 1..col.size |-> NaN] /\ col.type \notin Unsigned
        BY <1>4, <2>5, <2>7, <3>1, <3>3 DEF StoredOf, StoredNull, Unsigned, Integers6
      <4> QED
        BY <1>1, <2>4, <2>5, <2>7, <3>1, <3>2, <3>3, <4>1 DEF SameOf, SurvivesOf
    <3>4. CASE ~x.null
      <4>1. e = x.elements
        BY <1>4, <3>4 DEF StoredOf
      <4>2. SameOf(col, fc, x, y) <=> ~y.null
        BY <1>1, <1>4, <2>4, <3>4, <4>1 DEF SameOf
      <4>3. SurvivesOf(col, fc, x) <=> x.elements # [i \in 1..col.size |-> NaN]
        <5>1. col.type # "UINT64_LE" /\ col.type # "CHAR"
          BY <2>7, <3>1 DEF Floats
        <5> QED
          BY <2>7, <3>4, <3>1, <5>1 DEF SurvivesOf
      <4> QED
        BY <3>2, <4>1, <4>2, <4>3
    <3> QED
      BY <1>1, <3>3, <3>4
  <2>8. CASE fc.type = "INT8_LE"
    <3>1. col.type = "INT8_LE" /\ fc.type \notin Integers6 \cup Floats
      BY <2>5, <2>8 DEF Integers6, Floats
    <3>2. ~y.null
      <4>1. 1 \in DOMAIN e
        BY <1>1, <2>1
      <4> QED
        BY <1>2, <2>3, <3>1, <4>1 DEF IsNullElement
    <3>3. CASE x.null
      BY <2>4, <3>1, <3>2, <3>3 DEF SameOf, SurvivesOf
    <3>4. CASE ~x.null
      <4>1. e = x.elements
        BY <1>4, <3>4 DEF StoredOf
      <4>2. SurvivesOf(col, fc, x)
        BY <2>8, <3>1, <3>4 DEF SurvivesOf
      <4> QED
        BY <1>1, <1>4, <2>4, <3>2, <3>4, <4>1, <4>2 DEF SameOf
    <3> QED
      BY <1>1, <3>3, <3>4
  <2> QED
    BY <1>2, <1>4, <2>6, <2>7, <2>8
<1> QED
  BY <1>3, <1>4

\* No cell of a column of unsigned integers is null that was not taken for one.
LEMMA NullsAreLost ==
  ASSUME NEW col, IsColumn(col), NEW fc, WrittenColumn(col, fc), fc.type \in Unsigned,
         NEW x, IsCell(col, x), ~TakenForNull(col, x)
  PROVE  ~ReadOf(fc, StoredOf(col, fc, x)).null
<1> DEFINE y == ReadOf(fc, StoredOf(col, fc, x))
<1>1. col.type \in Unsigned /\ col.type \in Integers6 /\ col.type \notin Floats \cup {"CHAR"}
  BY DEF WrittenColumn, Unsigned, Integers6, Floats
<1>2. SameOf(col, fc, x, y) <=> SurvivesOf(col, fc, x)
  BY CellRoundTrip
<1>3. x.null \in BOOLEAN /\ y.null \in BOOLEAN
  <2>1. y.null = TRUE \/ y.null = FALSE
    BY DEF ReadOf, ReadString, NullCell, Cell
  <2> QED
    BY <2>1 DEF IsCell
<1>4. CASE x.null
  <2>1. ~SurvivesOf(col, fc, x)
    BY <1>1, <1>4 DEF SurvivesOf
  <2> QED
    BY <1>2, <1>3, <1>4, <2>1 DEF SameOf
<1>5. CASE ~x.null
  <2>1. SurvivesOf(col, fc, x)
    BY <1>1, <1>5 DEF SurvivesOf, TakenForNull
  <2> QED
    BY <1>2, <1>3, <1>5, <2>1 DEF SameOf
<1> QED
  BY <1>3, <1>4, <1>5

\* A column that was read comes back as it is, and a cell of it unless it is taken
\* for a null one, or is one that is lost.
LEMMA SettledRoundTrip ==
  ASSUME NEW col, IsColumn(col), SettledColumn(col), NEW fc, WrittenColumn(col, fc)
  PROVE  /\ fc.type = col.type /\ fc.size = col.size /\ get_column_null_str(fc) = col.null
         /\ \A x : IsCell(col, x) /\ SettledCell(col, x) =>
              (ReadOf(fc, StoredOf(col, fc, x)) = x <=> ~TakenForNull(col, x) /\ ~NullLost(col, x))
<1>1. fc.type = col.type /\ fc.size = col.size
  BY DEF SettledColumn, WrittenColumn
<1>2. get_column_null_str(fc) = col.null
  <2>1. /\ GotNull(fc) <=> fc.type \in Integers6
        /\ fc.type \in Integers6 => fc.tnull = <<Null(col)>> /\ fc.tnull[1] = Null(col)
    BY WrittenColumnFacts
  <2>2. fc.type \in Integers6 => get_null(fc.type) = Max64
    BY GetNullFacts
  <2>3. CASE col.null = <<>>
    BY <2>1, <2>2, <2>3 DEF get_column_null_str, Null, DEFAULT_NULL_VALUE
  <2>4. CASE col.null # <<>>
    <3>1. col.type \in Integers6 /\ col.null[1] # Max64
      BY <2>4 DEF SettledColumn
    <3>2. col.null \in Seq(0..Max64) /\ Len(col.null) = 1
      BY <2>4 DEF IsColumn, IsNullValue
    <3>3. col.null = <<col.null[1]>>
      BY <3>2
    <3>4. Null(col) = col.null[1]
      BY <2>4 DEF Null, DEFAULT_NULL_VALUE
    <3> QED
      BY <1>1, <2>1, <2>2, <3>1, <3>3, <3>4 DEF get_column_null_str
  <2> QED
    BY <2>3, <2>4
<1>3. ASSUME NEW x, IsCell(col, x), SettledCell(col, x)
      PROVE  ReadOf(fc, StoredOf(col, fc, x)) = x <=> ~TakenForNull(col, x) /\ ~NullLost(col, x)
  <2> DEFINE y == ReadOf(fc, StoredOf(col, fc, x))
  <2>1. ColumnRead(fc, col)
    BY <1>1, <1>2 DEF ColumnRead, WrittenColumn
  <2>2. SettledCell(col, y) /\ IsCell(col, y)
    BY <1>3, <2>1, WrittenColumnFacts, StoredCellFacts, ReadCellFacts
  <2>3. SameOf(col, fc, x, y) <=> SurvivesOf(col, fc, x)
    BY <1>3, CellRoundTrip
  <2> HIDE DEF y
  <2>4. /\ x = [null |-> x.null, elements |-> x.elements] /\ x.null \in BOOLEAN
        /\ y = [null |-> y.null, elements |-> y.elements] /\ y.null \in BOOLEAN
    BY <1>3, <2>2 DEF IsCell
  <2>5. col.type # "UINT64_LE"
    BY DEF SettledColumn
  <2>6. y = x <=> SameOf(col, fc, x, y)
    <3>1. CASE x.null
      BY <1>3, <2>2, <2>4, <3>1 DEF SameOf, SettledCell
    <3>2. CASE ~x.null
      <4>1. SameOf(col, fc, x, y) <=> (y.null = x.null /\ y.elements = x.elements)
        BY <2>5, <3>2 DEF SameOf
      <4> QED
        BY <2>4, <4>1
    <3> QED
      BY <2>4, <3>1, <3>2
  <2>7. SurvivesOf(col, fc, x) <=> ~TakenForNull(col, x) /\ ~NullLost(col, x)
    <3>1. CASE x.null
      BY <1>3, <3>1 DEF SurvivesOf, SettledCell, TakenForNull, NullLost
    <3>2. CASE ~x.null
      <4>1. CASE col.type \in Integers6
        <5>1. col.type \notin Floats \cup {"CHAR"}
          BY <4>1 DEF Integers6, Floats
        <5> QED
          BY <3>2, <4>1, <5>1 DEF SurvivesOf, TakenForNull, NullLost
      <4>2. CASE col.type \notin Integers6
        <5>1. "CHAR" \notin Floats
          BY DEF Floats
        <5> QED
          BY <1>3, <2>5, <3>2, <4>2, <5>1 DEF SurvivesOf, TakenForNull, NullLost, SettledCell
      <4> QED
        BY <4>1, <4>2
    <3> QED
      BY <2>4, <3>1, <3>2
  <2> QED
    BY <2>3, <2>6, <2>7 DEF y
<1> QED
  BY <1>1, <1>2, <1>3

-----------------------------------------------------------------------------
(* Rows, written and read. *)

LEMMA CellOfRow ==
  ASSUME NEW cols, NEW rs, Rectangular(cols, rs), NEW r \in 1..Len(rs), NEW c \in 1..Len(cols)
  PROVE  /\ DOMAIN rs = 1..Len(rs) /\ DOMAIN cols = 1..Len(cols)
         /\ rs[r][c] \in CellsOf(rs, c)
BY SequenceFacts DEF Rectangular, CellsOf

LEMMA StoredRowsFacts ==
  ASSUME NEW cols, NEW rs, IsTable(cols, rs), NEW fcs, WrittenColumns(cols, fcs)
  PROVE  LET M == StoredRows(cols, fcs, rs) IN
         /\ IsFile(fcs, M) /\ IsMatrix(M, Len(cols)) /\ Len(M) = Len(rs) /\ DOMAIN M = DOMAIN rs
         /\ \A r \in 1..Len(rs) : \A c \in 1..Len(cols) :
              M[r][c] = StoredOf(cols[c], fcs[c], rs[r][c])
<1> DEFINE M == StoredRows(cols, fcs, rs)
           w == Len(cols)
<1>1. /\ Rectangular(cols, rs) /\ w \in Nat /\ Len(rs) \in Nat
      /\ DOMAIN cols = 1..w /\ DOMAIN rs = 1..Len(rs)
      /\ IsSequence(fcs) /\ Len(fcs) = w /\ DOMAIN fcs = 1..w
  BY SequenceFacts DEF IsTable, Rectangular, WrittenColumns
<1>2. M = [r \in 1..Len(rs) |-> M[r]]
  BY DEF StoredRows
<1>3. \A r \in 1..Len(rs) :
        /\ M[r] = [c \in 1..w |-> M[r][c]]
        /\ \A c \in 1..w : M[r][c] = StoredOf(cols[c], fcs[c], rs[r][c])
  BY DEF StoredRows
<1> HIDE DEF M
<1>4. IsSequence(M) /\ Len(M) = Len(rs) /\ DOMAIN M = 1..Len(rs)
  BY <1>1, <1>2, LiteralSequence, SequenceFacts
<1>5. \A r \in 1..Len(M) : IsSequence(M[r]) /\ Len(M[r]) = w
  BY <1>1, <1>3, <1>4, LiteralSequence
<1>6. M # <<>> => w > 0
  <2>1. M # <<>> => rs # <<>>
    BY <1>1, <1>4, EmptySequence DEF Rectangular
  <2>2. rs # <<>> => cols # <<>> /\ IsSequence(cols)
    BY <1>1 DEF Rectangular
  <2> QED
    BY <1>1, <2>1, <2>2, EmptySequence
<1>7. Rectangular(fcs, M)
  <2>1. M # <<>> => fcs # <<>>
    BY <1>1, <1>6, EmptySequence
  <2> QED
    BY <1>1, <1>4, <1>5, <2>1 DEF Rectangular
<1>8. ASSUME NEW c \in DOMAIN fcs
      PROVE  IsFileColumn(fcs[c]) /\ \A e \in CellsOf(M, c) : IsFileCell(fcs[c], e)
  <2>1. c \in 1..w /\ IsColumn(cols[c]) /\ WrittenColumn(cols[c], fcs[c])
        /\ \A x \in CellsOf(rs, c) : IsCell(cols[c], x)
    BY <1>1 DEF IsTable, WrittenColumns
  <2>2. ASSUME NEW e \in CellsOf(M, c) PROVE IsFileCell(fcs[c], e)
    <3>1. PICK r \in 1..Len(rs) : e = M[r][c]
      BY <1>4 DEF CellsOf
    <3>2. rs[r][c] \in CellsOf(rs, c)
      BY <1>1, <2>1, CellOfRow
    <3>3. IsFileCell(fcs[c], StoredOf(cols[c], fcs[c], rs[r][c]))
      BY <2>1, <3>2, StoredCellFacts
    <3> QED
      BY <1>3, <2>1, <3>1, <3>3
  <2> QED
    BY <2>1, <2>2, WrittenColumnFacts
<1>9. IsFile(fcs, M)
  BY <1>7, <1>8 DEF IsFile
<1> QED
  BY <1>1, <1>3, <1>4, <1>5, <1>6, <1>9 DEF IsMatrix, M

LEMMA ReadRowsFacts ==
  ASSUME NEW fcs, NEW frs, IsFile(fcs, frs)
  PROVE  LET M == ReadRows(fcs, frs) IN
         /\ IsMatrix(M, Len(fcs)) /\ Len(M) = Len(frs) /\ DOMAIN M = DOMAIN frs
         /\ \A r \in 1..Len(frs) : \A c \in 1..Len(fcs) : M[r][c] = ReadOf(fcs[c], frs[r][c])
<1> DEFINE M == ReadRows(fcs, frs)
           w == Len(fcs)
<1>1. /\ Rectangular(fcs, frs) /\ w \in Nat /\ Len(frs) \in Nat
      /\ DOMAIN fcs = 1..w /\ DOMAIN frs = 1..Len(frs)
  BY SequenceFacts DEF IsFile, Rectangular
<1>2. M = [r \in 1..Len(frs) |-> M[r]]
  BY DEF ReadRows
<1>3. \A r \in 1..Len(frs) :
        /\ M[r] = [c \in 1..w |-> M[r][c]]
        /\ \A c \in 1..w : M[r][c] = ReadOf(fcs[c], frs[r][c])
  BY DEF ReadRows
<1> HIDE DEF M
<1>4. IsSequence(M) /\ Len(M) = Len(frs) /\ DOMAIN M = 1..Len(frs)
  BY <1>1, <1>2, LiteralSequence, SequenceFacts
<1>5. \A r \in 1..Len(M) : IsSequence(M[r]) /\ Len(M[r]) = w
  BY <1>1, <1>3, <1>4, LiteralSequence
<1>6. M # <<>> => w > 0
  <2>1. M # <<>> => frs # <<>>
    BY <1>1, <1>4, EmptySequence DEF Rectangular
  <2>2. frs # <<>> => fcs # <<>> /\ IsSequence(fcs)
    BY <1>1 DEF Rectangular
  <2> QED
    BY <1>1, <2>1, <2>2, EmptySequence
<1> QED
  BY <1>1, <1>3, <1>4, <1>5, <1>6 DEF IsMatrix, M

\* A table that was read.
LEMMA ReadTableFacts ==
  ASSUME NEW fcs, NEW frs, IsFile(fcs, frs),
         NEW cols, IsSequence(cols), Len(cols) = Len(fcs),
         \A c \in 1..Len(cols) : fcs[c].type # "COMPLEX" /\ ColumnRead(fcs[c], cols[c])
  PROVE  LET rs == ReadRows(fcs, frs) IN
         /\ IsTable(cols, rs) /\ Settled(cols, rs)
         /\ (\A c \in 1..Len(cols) : fcs[c].type \in Integers6 => GotNull(fcs[c]))
              => NothingTaken(cols, rs)
<1> DEFINE rs == ReadRows(fcs, frs)
           w == Len(cols)
<1>1. /\ IsMatrix(rs, w) /\ Len(rs) = Len(frs) /\ DOMAIN rs = DOMAIN frs
      /\ \A r \in 1..Len(frs) : \A c \in 1..w : rs[r][c] = ReadOf(fcs[c], frs[r][c])
  BY ReadRowsFacts
<1>2. /\ Rectangular(fcs, frs) /\ w \in Nat /\ Len(frs) \in Nat /\ DOMAIN cols = 1..w
      /\ DOMAIN frs = 1..Len(frs) /\ DOMAIN fcs = 1..w
  BY SequenceFacts DEF IsFile, Rectangular
<1> HIDE DEF rs
<1>3. Rectangular(cols, rs)
  <2>1. rs # <<>> => cols # <<>>
    BY <1>1, EmptySequence DEF IsMatrix
  <2> QED
    BY <1>1, <1>2, <2>1 DEF Rectangular, IsMatrix
<1>4. ASSUME NEW c \in DOMAIN cols
      PROVE  IsColumn(cols[c]) /\ SettledColumn(cols[c])
  BY <1>2, <1>4, ReadColumnFacts DEF IsFile
<1>5. ASSUME NEW c \in DOMAIN cols, NEW x \in CellsOf(rs, c)
      PROVE  /\ IsCell(cols[c], x) /\ SettledCell(cols[c], x)
             /\ GotNull(fcs[c]) => ~TakenForNull(cols[c], x)
  <2>1. PICK r \in 1..Len(frs) : x = rs[r][c]
    BY <1>1, <1>2 DEF CellsOf
  <2>2. x = ReadOf(fcs[c], frs[r][c])
    BY <1>1, <1>2, <2>1
  <2>3. c \in DOMAIN fcs /\ frs[r][c] \in CellsOf(frs, c)
    BY <1>2, CellOfRow
  <2>4. IsFileColumn(fcs[c]) /\ IsFileCell(fcs[c], frs[r][c])
    BY <2>3 DEF IsFile
  <2>5. fcs[c].type # "COMPLEX" /\ ColumnRead(fcs[c], cols[c])
    BY <1>2
  <2> QED
    BY <2>2, <2>4, <2>5, ReadCellFacts
<1>6. ASSUME \A c \in 1..w : fcs[c].type \in Integers6 => GotNull(fcs[c])
      PROVE  NothingTaken(cols, rs)
  <2>1. ASSUME NEW c \in DOMAIN cols, NEW x \in CellsOf(rs, c)
        PROVE  ~TakenForNull(cols[c], x)
    <3>1. fcs[c].type = cols[c].type
      BY <1>2 DEF ColumnRead
    <3>2. CASE cols[c].type \in Integers6
      BY <1>2, <1>5, <1>6, <2>1, <3>1, <3>2
    <3>3. CASE cols[c].type \notin Integers6
      BY <3>3 DEF TakenForNull
    <3> QED
      BY <3>2, <3>3
  <2> QED
    BY <2>1 DEF NothingTaken
<1> QED
  BY <1>3, <1>4, <1>5, <1>6 DEF IsTable, Settled, rs

\* One cell more.
LEMMA AddCellFacts ==
  ASSUME NEW M, NEW w, IsMatrix(M, w), NEW rs, Begins(rs, M, w), w > 0, NEW x
  PROVE  LET new == AddCell(rs, w, x) IN
         /\ Len(rs) > 1 => Len(new) > 1
         /\ new # <<>>
         /\ \A c \in 1..w :
              (Len(new) > 1 \/ c <= Len(new[1]))
                <=> (Len(rs) > 1 \/ (rs # <<>> /\ c <= Len(rs[1])) \/ c = Cursor(rs, w)[2])
<1> DEFINE n == Len(rs)
           new == AddCell(rs, w, x)
<1>1. IsSequence(rs) /\ n \in Nat /\ w \in Nat
  BY SequenceFacts DEF IsMatrix, Begins
<1>2. CASE rs = <<>> \/ Len(Last(rs)) = w
  <2>1. Cursor(rs, w)[2] = 1 /\ new = Append(rs, <<x>>)
    BY <1>2 DEF Cursor, AddCell
  <2>2. /\ IsSequence(new) /\ Len(new) = n + 1 /\ new[n + 1] = <<x>>
        /\ \A i \in 1..n : new[i] = rs[i]
    BY <1>1, <2>1, AppendFacts
  <2> HIDE DEF new
  <2>3. CASE rs = <<>>
    <3>1. n = 0 /\ Len(new) = 1 /\ Len(new[1]) = 1
      BY <2>2, <2>3
    <3> QED
      BY <1>1, <2>1, <2>2, <2>3, <3>1, EmptySequence DEF new
  <2>4. CASE rs # <<>>
    <3>1. n >= 1 /\ Last(rs) = rs[n] /\ Len(rs[n]) = w
      BY <1>1, <1>2, <2>4, LastOfRows
    <3>2. Len(new) > 1
      BY <1>1, <2>2, <3>1
    <3>3. n > 1 \/ \A c \in 1..w : c <= Len(rs[1])
      BY <1>1, <3>1
    <3> QED
      BY <1>1, <2>2, <2>4, <3>2, <3>3, EmptySequence DEF new
  <2> QED
    BY <2>3, <2>4
<1>3. CASE rs # <<>> /\ Len(Last(rs)) # w
  <2> DEFINE row == rs[n]
             m == Len(row)
  <2>1. n >= 1 /\ Last(rs) = row /\ IsSequence(row) /\ m \in 1..w
    BY <1>1, <1>3, LastOfRows DEF Begins
  <2>2. Cursor(rs, w)[2] = m + 1 /\ new = Append(Front(rs), Append(row, x))
    BY <1>3, <2>1 DEF Cursor, AddCell
  <2>3. IsSequence(Front(rs)) /\ Len(Front(rs)) = n - 1
    <3>1. 1 \in 1..(n + 1) /\ n - 1 \in 0..n /\ 1 <= (n - 1) + 1
      BY <1>1, <2>1
    <3>2. IsSequence(SubSeq(rs, 1, n - 1)) /\ Len(SubSeq(rs, 1, n - 1)) = (n - 1) - 1 + 1
      BY <1>1, <3>1, SubSeqFacts
    <3> QED
      BY <1>1, <2>1, <3>2 DEF Front
  <2>4. IsSequence(new) /\ Len(new) = (n - 1) + 1 /\ new[(n - 1) + 1] = Append(row, x)
    BY <2>2, <2>3, AppendFacts
  <2>5. Len(new) = n /\ new[n] = Append(row, x) /\ Len(Append(row, x)) = m + 1
    BY <1>1, <2>1, <2>4, AppendFacts
  <2>6. new # <<>>
    BY <1>1, <2>1, <2>4, <2>5, EmptySequence
  <2> HIDE DEF new
  <2>7. CASE n = 1
    BY <1>1, <1>3, <2>1, <2>2, <2>5, <2>6, <2>7 DEF new
  <2>8. CASE n # 1
    BY <1>1, <2>1, <2>5, <2>6, <2>8 DEF new
  <2> QED
    BY <2>7, <2>8
<1> QED
  BY <1>2, <1>3

-----------------------------------------------------------------------------
(* The writer's column and cell are those of the definitions above, and so are  *)
(* the reader's.                                                             *)

LEMMA FitsColumnIsWritten ==
  ASSUME NEW c, IsColumn(columns[c])
  PROVE  WrittenColumn(columns[c], FitsColumn(c))
<1> DEFINE col == columns[c]
           fc == FitsColumn(c)
           type == datatype_for_writing(c)
<1>1. /\ fc.name = col.name /\ fc.unit = Text(col.attrs, "unit") /\ fc.type = type
      /\ fc.size = SizeForWriting(c) /\ fc.width = fc.size
      /\ fc.tnull = IF type \in Integers6 THEN <<TnullOf(c)>> ELSE <<>>
  BY DEF FitsColumn
<1>2. col.size \in Nat \ {0}
  BY DEF IsColumn
<1>3. IF col.type = "UINT64_LE" THEN \/ type = "CHAR" /\ fc.size \in Nat \ {0}
                                     \/ type = "INT64_LE" /\ fc.size = col.size
                                ELSE type = col.type /\ fc.size = col.size
  <2>1. CASE col.type # "UINT64_LE"
    BY <1>1, <2>1 DEF datatype_for_writing, SizeForWriting
  <2>2. CASE col.type = "UINT64_LE" /\ contains_large_uint64_val(c)
    <3>1. type = "CHAR"
      BY <2>2 DEF datatype_for_writing
    <3>2. fc.size = col.size * 20 - 1
      BY <1>1, <2>2, <3>1 DEF SizeForWriting, get_char_array_size_for_uint64_col
    <3> QED
      BY <1>2, <2>2, <3>1, <3>2
  <2>3. CASE col.type = "UINT64_LE" /\ ~contains_large_uint64_val(c)
    <3>1. type = "INT64_LE"
      BY <2>3 DEF datatype_for_writing
    <3> QED
      BY <1>1, <2>3, <3>1 DEF SizeForWriting
  <2> QED
    BY <2>1, <2>2, <2>3
<1>4. type \in Integers6 => TnullOf(c) = Null(col)
  BY GetNullFacts DEF TnullOf, Null
<1> QED
  BY <1>1, <1>3, <1>4 DEF WrittenColumn

LEMMA ElementsOutIsStored ==
  ASSUME NEW c, NEW x
  PROVE  ElementsOut(c, x) = StoredOf(columns[c], fits_columns[c], x)
BY DEF ElementsOut, StoredOf, NullElements, StoredNull

LEMMA ReadAsIsRead ==
  ASSUME NEW c, IsFileColumn(fits_columns[c]), InfoInv(c),
         NEW e, IsFileCell(fits_columns[c], e)
  PROVE  ReadAs(c, e) = ReadOf(fits_columns[c], e)
<1> DEFINE fc == fits_columns[c]
           info == column_infos[c]
<1>1. CASE fc.type = "CHAR"
  BY <1>1 DEF ReadAs, ReadOf
<1>2. CASE fc.type # "CHAR"
  <2>1. info.type = fc.type /\ info.size = fc.size /\ info.got_null = GotNull(fc)
    BY DEF InfoInv, Info
  <2>2. GotNull(fc) => NullValue(info) = fc.tnull[1]
    BY <2>1 DEF InfoInv, NullValue
  <2>3. ReadAs(c, e) = ReadElements(info, e)
    BY <1>2 DEF ReadAs
  <2>4. \A i \in DOMAIN e : IsNullElement(fc, e[i]) <=>
          (info.got_null /\ e[i] = NullValue(info)) \/ (info.type \in Floats /\ e[i] = NaN)
    BY <2>1, <2>2 DEF IsNullElement
  <2> HIDE DEF fc, info
  <2>5. ReadElements(info, e) =
          IF e # <<>> /\ \A i \in DOMAIN e : IsNullElement(fc, e[i])
          THEN NullCell(fc.type, fc.size) ELSE Cell(FALSE, e)
    BY <2>1, <2>4 DEF ReadElements
  <2> QED
    BY <1>2, <2>3, <2>5 DEF ReadOf, fc
<1> QED
  BY <1>1, <1>2

-----------------------------------------------------------------------------
(* The invariant holds. *)

LEMMA NotZero == \A n \in Nat : n > 0 => n # 0
OBVIOUS

LEMMA InvInit == FitsInit => Inv
<1> SUFFICES ASSUME FitsInit PROVE Inv
  OBVIOUS
<1>1. ASSUME NEW start \in Starts,
             InitFromTable(start.meta), InitCells, stage = "create",
             columns = start.columns, rows = start.rows
      PROVE  Inv
  <2>1. phase = "writing" /\ trips = 1 /\ stage = "create" /\ column_infos = <<>>
    BY <1>1 DEF InitFromTable, InitCells
  <2>2. IsTable(columns, rows)
    BY <1>1, StartsAssumption
  <2> QED
    BY <2>1, <2>2 DEF Inv, PhaseInv, TableInv, OutInv, FileInv, WrittenInv, ForeignInv,
                      ReadingInv, Writing
<1>2. ASSUME NEW start \in FitsFiles,
             InitFromFile(start.hdus), InitCells, stage = "keywords",
             fits_columns = start.columns, fits_rows = start.rows,
             columns = <<>>, rows = <<>>,
             before = [columns |-> columns, rows |-> rows, reread |-> FALSE]
      PROVE  Inv
  <2>1. phase = "entering" /\ trips = 0 /\ stage = "keywords"
    BY <1>2 DEF InitFromFile
  <2>2. IsFile(fits_columns, fits_rows) /\ SubstringsFit(fits_columns, fits_rows)
    BY <1>2, FitsFilesAssumption
  <2>3. before.reread = FALSE
    BY <1>2
  <2> QED
    BY <1>2, <2>1, <2>2, <2>3 DEF Inv, PhaseInv, TableInv, OutInv, FileInv, WrittenInv,
                                  ForeignInv, ReadingInv, Writing
<1> QED
  BY <1>1, <1>2 DEF FitsInit

LEMMA CreateTableInv == Inv /\ CreateTable => Inv'
<1> SUFFICES ASSUME Inv, CreateTable PROVE Inv'
  OBVIOUS
<1> USE DEF Writing
<1>1. /\ stage = "create" /\ stage' = "keywords" /\ phase = "writing" /\ phase' = phase
      /\ trips \in Nat /\ trips > 0 /\ trips' = trips
      /\ columns' = columns /\ rows' = rows /\ column_infos' = column_infos
      /\ fits_rows' = <<>> /\ fits_columns' = [c \in DOMAIN columns |-> FitsColumn(c)]
  BY DEF CreateTable, Inv, PhaseInv, vars, written
<1>2. IsTable(columns, rows) /\ (column_infos # <<>> \/ trips > 1 => Reread(columns, rows))
  BY <1>1 DEF Inv, TableInv
<1>3. IsSequence(columns) /\ DOMAIN columns = 1..Len(columns) /\ Len(columns) \in Nat
  BY <1>2, SequenceFacts DEF IsTable, Rectangular
<1>4. WrittenColumns(columns, fits_columns')
  <2>1. \A c \in 1..Len(columns) : WrittenColumn(columns[c], fits_columns'[c])
    BY <1>1, <1>2, <1>3, FitsColumnIsWritten DEF IsTable
  <2>2. fits_columns' = [c \in 1..Len(columns) |-> fits_columns'[c]]
    BY <1>1, <1>3
  <2>3. IsSequence(fits_columns') /\ Len(fits_columns') = Len(columns)
    BY <1>3, <2>2, LiteralSequence
  <2> QED
    BY <2>1, <2>3 DEF WrittenColumns
<1>5. Begins(<<>>, StoredRows(columns, fits_columns', rows), Len(columns))
  BY <1>2, <1>4, StoredRowsFacts, BeginsEmpty
<1>6. PhaseInv' /\ TableInv'
  BY <1>1, <1>2 DEF PhaseInv, TableInv, Reread
<1>7. OutInv'
  BY <1>1, <1>4, <1>5 DEF OutInv
<1>8. FileInv' /\ WrittenInv' /\ ForeignInv' /\ ReadingInv'
  BY <1>1 DEF FileInv, WrittenInv, ForeignInv, ReadingInv
<1> QED
  BY <1>6, <1>7, <1>8 DEF Inv

\* A step of the keywords is one of the writer's or one of the reader's.
LEMMA KeywordPhases ==
  ASSUME KeywordStep, phase \in {"writing", "undefined", "entering", "reading", "distributing", "read"}
  PROVE  /\ trips' = trips /\ phase # "read" /\ phase' # "read" /\ (Writing' <=> Writing)
         /\ phase' \in {"writing", "undefined", "entering", "reading", "distributing"}
BY DEF KeywordStep, WithoutName, WriteProperty, WriteUndefined, EnterHdu, IgnoreKeyword,
       ReadKeyword, LeaveHdu, Distribute, written, Writing

LEMMA KeywordsStepInv == Inv /\ Keywords => Inv'
<1> SUFFICES ASSUME Inv, Keywords PROVE Inv'
  OBVIOUS
<1>1. /\ stage = "keywords" /\ stage' = stage /\ KeywordStep
      /\ columns' = columns /\ rows' = rows /\ before' = before
      /\ fits_columns' = fits_columns /\ fits_rows' = fits_rows
      /\ null_values' = null_values /\ column_infos' = column_infos
  BY DEF Keywords, cells
<1>2. /\ trips' = trips /\ (Writing' <=> Writing) /\ phase' # "read"
      /\ phase' \in {"writing", "undefined", "entering", "reading", "distributing", "read"}
  BY <1>1, KeywordPhases DEF Inv, PhaseInv
<1>3. PhaseInv'
  BY <1>1, <1>2 DEF Inv, PhaseInv, Writing
<1>4. TableInv' /\ OutInv' /\ FileInv' /\ WrittenInv' /\ ForeignInv'
  BY <1>1, <1>2 DEF Inv, TableInv, OutInv, FileInv, WrittenInv, ForeignInv, Reread
<1>5. ReadingInv'
  BY <1>1, <1>2 DEF Inv, ReadingInv
<1> QED
  BY <1>3, <1>4, <1>5 DEF Inv

LEMMA BeginRowsInv == Inv /\ BeginRows => Inv'
<1> SUFFICES ASSUME Inv, BeginRows PROVE Inv'
  OBVIOUS
<1> USE DEF Writing
<1>1. /\ stage = "keywords" /\ stage' = "rows out" /\ phase = "writing" /\ phase' = phase
      /\ trips' = trips /\ columns' = columns /\ rows' = rows
      /\ fits_columns' = fits_columns /\ fits_rows' = fits_rows /\ column_infos' = column_infos
  BY DEF BeginRows, vars, written, cells
<1>2. PhaseInv' /\ TableInv' /\ OutInv'
  BY <1>1 DEF Inv, PhaseInv, TableInv, OutInv, Reread
<1>3. FileInv' /\ WrittenInv' /\ ForeignInv' /\ ReadingInv'
  <2>1. FileInv' /\ WrittenInv'
    BY <1>1 DEF FileInv, WrittenInv
  <2>2. trips # 0
    <3>1. phase = "writing"
      BY <1>1
    <3> QED
      BY <3>1, NotZero DEF Inv, PhaseInv
  <2>3. ForeignInv'
    BY <1>1, <2>2 DEF ForeignInv
  <2>4. ReadingInv'
    BY <1>1 DEF ReadingInv
  <2> QED
    BY <2>1, <2>3, <2>4
<1> QED
  BY <1>2, <1>3 DEF Inv

LEMMA WriteCellInv == Inv /\ WriteCell => Inv'
<1> SUFFICES ASSUME Inv, WriteCell PROVE Inv'
  OBVIOUS
<1> USE DEF Writing
<1> DEFINE w == Len(columns)
           at == Cursor(fits_rows, w)
           M == StoredRows(columns, fits_columns, rows)
<1>1. /\ stage = "rows out" /\ stage' = stage /\ phase = "writing" /\ phase' = phase
      /\ trips' = trips /\ columns' = columns /\ rows' = rows
      /\ fits_columns' = fits_columns /\ column_infos' = column_infos /\ at[1] \in DOMAIN rows
      /\ fits_rows' = AddCell(fits_rows, w, ElementsOut(at[2], rows[at[1]][at[2]]))
  BY DEF WriteCell, Inv, PhaseInv, vars, written
<1>2. /\ IsTable(columns, rows) /\ WrittenColumns(columns, fits_columns)
      /\ Begins(fits_rows, M, w)
  BY <1>1 DEF Inv, TableInv, OutInv
<1> HIDE DEF M
<1>3. /\ IsMatrix(M, w) /\ Len(M) = Len(rows) /\ DOMAIN M = DOMAIN rows
      /\ \A r \in 1..Len(rows) : \A c \in 1..w :
           M[r][c] = StoredOf(columns[c], fits_columns[c], rows[r][c])
  BY <1>2, StoredRowsFacts DEF M
<1>4. at[1] \in 1..Len(rows) /\ at[2] \in 1..w
  BY <1>1, <1>2, <1>3, CursorInMatrix
<1>5. ElementsOut(at[2], rows[at[1]][at[2]]) = M[at[1]][at[2]]
  BY <1>3, <1>4, ElementsOutIsStored
<1>6. Begins(fits_rows', M, w)
  BY <1>1, <1>2, <1>3, <1>5, BeginsGrows
<1>7. PhaseInv' /\ TableInv' /\ OutInv'
  BY <1>1, <1>2, <1>6 DEF Inv, PhaseInv, TableInv, OutInv, Reread, M
<1>8. FileInv' /\ WrittenInv' /\ ForeignInv' /\ ReadingInv'
  <2>1. FileInv' /\ WrittenInv'
    BY <1>1 DEF FileInv, WrittenInv
  <2>2. trips # 0
    <3>1. phase = "writing"
      BY <1>1
    <3> QED
      BY <3>1, NotZero DEF Inv, PhaseInv
  <2>3. ForeignInv'
    BY <1>1, <2>2 DEF ForeignInv
  <2>4. ReadingInv'
    BY <1>1 DEF ReadingInv
  <2> QED
    BY <2>1, <2>3, <2>4
<1> QED
  BY <1>7, <1>8 DEF Inv

LEMMA ReopenInv == Inv /\ Reopen => Inv'
<1> SUFFICES ASSUME Inv, Reopen PROVE Inv'
  OBVIOUS
<1> USE DEF Writing
<1> DEFINE w == Len(columns)
           M == StoredRows(columns, fits_columns, rows)
<1>1. /\ stage = "rows out" /\ stage' = "keywords" /\ phase = "writing" /\ phase' = "entering"
      /\ trips' = trips /\ trips \in Nat /\ trips > 0 /\ columns' = <<>> /\ rows' = <<>>
      /\ fits_columns' = fits_columns /\ fits_rows' = fits_rows
      /\ before' = [columns |-> columns, rows |-> rows, reread |-> column_infos # <<>>]
      /\ Cursor(fits_rows, w)[1] \notin DOMAIN rows
  BY DEF Reopen, ReadFile, Inv, PhaseInv, written
<1>2. /\ IsTable(columns, rows) /\ WrittenColumns(columns, fits_columns)
      /\ Begins(fits_rows, M, w) /\ (column_infos # <<>> \/ trips > 1 => Reread(columns, rows))
  BY <1>1 DEF Inv, TableInv, OutInv
<1> HIDE DEF M
<1>3. IsMatrix(M, w) /\ DOMAIN M = DOMAIN rows /\ IsFile(fits_columns, M)
  BY <1>2, StoredRowsFacts DEF M
<1>4. fits_rows = M
  BY <1>1, <1>2, <1>3, BeginsEnds
<1>5. PhaseInv' /\ TableInv' /\ OutInv' /\ ForeignInv' /\ ReadingInv'
  <2>1. PhaseInv'
    BY <1>1 DEF PhaseInv
  <2>2. TableInv' /\ OutInv' /\ ForeignInv'
    <3>1. phase' = "entering" /\ trips' # 0
      BY <1>1, NotZero
    <3> QED
      BY <3>1 DEF TableInv, OutInv, ForeignInv
  <2>3. ReadingInv'
    BY <1>1 DEF ReadingInv
  <2> QED
    BY <2>1, <2>2, <2>3
<1>6. FileInv'
  BY <1>1, <1>3, <1>4 DEF FileInv
<1>7. before'.columns = columns /\ before'.rows = rows /\ (before'.reread => column_infos # <<>>)
      /\ trips' = trips
  BY <1>1
<1>8. WrittenInv'
  BY <1>1, <1>2, <1>4, <1>7 DEF WrittenInv, Reread, M
<1> QED
  BY <1>5, <1>6, <1>8 DEF Inv

\* What the file was written from, and what it has, is not changed by its reading.
ReadOnly ==
  /\ phase = "distributing" /\ phase' = phase /\ trips' = trips /\ fields' = fields
  /\ before' = before /\ fits_columns' = fits_columns /\ fits_rows' = fits_rows
LEMMA ReadOnlyInv ==
  ASSUME Inv, ReadOnly
  PROVE  /\ TableInv' /\ OutInv' /\ FileInv' /\ WrittenInv' /\ ForeignInv'
         /\ IsFile(fits_columns, fits_rows) /\ IsSequence(fits_columns) /\ Len(fits_columns) \in Nat
<1>1. ~Writing /\ ~Writing'
  BY DEF ReadOnly, Writing
<1>2. TableInv' /\ OutInv'
  BY <1>1 DEF TableInv, OutInv
<1>3. FileInv' /\ WrittenInv' /\ ForeignInv'
  BY <1>1 DEF Inv, FileInv, WrittenInv, ForeignInv, ReadOnly, Reread
<1>4. IsFile(fits_columns, fits_rows)
  BY <1>1 DEF Inv, FileInv
<1>5. IsSequence(fits_columns) /\ Len(fits_columns) \in Nat
  BY <1>4, SequenceFacts DEF IsFile, Rectangular
<1> QED
  BY <1>2, <1>3, <1>4, <1>5

LEMMA NextIndex == \A a, b \in Nat : a < b => a + 1 \in 1..b /\ a + 1 <= b
OBVIOUS

LEMMA BeginColumnsInv == Inv /\ BeginColumns => Inv'
<1> SUFFICES ASSUME Inv, BeginColumns PROVE Inv'
  OBVIOUS
<1>1. /\ stage = "keywords" /\ stage' = "columns in" /\ phase = "distributing" /\ ReadOnly
      /\ columns' = columns /\ rows' = rows /\ column_infos' = <<>>
      /\ null_values' = [t \in Integers6 |-> <<>>]
  BY DEF BeginColumns, ReadOnly, vars, written, collected
<1>2. columns = <<>> /\ rows = <<>>
  BY <1>1 DEF Inv, ReadingInv, Writing
<1>3. TableInv' /\ OutInv' /\ FileInv' /\ WrittenInv' /\ ForeignInv'
  BY <1>1, ReadOnlyInv
<1>4. PhaseInv'
  BY <1>1 DEF Inv, PhaseInv, ReadOnly
<1>5. ColumnsInv' /\ AttrsInv'
  <2>1. Len(fits_columns') \in Nat
    BY <1>1, ReadOnlyInv DEF ReadOnly
  <2>2. /\ IsSequence(columns') /\ Len(columns') = 0
        /\ IsSequence(column_infos') /\ Len(column_infos') = 0 /\ 1..0 = {}
    <3>1. columns' = <<>> /\ column_infos' = <<>>
      BY <1>1, <1>2, Zenon
    <3>2. IsSequence(<<>>) /\ Len(<<>>) = 0
      BY EmptySequence
    <3>3. 1..0 = {}
      OBVIOUS
    <3> QED
      BY <3>1, <3>2, <3>3, Zenon
  <2>3. null_values' \in [Integers6 -> Seq(Nat)]
    <3>1. [t \in Integers6 |-> <<>>] \in [Integers6 -> Seq(Nat)]
      OBVIOUS
    <3> QED
      BY <1>1, <3>1, Zenon
  <2>4. ColumnsInv'
    BY <2>1, <2>2, <2>3 DEF ColumnsInv
  <2>5. AttrsInv'
    BY <2>2 DEF AttrsInv
  <2> QED
    BY <2>4, <2>5
<1>6. ReadingInv'
  BY <1>1, <1>2, <1>5 DEF ReadingInv
<1> QED
  BY <1>3, <1>4, <1>6 DEF Inv

LEMMA ReadColumnInv == Inv /\ ReadColumn => Inv'
<1> SUFFICES ASSUME Inv, ReadColumn PROVE Inv'
  OBVIOUS
<1> DEFINE n == Len(columns)
           fc == fits_columns[n + 1]
           col == [name |-> fc.name, type |-> fc.type, size |-> fc.size,
                   null |-> get_column_null_str(fc), attrs |-> FieldAttributesOf(fc.name)]
           idx == IF GotNull(fc) THEN Len(null_values[fc.type]) + 1 ELSE 0
           info == Info(fc.type, fc.size, GotNull(fc), idx)
<1>1. /\ stage = "columns in" /\ stage' = stage /\ fc.type # "COMPLEX"
      /\ n < Len(fits_columns) /\ rows' = rows
      /\ columns' = Append(columns, col) /\ column_infos' = Append(column_infos, info)
      /\ null_values' = IF GotNull(fc)
                        THEN [null_values EXCEPT ![fc.type] = Append(@, fc.tnull[1])]
                        ELSE null_values
  BY DEF ReadColumn, NextColumn
<1>2. ReadOnly
  BY <1>1 DEF ReadColumn, ReadOnly, Inv, PhaseInv, vars, written, collected
<1>3. TableInv' /\ OutInv' /\ FileInv' /\ WrittenInv' /\ ForeignInv'
  BY <1>2, ReadOnlyInv
<1>4. PhaseInv'
  BY <1>1, <1>2 DEF Inv, PhaseInv, ReadOnly
<1>5. rows = <<>> /\ ColumnsInv /\ AttrsInv
  BY <1>1 DEF Inv, ReadingInv
<1>6. /\ IsSequence(columns) /\ n \in Nat /\ IsSequence(column_infos) /\ Len(column_infos) = n
      /\ Len(fits_columns) \in Nat /\ fits_columns' = fits_columns /\ fields' = fields
  BY <1>2, <1>5, ReadOnlyInv, SequenceFacts DEF ColumnsInv, ReadOnly
<1>6a. null_values \in [Integers6 -> Seq(Nat)]
  BY <1>5 DEF ColumnsInv
<1>6b. \A t \in Integers6 : Len(null_values[t]) \in Nat
  BY <1>6a
<1>7. IsFileColumn(fc)
  <2>1. n + 1 \in 1..Len(fits_columns)
    <3> HIDE DEF n
    <3> QED
      BY <1>1, <1>6, NextIndex
  <2>2. n + 1 \in DOMAIN fits_columns
    BY <1>2, <2>1, ReadOnlyInv, SequenceFacts
  <2> QED
    BY <1>2, <2>2, ReadOnlyInv DEF IsFile
<1>8. GotNull(fc) => fc.type \in Integers6 /\ fc.tnull[1] \in Nat
  BY <1>7, NullValueFacts DEF GotNull, IsFileColumn
<1>9. /\ IsSequence(columns') /\ Len(columns') = n + 1
      /\ \A c \in 1..n : columns'[c] = columns[c]
      /\ columns'[n + 1] = col
  BY <1>1, <1>6, AppendFacts, ZenonT(30)
<1>10. /\ IsSequence(column_infos') /\ Len(column_infos') = n + 1
       /\ \A c \in 1..n : column_infos'[c] = column_infos[c]
       /\ column_infos'[n + 1] = info
  <2> HIDE DEF info
  <2>1. /\ IsSequence(column_infos') /\ Len(column_infos') = Len(column_infos) + 1
        /\ \A c \in 1..Len(column_infos) : column_infos'[c] = column_infos[c]
        /\ column_infos'[Len(column_infos) + 1] = info
    BY <1>1, <1>6, AppendFacts, ZenonT(30)
  <2>2. Len(column_infos) = n
    BY <1>6
  <2> HIDE DEF n
  <2> QED
    BY <2>1, <2>2
<1> HIDE DEF fc
<1>11. /\ null_values' \in [Integers6 -> Seq(Nat)]
       /\ \A t \in Integers6 : /\ Len(null_values[t]) <= Len(null_values'[t])
                               /\ \A i \in 1..Len(null_values[t]) :
                                    null_values'[t][i] = null_values[t][i]
       /\ GotNull(fc) => /\ Len(null_values'[fc.type]) = Len(null_values[fc.type]) + 1
                         /\ null_values'[fc.type][Len(null_values[fc.type]) + 1] = fc.tnull[1]
  <2>1. CASE GotNull(fc)
    <3> DEFINE s == null_values[fc.type]
               v == fc.tnull[1]
    <3>1. s \in Seq(Nat) /\ fc.type \in Integers6 /\ v \in Nat
      BY <1>6a, <1>8, <2>1
    <3>2. null_values' = [null_values EXCEPT ![fc.type] = Append(s, v)]
      BY <1>1, <2>1
    <3> HIDE DEF s, v
    <3>3. /\ Append(s, v) \in Seq(Nat) /\ Len(Append(s, v)) = Len(s) + 1 /\ Len(s) \in Nat
          /\ \A i \in 1..Len(s) : Append(s, v)[i] = s[i]
          /\ Append(s, v)[Len(s) + 1] = v
      BY <3>1
    <3>4. null_values'[fc.type] = Append(s, v) /\ null_values' \in [Integers6 -> Seq(Nat)]
      BY <1>6a, <3>1, <3>2, <3>3
    <3>5. ASSUME NEW t \in Integers6
          PROVE  /\ Len(null_values[t]) <= Len(null_values'[t])
                 /\ \A i \in 1..Len(null_values[t]) : null_values'[t][i] = null_values[t][i]
      <4>1. CASE t = fc.type
        BY <3>3, <3>4, <4>1, SMTT(30) DEF s
      <4>2. CASE t # fc.type
        <5>1. null_values'[t] = null_values[t] /\ Len(null_values[t]) \in Nat
          BY <1>6a, <1>6b, <3>2, <4>2
        <5> QED
          BY <5>1
      <4> QED
        BY <4>1, <4>2
    <3>6. null_values[fc.type] = s /\ fc.tnull[1] = v
      BY DEF s, v
    <3> QED
      BY <3>3, <3>4, <3>5, <3>6
  <2>2. CASE ~GotNull(fc)
    <3>1. null_values' = null_values
      BY <1>1, <2>2
    <3> QED
      BY <1>6a, <1>6b, <2>2, <3>1
  <2> QED
    BY <2>1, <2>2
<1>12. ASSUME NEW c \in 1..(n + 1)
       PROVE  /\ fits_columns'[c].type # "COMPLEX"
              /\ ColumnRead(fits_columns'[c], columns'[c]) /\ InfoInv(c)'
              /\ "attrs" \in DOMAIN columns'[c]
  <2>1. CASE c = n + 1
    <3>1. fits_columns'[c] = fc /\ columns'[c] = col /\ column_infos'[c] = info
      BY <1>6, <1>9, <1>10, <2>1 DEF fc
    <3>2. ColumnRead(fc, col)
      BY DEF ColumnRead
    <3>3. info.idx = idx /\ info = Info(fc.type, fc.size, GotNull(fc), info.idx)
      BY DEF Info
    <3>4. GotNull(fc) => /\ idx \in 1..Len(null_values'[fc.type])
                         /\ null_values'[fc.type][idx] = fc.tnull[1]
      <4>1. GotNull(fc) => Len(null_values[fc.type]) \in Nat /\ idx = Len(null_values[fc.type]) + 1
        BY <1>6b, <1>8
      <4> QED
        BY <1>11, <4>1
    <3> HIDE DEF info, idx
    <3>5. InfoInv(c)'
      BY <3>1, <3>3, <3>4 DEF InfoInv
    <3>6. "attrs" \in DOMAIN col
      OBVIOUS
    <3> HIDE DEF col
    <3> QED
      BY <1>1, <3>1, <3>2, <3>5, <3>6
  <2>2. CASE c # n + 1
    <3>1. c \in 1..n
      BY <1>6, <2>2
    <3>2. /\ fits_columns'[c] = fits_columns[c] /\ columns'[c] = columns[c]
          /\ column_infos'[c] = column_infos[c]
      BY <1>6, <1>9, <1>10, <3>1
    <3>3. /\ fits_columns[c].type # "COMPLEX" /\ ColumnRead(fits_columns[c], columns[c])
          /\ InfoInv(c) /\ "attrs" \in DOMAIN columns[c]
      BY <1>5, <3>1 DEF ColumnsInv
    <3>4. InfoInv(c)'
      <4> DEFINE t == fits_columns[c].type
                 i == column_infos[c].idx
      <4>1. GotNull(fits_columns[c]) =>
              /\ t \in Integers6 /\ i \in 1..Len(null_values[t])
              /\ null_values[t][i] = fits_columns[c].tnull[1]
        BY <3>3 DEF InfoInv, GotNull
      <4>2. GotNull(fits_columns[c]) => /\ i \in 1..Len(null_values'[t])
                                        /\ null_values'[t][i] = fits_columns[c].tnull[1]
        <5> SUFFICES ASSUME GotNull(fits_columns[c])
                     PROVE  /\ i \in 1..Len(null_values'[t])
                            /\ null_values'[t][i] = fits_columns[c].tnull[1]
          OBVIOUS
        <5> HIDE DEF t, i
        <5>1. t \in Integers6 /\ i \in 1..Len(null_values[t])
          BY <4>1
        <5>2. Len(null_values[t]) \in Nat
          BY <1>6b, <5>1
        <5>3. Len(null_values'[t]) \in Nat
          <6>1. null_values' \in [Integers6 -> Seq(Nat)]
            BY <1>11
          <6> QED
            BY <5>1, <6>1
        <5>4. Len(null_values[t]) <= Len(null_values'[t])
          BY <1>11, <5>1
        <5>5. i \in 1..Len(null_values'[t])
          BY <5>1, <5>2, <5>3, <5>4
        <5>6. null_values'[t][i] = null_values[t][i]
          BY <1>11, <5>1
        <5> QED
          BY <4>1, <5>5, <5>6
      <4> QED
        BY <3>2, <3>3, <4>2 DEF InfoInv
    <3> QED
      BY <3>2, <3>3, <3>4
  <2> QED
    BY <2>1, <2>2
<1>13. ColumnsInv'
  <2> HIDE DEF n
  <2>1. n + 1 <= Len(fits_columns')
    BY <1>1, <1>6, NextIndex
  <2> QED
    BY <1>9, <1>10, <1>11, <1>12, <2>1 DEF ColumnsInv
<1>14. AttrsInv'
  <2>1. ASSUME NEW c \in 1..(n + 1)
        PROVE  columns'[c].attrs = FieldAttributesOf(fits_columns[c].name)
    <3>1. CASE c = n + 1
      <4>1. columns'[c] = col /\ fits_columns[c] = fc
        BY <1>9, <3>1 DEF fc
      <4> QED
        BY <4>1
    <3>2. CASE c # n + 1
      <4>1. c \in 1..n /\ columns'[c] = columns[c]
        BY <1>6, <1>9, <3>2
      <4>2. ~Visited(c)
        BY <1>5, EmptySequence DEF Visited
      <4> QED
        BY <1>5, <4>1, <4>2 DEF AttrsInv
    <3> QED
      BY <3>1, <3>2
  <2>2. ASSUME NEW c \in 1..(n + 1) PROVE ~Visited(c)'
    <3>1. rows' = <<>>
      BY <1>1, <1>5, Zenon
    <3>2. Len(<<>>) = 0 /\ ~(0 > 1)
      BY EmptySequence
    <3> QED
      BY <3>1, <3>2 DEF Visited
  <2>3. \A name : FieldAttributesOf(name)' = FieldAttributesOf(name)
    BY <1>6 DEF FieldAttributesOf
  <2> HIDE DEF n, col
  <2> QED
    BY <1>6, <1>9, <2>1, <2>2, <2>3 DEF AttrsInv
<1>15. ReadingInv'
  BY <1>1, <1>5, <1>13, <1>14 DEF ReadingInv
<1> QED
  BY <1>3, <1>4, <1>15 DEF Inv

LEMMA UnsupportedColumnInv == Inv /\ (UnsupportedColumn \/ UnevenString) => Inv'
<1> SUFFICES ASSUME Inv, UnsupportedColumn \/ UnevenString PROVE Inv'
  OBVIOUS
<1>1. stage' = "failed" /\ ReadOnly
  BY DEF UnsupportedColumn, UnevenString, ReadOnly, Inv, PhaseInv, vars, cells, written, collected
<1>2. TableInv' /\ OutInv' /\ FileInv' /\ WrittenInv' /\ ForeignInv'
  BY <1>1, ReadOnlyInv
<1>3. PhaseInv'
  BY <1>1 DEF Inv, PhaseInv, ReadOnly
<1>4. ReadingInv'
  BY <1>1 DEF ReadingInv
<1> QED
  BY <1>2, <1>3, <1>4 DEF Inv

LEMMA EndColumnsInv == Inv /\ EndColumns => Inv'
<1> SUFFICES ASSUME Inv, EndColumns PROVE Inv'
  OBVIOUS
<1>1. /\ stage = "columns in" /\ stage' = "rows in" /\ Len(columns) = Len(fits_columns)
      /\ columns' = columns /\ rows' = rows /\ column_infos' = column_infos
      /\ null_values' = null_values
  BY DEF EndColumns, cells
<1>2. ReadOnly
  BY <1>1 DEF EndColumns, ReadOnly, Inv, PhaseInv, vars, cells, written, collected
<1>3. TableInv' /\ OutInv' /\ FileInv' /\ WrittenInv' /\ ForeignInv'
  BY <1>2, ReadOnlyInv
<1>4. PhaseInv'
  BY <1>1, <1>2 DEF Inv, PhaseInv, ReadOnly
<1>5. rows = <<>> /\ ColumnsInv /\ AttrsInv
  BY <1>1 DEF Inv, ReadingInv
<1>6. fits_columns' = fits_columns /\ fits_rows' = fits_rows /\ fields' = fields
  BY <1>2 DEF ReadOnly
<1>7. ColumnsInv' /\ AttrsInv'
  BY <1>1, <1>5, <1>6 DEF ColumnsInv, InfoInv, AttrsInv, Visited, FieldAttributesOf
<1>8. Begins(<<>>, ReadRows(fits_columns, fits_rows), Len(columns))
  BY <1>1, <1>2, ReadOnlyInv, ReadRowsFacts, BeginsEmpty
<1>9. ReadingInv'
  BY <1>1, <1>5, <1>6, <1>7, <1>8 DEF ReadingInv
<1> QED
  BY <1>3, <1>4, <1>9 DEF Inv

LEMMA EmplaceFacts ==
  ASSUME NEW attrs, NEW text
  PROVE  LET more == Emplace(attrs, "unit", text) IN
         /\ "unit" \in DOMAIN more /\ Emplace(more, "unit", text) = more
         /\ more["unit"] = IF "unit" \in DOMAIN attrs THEN attrs["unit"] ELSE text
<1> DEFINE more == Emplace(attrs, "unit", text)
<1>1. CASE "unit" \in DOMAIN attrs
  BY <1>1 DEF Emplace
<1>2. CASE "unit" \notin DOMAIN attrs
  <2>1. more = [a \in DOMAIN attrs \cup {"unit"} |-> IF a = "unit" THEN text ELSE attrs[a]]
    BY <1>2 DEF Emplace
  <2>2. "unit" \in DOMAIN more /\ more["unit"] = text
    BY <2>1
  <2> QED
    BY <1>2, <2>2 DEF Emplace
<1> QED
  BY <1>1, <1>2

LEMMA ReadCellInv == Inv /\ ReadCell => Inv'
<1> SUFFICES ASSUME Inv, ReadCell PROVE Inv'
  OBVIOUS
<1> DEFINE w == Len(columns)
           at == Cursor(rows, w)
           M == ReadRows(fits_columns, fits_rows)
           x == ReadAs(at[2], fits_rows[at[1]][at[2]])
<1>1. /\ stage = "rows in" /\ stage' = stage /\ at[1] \in DOMAIN fits_rows
      /\ rows' = AddCell(rows, w, x) /\ columns' = WithUnit(at[2])
      /\ column_infos' = column_infos /\ null_values' = null_values
  BY DEF ReadCell
<1>2. ReadOnly
  BY <1>1 DEF ReadCell, ReadOnly, Inv, PhaseInv, vars, written, collected
<1>3. TableInv' /\ OutInv' /\ FileInv' /\ WrittenInv' /\ ForeignInv'
  BY <1>2, ReadOnlyInv
<1>4. PhaseInv'
  BY <1>1, <1>2 DEF Inv, PhaseInv, ReadOnly
<1>5. ColumnsInv /\ AttrsInv /\ w = Len(fits_columns) /\ Begins(rows, M, w)
  BY <1>1 DEF Inv, ReadingInv
<1>6. fits_columns' = fits_columns /\ fits_rows' = fits_rows /\ fields' = fields
  BY <1>2 DEF ReadOnly
<1>7. IsFile(fits_columns, fits_rows) /\ IsSequence(columns) /\ w \in Nat /\ DOMAIN columns = 1..w
  BY <1>2, <1>5, ReadOnlyInv, SequenceFacts DEF ColumnsInv
<1> HIDE DEF M
<1>8. /\ IsMatrix(M, w) /\ Len(M) = Len(fits_rows) /\ DOMAIN M = DOMAIN fits_rows
      /\ \A r \in 1..Len(fits_rows) : \A c \in 1..w :
           M[r][c] = ReadOf(fits_columns[c], fits_rows[r][c])
  BY <1>5, <1>7, ReadRowsFacts DEF M
<1>9. at[1] \in 1..Len(fits_rows) /\ at[2] \in 1..w
  BY <1>1, <1>5, <1>8, CursorInMatrix
<1>10. x = M[at[1]][at[2]]
  <2> DEFINE c == at[2]
             e == fits_rows[at[1]][at[2]]
  <2>1. Rectangular(fits_columns, fits_rows)
    BY <1>7 DEF IsFile
  <2>2. c \in DOMAIN fits_columns /\ e \in CellsOf(fits_rows, c)
    BY <1>5, <1>9, <2>1, CellOfRow
  <2>3. IsFileColumn(fits_columns[c]) /\ IsFileCell(fits_columns[c], e)
    BY <1>7, <2>2 DEF IsFile
  <2>4. InfoInv(c)
    BY <1>5, <1>9 DEF ColumnsInv
  <2>5. ReadAs(c, e) = ReadOf(fits_columns[c], e)
    BY <2>3, <2>4, ReadAsIsRead
  <2> QED
    BY <1>8, <1>9, <2>5
<1>11. Begins(rows', M, w)
  <2> HIDE DEF x
  <2> QED
    BY <1>1, <1>5, <1>8, <1>10, BeginsGrows
<1>12. /\ IsSequence(columns') /\ Len(columns') = w
       /\ \A c \in 1..w : /\ columns'[c].name = columns[c].name /\ columns'[c].type = columns[c].type
                          /\ columns'[c].size = columns[c].size /\ columns'[c].null = columns[c].null
       /\ \A c \in 1..w : "attrs" \in DOMAIN columns'[c] /\ columns'[c].attrs =
            IF c = at[2] /\ fits_columns[c].unit # ""
            THEN Emplace(columns[c].attrs, "unit", fits_columns[c].unit) ELSE columns[c].attrs
  <2> DEFINE k == at[2]
             u == fits_columns[k].unit
             new == Emplace(columns[k].attrs, "unit", u)
  <2>1. k \in 1..w /\ columns' = IF u = "" THEN columns ELSE [columns EXCEPT ![k].attrs = new]
    BY <1>1, <1>9 DEF WithUnit
  <2> HIDE DEF k, new
  <2>2. CASE u = ""
    BY <1>5, <1>7, <2>1, <2>2 DEF k, ColumnsInv
  <2>3. CASE u # ""
    <3>1. columns' = [columns EXCEPT ![k].attrs = new]
      BY <2>1, <2>3
    <3>2. columns' = [c \in 1..w |-> columns'[c]]
      BY <1>7, <3>1
    <3>3. IsSequence(columns') /\ Len(columns') = w
      BY <1>7, <3>2, LiteralSequence
    <3>4. ASSUME NEW c \in 1..w, c # k PROVE columns'[c] = columns[c]
      BY <1>7, <3>1, <3>4
    <3>5. columns'[k] = [columns[k] EXCEPT !.attrs = new]
      BY <1>7, <2>1, <3>1
    <3>6. "attrs" \in DOMAIN columns[k]
      BY <1>5, <2>1 DEF ColumnsInv
    <3>7. /\ columns'[k].attrs = new /\ "attrs" \in DOMAIN columns'[k]
          /\ columns'[k].name = columns[k].name /\ columns'[k].type = columns[k].type
          /\ columns'[k].size = columns[k].size /\ columns'[k].null = columns[k].null
      BY <3>5, <3>6
    <3>8. \A c \in 1..w : "attrs" \in DOMAIN columns[c]
      BY <1>5 DEF ColumnsInv
    <3>9. ASSUME NEW c \in 1..w
          PROVE  /\ columns'[c].name = columns[c].name /\ columns'[c].type = columns[c].type
                 /\ columns'[c].size = columns[c].size /\ columns'[c].null = columns[c].null
                 /\ "attrs" \in DOMAIN columns'[c]
                 /\ columns'[c].attrs =
                      IF c = at[2] /\ fits_columns[c].unit # ""
                      THEN Emplace(columns[c].attrs, "unit", fits_columns[c].unit)
                      ELSE columns[c].attrs
      <4>1. CASE c = k
        <5>1. c = at[2] /\ fits_columns[c].unit = u
          BY <4>1 DEF k
        <5>2. new = Emplace(columns[c].attrs, "unit", fits_columns[c].unit)
          BY <4>1 DEF new
        <5> HIDE DEF u, at
        <5> QED
          BY <2>3, <3>7, <4>1, <5>1, <5>2
      <4>2. CASE c # k
        <5>1. c # at[2]
          BY <4>2 DEF k
        <5> HIDE DEF at
        <5> QED
          BY <3>4, <3>8, <4>2, <5>1
      <4> QED
        BY <4>1, <4>2
    <3> QED
      BY <3>3, <3>9
  <2> QED
    BY <2>2, <2>3
<1>13. ColumnsInv'
  <2>1. ASSUME NEW c \in 1..w
        PROVE  /\ fits_columns'[c].type # "COMPLEX"
               /\ ColumnRead(fits_columns'[c], columns'[c]) /\ InfoInv(c)'
               /\ "attrs" \in DOMAIN columns'[c]
    <3>1. fits_columns[c].type # "COMPLEX" /\ ColumnRead(fits_columns[c], columns[c]) /\ InfoInv(c)
      BY <1>5 DEF ColumnsInv
    <3>2. InfoInv(c)'
      BY <1>1, <1>6, <3>1 DEF InfoInv
    <3> QED
      BY <1>6, <1>12, <3>1, <3>2 DEF ColumnRead
  <2> QED
    BY <1>1, <1>5, <1>6, <1>12, <2>1 DEF ColumnsInv
<1>14. AttrsInv'
  <2>1. ASSUME NEW c \in 1..w
        PROVE  columns'[c].attrs =
                 IF Visited(c)' /\ fits_columns[c].unit # ""
                 THEN Emplace(FieldAttributesOf(fits_columns[c].name), "unit", fits_columns[c].unit)
                 ELSE FieldAttributesOf(fits_columns[c].name)
    <3> DEFINE field == FieldAttributesOf(fits_columns[c].name)
               u == fits_columns[c].unit
    <3>1. Visited(c)' <=> Visited(c) \/ c = at[2]
      <4>1. w > 0
        BY <1>7
      <4>2. /\ rows' # <<>>
            /\ (Len(rows') > 1 \/ c <= Len(rows'[1]))
                 <=> (Len(rows) > 1 \/ (rows # <<>> /\ c <= Len(rows[1])) \/ c = at[2])
        <5> HIDE DEF x
        <5> QED
          BY <1>1, <1>5, <1>8, <4>1, AddCellFacts
      <4> QED
        BY <4>2 DEF Visited
    <3>2. columns[c].attrs = IF Visited(c) /\ u # "" THEN Emplace(field, "unit", u) ELSE field
      BY <1>5 DEF AttrsInv
    <3>3. columns'[c].attrs = IF c = at[2] /\ u # "" THEN Emplace(columns[c].attrs, "unit", u)
                              ELSE columns[c].attrs
      BY <1>12
    <3>4. Emplace(Emplace(field, "unit", u), "unit", u) = Emplace(field, "unit", u)
      BY EmplaceFacts
    <3> HIDE DEF field, u, at
    <3> QED
      BY <3>1, <3>2, <3>3, <3>4 DEF field, u
  <2>2. \A name : FieldAttributesOf(name)' = FieldAttributesOf(name)
    BY <1>6 DEF FieldAttributesOf
  <2> QED
    BY <1>6, <1>12, <2>1, <2>2 DEF AttrsInv
<1>15. ReadingInv'
  BY <1>1, <1>5, <1>6, <1>11, <1>12, <1>13, <1>14 DEF ReadingInv, M
<1> QED
  BY <1>3, <1>4, <1>15 DEF Inv

LEMMA EndRowsInv == Inv /\ EndRows => Inv'
<1> SUFFICES ASSUME Inv, EndRows PROVE Inv'
  OBVIOUS
<1> DEFINE M == ReadRows(fits_columns, fits_rows)
<1>1. /\ stage = "rows in" /\ stage' = "done" /\ phase = "distributing" /\ phase' = "read"
      /\ Cursor(rows, Len(columns))[1] \notin DOMAIN fits_rows
      /\ trips' = trips /\ fields' = fields /\ before' = before
      /\ columns' = columns /\ rows' = rows /\ column_infos' = column_infos
      /\ null_values' = null_values /\ fits_columns' = fits_columns /\ fits_rows' = fits_rows
  BY DEF EndRows, Assemble, cells, collected
<1>2. ~Writing /\ ~Writing'
  BY <1>1 DEF Writing
<1>3. PhaseInv'
  BY <1>1 DEF Inv, PhaseInv
<1>4. TableInv' /\ OutInv'
  BY <1>2 DEF TableInv, OutInv
<1>5. FileInv' /\ WrittenInv' /\ ForeignInv'
  BY <1>1, <1>2 DEF Inv, FileInv, WrittenInv, ForeignInv, Reread
<1>6. ColumnsInv /\ AttrsInv /\ Len(columns) = Len(fits_columns) /\ Begins(rows, M, Len(columns))
  BY <1>1 DEF Inv, ReadingInv
<1>7. IsFile(fits_columns, fits_rows)
  BY <1>2 DEF Inv, FileInv
<1>8. rows = M
  <2>1. IsMatrix(M, Len(columns)) /\ DOMAIN M = DOMAIN fits_rows
    BY <1>6, <1>7, ReadRowsFacts
  <2> HIDE DEF M
  <2> QED
    BY <1>1, <1>6, <2>1, BeginsEnds
<1>9. ColumnsInv' /\ AttrsInv'
  BY <1>1, <1>6 DEF ColumnsInv, InfoInv, AttrsInv, Visited, FieldAttributesOf
<1>10. ReadingInv'
  BY <1>1, <1>6, <1>8, <1>9 DEF ReadingInv
<1> QED
  BY <1>3, <1>4, <1>5, <1>10 DEF Inv

\* A table that was read from a file that was written.
LEMMA TripFacts ==
  ASSUME Inv, stage = "done", trips > 0
  PROVE  /\ IsTable(before.columns, before.rows)
         /\ DOMAIN before.columns = 1..Len(before.columns)
         /\ DOMAIN before.rows = 1..Len(before.rows)
         /\ DOMAIN columns = 1..Len(before.columns)
         /\ IsMatrix(rows, Len(before.columns)) /\ Len(rows) = Len(before.rows)
         /\ \A c \in 1..Len(before.columns) :
              /\ IsColumn(before.columns[c])
              /\ WrittenColumn(before.columns[c], fits_columns[c])
              /\ ColumnRead(fits_columns[c], columns[c])
         /\ \A r \in 1..Len(before.rows) : \A c \in 1..Len(before.columns) :
              LET col == before.columns[c]  fc == fits_columns[c]  x == before.rows[r][c]
              IN /\ x \in CellsOf(before.rows, c) /\ IsCell(col, x)
                 /\ rows[r][c] = ReadOf(fc, StoredOf(col, fc, x))
         /\ AttrsInv
<1> DEFINE cols == before.columns
           rs == before.rows
<1>1. ~Writing
  BY DEF Inv, PhaseInv, Writing
<1>2. /\ IsTable(cols, rs) /\ WrittenColumns(cols, fits_columns)
      /\ fits_rows = StoredRows(cols, fits_columns, rs)
  BY <1>1 DEF Inv, WrittenInv
<1>3. /\ ColumnsInv /\ AttrsInv /\ Len(columns) = Len(fits_columns)
      /\ rows = ReadRows(fits_columns, fits_rows)
  BY DEF Inv, ReadingInv
<1>4. /\ Rectangular(cols, rs) /\ DOMAIN cols = 1..Len(cols) /\ DOMAIN rs = 1..Len(rs)
      /\ Len(fits_columns) = Len(cols) /\ Len(columns) = Len(cols)
      /\ DOMAIN columns = 1..Len(cols)
  BY <1>2, <1>3, SequenceFacts DEF IsTable, Rectangular, WrittenColumns, ColumnsInv
<1>5. /\ IsFile(fits_columns, fits_rows) /\ Len(fits_rows) = Len(rs)
      /\ \A r \in 1..Len(rs) : \A c \in 1..Len(cols) :
           fits_rows[r][c] = StoredOf(cols[c], fits_columns[c], rs[r][c])
  BY <1>2, StoredRowsFacts
<1>6. /\ IsMatrix(rows, Len(cols)) /\ Len(rows) = Len(rs)
      /\ \A r \in 1..Len(rs) : \A c \in 1..Len(cols) :
           rows[r][c] = ReadOf(fits_columns[c], fits_rows[r][c])
  BY <1>3, <1>4, <1>5, ReadRowsFacts
<1>7. \A c \in 1..Len(cols) :
        /\ IsColumn(cols[c]) /\ WrittenColumn(cols[c], fits_columns[c])
        /\ ColumnRead(fits_columns[c], columns[c])
  BY <1>2, <1>3, <1>4 DEF IsTable, WrittenColumns, ColumnsInv
<1>8. ASSUME NEW r \in 1..Len(rs), NEW c \in 1..Len(cols)
      PROVE  /\ rs[r][c] \in CellsOf(rs, c) /\ IsCell(cols[c], rs[r][c])
             /\ rows[r][c] = ReadOf(fits_columns[c], StoredOf(cols[c], fits_columns[c], rs[r][c]))
  <2>1. rs[r][c] \in CellsOf(rs, c)
    BY <1>4, CellOfRow
  <2> QED
    BY <1>2, <1>4, <1>5, <1>6, <2>1 DEF IsTable
<1> QED
  BY <1>2, <1>3, <1>4, <1>6, <1>7, <1>8

LEMMA AgainInv == Inv /\ Again => Inv'
<1> SUFFICES ASSUME Inv, Again PROVE Inv'
  OBVIOUS
<1>1. /\ stage = "done" /\ stage' = "create" /\ phase = "read" /\ phase' = "writing"
      /\ trips' = trips + 1 /\ columns' = columns /\ rows' = rows
  BY DEF Again, WriteAgain, BeginWriting, cells
<1>2. trips \in Nat /\ trips + 1 \in Nat /\ trips + 1 > 0 /\ trips + 1 # 0
  <2>1. trips \in Nat
    BY DEF Inv, PhaseInv
  <2> QED
    BY <2>1
<1>3. ~Writing /\ Writing'
  BY <1>1 DEF Writing
<1>4. PhaseInv'
  BY <1>1, <1>2 DEF PhaseInv
<1>5. /\ ColumnsInv /\ Len(columns) = Len(fits_columns)
      /\ rows = ReadRows(fits_columns, fits_rows)
  BY <1>1 DEF Inv, ReadingInv
<1>6. IsFile(fits_columns, fits_rows)
  BY <1>3 DEF Inv, FileInv
<1>7. /\ IsTable(columns, rows) /\ Settled(columns, rows)
      /\ (\A c \in 1..Len(columns) : fits_columns[c].type \in Integers6 => GotNull(fits_columns[c]))
           => NothingTaken(columns, rows)
  BY <1>5, <1>6, ReadTableFacts DEF ColumnsInv
<1>8. trips + 1 > 1 => NothingTaken(columns, rows)
  <2> SUFFICES ASSUME trips + 1 > 1 PROVE NothingTaken(columns, rows)
    OBVIOUS
  <2>1. trips > 0
    BY <1>2
  <2>2. /\ IsTable(before.columns, before.rows)
        /\ WrittenColumns(before.columns, fits_columns)
    BY <1>3, <2>1 DEF Inv, WrittenInv
  <2>3. ASSUME NEW c \in 1..Len(columns), fits_columns[c].type \in Integers6
        PROVE  GotNull(fits_columns[c])
    <3>1. /\ c \in DOMAIN before.columns
          /\ WrittenColumn(before.columns[c], fits_columns[c])
      BY <1>5, <2>2, SequenceFacts DEF WrittenColumns, IsTable, Rectangular
    <3> QED
      BY <2>2, <2>3, <3>1, WrittenColumnFacts DEF IsTable
  <2> QED
    BY <1>7, <2>3
<1>8a. trips + 1 > 2 => NothingLost(columns, rows)
  <2> SUFFICES ASSUME trips + 1 > 2 PROVE NothingLost(columns, rows)
    OBVIOUS
  <2>1. trips > 0 /\ trips > 1
    BY <1>2
  <2>2. NothingTaken(before.columns, before.rows)
    BY <1>3, <2>1 DEF Inv, WrittenInv, Reread
  <2> SUFFICES ASSUME NEW c \in DOMAIN columns, NEW y \in CellsOf(rows, c)
               PROVE  ~NullLost(columns[c], y)
    BY DEF NothingLost
  <2>3. PICK r \in DOMAIN rows : y = rows[r][c]
    BY DEF CellsOf
  <2> DEFINE col == before.columns[c]
             fc == fits_columns[c]
             x == before.rows[r][c]
  <2>4. /\ c \in DOMAIN before.columns /\ IsColumn(col) /\ WrittenColumn(col, fc)
        /\ columns[c].type = fc.type
        /\ x \in CellsOf(before.rows, c) /\ IsCell(col, x) /\ y = ReadOf(fc, StoredOf(col, fc, x))
    <3>1. DOMAIN rows = 1..Len(rows)
      BY <1>1, <2>1, TripFacts DEF IsMatrix, IsSequence
    <3> QED
      BY <1>1, <2>1, <2>3, <3>1, TripFacts DEF ColumnRead
  <2>5. ~TakenForNull(col, x)
    BY <2>2, <2>4 DEF NothingTaken
  <2> QED
    BY <2>4, <2>5, NullsAreLost DEF NullLost
<1>9. TableInv'
  BY <1>1, <1>7, <1>8, <1>8a DEF TableInv, Reread
<1>10. OutInv' /\ FileInv' /\ WrittenInv'
  BY <1>1, <1>3 DEF OutInv, FileInv, WrittenInv
<1>11. ForeignInv' /\ ReadingInv'
  <2>1. trips' # 0
    BY <1>1, <1>2
  <2> QED
    BY <1>1, <1>3, <2>1 DEF ForeignInv, ReadingInv
<1> QED
  BY <1>4, <1>9, <1>10, <1>11 DEF Inv

LEMMA InvUnchanged == Inv /\ UNCHANGED allvars => Inv'
<1> SUFFICES ASSUME Inv, UNCHANGED allvars PROVE Inv'
  OBVIOUS
<1>1. /\ stage' = stage /\ phase' = phase /\ trips' = trips /\ fields' = fields
      /\ columns' = columns /\ rows' = rows /\ before' = before
      /\ fits_columns' = fits_columns /\ fits_rows' = fits_rows
      /\ null_values' = null_values /\ column_infos' = column_infos
  BY DEF allvars, vars, cells, written, collected
<1>2. Writing' <=> Writing
  BY <1>1 DEF Writing
<1>3. PhaseInv'
  BY <1>1 DEF Inv, PhaseInv
<1>4. TableInv' /\ OutInv' /\ FileInv' /\ WrittenInv' /\ ForeignInv'
  BY <1>1, <1>2 DEF Inv, TableInv, OutInv, FileInv, WrittenInv, ForeignInv, Reread
<1>5. ColumnsInv' <=> ColumnsInv
  BY <1>1 DEF ColumnsInv, InfoInv
<1>6. AttrsInv' <=> AttrsInv
  BY <1>1 DEF AttrsInv, Visited, FieldAttributesOf
<1>7. ReadingInv'
  BY <1>1, <1>2, <1>5, <1>6 DEF Inv, ReadingInv
<1> QED
  BY <1>3, <1>4, <1>7 DEF Inv

LEMMA InvNext == Inv /\ [FitsNext]_allvars => Inv'
BY CreateTableInv, KeywordsStepInv, BeginRowsInv, WriteCellInv, ReopenInv, BeginColumnsInv,
   ReadColumnInv, UnsupportedColumnInv, EndColumnsInv, ReadCellInv, EndRowsInv, AgainInv,
   InvUnchanged DEF FitsNext

\* What is in the table and in the file, at every stage of a trip.
THEOREM RowsComeInOrder == FitsSpec => []Inv
BY InvInit, InvNext, PTL DEF FitsSpec

-----------------------------------------------------------------------------
(* The properties. *)

LEMMA CellsOfTrip == Inv => CellsRecoveredExactlyIfTheySurvive
<1> SUFFICES ASSUME Inv, stage = "done", trips > 0,
                    NEW r \in DOMAIN before.rows, NEW c \in DOMAIN before.columns
             PROVE  Same(c, before.rows[r][c], rows[r][c]) <=> CellSurvives(c, before.rows[r][c])
  BY DEF CellsRecoveredExactlyIfTheySurvive
<1> DEFINE col == before.columns[c]
           fc == fits_columns[c]
           x == before.rows[r][c]
           y == rows[r][c]
<1>1. /\ IsColumn(col) /\ WrittenColumn(col, fc) /\ IsCell(col, x)
      /\ y = ReadOf(fc, StoredOf(col, fc, x)) /\ columns[c].type = fc.type
  BY TripFacts DEF ColumnRead
<1>2. SameOf(col, fc, x, y) <=> SurvivesOf(col, fc, x)
  BY <1>1, CellRoundTrip
<1>3. Same(c, x, y) <=> SameOf(col, fc, x, y)
  BY <1>1 DEF Same, SameOf
<1>4. CellSurvives(c, x) <=> SurvivesOf(col, fc, x)
  BY <1>1 DEF CellSurvives, SurvivesOf
<1> QED
  BY <1>2, <1>3, <1>4

\* Of a table of any size, a cell comes back from FITS as it was exactly if it is not
\* of the kinds that the file cannot tell from another: a null logical, a null in a
\* column of unsigned integers, a number that means null, blanks at the end of a
\* string.
THEOREM RoundTripOfCells == FitsSpec => []CellsRecoveredExactlyIfTheySurvive
BY RowsComeInOrder, CellsOfTrip, PTL

LEMMA TripOfReread == Inv => RereadIsIdentity
<1> SUFFICES ASSUME Inv, stage = "done", before.reread
             PROVE  /\ \A c \in DOMAIN columns : /\ columns[c].type = before.columns[c].type
                                                 /\ columns[c].size = before.columns[c].size
                                                 /\ columns[c].null = before.columns[c].null
                    /\ rows = before.rows <=>
                         \A c \in DOMAIN columns : \A x \in CellsOf(before.rows, c) :
                           ~TakenForNull(before.columns[c], x) /\ ~NullLost(before.columns[c], x)
                    /\ trips > 1 =>
                         \A c \in DOMAIN columns : \A x \in CellsOf(before.rows, c) :
                           ~TakenForNull(before.columns[c], x)
                    /\ trips > 2 => rows = before.rows
  BY DEF RereadIsIdentity
<1> DEFINE cols == before.columns
           rs == before.rows
           w == Len(cols)
           Kept(c, x) == ~TakenForNull(cols[c], x) /\ ~NullLost(cols[c], x)
<1>1. trips > 0
  <2>1. trips \in Nat /\ trips # 0
    BY DEF Inv, PhaseInv, ForeignInv
  <2> QED
    BY <2>1
<1>2. Reread(cols, rs)
  <2>1. ~Writing
    BY DEF Inv, PhaseInv, Writing
  <2> QED
    BY <1>1, <2>1 DEF Inv, WrittenInv
<1>3. /\ Rectangular(cols, rs) /\ DOMAIN cols = 1..w /\ DOMAIN rs = 1..Len(rs)
      /\ DOMAIN columns = 1..w /\ IsMatrix(rows, w) /\ Len(rows) = Len(rs)
  BY <1>1, TripFacts DEF IsTable
<1>4. ASSUME NEW c \in 1..w
      PROVE  /\ IsColumn(cols[c]) /\ SettledColumn(cols[c])
             /\ WrittenColumn(cols[c], fits_columns[c]) /\ ColumnRead(fits_columns[c], columns[c])
             /\ \A x \in CellsOf(rs, c) : SettledCell(cols[c], x)
  BY <1>1, <1>2, <1>3, TripFacts DEF Reread, Settled
<1>5. ASSUME NEW c \in 1..w
      PROVE  /\ columns[c].type = cols[c].type /\ columns[c].size = cols[c].size
             /\ columns[c].null = cols[c].null
  <2>1. /\ IsColumn(cols[c]) /\ SettledColumn(cols[c])
        /\ WrittenColumn(cols[c], fits_columns[c]) /\ ColumnRead(fits_columns[c], columns[c])
    BY <1>4
  <2>2. /\ fits_columns[c].type = cols[c].type /\ fits_columns[c].size = cols[c].size
        /\ get_column_null_str(fits_columns[c]) = cols[c].null
    BY <2>1, SettledRoundTrip
  <2> QED
    BY <2>1, <2>2 DEF ColumnRead
<1>6. ASSUME NEW r \in 1..Len(rs), NEW c \in 1..w
      PROVE  rows[r][c] = rs[r][c] <=> Kept(c, rs[r][c])
  <2>1. /\ rs[r][c] \in CellsOf(rs, c) /\ IsCell(cols[c], rs[r][c])
        /\ rows[r][c] = ReadOf(fits_columns[c], StoredOf(cols[c], fits_columns[c], rs[r][c]))
    BY <1>1, TripFacts
  <2>2. /\ IsColumn(cols[c]) /\ SettledColumn(cols[c])
        /\ WrittenColumn(cols[c], fits_columns[c]) /\ SettledCell(cols[c], rs[r][c])
    BY <1>4, <2>1
  <2> QED
    BY <2>1, <2>2, SettledRoundTrip
<1>7. rows = rs <=> \A r \in 1..Len(rs) : \A c \in 1..w : rows[r][c] = rs[r][c]
  <2> SUFFICES ASSUME \A r \in 1..Len(rs) : \A c \in 1..w : rows[r][c] = rs[r][c]
               PROVE  rows = rs
    OBVIOUS
  <2>1. ASSUME NEW r \in 1..Len(rs) PROVE rows[r] = rs[r]
    <3>1. /\ IsSequence(rows[r]) /\ Len(rows[r]) = w
          /\ IsSequence(rs[r]) /\ Len(rs[r]) = w
      BY <1>3 DEF IsMatrix, Rectangular
    <3> QED
      BY <3>1, EqualSequences
  <2>2. IsSequence(rows) /\ IsSequence(rs)
    BY <1>3 DEF IsMatrix, Rectangular
  <2> QED
    BY <1>3, <2>1, <2>2, EqualSequences
<1>8. rows = rs <=> \A c \in 1..w : \A x \in CellsOf(rs, c) : Kept(c, x)
  <2>1. ASSUME NEW c \in 1..w, NEW x
        PROVE  x \in CellsOf(rs, c) <=> \E r \in 1..Len(rs) : x = rs[r][c]
    BY <1>3 DEF CellsOf
  <2>2. ASSUME rows = rs, NEW c \in 1..w, NEW x \in CellsOf(rs, c)
        PROVE  Kept(c, x)
    <3>1. PICK r \in 1..Len(rs) : x = rs[r][c]
      BY <2>1, <2>2
    <3>2. rows[r][c] = rs[r][c]
      BY <1>7, <2>2, Zenon
    <3> QED
      BY <1>6, <3>1, <3>2, Zenon
  <2>3. ASSUME \A c \in 1..w : \A x \in CellsOf(rs, c) : Kept(c, x)
        PROVE  rows = rs
    <3>1. ASSUME NEW r \in 1..Len(rs), NEW c \in 1..w PROVE rows[r][c] = rs[r][c]
      <4>1. rs[r][c] \in CellsOf(rs, c)
        BY <2>1, Zenon
      <4> QED
        BY <1>6, <2>3, <4>1, Zenon
    <3> QED
      BY <1>7, <3>1, Zenon
  <2> QED
    BY <2>2, <2>3, Zenon
<1>9. trips > 1 => \A c \in 1..w : \A x \in CellsOf(rs, c) : ~TakenForNull(cols[c], x)
  BY <1>2, <1>3 DEF Reread, NothingTaken
<1>10. trips > 2 => rows = rs
  <2>1. trips > 2 => trips > 1
    BY DEF Inv, PhaseInv
  <2> QED
    BY <1>2, <1>3, <1>8, <1>9, <2>1 DEF Reread, NothingLost
<1> QED
  BY <1>3, <1>5, <1>8, <1>9, <1>10

\* What was read from FITS changes only where a number means null in the next file
\* or a null is lost in a column of unsigned integers, and not from the third trip on.
THEOREM RereadingChangesNothing == FitsSpec => []RereadIsIdentity
BY RowsComeInOrder, TripOfReread, PTL

LEMMA UnitsOfTrip == Inv => UnitsNeedRowsOrFields
<1> SUFFICES ASSUME Inv, stage = "done", trips > 0, NEW c \in DOMAIN columns
             PROVE  LET unit == Text(before.columns[c].attrs, "unit")
                        field == FieldAttributesOf(columns[c].name)
                    IN unit # "" => (Text(columns[c].attrs, "unit") = unit
                                       <=> IF "unit" \in DOMAIN field THEN field["unit"] = unit
                                           ELSE rows # <<>>)
  BY DEF UnitsNeedRowsOrFields
<1> DEFINE unit == Text(before.columns[c].attrs, "unit")
           field == FieldAttributesOf(columns[c].name)
           w == Len(before.columns)
<1>1. /\ c \in 1..w /\ IsMatrix(rows, w) /\ DOMAIN columns = 1..w
      /\ WrittenColumn(before.columns[c], fits_columns[c])
      /\ ColumnRead(fits_columns[c], columns[c]) /\ AttrsInv
  BY TripFacts
<1>2. fits_columns[c].unit = unit /\ fits_columns[c].name = columns[c].name
  BY <1>1 DEF WrittenColumn, ColumnRead
<1>3. Len(columns) = w /\ w \in Nat
  <2>1. IsSequence(columns)
    BY DEF Inv, ReadingInv, ColumnsInv
  <2>2. DOMAIN columns = 1..Len(columns) /\ Len(columns) \in Nat /\ w \in Nat
    BY <1>1, <2>1, SequenceFacts DEF IsMatrix
  <2> QED
    BY <1>1, <2>2
<1>4. Visited(c) <=> rows # <<>>
  <2>1. ASSUME rows # <<>> PROVE Visited(c)
    <3>1. IsSequence(rows) /\ Len(rows) \in Nat /\ Len(rows) # 0
      BY <1>1, <2>1, SequenceFacts, EmptySequence DEF IsMatrix
    <3>2. 1 \in 1..Len(rows)
      BY <3>1
    <3>3. Len(rows[1]) = w
      BY <1>1, <3>2 DEF IsMatrix
    <3> QED
      BY <1>1, <1>3, <2>1, <3>3 DEF Visited
  <2>2. ASSUME rows = <<>> PROVE ~Visited(c)
    <3>1. Len(rows) = 0 /\ ~(0 > 1)
      BY <2>2, EmptySequence
    <3> QED
      BY <2>2, <3>1 DEF Visited
  <2> QED
    BY <2>1, <2>2
<1>5. columns[c].attrs = IF rows # <<>> /\ unit # "" THEN Emplace(field, "unit", unit) ELSE field
  BY <1>1, <1>2, <1>3, <1>4 DEF AttrsInv
<1> HIDE DEF unit, field
<1>6. ASSUME unit # ""
      PROVE  Text(columns[c].attrs, "unit") = unit
               <=> IF "unit" \in DOMAIN field THEN field["unit"] = unit ELSE rows # <<>>
  <2>1. CASE rows # <<>>
    <3> DEFINE more == Emplace(field, "unit", unit)
    <3>1. columns[c].attrs = more
      BY <1>5, <1>6, <2>1
    <3>2. /\ "unit" \in DOMAIN more
          /\ more["unit"] = IF "unit" \in DOMAIN field THEN field["unit"] ELSE unit
      BY EmplaceFacts
    <3> HIDE DEF more
    <3>3. Text(columns[c].attrs, "unit") = more["unit"]
      BY <3>1, <3>2 DEF Text
    <3> QED
      BY <2>1, <3>2, <3>3
  <2>2. CASE rows = <<>>
    BY <1>5, <1>6, <2>2 DEF Text
  <2> QED
    BY <2>1, <2>2
<1> QED
  BY <1>6 DEF unit, field

\* A unit that no FIELD has is lost with the last row.
THEOREM UnitsComeBackWithRows == FitsSpec => []UnitsNeedRowsOrFields
BY RowsComeInOrder, UnitsOfTrip, PTL

\* Substring s in its place p of what is stored, w characters wide.
InPlace(stored, s, p, w) ==
  \A k \in 1..w : IF k \in DOMAIN s THEN p + k \in DOMAIN stored /\ stored[p + k] = s[k]
                  ELSE p + k \in DOMAIN stored => stored[p + k] = Blank

LEMMA JoinedInPlace ==
  ASSUME NEW w \in Nat \ {0}, NEW ss \in Seq(FileString),
         \A i \in DOMAIN ss : ss[i] = NUL \/ Len(ss[i]) <= w,
         NEW i \in DOMAIN ss
  PROVE  InPlace(Joined(ss, w), Substring(ss[i]), (i - 1) * w, w)
<1> DEFINE n == Used(ss)
           joined == Joined(ss, w)
           s == Substring(ss[i])
           last == Substring(ss[n])
           p == (i - 1) * w
           q == (n - 1) * w
<1>1. n \in 0..Len(ss) /\ Len(ss) \in Nat /\ i \in 1..Len(ss) /\ joined \in Seq(Characters)
  BY UsedFacts, JoinedFacts
<1>2. s \in Seq(Characters) /\ (s # <<>> => i <= n)
  <2>1. ss[i] \in FileString
    BY <1>1
  <2>2. s \in Seq(Characters)
    BY <2>1, SubstringFacts
  <2>3. i > n => s = <<>>
    BY <1>1, UsedFacts
  <2> QED
    BY <1>1, <2>2, <2>3
<1>3. p \in Nat
  BY <1>1, Multiples
<1>4. CASE n = 0
  <2>1. joined = <<>> /\ s = <<>>
    BY <1>1, <1>2, <1>4, JoinedFacts
  <2>2. DOMAIN s = {} /\ DOMAIN joined = {}
    BY <2>1
  <2> QED
    BY <2>2 DEF InPlace
<1>5. CASE n # 0
  <2>1. n \in DOMAIN ss /\ ss[n] \in FileString
    BY <1>1, <1>5
  <2>2. last \in Seq(Characters) /\ Len(last) \in 0..w /\ last # <<>> /\ last = ss[n]
    <3>1. last \in Seq(Characters) /\ last # <<>> /\ ss[n] = last
      BY <1>5, <2>1, SubstringFacts, UsedFacts
    <3>2. ss[n] # NUL
      BY <3>1, NulIsNoText
    <3>3. Len(ss[n]) <= w
      BY <2>1, <3>2
    <3> QED
      BY <3>1, <3>3
  <2>3. /\ Len(joined) = q + Len(last) /\ q \in Nat
        /\ \A k \in 1..Len(last) : joined[q + k] = last[k]
    <3>1. n - 1 \in Nat
      BY <1>1, <1>5
    <3>2. q \in Nat
      BY <3>1, Multiples
    <3> QED
      BY <1>5, <3>2, JoinedFacts, Zenon
  <2>4. DOMAIN joined = 1..(q + Len(last))
    BY <1>1, <2>3
  <2>5. CASE i < n
    <3>1. i \in 1..(n - 1) /\ i <= n - 1 /\ i \in Nat /\ i - 1 \in Nat /\ n - 1 \in Nat
      BY <1>1, <2>5
    <3>2. p + w <= q
      <4>1. ((i - 1) + 1) * w = p + w /\ ((i - 1) + 1) * w <= q
        BY <3>1, Multiples
      <4> QED
        BY <4>1
    <3>3. ASSUME NEW k \in 1..w
          PROVE  IF k \in DOMAIN s THEN p + k \in DOMAIN joined /\ joined[p + k] = s[k]
                 ELSE p + k \in DOMAIN joined => joined[p + k] = Blank
      <4>1. joined[p + k] = Padded(s, w)[k]
        BY <1>5, <3>1, JoinedFacts, Zenon
      <4>2. Padded(s, w)[k] = IF k \in DOMAIN s THEN s[k] ELSE Blank
        BY <1>2, PaddedFacts
      <4>3. p + k \in DOMAIN joined
        <5> HIDE DEF p, q, last
        <5>1. p + k >= 1 /\ p + k <= q + Len(last) /\ p + k \in Nat
          BY <1>3, <2>2, <2>3, <3>2
        <5> QED
          BY <2>2, <2>3, <2>4, <5>1
      <4> QED
        BY <4>1, <4>2, <4>3
    <3> QED
      BY <3>3 DEF InPlace
  <2>6. CASE i = n
    <3>1. s = last /\ p = q
      BY <2>6
    <3>2. ASSUME NEW k \in 1..w
          PROVE  IF k \in DOMAIN last THEN q + k \in DOMAIN joined /\ joined[q + k] = last[k]
                 ELSE q + k \in DOMAIN joined => joined[q + k] = Blank
      <4> HIDE DEF q, last, joined
      <4>1. DOMAIN last = 1..Len(last) /\ Len(last) \in Nat
        BY <2>2
      <4>2. CASE k \in 1..Len(last)
        <5>1. q + k \in 1..(q + Len(last))
          BY <2>3, <4>1, <4>2
        <5> QED
          BY <2>3, <2>4, <4>1, <4>2, <5>1
      <4>3. CASE k \notin 1..Len(last)
        <5>1. q + k \notin 1..(q + Len(last))
          BY <2>3, <4>1, <4>3
        <5> QED
          BY <2>4, <4>1, <4>3, <5>1
      <4> QED
        BY <4>2, <4>3
    <3> QED
      BY <3>1, <3>2, Zenon DEF InPlace
  <2>7. CASE i > n
    <3>1. DOMAIN s = {}
      <4>1. s = <<>>
        BY <1>1, <1>2, <2>7
      <4> QED
        BY <4>1
    <3>2. n <= i - 1 /\ n \in Nat /\ i - 1 \in Nat /\ n - 1 \in Nat
      BY <1>1, <1>5, <2>7
    <3>3. q + w <= p
      <4>1. ((n - 1) + 1) * w = q + w
        BY <3>2, Multiples
      <4>2. n = (n - 1) + 1
        BY <3>2
      <4>3. n * w <= p
        BY <3>2, Multiples
      <4> QED
        BY <4>1, <4>2, <4>3
    <3>4. ASSUME NEW k \in 1..w PROVE p + k \notin DOMAIN joined
      <4> HIDE DEF p, q, last
      <4>1. p + k > q + Len(last)
        BY <1>3, <2>2, <2>3, <3>3
      <4> QED
        BY <1>3, <2>2, <2>3, <2>4, <4>1
    <3> QED
      BY <3>1, <3>4 DEF InPlace
  <2> QED
    BY <1>1, <2>5, <2>6, <2>7
<1> QED
  BY <1>4, <1>5

LEMMA StringInPlace ==
  ASSUME NEW fc, fc.width \in Nat \ {0}, NEW ss \in Seq(FileString),
         \A i \in DOMAIN ss : ss[i] = NUL \/ Len(ss[i]) <= fc.width,
         NEW i \in DOMAIN ss
  PROVE  InPlace(ReadString(fc, ss).elements, Substring(ss[i]), (i - 1) * fc.width, fc.width)
<1>1. CASE ss # <<>> /\ \A j \in DOMAIN ss : ss[j] = NUL
  <2>1. Substring(ss[i]) = <<>>
    BY <1>1 DEF Substring
  <2>2. ReadString(fc, ss).elements = <<>>
    BY <1>1 DEF ReadString, NullCell, Cell
  <2>3. DOMAIN <<>> = {}
    OBVIOUS
  <2> QED
    BY <2>1, <2>2, <2>3 DEF InPlace
<1>2. CASE ~(ss # <<>> /\ \A j \in DOMAIN ss : ss[j] = NUL)
  <2>1. ReadString(fc, ss).elements = Joined(ss, fc.width)
    BY <1>2 DEF ReadString, Cell
  <2> QED
    BY <2>1, JoinedInPlace
<1> QED
  BY <1>1, <1>2

LEMMA SubstringsOfFile == Inv => SubstringsInPlace
<1> SUFFICES ASSUME Inv, stage = "done", trips = 0,
                    NEW r \in DOMAIN rows, NEW c \in DOMAIN columns, columns[c].type = "CHAR",
                    NEW i \in DOMAIN fits_rows[r][c]
             PROVE  InPlace(rows[r][c].elements, Substring(fits_rows[r][c][i]),
                            (i - 1) * fits_columns[c].width, fits_columns[c].width)
  BY DEF SubstringsInPlace, InPlace
<1> DEFINE fc == fits_columns[c]
           ss == fits_rows[r][c]
<1>1. ~Writing
  BY DEF Inv, PhaseInv, Writing
<1>2. IsFile(fits_columns, fits_rows) /\ SubstringsFit(fits_columns, fits_rows)
  BY <1>1 DEF Inv, FileInv, ForeignInv
<1>3. /\ ColumnsInv /\ Len(columns) = Len(fits_columns)
      /\ rows = ReadRows(fits_columns, fits_rows)
  BY DEF Inv, ReadingInv
<1>4. /\ DOMAIN columns = 1..Len(columns) /\ Rectangular(fits_columns, fits_rows)
      /\ DOMAIN fits_rows = 1..Len(fits_rows) /\ DOMAIN fits_columns = 1..Len(columns)
  BY <1>2, <1>3, SequenceFacts DEF ColumnsInv, IsFile, Rectangular
<1>5. /\ r \in 1..Len(fits_rows) /\ c \in 1..Len(columns) /\ rows[r][c] = ReadOf(fc, ss)
  BY <1>2, <1>3, <1>4, ReadRowsFacts
<1>6. fc.type = "CHAR"
  BY <1>3, <1>5 DEF ColumnsInv, ColumnRead
<1>7. rows[r][c] = ReadString(fc, ss)
  BY <1>5, <1>6 DEF ReadOf
<1>8. ss \in CellsOf(fits_rows, c)
  BY <1>3, <1>4, <1>5, CellOfRow
<1>9. IsFileColumn(fc) /\ IsFileCell(fc, ss)
  BY <1>2, <1>4, <1>5, <1>8 DEF IsFile
<1>10. /\ ss \in Seq(FileString) /\ fc.width \in Nat \ {0}
       /\ \A j \in DOMAIN ss : ss[j] = NUL \/ Len(ss[j]) <= fc.width
  BY <1>2, <1>4, <1>5, <1>6, <1>8, <1>9 DEF IsFileCell, IsFileColumn, FileString, SubstringsFit
<1> QED
  BY <1>7, <1>10, StringInPlace

\* However many substrings a string of a file has, and whichever of them are null,
\* each of them is read into its place.
THEOREM SubstringsStayInPlace == FitsSpec => []SubstringsInPlace
BY RowsComeInOrder, SubstringsOfFile, PTL

-----------------------------------------------------------------------------
(* What is to be written of the metadata, and how far the writer has come. *)

LEMMA MappedSequence ==
  ASSUME NEW s, IsSequence(s), NEW t, t = [i \in DOMAIN s |-> t[i]]
  PROVE  IsSequence(t)
BY SequenceFacts, LiteralSequence

LEMMA InOrderIsSequence ==
  ASSUME NEW cols, IsSequence(cols), NEW S, S \subseteq DOMAIN cols
  PROVE  IsSequence(InOrder(S, <))
<1> DEFINE some == InOrder(S, <)
<1>1. Cardinality(S) \in Nat
  <2>1. DOMAIN cols = 1..Len(cols) /\ Len(cols) \in Nat
    BY SequenceFacts
  <2>2. IsFiniteSet(1..Len(cols))
    BY <2>1, FS_Interval
  <2> QED
    BY <2>1, <2>2, FS_Subset, FS_CardinalityType
<1>2. some = [n \in 1..Cardinality(S) |-> some[n]]
  BY DEF InOrder
<1> HIDE DEF some
<1>3. IsSequence(some)
  BY <1>1, <1>2, LiteralSequence
<1> QED
  BY <1>3 DEF some

LEMMA InfosAtIsSequence ==
  ASSUME NEW level, NEW props, IsSequence(props)
  PROVE  IsSequence(InfosAt(level, props))
<1> DEFINE t == InfosAt(level, props)
<1>1. t = [i \in DOMAIN props |-> t[i]]
  BY DEF InfosAt, Each
<1> HIDE DEF t
<1>2. IsSequence(t)
  BY <1>1, MappedSequence
<1> QED
  BY <1>2 DEF t

LEMMA AttributesAtIsSequence ==
  ASSUME NEW level, NEW attrs
  PROVE  IsSequence(AttributesAt(level, attrs))
<1>1. \A x : IsSequence(<<x>>)
  BY DEF IsSequence
<1> QED
  BY <1>1, EmptySequence DEF AttributesAt

LEMMA ParamsAreSequence ==
  ASSUME NEW cols, IsSequence(cols)
  PROVE  IsSequence(OfColumns("PARAM", cols, OfParam))
<1> DEFINE S == {i \in DOMAIN cols : OfParam(cols[i]) # NoAttributes}
           some == InOrder(S, <)
           t == OfColumns("PARAM", cols, OfParam)
<1>1. IsSequence(some)
  BY InOrderIsSequence
<1>2. t = [n \in DOMAIN some |-> t[n]]
  BY DEF OfColumns
<1> HIDE DEF some, t
<1>3. IsSequence(t)
  BY <1>1, <1>2, MappedSequence
<1> QED
  BY <1>3 DEF t

LEMMA FieldsAreSequence ==
  ASSUME NEW cols, IsSequence(cols)
  PROVE  IsSequence(OfColumns("FIELD", cols, LAMBDA f : f.attrs))
<1> DEFINE S == {i \in DOMAIN cols : cols[i].attrs # NoAttributes}
           some == InOrder(S, <)
           t == OfColumns("FIELD", cols, LAMBDA f : f.attrs)
<1>1. IsSequence(some)
  BY InOrderIsSequence
<1>2. t = [n \in DOMAIN some |-> t[n]]
  BY DEF OfColumns
<1> HIDE DEF some, t
<1>3. IsSequence(t)
  BY <1>1, <1>2, MappedSequence
<1> QED
  BY <1>3 DEF t

LEMMA CombinedIsSequence ==
  ASSUME NEW m, IsMetadata(m)
  PROVE  IsSequence(Combined(m))
<1>1. \A s, t : IsSequence(s) /\ IsSequence(t) => IsSequence(s \o t)
  BY ConcatenationFacts
<1>2. /\ IsSequence(m.labeled) /\ IsSequence(m.resource) /\ IsSequence(m.params)
      /\ IsSequence(m.fields)
  BY DEF IsMetadata
<1>3. /\ IsSequence(m.infos.votable) /\ IsSequence(m.infos.resource)
      /\ IsSequence(m.infos.table)
  <2>1. DOMAIN m.infos = {"votable", "resource", "table"}
    BY DEF IsMetadata, NoMetadata, Everywhere
  <2> QED
    BY <2>1 DEF IsMetadata
<1>4. IsSequence(combine_labeled_properties_all_levels(m))
  <2> DEFINE t == [i \in DOMAIN m.resource |->
                     Labeled(VOTABLE_RESOURCE \o m.resource[i].label, m.resource[i].prop)]
  <2>1. t = [i \in DOMAIN m.resource |-> t[i]]
    OBVIOUS
  <2> HIDE DEF t
  <2>2. IsSequence(t)
    BY <1>2, <2>1, MappedSequence
  <2> QED
    BY <1>1, <1>2, <2>2 DEF combine_labeled_properties_all_levels, t
<1>5. IsSequence(combine_trailing_info_lists_all_levels(m))
  BY <1>1, <1>3, InfosAtIsSequence DEF combine_trailing_info_lists_all_levels
<1>6. IsSequence(combine_attributes_all_levels(m))
  <2>1. IsSequence(OfColumns("PARAM", m.params, OfParam))
    BY <1>2, ParamsAreSequence
  <2>2. IsSequence(OfColumns("FIELD", m.fields, LAMBDA f : f.attrs))
    BY <1>2, FieldsAreSequence
  <2> QED
    BY <1>1, <2>1, <2>2, AttributesAtIsSequence DEF combine_attributes_all_levels
<1> QED
  BY <1>1, <1>4, <1>5, <1>6 DEF Combined

LEMMA DistributedIsMetadata ==
  ASSUME NEW m, IsMetadata(m), NEW lp
  PROVE  IsMetadata(Distributed(m, lp))
<1>1. \A s, x : IsSequence(s) => IsSequence(Append(s, x))
  BY AppendFacts
<1>2. DOMAIN m = {"labeled", "resource", "infos", "attrs", "params", "fields"}
  BY DEF IsMetadata, NoMetadata
<1>3. DOMAIN m.infos = {"votable", "resource", "table"}
  BY DEF IsMetadata, NoMetadata, Everywhere
<1>4. Level(lp.label) \in DOMAIN m.infos
  BY <1>3 DEF Level
<1>5. ASSUME NEW x, NEW level \in DOMAIN m.infos
      PROVE  IsMetadata([m EXCEPT !.infos[level] = Append(@, x)])
  <2> DEFINE new == [m EXCEPT !.infos[level] = Append(@, x)]
             infos == [m.infos EXCEPT ![level] = Append(@, x)]
  <2>1. /\ DOMAIN new = DOMAIN m /\ new.infos = infos
        /\ new.labeled = m.labeled /\ new.resource = m.resource
        /\ new.params = m.params /\ new.fields = m.fields
    BY <1>2
  <2>2. DOMAIN infos = DOMAIN m.infos
    OBVIOUS
  <2>3. ASSUME NEW l \in DOMAIN infos PROVE IsSequence(infos[l])
    <3>1. IsSequence(m.infos[l])
      BY DEF IsMetadata
    <3>2. infos[l] = IF l = level THEN Append(m.infos[l], x) ELSE m.infos[l]
      OBVIOUS
    <3> HIDE DEF infos
    <3> QED
      BY <1>1, <3>1, <3>2
  <2> HIDE DEF new, infos
  <2>4. IsMetadata(new)
    BY <2>1, <2>2, <2>3 DEF IsMetadata
  <2> QED
    BY <2>4 DEF new
<1>6. ASSUME NEW attrs
      PROVE  IsMetadata([m EXCEPT !.attrs = attrs])
  <2> DEFINE new == [m EXCEPT !.attrs = attrs]
  <2>1. /\ DOMAIN new = DOMAIN m /\ new.infos = m.infos
        /\ new.labeled = m.labeled /\ new.resource = m.resource
        /\ new.params = m.params /\ new.fields = m.fields
    BY <1>2
  <2> HIDE DEF new
  <2>2. IsMetadata(new)
    BY <2>1 DEF IsMetadata
  <2> QED
    BY <2>2 DEF new
<1>7. ASSUME NEW x
      PROVE  IsMetadata([m EXCEPT !.labeled = Append(@, x)])
  <2> DEFINE new == [m EXCEPT !.labeled = Append(@, x)]
  <2>1. /\ DOMAIN new = DOMAIN m /\ new.infos = m.infos
        /\ new.labeled = Append(m.labeled, x) /\ new.resource = m.resource
        /\ new.params = m.params /\ new.fields = m.fields
    BY <1>2
  <2> HIDE DEF new
  <2>2. IsMetadata(new)
    BY <1>1, <2>1 DEF IsMetadata
  <2> QED
    BY <2>2 DEF new
<1>8. ASSUME NEW x
      PROVE  IsMetadata([m EXCEPT !.resource = Append(@, x)])
  <2> DEFINE new == [m EXCEPT !.resource = Append(@, x)]
  <2>1. /\ DOMAIN new = DOMAIN m /\ new.infos = m.infos
        /\ new.labeled = m.labeled /\ new.resource = Append(m.resource, x)
        /\ new.params = m.params /\ new.fields = m.fields
    BY <1>2
  <2> HIDE DEF new
  <2>2. IsMetadata(new)
    BY <1>1, <2>1 DEF IsMetadata
  <2> QED
    BY <2>2 DEF new
<1>9. IsMetadata(Stashed(m, lp))
  BY <1>7, <1>8 DEF Stashed
<1>10. \A l, v : [m EXCEPT !.attrs[l] = v] = [m EXCEPT !.attrs = [m.attrs EXCEPT ![l] = v]]
  OBVIOUS
<1> QED
  BY <1>4, <1>5, <1>6, <1>9, <1>10 DEF Distributed

LEMMA NoMetadataIsMetadata == IsMetadata(NoMetadata)
<1>1. DOMAIN NoMetadata = {"labeled", "resource", "infos", "attrs", "params", "fields"}
  BY DEF NoMetadata
<1>2. /\ NoMetadata.labeled = <<>> /\ NoMetadata.resource = <<>> /\ NoMetadata.params = <<>>
      /\ NoMetadata.fields = <<>> /\ NoMetadata.infos = Everywhere(<<>>)
  BY DEF NoMetadata
<1>3. \A level \in DOMAIN Everywhere(<<>>) : Everywhere(<<>>)[level] = <<>>
  BY DEF Everywhere
<1> QED
  BY <1>1, <1>2, <1>3, EmptySequence DEF IsMetadata

LEMMA MetaInit == FitsInit => MetaInv
BY NoMetadataIsMetadata, StartsAssumption, EmptySequence
DEF FitsInit, InitFromTable, InitFromFile, InitKeywords, MetaInv

\* The steps that do not touch the metadata, and those of the keywords.
LEMMA KeywordActions ==
  ASSUME [FitsNext]_allvars
  PROVE  \/ UNCHANGED vars \/ KeywordStep \/ ReadFile \/ Assemble \/ WriteAgain
BY DEF FitsNext, allvars, CreateTable, Keywords, BeginRows, WriteCell, Reopen, BeginColumns,
       ReadColumn, UnsupportedColumn, EndColumns, ReadCell, UnevenString, EndRows, Again

LEMMA MetaNext == MetaInv /\ [FitsNext]_allvars => MetaInv'
<1> SUFFICES ASSUME MetaInv, [FitsNext]_allvars PROVE MetaInv'
  OBVIOUS
<1>1. IsMetadata(meta) /\ IsSequence(params)
  BY DEF MetaInv
<1>2. ASSUME NEW p, NEW final, WithElement(p, final)
      PROVE  IsSequence(params')
  <2>1. params' = params \/ \E x : params' = Append(params, x)
    BY <1>2 DEF WithElement
  <2> QED
    BY <1>1, <2>1, AppendFacts, ZenonT(30)
<1>3. CASE UNCHANGED vars
  BY <1>1, <1>3 DEF vars, written, collected, MetaInv
<1>4. CASE KeywordStep
  <2>1. CASE WithoutName \/ WriteProperty \/ WriteUndefined \/ EnterHdu \/ IgnoreKeyword
    BY <1>1, <2>1 DEF WithoutName, WriteProperty, WriteUndefined, EnterHdu, IgnoreKeyword,
                      written, collected, MetaInv
  <2>2. CASE ReadKeyword
    BY <1>1, <1>2, <2>2 DEF ReadKeyword, written, MetaInv
  <2>3. CASE LeaveHdu
    <3>1. meta' \in {meta, NoMetadata}
      BY <2>3 DEF LeaveHdu
    <3> QED
      BY <1>1, <1>2, <2>3, <3>1, NoMetadataIsMetadata DEF LeaveHdu, MetaInv
  <2>4. CASE Distribute
    BY <1>1, <2>4, DistributedIsMetadata DEF Distribute, collected, MetaInv
  <2> QED
    BY <1>4, <2>1, <2>2, <2>3, <2>4 DEF KeywordStep
<1>5. CASE ReadFile
  BY <1>1, <1>5, EmptySequence DEF ReadFile, written, MetaInv
<1>6. CASE Assemble
  <2>1. meta' = [meta EXCEPT !.params = params] /\ params' = params
    BY <1>6 DEF Assemble, collected
  <2>2. DOMAIN meta = {"labeled", "resource", "infos", "attrs", "params", "fields"}
    BY <1>1 DEF IsMetadata, NoMetadata
  <2>3. /\ DOMAIN meta' = DOMAIN meta /\ meta'.infos = meta.infos
        /\ meta'.labeled = meta.labeled /\ meta'.resource = meta.resource
        /\ meta'.params = params /\ meta'.fields = meta.fields
    BY <2>1, <2>2
  <2>4. IsMetadata(meta')
    BY <1>1, <2>3 DEF IsMetadata
  <2> QED
    BY <1>1, <2>1, <2>4 DEF MetaInv
<1>7. CASE WriteAgain
  BY <1>1, <1>7 DEF WriteAgain, BeginWriting, collected, MetaInv
<1> QED
  BY <1>3, <1>4, <1>5, <1>6, <1>7, KeywordActions

-----------------------------------------------------------------------------
(* The writer's steps. *)

LEMMA WriterBegins ==
  ASSUME NEW L, IsSequence(L)
  PROVE  /\ 0 \in 0..Len(L) /\ L = SubSeq(L, 0 + 1, Len(L)) /\ 1..0 = {} /\ ~Missing(L, 0)
<1>1. Len(L) \in Nat /\ 0 \in 0..Len(L)
  BY SequenceFacts
<1>2. L = SubSeq(L, 0 + 1, Len(L))
  <2>1. /\ IsSequence(SubSeq(L, 1, Len(L))) /\ Len(SubSeq(L, 1, Len(L))) = Len(L) - 1 + 1
        /\ \A i \in 1..(Len(L) - 1 + 1) : SubSeq(L, 1, Len(L))[i] = L[1 + i - 1]
    BY <1>1, SubSeqFacts
  <2>2. \A i \in 1..Len(L) : 1 + i - 1 = i
    OBVIOUS
  <2>3. /\ Len(SubSeq(L, 1, Len(L))) = Len(L)
        /\ \A i \in 1..Len(L) : SubSeq(L, 1, Len(L))[i] = L[i]
    BY <1>1, <2>1, <2>2
  <2>4. SubSeq(L, 1, Len(L)) = L
    BY <2>1, <2>3, EqualSequences
  <2> QED
    BY <2>4
<1>3. 1..0 = {}
  OBVIOUS
<1> QED
  BY <1>1, <1>2, <1>3 DEF Missing

LEMMA WriterMoves ==
  ASSUME NEW L, IsSequence(L), NEW k \in 0..Len(L), WriterAt(L, k), todo # <<>>
  PROVE  /\ k + 1 \in 1..Len(L) /\ Head(todo) = L[k + 1]
         /\ Tail(todo) = SubSeq(L, (k + 1) + 1, Len(L))
<1> DEFINE S == {L[i] : i \in 1..Len(L)}
           n == Len(L)
<1>1. L \in Seq(S) /\ n \in Nat /\ k \in 0..n
  BY SequenceFacts, SequenceIsTyped
<1> HIDE DEF S
<1>2. todo = SubSeq(L, k + 1, n)
  BY DEF WriterAt
<1>3. /\ todo \in Seq(S) /\ Len(todo) = n - k
      /\ \A i \in 1..(n - k) : todo[i] = L[k + i]
  BY <1>1, <1>2
<1>4. Len(todo) # 0 /\ k + 1 \in 1..n
  BY <1>1, <1>3
<1>5. Head(todo) = L[k + 1]
  BY <1>1, <1>3, <1>4
<1>6. Tail(todo) = SubSeq(L, (k + 1) + 1, n)
  <2> DEFINE t == SubSeq(L, (k + 1) + 1, n)
  <2>1. /\ t \in Seq(S) /\ Len(t) = n - k - 1
        /\ \A i \in 1..(n - k - 1) : t[i] = L[(k + 1) + i]
    BY <1>1, <1>4
  <2>2. /\ Tail(todo) \in Seq(S) /\ Len(Tail(todo)) = n - k - 1
        /\ \A i \in 1..(n - k - 1) : Tail(todo)[i] = todo[i + 1]
    BY <1>1, <1>3, <1>4
  <2>3. ASSUME NEW i \in 1..(n - k - 1) PROVE todo[i + 1] = L[(k + 1) + i]
    <3>1. i + 1 \in 1..(n - k) /\ k + (i + 1) = (k + 1) + i
      BY <1>1
    <3> QED
      BY <1>3, <3>1
  <2> HIDE DEF t, n
  <2>4. Tail(todo) = t
    BY <2>1, <2>2, <2>3, SMTT(30)
  <2> QED
    BY <2>4 DEF t, n
<1> QED
  BY <1>4, <1>5, <1>6

\* A property that has something to be missed.
Wanting(lp) == "value" \notin DOMAIN lp.prop.attrs /\ ~(IsInfo(lp) /\ Unnamed(lp))

LEMMA MissingGrows ==
  ASSUME NEW L, NEW k \in Nat
  PROVE  Missing(L, k + 1) <=> Missing(L, k) \/ (Wanting(L[k + 1]) /\ \E i \in 1..k : IsPlain(L[i]))
<1>1. \A i : i \in 1..(k + 1) <=> i \in 1..k \/ i = k + 1
  OBVIOUS
<1>2. \A i \in 1..k : i < k + 1
  OBVIOUS
<1>3. \A i \in 1..k : ~(k + 1 < i)
  OBVIOUS
<1>4. ASSUME Missing(L, k + 1)
      PROVE  Missing(L, k) \/ (Wanting(L[k + 1]) /\ \E i \in 1..k : IsPlain(L[i]))
  <2>1. PICK i \in 1..(k + 1), j \in 1..(k + 1) : i < j /\ IsPlain(L[i]) /\ Wanting(L[j])
    BY <1>4 DEF Missing, Wanting
  <2>2. i \in 1..k
    BY <2>1
  <2>3. CASE j \in 1..k
    BY <2>1, <2>2, <2>3 DEF Missing, Wanting
  <2>4. CASE j = k + 1
    BY <2>1, <2>2, <2>4
  <2> QED
    BY <1>1, <2>3, <2>4
<1>5. ASSUME Missing(L, k) PROVE Missing(L, k + 1)
  <2>1. PICK i \in 1..k, j \in 1..k : i < j /\ IsPlain(L[i]) /\ Wanting(L[j])
    BY <1>5 DEF Missing, Wanting
  <2> QED
    BY <1>1, <2>1 DEF Missing, Wanting
<1>6. ASSUME Wanting(L[k + 1]), NEW i \in 1..k, IsPlain(L[i]) PROVE Missing(L, k + 1)
  <2>1. i \in 1..(k + 1) /\ k + 1 \in 1..(k + 1) /\ i < k + 1
    OBVIOUS
  <2> QED
    BY <1>6, <2>1 DEF Missing, Wanting
<1> QED
  BY <1>4, <1>5, <1>6

LEMMA MissingStays ==
  ASSUME NEW L, NEW n \in Nat, NEW k \in 0..n, Missing(L, k)
  PROVE  Missing(L, n)
<1>1. PICK i \in 1..k, j \in 1..k : i < j /\ IsPlain(L[i]) /\ Wanting(L[j])
  BY DEF Missing, Wanting
<1>2. i \in 1..n /\ j \in 1..n
  OBVIOUS
<1> QED
  BY <1>1, <1>2 DEF Missing, Wanting

LEMMA KeywordsInit == FitsInit => KeywordsInv
<1> SUFFICES ASSUME FitsInit, trips > 0 PROVE KeywordsInv
  BY DEF KeywordsInv
<1>1. PICK start \in Starts : InitFromTable(start.meta)
  <2>1. ASSUME NEW start \in FitsFiles, InitFromFile(start.hdus) PROVE FALSE
    <3>1. trips = 0
      BY <2>1 DEF InitFromFile
    <3> QED
      BY <3>1
  <2> QED
    BY <2>1 DEF FitsInit
<1> DEFINE L == Combined(original)
<1>2. IsSequence(L)
  BY <1>1, StartsAssumption, CombinedIsSequence DEF InitFromTable
<1>3. todo = L /\ got_fits_keyword = FALSE /\ phase = "writing"
  BY <1>1 DEF InitFromTable, InitKeywords
<1> HIDE DEF L
<1>4. \E k \in 0..Len(L) : WriterAt(L, k)
  BY <1>2, <1>3, WriterBegins DEF WriterAt
<1> QED
  BY <1>2, <1>3, <1>4 DEF KeywordsInv, L

LEMMA WriterSteps ==
  ASSUME NEW L, IsSequence(L), NEW k \in 0..Len(L), WriterAt(L, k)
  PROVE  /\ todo = <<>> => k = Len(L)
         /\ WithoutName \/ WriteProperty => \E j \in 0..Len(L) : WriterAt(L, j)'
         /\ WriteUndefined => Missing(L, Len(L))
<1> DEFINE lp == L[k + 1]
           plain == \E i \in 1..k : IsPlain(L[i])
<1>1. Len(L) \in Nat /\ k \in Nat
  BY SequenceFacts
<1>2. todo = <<>> => k = Len(L)
  <2> SUFFICES ASSUME todo = <<>> PROVE k = Len(L)
    OBVIOUS
  <2>1. Len(todo) = Len(L) - (k + 1) + 1
    <3>1. k + 1 \in 1..(Len(L) + 1) /\ Len(L) \in 0..Len(L) /\ k + 1 <= Len(L) + 1
      BY <1>1
    <3>2. Len(SubSeq(L, k + 1, Len(L))) = Len(L) - (k + 1) + 1
      BY <1>1, <3>1, SubSeqFacts
    <3> QED
      BY <3>2 DEF WriterAt
  <2>2. Len(todo) = 0
    BY EmptySequence
  <2> QED
    BY <1>1, <2>1, <2>2
<1>3. ASSUME todo # <<>>
      PROVE  /\ k + 1 \in 1..Len(L) /\ k + 1 \in 0..Len(L) /\ Head(todo) = lp
             /\ Tail(todo) = SubSeq(L, (k + 1) + 1, Len(L))
  BY <1>1, <1>3, WriterMoves
<1>4. /\ got_fits_keyword <=> plain
      /\ (\E i \in 1..(k + 1) : IsPlain(L[i])) <=> plain \/ IsPlain(lp)
      /\ Missing(L, k + 1) <=> Wanting(lp) /\ plain
  <2>1. \A i : i \in 1..(k + 1) <=> i \in 1..k \/ i = k + 1
    BY <1>1
  <2>2. ~Missing(L, k) /\ (got_fits_keyword <=> plain)
    BY DEF WriterAt
  <2>3. (\E i \in 1..(k + 1) : IsPlain(L[i])) <=> plain \/ IsPlain(lp)
    BY <2>1, Zenon
  <2>4. Missing(L, k + 1) <=> Missing(L, k) \/ (Wanting(lp) /\ plain)
    BY <1>1, MissingGrows
  <2> HIDE DEF plain
  <2> QED
    BY <2>2, <2>3, <2>4
<1> HIDE DEF lp, plain
<1>5. /\ IsPlain(lp) => ~IsInfo(lp) /\ "value" \in DOMAIN lp.prop.attrs
  BY DEF IsPlain
<1>6. ASSUME todo # <<>>, todo' = Tail(todo), ~(Wanting(lp) /\ plain),
             got_fits_keyword' <=> plain \/ IsPlain(lp)
      PROVE  \E j \in 0..Len(L) : WriterAt(L, j)'
  <2>1. k + 1 \in 0..Len(L) /\ todo' = SubSeq(L, (k + 1) + 1, Len(L))
    BY <1>3, <1>6
  <2>2. ~Missing(L, k + 1)
    BY <1>4, <1>6
  <2>3. got_fits_keyword' <=> \E i \in 1..(k + 1) : IsPlain(L[i])
    BY <1>4, <1>6, Zenon
  <2>4. WriterAt(L, k + 1)'
    BY <2>1, <2>2, <2>3, Zenon DEF WriterAt
  <2> QED
    BY <2>1, <2>4
<1>7. CASE WithoutName
  <2>1. /\ todo # <<>> /\ todo' = Tail(todo) /\ IsInfo(lp) /\ Unnamed(lp)
        /\ got_fits_keyword' = got_fits_keyword
    BY <1>3, <1>7 DEF WithoutName, written, writer
  <2>2. ~(Wanting(lp) /\ plain) /\ ~IsPlain(lp)
    BY <1>5, <2>1 DEF Wanting
  <2>3. got_fits_keyword' <=> plain \/ IsPlain(lp)
    BY <1>4, <2>1, <2>2, Zenon
  <2>4. \E j \in 0..Len(L) : WriterAt(L, j)'
    BY <1>6, <2>1, <2>2, <2>3
  <2> QED
    BY <1>2, <1>7, <2>4 DEF WithoutName, WriteUndefined
<1>8. CASE WriteProperty
  <2>1. /\ todo # <<>> /\ todo' = Tail(todo)
        /\ ~ValueMissing(lp) /\ got_fits_keyword' = GotFitsKeyword(lp)
    BY <1>3, <1>8 DEF WriteProperty
  <2>2. got_fits_keyword' <=> plain \/ IsPlain(lp)
    BY <1>4, <2>1, Zenon DEF GotFitsKeyword
  <2>3. ~(Wanting(lp) /\ plain)
    BY <1>4, <2>1, Zenon DEF ValueMissing, GotFitsKeyword, Wanting
  <2>4. \E j \in 0..Len(L) : WriterAt(L, j)'
    BY <1>6, <2>1, <2>2, <2>3
  <2> QED
    BY <1>2, <1>3, <1>8, <2>1, <2>4 DEF WriteUndefined
<1>9. CASE WriteUndefined
  <2>1. todo # <<>> /\ ~(IsInfo(lp) /\ Unnamed(lp)) /\ ValueMissing(lp)
    BY <1>3, <1>9 DEF WriteUndefined
  <2>2. Wanting(lp) /\ plain
    BY <1>4, <1>5, <2>1, Zenon DEF ValueMissing, GotFitsKeyword, Wanting
  <2>3. Missing(L, k + 1) /\ k + 1 \in 0..Len(L)
    BY <1>3, <1>4, <2>1, <2>2
  <2>4. Missing(L, Len(L))
    BY <1>1, <2>3, MissingStays
  <2>5. ~WithoutName /\ ~WriteProperty
    BY <1>3, <2>1 DEF WithoutName, WriteProperty
  <2> QED
    BY <1>2, <2>4, <2>5
<1> QED
  BY <1>2, <1>7, <1>8, <1>9

LEMMA KeywordsNext == PhaseInv /\ MetaInv /\ KeywordsInv /\ [FitsNext]_allvars => KeywordsInv'
<1> SUFFICES ASSUME PhaseInv, MetaInv, KeywordsInv, [FitsNext]_allvars PROVE KeywordsInv'
  OBVIOUS
<1>0. PICK L : L = Combined(original)
  OBVIOUS
<1>1. trips > 0 =>
        /\ IsSequence(L)
        /\ phase = "writing" => \E k \in 0..Len(L) : WriterAt(L, k)
        /\ phase = "undefined" => Missing(L, Len(L))
        /\ phase \notin {"writing", "undefined"} => ~Missing(L, Len(L))
  BY <1>0 DEF KeywordsInv
<1>2. ASSUME original' = original, trips' = trips, trips > 0 =>
        /\ phase' = "writing" => \E k \in 0..Len(L) : WriterAt(L, k)'
        /\ phase' = "undefined" => Missing(L, Len(L))
        /\ phase' \notin {"writing", "undefined"} => ~Missing(L, Len(L))
      PROVE  KeywordsInv'
  BY <1>1, <1>2, <1>0 DEF KeywordsInv
<1>3. CASE UNCHANGED vars
  <2>1. /\ phase' = phase /\ original' = original /\ trips' = trips /\ todo' = todo
        /\ got_fits_keyword' = got_fits_keyword
    BY <1>3 DEF vars, written, writer
  <2>2. \A k : WriterAt(L, k)' <=> WriterAt(L, k)
    BY <2>1 DEF WriterAt
  <2> QED
    BY <1>1, <1>2, <2>1, <2>2
<1>4. CASE KeywordStep
  <2>1. original' = original /\ trips' = trips
    BY <1>4 DEF KeywordStep, WithoutName, WriteProperty, WriteUndefined, EnterHdu,
                IgnoreKeyword, ReadKeyword, LeaveHdu, Distribute, written
  <2>2. CASE WithoutName \/ WriteProperty
    <3>1. phase = "writing" /\ phase' = "writing"
      BY <2>2 DEF WithoutName, WriteProperty
    <3>2. ASSUME trips > 0 PROVE \E k \in 0..Len(L) : WriterAt(L, k)'
      <4>1. PICK k \in 0..Len(L) : WriterAt(L, k)
        BY <1>1, <3>1, <3>2
      <4> QED
        BY <1>1, <2>2, <3>2, <4>1, WriterSteps
    <3> QED
      BY <1>2, <2>1, <3>1, <3>2
  <2>3. CASE WriteUndefined
    <3>1. phase = "writing" /\ phase' = "undefined"
      BY <2>3 DEF WriteUndefined
    <3>2. trips > 0 => Missing(L, Len(L))
      BY <1>1, <2>3, <3>1, WriterSteps
    <3> QED
      BY <1>2, <2>1, <3>1, <3>2
  <2>4. CASE EnterHdu \/ IgnoreKeyword \/ ReadKeyword \/ LeaveHdu \/ Distribute
    <3>1. phase \notin {"writing", "undefined"} /\ phase' \notin {"writing", "undefined"}
      BY <2>4 DEF EnterHdu, IgnoreKeyword, ReadKeyword, LeaveHdu, Distribute, written
    <3> QED
      BY <1>1, <1>2, <2>1, <3>1
  <2> QED
    BY <1>4, <2>2, <2>3, <2>4 DEF KeywordStep
<1>5. CASE ReadFile
  <2>1. /\ phase = "writing" /\ todo = <<>> /\ phase' = "entering"
        /\ original' = original /\ trips' = trips
    BY <1>5 DEF ReadFile, written
  <2>2. trips > 0 => ~Missing(L, Len(L))
    <3> SUFFICES ASSUME trips > 0 PROVE ~Missing(L, Len(L))
      OBVIOUS
    <3>1. IsSequence(L)
      BY <1>1
    <3>2. PICK k \in 0..Len(L) : WriterAt(L, k)
      BY <1>1, <2>1
    <3>3. k = Len(L)
      BY <2>1, <3>1, <3>2, WriterSteps
    <3> QED
      BY <3>2, <3>3 DEF WriterAt
  <2> QED
    BY <1>2, <2>1, <2>2
<1>6. CASE Assemble
  <2>1. phase = "distributing" /\ phase' = "read" /\ original' = original /\ trips' = trips
    BY <1>6 DEF Assemble
  <2> QED
    BY <1>1, <1>2, <2>1
<1>7. CASE WriteAgain
  <2>1. /\ original' = meta /\ todo' = Combined(meta) /\ got_fits_keyword' = FALSE
        /\ phase' = "writing"
    BY <1>7 DEF WriteAgain, BeginWriting
  <2>2. PICK M : M = Combined(meta)
    OBVIOUS
  <2>3. IsSequence(M)
    BY <2>2, CombinedIsSequence DEF MetaInv
  <2>4. \E k \in 0..Len(M) : WriterAt(M, k)'
    BY <2>1, <2>2, <2>3, WriterBegins DEF WriterAt
  <2>5. Combined(original)' = M
    BY <2>1, <2>2
  <2> QED
    BY <2>1, <2>3, <2>4, <2>5 DEF KeywordsInv
<1> QED
  BY <1>3, <1>4, <1>5, <1>6, <1>7, KeywordActions

LEMMA UndefinedIffMissing == KeywordsInv => UndefinedExactlyIfValueMissing
<1> SUFFICES ASSUME KeywordsInv, phase \in {"undefined", "entering"}, trips > 0
             PROVE  LET L == Combined(original) IN phase = "undefined" <=> Missing(L, Len(L))
  <2>1. \A L : IsSequence(L) => DOMAIN L = 1..Len(L)
    BY SequenceFacts
  <2> QED
    BY <2>1 DEF UndefinedExactlyIfValueMissing, KeywordsInv, Missing
<1> QED
  BY DEF KeywordsInv

\* Whatever the metadata, the writer reads through an end iterator exactly if some
\* property has no value attribute behind a plain one.
THEOREM WriterUndefinedIfValueMissing == FitsSpec => []UndefinedExactlyIfValueMissing
<1>1. FitsSpec => []PhaseInv
  <2>1. Inv => PhaseInv
    BY DEF Inv
  <2> QED
    BY RowsComeInOrder, <2>1, PTL
<1>2. FitsSpec => []MetaInv
  BY MetaInit, MetaNext, PTL DEF FitsSpec
<1>3. FitsSpec => []KeywordsInv
  BY <1>1, <1>2, KeywordsInit, KeywordsNext, PTL DEF FitsSpec
<1> QED
  BY <1>3, UndefinedIffMissing, PTL

=============================================================================
