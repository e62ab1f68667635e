----------------------- MODULE TabledataReader_proofs -----------------------
(***************************************************************************)
(* Of TABLEDATA elements with any number of children and tables with any      *)
(* columns.  The rows that are inserted are numbered by their texts, the      *)
(* lengths that are looked up for them by the children: ChildrenInv says how  *)
(* far the two agree.  WidthsInv says what the first pass has found out about *)
(* the widths, RowsInv what the second one has made of it.                   *)
(***************************************************************************)
EXTENDS TabledataReader, FiniteSetTheorems, TLAPS

Sequence(s) == s \in Seq({s[i] : i \in DOMAIN s})

TypesInv ==
  /\ fields \in Tables
  /\ phase \in {"collecting", "inserting", "read", "failed"}
  /\ children \in Seq({"row", "skipped"})
  /\ texts \in Seq(RowsOf(fields))
  /\ widths \in [Columns -> Nat]
  /\ Sequence(lists) /\ Sequence(rows) /\ Sequence(recorded)

\* One list for each child, that of a row as long as there are columns of variable
\* length, that of a skipped child empty.
OneForEachChild(ls) ==
  /\ Len(ls) = Len(children)
  /\ \A i \in DOMAIN children :
       /\ Len(ls[i]) = IF children[i] = "row" THEN Cardinality(Dynamic) ELSE 0
       /\ InPlace(i) => ls[i] = Counts(texts[i])

ChildrenInv ==
  /\ Len(texts) <= Len(children)
  /\ Len(texts) = Len(children) <=> InPlace(Len(children))
  /\ \A i \in DOMAIN children : InPlace(i) => i <= Len(texts)
  /\ record_dynamic_array_sizes_f => OneForEachChild(IF phase = "read" THEN recorded ELSE lists)

\* A width is that of the longest cell, or 1.
WidthsInv ==
  \A c \in Columns :
    /\ widths[c] >= 1
    /\ fields[c].single => widths[c] = 1
    /\ ~fields[c].single => \A i \in DOMAIN texts : texts[i][c].count <= widths[c]
    /\ widths[c] > 1 => \E i \in DOMAIN texts : texts[i][c].count = widths[c]

StoredRow(i) == [c \in Columns |-> Stored(c, texts[i][c])]

RowsInv ==
  /\ Len(rows) <= Len(texts)
  /\ phase = "collecting" => rows = <<>>
  /\ phase = "read" => Len(rows) = Len(texts)
  /\ \A i \in DOMAIN rows : rows[i] = StoredRow(i)

----------------------------------------------------------------------------
LEMMA AppendSequence ==
  ASSUME NEW s, Sequence(s), NEW e
  PROVE  /\ Sequence(Append(s, e)) /\ Len(s) \in Nat /\ DOMAIN s = 1..Len(s)
         /\ Len(Append(s, e)) = Len(s) + 1 /\ DOMAIN Append(s, e) = 1..(Len(s) + 1)
         /\ \A i \in 1..Len(s) : Append(s, e)[i] = s[i]
         /\ Append(s, e)[Len(s) + 1] = e
<1> DEFINE S == {s[i] : i \in DOMAIN s} \cup {e}
<1>1. s \in Seq(S)
  BY DEF Sequence
<1> HIDE DEF S
<1>2. e \in S
  BY DEF S
<1>3. /\ Append(s, e) \in Seq(S) /\ Len(s) \in Nat /\ DOMAIN s = 1..Len(s)
      /\ Len(Append(s, e)) = Len(s) + 1 /\ DOMAIN Append(s, e) = 1..(Len(s) + 1)
      /\ \A i \in 1..Len(s) : Append(s, e)[i] = s[i]
      /\ Append(s, e)[Len(s) + 1] = e
  BY <1>1, <1>2
<1>4. Sequence(Append(s, e))
  <2> DEFINE t == Append(s, e)
  <2>1. t \in Seq(S)
    BY <1>3
  <2> HIDE DEF t
  <2>2. t \in Seq({t[i] : i \in DOMAIN t})
    BY <2>1
  <2> QED
    BY <2>2 DEF Sequence, t
<1> QED
  BY <1>3, <1>4

LEMMA EmptySequence == Sequence(<<>>) /\ Len(<<>>) = 0
  BY DEF Sequence

\* The columns and the cells of a row.
LEMMA FieldsType ==
  ASSUME TypesInv
  PROVE  /\ Len(fields) \in Nat /\ Columns = 1..Len(fields)
         /\ \A c \in Columns : /\ fields[c].char \in BOOLEAN /\ fields[c].single \in BOOLEAN
                               /\ fields[c].dyn \in BOOLEAN /\ fields[c].byte \in BOOLEAN
                               /\ ~(fields[c].single /\ fields[c].dyn)
                               /\ ~(fields[c].char /\ fields[c].byte)
<1>1. fields \in Seq(Field) /\ \A c \in DOMAIN fields : /\ ~(fields[c].single /\ fields[c].dyn)
                                                        /\ ~(fields[c].char /\ fields[c].byte)
  BY TablesAssumption DEF TypesInv
<1>2. \A c \in DOMAIN fields : fields[c] \in Field
  BY <1>1
<1>3. \A c \in Columns : /\ fields[c].char \in BOOLEAN /\ fields[c].single \in BOOLEAN
                         /\ fields[c].dyn \in BOOLEAN /\ fields[c].byte \in BOOLEAN
  BY <1>2, Zenon DEF Columns, Field
<1> QED
  BY <1>1, <1>3 DEF Columns

LEMMA CellsType ==
  ASSUME TypesInv, NEW cells \in RowsOf(fields), NEW c \in Columns
  PROVE  /\ cells[c].count \in Nat
         /\ cells[c].null \in BOOLEAN /\ cells[c].ok \in BOOLEAN /\ cells[c].padded \in BOOLEAN
         /\ cells[c].first \in BOOLEAN
         /\ cells[c].count <= 1 \/ cells[c].ok => cells[c].first = cells[c].ok
<1>1. cells[c] \in Cells(fields[c])
  BY DEF RowsOf, Columns
<1>2. /\ cells[c] \in [count : 0..MaxCount, padded : BOOLEAN, null : BOOLEAN, first : BOOLEAN,
                       ok : BOOLEAN]
      /\ cells[c].count <= 1 \/ cells[c].ok => cells[c].first = cells[c].ok
  BY <1>1, Zenon DEF Cells
<1>3. cells[c].count \in 0..MaxCount
  BY <1>2
<1>4. /\ cells[c].null \in BOOLEAN /\ cells[c].ok \in BOOLEAN /\ cells[c].padded \in BOOLEAN
      /\ cells[c].first \in BOOLEAN
  BY <1>2, Zenon
<1>5. cells[c].count \in Nat
  BY <1>3, TablesAssumption
<1> QED
  BY <1>2, <1>4, <1>5, Zenon

LEMMA TextsType ==
  ASSUME TypesInv
  PROVE  /\ Len(texts) \in Nat /\ DOMAIN texts = 1..Len(texts)
         /\ \A i \in DOMAIN texts : /\ texts[i] \in RowsOf(fields)
                                    /\ \A c \in Columns : texts[i][c].count \in Nat
         /\ Len(children) \in Nat /\ DOMAIN children = 1..Len(children)
         /\ \A i \in DOMAIN children : children[i] \in {"row", "skipped"}
         /\ Len(rows) \in Nat /\ DOMAIN rows = 1..Len(rows)
<1>1. texts \in Seq(RowsOf(fields)) /\ children \in Seq({"row", "skipped"})
  BY DEF TypesInv
<1>2. Len(rows) \in Nat /\ DOMAIN rows = 1..Len(rows)
  BY DEF TypesInv, Sequence
<1>3. \A i \in DOMAIN texts : texts[i] \in RowsOf(fields)
  BY <1>1
<1>4. \A i \in DOMAIN texts : \A c \in Columns : texts[i][c].count \in Nat
  BY <1>3, CellsType
<1> QED
  BY <1>1, <1>2, <1>3, <1>4

LEMMA DynamicFinite ==
  ASSUME TypesInv
  PROVE  /\ Cardinality(Dynamic) \in Nat
         /\ \A c \in Dynamic : Rank(c) \in 1..Cardinality(Dynamic)
<1>1. Dynamic \subseteq 1..Len(fields) /\ Len(fields) \in Nat
  BY FieldsType DEF Dynamic
<1>2. IsFiniteSet(Dynamic)
  <2>1. IsFiniteSet(1..Len(fields))
    BY <1>1, FS_Interval
  <2> QED
    BY <1>1, <2>1, FS_Subset
<1>3. ASSUME NEW c \in Dynamic
      PROVE  Rank(c) \in 1..Cardinality(Dynamic)
  <2> DEFINE S == {d \in Dynamic : d <= c}
  <2>1. S \subseteq Dynamic /\ c \in S
    BY <1>1
  <2>2. IsFiniteSet(S) /\ Cardinality(S) <= Cardinality(Dynamic)
    BY <1>2, <2>1, FS_Subset
  <2>3. Cardinality(S) # 0
    BY <2>1, <2>2, FS_EmptySet
  <2>4. Cardinality(S) \in Nat /\ Cardinality(Dynamic) \in Nat
    BY <1>2, <2>2, FS_CardinalityType
  <2> HIDE DEF S
  <2>5. Cardinality(S) \in 1..Cardinality(Dynamic)
    BY <2>2, <2>3, <2>4
  <2> QED
    BY <2>5 DEF S, Rank
<1> QED
  BY <1>2, <1>3, FS_CardinalityType

LEMMA CountsLength ==
  ASSUME TypesInv, NEW cells
  PROVE  Len(Counts(cells)) = Cardinality(Dynamic)
<1> DEFINE n == Cardinality(Dynamic)
           s == Counts(cells)
<1>1. n \in Nat
  BY DynamicFinite
<1>2. s = [i \in 1..n |-> s[i]]
  BY DEF Counts, AtDynamic
<1> HIDE DEF n, s
<1>3. s \in Seq({s[i] : i \in 1..n})
  BY <1>1, <1>2
<1>4. Len(s) = n
  BY <1>1, <1>2, <1>3
<1> QED
  BY <1>4 DEF n, s

LEMMA SameFields ==
  ASSUME fields' = fields
  PROVE  /\ Columns' = Columns /\ Dynamic' = Dynamic
         /\ record_dynamic_array_sizes_f' = record_dynamic_array_sizes_f
         /\ \A cells : Counts(cells)' = Counts(cells)
         /\ RowsOf(fields)' = RowsOf(fields)
<1>1. Columns' = Columns
  BY DEF Columns
<1>2. Dynamic' = Dynamic
  BY <1>1 DEF Dynamic
<1>3. \A c : Rank(c)' = Rank(c)
  BY <1>2 DEF Rank
<1>4. \A cells : Counts(cells)' = Counts(cells)
  <2>1. \A i : Ranked(i)' = Ranked(i)
    BY <1>2, <1>3, Zenon DEF Ranked
  <2> QED
    BY <1>1, <1>2, <2>1 DEF Counts, AtDynamic
<1>5. RowsOf(fields)' = RowsOf(fields)
  BY DEF RowsOf
<1> QED
  BY <1>1, <1>2, <1>4, <1>5 DEF record_dynamic_array_sizes_f

----------------------------------------------------------------------------
Inv == TypesInv /\ ChildrenInv /\ WidthsInv /\ RowsInv

LEMMA InitInv == Init => Inv
<1> SUFFICES ASSUME Init PROVE Inv
  OBVIOUS
<1>1. /\ fields \in Tables /\ phase = "collecting" /\ children = <<>> /\ texts = <<>>
      /\ widths = [c \in Columns |-> 1] /\ lists = <<>> /\ rows = <<>> /\ recorded = <<>>
  BY DEF Init
<1>2. TypesInv
  BY <1>1, EmptySequence DEF TypesInv
<1>3. ChildrenInv
  BY <1>1 DEF ChildrenInv, OneForEachChild, InPlace
<1>4. WidthsInv
  BY <1>1, FieldsType, <1>2 DEF WidthsInv
<1>5. RowsInv
  BY <1>1 DEF RowsInv
<1> QED
  BY <1>2, <1>3, <1>4, <1>5 DEF Inv

\* The fields stay what they are.
LEMMA FieldsStay == [Next]_vars => fields' = fields
  BY DEF Next, Collect, ReadRow, SkipChild, Misplaced, Throw, EndOfData, InsertRow, CannotInsert,
         Return, vars

LEMMA ReadRowTypes ==
  ASSUME TypesInv, NEW cells \in RowsOf(fields), ReadRow(cells)
  PROVE  TypesInv'
<1>1. /\ children' = Append(children, "row") /\ texts' = Append(texts, cells)
      /\ widths' = Widened(cells) /\ fields' = fields /\ phase' = phase /\ rows' = rows
      /\ recorded' = recorded
      /\ lists' = lists \/ lists' = Append(lists, Counts(cells))
  BY DEF ReadRow, NewList
<1>2. Columns' = Columns /\ RowsOf(fields)' = RowsOf(fields)
  BY <1>1, SameFields
<1>3. children' \in Seq({"row", "skipped"}) /\ texts' \in Seq(RowsOf(fields))
  BY <1>1 DEF TypesInv
<1>4. Widened(cells) \in [Columns -> Nat]
  BY CellsType DEF Widened, TypesInv
<1>5. Sequence(lists')
  <2>1. CASE lists' = lists
    BY <2>1 DEF TypesInv, Sequence
  <2>2. CASE lists' = Append(lists, Counts(cells))
    BY <2>2, AppendSequence DEF TypesInv
  <2> QED
    BY <1>1, <2>1, <2>2
<1> QED
  BY <1>1, <1>2, <1>3, <1>4, <1>5 DEF TypesInv, Sequence

LEMMA NextTypes == Inv /\ [Next]_vars => TypesInv'
<1> SUFFICES ASSUME Inv, [Next]_vars PROVE TypesInv'
  OBVIOUS
<1>0. /\ TypesInv /\ fields' = fields /\ Columns' = Columns /\ RowsOf(fields)' = RowsOf(fields)
  BY FieldsStay, SameFields DEF Inv
<1>1. CASE phase = "collecting" /\ \E cells \in RowsOf(fields) : ReadRow(cells)
  BY <1>0, <1>1, ReadRowTypes
<1>2. CASE phase = "collecting" /\ SkipChild
  <2>1. /\ children' = Append(children, "skipped")
        /\ phase' = phase /\ UNCHANGED <<texts, widths, rows, recorded>>
        /\ lists' = lists \/ lists' = Append(lists, <<>>)
    BY <1>2 DEF SkipChild, NewList
  <2>2. children' \in Seq({"row", "skipped"})
    BY <1>0, <2>1 DEF TypesInv
  <2>3. Sequence(lists')
    <3>1. CASE lists' = lists
      BY <1>0, <3>1 DEF TypesInv, Sequence
    <3>2. CASE lists' = Append(lists, <<>>)
      BY <1>0, <3>2, AppendSequence DEF TypesInv
    <3> QED
      BY <2>1, <3>1, <3>2
  <2>4. Sequence(rows') /\ Sequence(recorded')
    BY <1>0, <2>1 DEF TypesInv, Sequence
  <2> QED
    BY <1>0, <2>1, <2>2, <2>3, <2>4 DEF TypesInv
<1>3. CASE Throw \/ EndOfData \/ UNCHANGED vars
  <2>1. UNCHANGED <<children, texts, widths, lists, rows, recorded>> /\ phase' \in {phase, "inserting", "failed"}
    BY <1>3 DEF Throw, EndOfData, vars
  <2> QED
    BY <1>0, <2>1 DEF TypesInv, Sequence
<1>4. CASE InsertRow
  <2>1. /\ UNCHANGED <<children, texts, widths, lists, phase>>
        /\ \E row : rows' = Append(rows, row)
        /\ recorded' = recorded \/ \E list : recorded' = Append(recorded, list)
    BY <1>4 DEF InsertRow
  <2>2. Sequence(rows')
    BY <1>0, <2>1, AppendSequence DEF TypesInv
  <2>3. Sequence(recorded')
    <3>1. CASE recorded' = recorded
      BY <1>0, <3>1 DEF TypesInv, Sequence
    <3>2. CASE \E list : recorded' = Append(recorded, list)
      BY <1>0, <3>2, AppendSequence DEF TypesInv
    <3> QED
      BY <2>1, <3>1, <3>2
  <2>4. Sequence(lists')
    BY <1>0, <2>1 DEF TypesInv, Sequence
  <2> QED
    BY <1>0, <2>1, <2>2, <2>3, <2>4 DEF TypesInv
<1>5. CASE Return
  <2>1. /\ UNCHANGED <<children, texts, widths, rows>> /\ phase' = "read"
        /\ recorded' = lists /\ lists' = recorded
    BY <1>5 DEF Return
  <2> QED
    BY <1>0, <2>1 DEF TypesInv, Sequence
<1> QED
  BY <1>1, <1>2, <1>3, <1>4, <1>5 DEF Next, Collect, Misplaced, CannotInsert

----------------------------------------------------------------------------
\* The lists and the children grow together.
LEMMA AppendList ==
  ASSUME TypesInv, ChildrenInv, phase = "collecting", record_dynamic_array_sizes_f,
         NEW kind \in {"row", "skipped"}, NEW cells, NEW list,
         children' = Append(children, kind), lists' = Append(lists, list),
         fields' = fields, NEW n, n = Len(children),
         texts' = IF kind = "row" THEN Append(texts, cells) ELSE texts,
         list = IF kind = "row" THEN Counts(cells) ELSE <<>>,
         kind = "row" => cells \in RowsOf(fields)
  PROVE  OneForEachChild(lists)'
<1>0. /\ record_dynamic_array_sizes_f' /\ Dynamic' = Dynamic /\ \A x : Counts(x)' = Counts(x)
      /\ n \in Nat /\ DOMAIN children = 1..n
      /\ Len(texts) \in Nat /\ DOMAIN texts = 1..Len(texts)
  BY SameFields, TextsType
<1>1. OneForEachChild(lists)
  BY DEF ChildrenInv
<1>2. /\ DOMAIN children' = 1..(n + 1) /\ children'[n + 1] = kind
      /\ Len(children') = n + 1
      /\ \A i \in 1..n : children'[i] = children[i]
  BY <1>0 DEF TypesInv
<1>3. /\ Len(lists') = n + 1 /\ lists'[n + 1] = list
      /\ \A i \in 1..n : lists'[i] = lists[i]
  BY <1>1, AppendSequence DEF TypesInv, OneForEachChild
<1>4. \A i \in 1..n : InPlace(i)' <=> InPlace(i)
  BY <1>2 DEF InPlace
<1>5. \A i \in 1..Len(texts) : texts'[i] = texts[i]
  BY <1>0 DEF TypesInv
<1>6. ASSUME NEW i \in 1..n
      PROVE  /\ Len(lists'[i]) = IF children'[i] = "row" THEN Cardinality(Dynamic) ELSE 0
             /\ InPlace(i)' => lists'[i] = Counts(texts'[i])
  <2>1. /\ Len(lists[i]) = IF children[i] = "row" THEN Cardinality(Dynamic) ELSE 0
        /\ InPlace(i) => lists[i] = Counts(texts[i]) /\ i <= Len(texts)
    BY <1>0, <1>1 DEF OneForEachChild, ChildrenInv
  <2>2. InPlace(i) => texts'[i] = texts[i]
    BY <1>0, <1>5, <2>1
  <2> QED
    BY <1>2, <1>3, <1>4, <2>1, <2>2
<1>7. /\ Len(lists'[n + 1]) = IF children'[n + 1] = "row" THEN Cardinality(Dynamic) ELSE 0
      /\ InPlace(n + 1)' => lists'[n + 1] = Counts(texts'[n + 1])
  <2>0. n \in 1..(n + 1) \/ n = 0
    BY <1>0
  <2>1. CASE kind = "row"
    <3>1. Len(Counts(cells)) = Cardinality(Dynamic)
      BY CountsLength
    <3>2. ASSUME InPlace(n + 1)' PROVE texts'[n + 1] = cells
      <4>1. InPlace(n)
        <5>1. \A j \in 1..(n + 1) : children'[j] = "row"
          BY <3>2 DEF InPlace
        <5>2. \A j \in 1..n : j \in 1..(n + 1)
          BY <1>0
        <5> QED
          BY <1>2, <5>1, <5>2 DEF InPlace
      <4>2. Len(texts) = n
        BY <4>1 DEF ChildrenInv
      <4> QED
        BY <1>0, <2>1, <4>2 DEF TypesInv
    <3> QED
      BY <1>2, <1>3, <2>1, <3>1, <3>2
  <2>2. CASE kind = "skipped"
    <3>1. ~InPlace(n + 1)'
      <4>1. n + 1 \in 1..(n + 1)
        BY <1>0
      <4>2. children'[n + 1] = "skipped"
        BY <1>2, <2>2
      <4>3. ~(\A j \in 1..(n + 1) : children'[j] = "row")
        BY <4>1, <4>2
      <4> QED
        BY <4>3 DEF InPlace
    <3> QED
      BY <1>2, <1>3, <2>2, <3>1
  <2> QED
    BY <2>1, <2>2
<1>8. \A i \in DOMAIN children' :
        /\ Len(lists'[i]) = IF children'[i] = "row" THEN Cardinality(Dynamic) ELSE 0
        /\ InPlace(i)' => lists'[i] = Counts(texts'[i])
  <2>1. \A i \in DOMAIN children' : i \in 1..n \/ i = n + 1
    BY <1>0, <1>2
  <2> QED
    BY <1>6, <1>7, <2>1
<1> QED
  BY <1>0, <1>2, <1>3, <1>8 DEF OneForEachChild

\* The texts fall behind the children when one is skipped.
LEMMA AppendChild ==
  ASSUME TypesInv, ChildrenInv,
         NEW kind \in {"row", "skipped"}, NEW cells,
         NEW n, n = Len(children), NEW m, m = Len(texts),
         children' = Append(children, kind),
         texts' = IF kind = "row" THEN Append(texts, cells) ELSE texts
  PROVE  /\ Len(texts') <= Len(children')
         /\ Len(texts') = Len(children') <=> InPlace(Len(children))'
         /\ \A i \in DOMAIN children' : InPlace(i)' => i <= Len(texts')
<1>1. /\ n \in Nat /\ m \in Nat /\ m <= n /\ DOMAIN children = 1..n
      /\ m = n <=> InPlace(n)
      /\ \A i \in 1..n : InPlace(i) => i <= m
  BY TextsType DEF ChildrenInv
<1>2. /\ Len(children') = n + 1 /\ DOMAIN children' = 1..(n + 1) /\ children'[n + 1] = kind
      /\ \A i \in 1..n : children'[i] = children[i]
  BY <1>1 DEF TypesInv
<1>3. Len(texts') = IF kind = "row" THEN m + 1 ELSE m
  BY <1>1 DEF TypesInv
<1>4. \A i \in 1..n : InPlace(i)' <=> InPlace(i)
  BY <1>2 DEF InPlace
<1>5. InPlace(n + 1)' <=> InPlace(n) /\ kind = "row"
  <2>1. \A j \in 1..(n + 1) : j \in 1..n \/ j = n + 1
    BY <1>1
  <2>2. \A j \in 1..n : j \in 1..(n + 1)
    BY <1>1
  <2>3. n + 1 \in 1..(n + 1)
    BY <1>1
  <2> QED
    BY <1>2, <2>1, <2>2, <2>3 DEF InPlace
<1>6. InPlace(Len(children))' <=> InPlace(n + 1)'
  BY <1>2 DEF InPlace
<1>7. kind = "row" \/ kind = "skipped"
  OBVIOUS
<1>8. ASSUME NEW i \in DOMAIN children', InPlace(i)'
      PROVE  i <= Len(texts')
  <2>1. i \in 1..n \/ i = n + 1
    BY <1>1, <1>2
  <2>2. CASE i \in 1..n
    <3>1. i <= m
      BY <1>1, <1>4, <1>8, <2>2
    <3> QED
      BY <1>1, <1>3, <2>2, <3>1
  <2>3. CASE i = n + 1
    BY <1>1, <1>3, <1>5, <1>8, <2>3
  <2> QED
    BY <2>1, <2>2, <2>3
<1>9. Len(texts') <= n + 1 /\ (Len(texts') = n + 1 <=> m = n /\ kind = "row")
  BY <1>1, <1>3, <1>7
<1> QED
  BY <1>1, <1>2, <1>5, <1>6, <1>8, <1>9

LEMMA SameChildren ==
  ASSUME children' = children, texts' = texts, fields' = fields
  PROVE  /\ \A i : InPlace(i)' <=> InPlace(i)
         /\ InPlace(Len(children))' <=> InPlace(Len(children))
         /\ \A ls : OneForEachChild(ls)' <=> OneForEachChild(ls)
<1>1. \A i : InPlace(i)' <=> InPlace(i)
  BY DEF InPlace
<1>2. InPlace(Len(children))' <=> InPlace(Len(children))
  BY DEF InPlace
<1>3. \A ls : OneForEachChild(ls)' <=> OneForEachChild(ls)
  BY <1>1, SameFields DEF OneForEachChild
<1> QED
  BY <1>1, <1>2, <1>3

LEMMA NextChildren == Inv /\ [Next]_vars => ChildrenInv'
<1> SUFFICES ASSUME Inv, [Next]_vars PROVE ChildrenInv'
  OBVIOUS
<1>0. /\ TypesInv /\ ChildrenInv /\ fields' = fields
      /\ record_dynamic_array_sizes_f' = record_dynamic_array_sizes_f
  BY FieldsStay, SameFields DEF Inv
<1>1. ASSUME phase = "collecting", phase' = "collecting", NEW kind \in {"row", "skipped"},
             NEW cells, NEW list,
             children' = Append(children, kind),
             texts' = IF kind = "row" THEN Append(texts, cells) ELSE texts,
             list = IF kind = "row" THEN Counts(cells) ELSE <<>>,
             kind = "row" => cells \in RowsOf(fields), NewList(list)
      PROVE  ChildrenInv'
  <2>1. /\ Len(texts') <= Len(children')
        /\ Len(texts') = Len(children') <=> InPlace(Len(children))'
        /\ \A i \in DOMAIN children' : InPlace(i)' => i <= Len(texts')
    BY <1>0, <1>1, AppendChild
  <2>2. record_dynamic_array_sizes_f' => OneForEachChild(lists)'
    <3> SUFFICES ASSUME record_dynamic_array_sizes_f PROVE OneForEachChild(lists)'
      BY <1>0
    <3>1. lists' = Append(lists, list)
      BY <1>1 DEF NewList
    <3> QED
      BY <1>0, <1>1, <3>1, AppendList
  <2> QED
    BY <1>1, <2>1, <2>2 DEF ChildrenInv
<1>2. CASE phase = "collecting" /\ \E cells \in RowsOf(fields) : ReadRow(cells)
  <2>1. PICK cells \in RowsOf(fields) : ReadRow(cells)
    BY <1>2
  <2>2. /\ phase' = "collecting" /\ children' = Append(children, "row")
        /\ texts' = Append(texts, cells) /\ NewList(Counts(cells))
    BY <1>2, <2>1 DEF ReadRow
  <2> QED
    BY <1>1, <1>2, <2>2
<1>3. CASE phase = "collecting" /\ SkipChild
  <2>1. /\ phase' = "collecting" /\ children' = Append(children, "skipped")
        /\ texts' = texts /\ NewList(<<>>)
    BY <1>3 DEF SkipChild
  <2> QED
    BY <1>1, <1>3, <2>1
<1>4. CASE UNCHANGED <<children, texts>>
           /\ (IF phase' = "read" THEN recorded' ELSE lists')
                = (IF phase = "read" THEN recorded ELSE lists)
  <2>1. /\ \A i : InPlace(i)' <=> InPlace(i)
        /\ InPlace(Len(children))' <=> InPlace(Len(children))
        /\ \A ls : OneForEachChild(ls)' <=> OneForEachChild(ls)
    BY <1>0, <1>4, SameChildren
  <2>2. record_dynamic_array_sizes_f
          => OneForEachChild(IF phase = "read" THEN recorded ELSE lists)'
    <3> SUFFICES ASSUME record_dynamic_array_sizes_f
                 PROVE  OneForEachChild(IF phase = "read" THEN recorded ELSE lists)'
      OBVIOUS
    <3>1. PICK ls : ls = IF phase = "read" THEN recorded ELSE lists
      OBVIOUS
    <3>2. OneForEachChild(ls)'
      BY <1>0, <2>1, <3>1 DEF ChildrenInv
    <3>3. (IF phase = "read" THEN recorded ELSE lists)' = ls
      BY <1>4, <3>1
    <3> QED
      BY <3>2, <3>3 DEF OneForEachChild
  <2> QED
    BY <1>0, <1>4, <2>1, <2>2 DEF ChildrenInv
<1>5. CASE (phase = "collecting" /\ Misplaced) \/ EndOfData \/ InsertRow \/ CannotInsert \/ Return
           \/ UNCHANGED vars
  <2>1. /\ UNCHANGED <<children, texts>>
        /\ (IF phase' = "read" THEN recorded' ELSE lists')
             = (IF phase = "read" THEN recorded ELSE lists)
    BY <1>5 DEF Misplaced, Throw, EndOfData, InsertRow, CannotInsert, Return, vars
  <2> QED
    BY <1>4, <2>1
<1> QED
  BY <1>2, <1>3, <1>5 DEF Next, Collect

----------------------------------------------------------------------------
LEMMA NextWidths == Inv /\ [Next]_vars => WidthsInv'
<1> SUFFICES ASSUME Inv, [Next]_vars PROVE WidthsInv'
  OBVIOUS
<1>0. TypesInv /\ WidthsInv /\ fields' = fields /\ Columns' = Columns
  BY FieldsStay, SameFields DEF Inv
<1>1. CASE \E cells \in RowsOf(fields) : ReadRow(cells)
  <2>1. PICK cells \in RowsOf(fields) : ReadRow(cells)
    BY <1>1
  <2> SUFFICES ASSUME NEW c \in Columns
               PROVE  /\ widths'[c] >= 1
                      /\ fields[c].single => widths'[c] = 1
                      /\ ~fields[c].single =>
                           \A i \in DOMAIN texts' : texts'[i][c].count <= widths'[c]
                      /\ widths'[c] > 1 => \E i \in DOMAIN texts' : texts'[i][c].count = widths'[c]
    BY <1>0 DEF WidthsInv
  <2>2. PICK m \in Nat, w \in Nat, k \in Nat : m = Len(texts) /\ w = widths[c] /\ k = cells[c].count
    BY <1>0, CellsType, TextsType DEF TypesInv
  <2>3. /\ DOMAIN texts = 1..m /\ DOMAIN texts' = 1..(m + 1) /\ texts'[m + 1] = cells
        /\ \A i \in 1..m : texts'[i] = texts[i] /\ texts[i][c].count \in Nat
    <3>1. texts \in Seq(RowsOf(fields)) /\ texts' = Append(texts, cells)
      BY <1>0, <2>1 DEF ReadRow, TypesInv
    <3>2. \A i \in DOMAIN texts : texts[i][c].count \in Nat
      BY <1>0, TextsType
    <3> QED
      BY <2>2, <3>1, <3>2
  <2>4. widths'[c] = IF ~fields[c].single /\ k > w THEN k ELSE w
    BY <2>1, <2>2 DEF ReadRow, Widened
  <2>5. /\ w >= 1 /\ (fields[c].single => w = 1)
        /\ ~fields[c].single => \A i \in 1..m : texts[i][c].count <= w
        /\ w > 1 => \E i \in 1..m : texts[i][c].count = w
    BY <1>0, <2>2, <2>3 DEF WidthsInv
  <2>6. /\ m + 1 \in 1..(m + 1) /\ \A i \in 1..(m + 1) : i \in 1..m \/ i = m + 1
        /\ \A i \in 1..m : i \in 1..(m + 1)
    BY <2>2
  <2>7. widths'[c] >= 1 /\ (fields[c].single => widths'[c] = 1)
    BY <2>2, <2>4, <2>5
  <2>8. ASSUME ~fields[c].single, NEW i \in 1..(m + 1)
        PROVE  texts'[i][c].count <= widths'[c]
    <3>1. CASE i \in 1..m
      <4>1. texts'[i][c].count \in Nat /\ texts'[i][c].count <= w
        BY <2>3, <2>5, <2>8, <3>1
      <4> QED
        BY <2>2, <2>4, <4>1
    <3>2. CASE i = m + 1
      BY <2>2, <2>3, <2>4, <2>8, <3>2
    <3> QED
      BY <2>6, <3>1, <3>2
  <2>9. ASSUME widths'[c] > 1
        PROVE  \E i \in 1..(m + 1) : texts'[i][c].count = widths'[c]
    <3>1. CASE ~fields[c].single /\ k > w
      BY <2>2, <2>3, <2>4, <2>6, <3>1
    <3>2. CASE ~(~fields[c].single /\ k > w)
      <4>1. widths'[c] = w
        BY <2>4, <3>2
      <4>2. PICK i \in 1..m : texts[i][c].count = w
        BY <2>5, <2>9, <4>1
      <4> QED
        BY <2>3, <2>6, <4>1, <4>2
    <3> QED
      BY <3>1, <3>2
  <2> QED
    BY <2>3, <2>7, <2>8, <2>9
<1>2. CASE UNCHANGED <<texts, widths>>
  BY <1>0, <1>2 DEF WidthsInv
<1>3. CASE SkipChild \/ Misplaced \/ EndOfData \/ InsertRow \/ CannotInsert \/ Return
           \/ UNCHANGED vars
  BY <1>2, <1>3 DEF SkipChild, Misplaced, Throw, EndOfData, InsertRow, CannotInsert, Return, vars
<1> QED
  BY <1>1, <1>3 DEF Next, Collect

\* The first pass finds width 1 exactly if the column has room for one value only.
LEMMA WidthOne ==
  ASSUME Inv, NEW c \in Columns
  PROVE  widths[c] \in Nat /\ widths[c] >= 1 /\ (widths[c] = 1 <=> OneValued(c))
<1>1. /\ widths[c] \in Nat /\ widths[c] >= 1 /\ \A i \in DOMAIN texts : texts[i][c].count \in Nat
      /\ fields[c].single => widths[c] = 1
      /\ ~fields[c].single => \A i \in DOMAIN texts : texts[i][c].count <= widths[c]
      /\ widths[c] > 1 => \E i \in DOMAIN texts : texts[i][c].count = widths[c]
  BY TextsType DEF Inv, TypesInv, WidthsInv
<1>2. CASE widths[c] = 1
  BY <1>1, <1>2 DEF OneValued
<1>3. CASE widths[c] > 1
  BY <1>1, <1>3 DEF OneValued
<1> QED
  BY <1>1, <1>2, <1>3

----------------------------------------------------------------------------
\* What keeps a row from being inserted.
LEMMA InsertsExactlyIfReadable ==
  ASSUME Inv, phase = "inserting", Len(rows) < Len(texts), NEW c \in Columns,
         NEW i, i = Len(rows) + 1
  PROVE  /\ i \in DOMAIN texts
         /\ Inserts(c, Current[c]) <=> ~Unreadable(i, c)
<1> DEFINE x == texts[i][c]
<1>0. /\ i \in DOMAIN texts /\ i \in DOMAIN children /\ i \in Nat
      /\ texts[i] \in RowsOf(fields)
  <2>1. /\ DOMAIN texts = 1..Len(texts) /\ DOMAIN children = 1..Len(children)
        /\ Len(rows) \in Nat /\ Len(texts) \in Nat /\ Len(children) \in Nat
        /\ \A k \in DOMAIN texts : texts[k] \in RowsOf(fields)
    BY TextsType DEF Inv
  <2>2. Len(texts) <= Len(children)
    BY DEF Inv, ChildrenInv
  <2> QED
    BY <2>1, <2>2
<1>1. Current[c] = x
  BY DEF Current
<1>2. /\ x.count \in Nat /\ x.null \in BOOLEAN /\ x.ok \in BOOLEAN /\ x.padded \in BOOLEAN
      /\ x.count <= 1 \/ x.ok => x.first = x.ok
  BY <1>0, CellsType DEF Inv
<1>3. HasLength(c) <=> ~(fields[c].dyn /\ children[i] = "skipped")
  <2>1. CASE ~fields[c].dyn
    BY <2>1 DEF HasLength
  <2>2. CASE fields[c].dyn
    <3>1. c \in Dynamic /\ record_dynamic_array_sizes_f
      BY <2>2 DEF Dynamic, record_dynamic_array_sizes_f
    <3>2. OneForEachChild(lists)
      BY <3>1 DEF Inv, ChildrenInv
    <3>3. Len(LookedUp) = IF children[i] = "row" THEN Cardinality(Dynamic) ELSE 0
      BY <1>0, <3>2 DEF OneForEachChild, LookedUp
    <3>4. Rank(c) \in 1..Cardinality(Dynamic) /\ Cardinality(Dynamic) \in Nat
      BY <3>1, DynamicFinite DEF Inv
    <3>5. children[i] \in {"row", "skipped"}
      BY <1>0, TextsType DEF Inv
    <3>6. Rank(c) <= Len(LookedUp) <=> children[i] # "skipped"
      BY <3>3, <3>4, <3>5
    <3> QED
      BY <2>2, <3>6 DEF HasLength
  <2> QED
    BY <2>1, <2>2
<1>4. /\ widths[c] = 1 <=> OneValued(c)
      /\ OneValued(c) /\ ~fields[c].single => x.count <= 1
      /\ fields[c].single => OneValued(c)
  BY <1>0, WidthOne DEF OneValued
<1>5. IsNull(x) \/ (x.count # 1 <=> x.count > 1)
  BY <1>2 DEF IsNull
<1>6. Unreadable(i, c) <=>
        ~IsNull(x) /\ \/ fields[c].dyn /\ children[i] = "skipped"
                      \/ fields[c].byte /\ ~(IF fields[c].single THEN x.first ELSE x.ok)
                      \/ /\ ~fields[c].char /\ ~fields[c].byte
                         /\ ~x.ok \/ (OneValued(c) /\ (x.count > 1 \/ x.padded))
  BY DEF Unreadable, x
<1> HIDE DEF x
<1>7. ~(fields[c].char /\ fields[c].byte)
  BY FieldsType DEF Inv
<1>8. ASSUME ~IsNull(x)
      PROVE  Converts(c, x)
               <=> ~(\/ fields[c].byte /\ ~(IF fields[c].single THEN x.first ELSE x.ok)
                     \/ /\ ~fields[c].char /\ ~fields[c].byte
                        /\ ~x.ok \/ (OneValued(c) /\ (x.count > 1 \/ x.padded)))
  <2>1. CASE fields[c].char
    BY <1>7, <2>1, Zenon DEF Converts
  <2>2. CASE fields[c].byte
    <3>1. CASE OneValued(c)
      <4>1. fields[c].single \/ x.first = x.ok
        BY <1>2, <1>4, <3>1, Zenon
      <4>2. x.ok => x.first
        BY <1>2, Zenon
      <4>3. Converts(c, x) <=> x.first
        BY <1>4, <1>7, <2>2, <3>1, <4>2, Zenon DEF Converts
      <4> QED
        BY <2>2, <4>1, <4>3, Zenon
    <3>2. CASE ~OneValued(c)
      BY <1>4, <1>7, <2>2, <3>2, Zenon DEF Converts
    <3> QED
      BY <3>1, <3>2
  <2>3. CASE ~fields[c].char /\ ~fields[c].byte
    BY <1>4, <1>5, <1>8, <2>3, Zenon DEF Converts
  <2> QED
    BY <2>1, <2>2, <2>3
<1>9. Inserts(c, x) <=> ~Unreadable(i, c)
  BY <1>3, <1>6, <1>8, Zenon DEF Inserts
<1> QED
  BY <1>0, <1>1, <1>9

\* While rows are inserted, nothing changes that says which of them can be.
LEMMA SameTexts ==
  ASSUME UNCHANGED <<fields, children, texts, widths>>
  PROVE  /\ Columns' = Columns
         /\ \A c, x : Stored(c, x)' = Stored(c, x)
         /\ \A i, c : Unreadable(i, c)' <=> Unreadable(i, c)
<1>1. Columns' = Columns
  BY SameFields
<1>2. \A c : OneValued(c)' <=> OneValued(c)
  BY DEF OneValued
<1>3. \A c, x : Stored(c, x)' = Stored(c, x)
  BY DEF Stored
<1>4. \A i, c : Unreadable(i, c)' <=> Unreadable(i, c)
  BY <1>2 DEF Unreadable
<1> QED
  BY <1>1, <1>3, <1>4

LEMMA NextRows == Inv /\ [Next]_vars => RowsInv'
<1> SUFFICES ASSUME Inv, [Next]_vars PROVE RowsInv'
  OBVIOUS
<1>0. TypesInv /\ RowsInv /\ fields' = fields /\ Columns' = Columns
  BY FieldsStay, SameFields DEF Inv
<1>1. ASSUME phase = "collecting", \/ \E cells \in RowsOf(fields) : ReadRow(cells)
                                   \/ SkipChild \/ Misplaced \/ EndOfData
      PROVE  RowsInv'
  <2>1. rows' = <<>> /\ phase' # "read" /\ TypesInv'
    BY <1>0, <1>1, NextTypes
       DEF ReadRow, SkipChild, Misplaced, Throw, EndOfData, RowsInv
  <2>2. Len(texts') \in Nat
    BY <2>1 DEF TypesInv
  <2> QED
    BY <2>1, <2>2 DEF RowsInv
<1>2. CASE InsertRow
  <2>1. PICK n \in Nat : n = Len(rows)
    BY <1>0, TextsType
  <2>2. /\ UNCHANGED <<fields, phase, children, texts, widths>> /\ phase = "inserting"
        /\ n < Len(texts) /\ Len(texts) \in Nat
        /\ rows' = Append(rows, StoredRow(n + 1))
    BY <1>0, <1>2, <2>1, TextsType DEF InsertRow, Current, StoredRow
  <2>3. \A i : StoredRow(i)' = StoredRow(i)
    BY <2>2, SameTexts DEF StoredRow
  <2>4. /\ DOMAIN rows = 1..n /\ DOMAIN rows' = 1..(n + 1) /\ Len(rows') = n + 1
        /\ \A i \in 1..n : rows'[i] = rows[i]
        /\ rows'[n + 1] = StoredRow(n + 1)
    BY <1>0, <2>1, <2>2, AppendSequence DEF TypesInv
  <2>5. \A i \in 1..(n + 1) : i \in 1..n \/ i = n + 1
    BY <2>1
  <2>6. \A i \in 1..(n + 1) : rows'[i] = StoredRow(i)
    BY <1>0, <2>4, <2>5 DEF RowsInv
  <2>7. \A i \in DOMAIN rows' : rows'[i] = StoredRow(i)'
    BY <2>3, <2>4, <2>6
  <2>8. Len(rows') <= Len(texts')
    BY <2>1, <2>2, <2>4
  <2> QED
    BY <2>2, <2>7, <2>8 DEF RowsInv
<1>3. CASE CannotInsert \/ Return \/ UNCHANGED vars
  <2>1. /\ UNCHANGED <<fields, children, texts, widths, rows>>
        /\ phase' = "read" => Len(rows) = Len(texts)
        /\ phase' = "collecting" => phase = "collecting"
    BY <1>0, <1>3 DEF CannotInsert, Throw, Return, vars, RowsInv
  <2>2. \A i : StoredRow(i)' = StoredRow(i)
    BY <2>1, SameTexts DEF StoredRow
  <2> QED
    BY <1>0, <2>1, <2>2 DEF RowsInv
<1> QED
  BY <1>1, <1>2, <1>3 DEF Next, Collect, EndOfData

LEMMA NextInv == Inv /\ [Next]_vars => Inv'
  BY NextTypes, NextChildren, NextWidths, NextRows DEF Inv

\* The children, the texts and the lists of lengths stay in step as far as
\* ChildrenInv says, and the widths are those of the longest cells.
THEOREM Invariance == Spec => []Inv
  BY InitInv, NextInv, PTL DEF Spec

----------------------------------------------------------------------------
\* Of a table that is read, the rows before the first skipped child have the
\* lengths their cells have in the file, and there are as many lists of lengths as
\* rows exactly if no child was skipped.
THEOREM LengthsOfRowsInPlace == Spec => []RowsInPlaceHaveTheirLengths
<1>1. Inv => RowsInPlaceHaveTheirLengths
  <2> SUFFICES ASSUME Inv, phase = "read", record_dynamic_array_sizes_f
               PROVE  /\ \A i \in DOMAIN rows : InPlace(i) => recorded[i] = Counts(texts[i])
                      /\ Len(recorded) = Len(rows) <=> InPlace(Len(children))
    BY DEF RowsInPlaceHaveTheirLengths
  <2>1. OneForEachChild(recorded) /\ Len(rows) = Len(texts)
    BY DEF Inv, ChildrenInv, RowsInv
  <2>2. \A i \in DOMAIN rows : i \in DOMAIN children
    <3>1. /\ DOMAIN rows = 1..Len(rows) /\ DOMAIN children = 1..Len(children)
          /\ Len(rows) \in Nat /\ Len(children) \in Nat /\ Len(texts) \in Nat
      BY TextsType DEF Inv
    <3>2. Len(texts) <= Len(children)
      BY DEF Inv, ChildrenInv
    <3> QED
      BY <2>1, <3>1, <3>2
  <2> QED
    BY <2>1, <2>2 DEF Inv, ChildrenInv, OneForEachChild
<1> QED
  BY Invariance, <1>1, PTL

\* Strings and bytes are cut exactly if their column is declared to hold one.
THEOREM StringsCut == Spec => []CutExactlyIfDeclaredSingle
<1>1. Inv => CutExactlyIfDeclaredSingle
  <2> SUFFICES ASSUME Inv, NEW i \in DOMAIN rows, NEW c \in Columns,
                      ~IsNull(texts[i][c])
               PROVE  rows[i][c].count < texts[i][c].count
                        <=> fields[c].single /\ texts[i][c].count > 1
    BY DEF CutExactlyIfDeclaredSingle
  <2>1. i \in DOMAIN texts /\ rows[i] = StoredRow(i)
    <3>1. /\ DOMAIN rows = 1..Len(rows) /\ DOMAIN texts = 1..Len(texts)
          /\ Len(rows) \in Nat /\ Len(texts) \in Nat
      BY TextsType DEF Inv
    <3>2. Len(rows) <= Len(texts) /\ \A k \in DOMAIN rows : rows[k] = StoredRow(k)
      BY DEF Inv, RowsInv
    <3> QED
      BY <3>1, <3>2
  <2>2. PICK n \in Nat, w \in Nat : n = texts[i][c].count /\ w = widths[c]
    BY <2>1, TextsType, WidthOne DEF Inv
  <2>3. rows[i][c].count = IF n > w THEN w ELSE n
    BY <2>1, <2>2 DEF Stored, StoredRow
  <2>4. /\ w >= 1 /\ (fields[c].single => w = 1)
        /\ ~fields[c].single => n <= w
    BY <2>1, <2>2 DEF Inv, WidthsInv
  <2> QED
    BY <2>2, <2>3, <2>4
<1> QED
  BY Invariance, <1>1, PTL

\* A row is refused exactly if it has a cell that is no value of its column, that
\* has whitespace around it where there is room for one value only, or that is of
\* variable length and numbered like a child that is no row.  Of bytes, what is
\* around or behind the first is accepted where there is room for one only.
THEOREM RowsInsertedIfReadable == Spec => []RowsInsertedExactlyIfReadable
<1>1. Init => RowsInsertedExactlyIfReadable
  BY DEF Init, RowsInsertedExactlyIfReadable
<1>2. Inv /\ RowsInsertedExactlyIfReadable /\ [Next]_vars => RowsInsertedExactlyIfReadable'
  <2> SUFFICES ASSUME Inv, RowsInsertedExactlyIfReadable, [Next]_vars
               PROVE  RowsInsertedExactlyIfReadable'
    OBVIOUS
  <2>0. Inv' /\ TypesInv /\ RowsInv /\ fields' = fields
    BY NextInv, FieldsStay DEF Inv
  <2>1. ASSUME rows' = <<>>
        PROVE  RowsInsertedExactlyIfReadable'
    BY <2>1 DEF RowsInsertedExactlyIfReadable
  <2>2. CASE phase = "collecting"
    <3>1. rows' = <<>>
      BY <2>0, <2>2
         DEF RowsInv, Next, Collect, ReadRow, SkipChild, Misplaced, Throw, EndOfData, InsertRow,
             CannotInsert, Return, vars
    <3> QED
      BY <2>1, <3>1
  <2>3. CASE InsertRow
    <3>1. PICK n \in Nat : n = Len(rows) + 1
      BY <2>0, TextsType
    <3>2. /\ UNCHANGED <<fields, children, texts, widths, phase>> /\ phase = "inserting"
          /\ Len(rows) < Len(texts) /\ \A c \in Columns : Inserts(c, Current[c])
      BY <2>3 DEF InsertRow
    <3>3. /\ Columns' = Columns /\ \A i, c : Unreadable(i, c)' <=> Unreadable(i, c)
      BY <3>2, SameTexts
    <3>4. \A c \in Columns : ~Unreadable(n, c)
      BY <3>1, <3>2, InsertsExactlyIfReadable
    <3>5. \A i \in DOMAIN rows' : i \in DOMAIN rows \/ i = n
      BY <2>0, <2>3, <3>1, AppendSequence DEF InsertRow, TypesInv
    <3> QED
      BY <3>2, <3>3, <3>4, <3>5 DEF RowsInsertedExactlyIfReadable
  <2>4. CASE CannotInsert
    <3>1. PICK n \in Nat : n = Len(rows) + 1
      BY <2>0, TextsType
    <3>2. PICK c \in Columns : ~Inserts(c, Current[c])
      BY <2>4 DEF CannotInsert
    <3>3. /\ UNCHANGED <<fields, children, texts, widths, rows>> /\ phase = "inserting"
          /\ Len(rows) < Len(texts)
      BY <2>4 DEF CannotInsert, Throw
    <3>4. /\ Columns' = Columns /\ \A i, d : Unreadable(i, d)' <=> Unreadable(i, d)
      BY <3>3, SameTexts
    <3>5. Unreadable(n, c)
      BY <3>1, <3>2, <3>3, InsertsExactlyIfReadable
    <3> QED
      BY <3>1, <3>3, <3>4, <3>5 DEF RowsInsertedExactlyIfReadable
  <2>5. CASE Return \/ UNCHANGED vars \/ EndOfData
    <3>1. /\ UNCHANGED <<fields, children, texts, widths, rows>>
          /\ phase' = "failed" => phase = "failed"
      BY <2>5 DEF Return, vars, EndOfData
    <3>2. /\ Columns' = Columns /\ \A i, d : Unreadable(i, d)' <=> Unreadable(i, d)
      BY <3>1, SameTexts
    <3> QED
      BY <3>1, <3>2 DEF RowsInsertedExactlyIfReadable
  <2> QED
    BY <2>2, <2>3, <2>4, <2>5 DEF Next, Collect
<1> QED
  BY Invariance, <1>1, <1>2, PTL DEF Spec
=============================================================================
