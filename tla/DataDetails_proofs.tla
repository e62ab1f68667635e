------------------------- MODULE DataDetails_proofs -------------------------
(***************************************************************************)
(* What holds of the row store for every number of dynamic columns, every   *)
(* table and every selection.                                               *)
(*                                                                         *)
(* CursorInv is inductive for both protocols: it keeps the cursors of       *)
(* winnow_rows() inside the table.  RowsInv adds, for the protocol of the   *)
(* command-line program, what is true of the bytes and the lengths at each  *)
(* stage.                                                                  *)
(***************************************************************************)
EXTENDS DataDetails, FiniteSetTheorems, SequenceTheorems, TLAPS

\* The rows still to come lie past the last one read and are not yet written.
CursorInv ==
  /\ TypeOK
  /\ stage = "winnowing" =>
       /\ \A r \in sel : r < Len(data)
       /\ \A r \in todo : write <= r /\ (write > 0 => prev < r)
       /\ write = 0 => prev = 0

LEMMA InitCursor == Init => CursorInv
<1> SUFFICES ASSUME Init PROVE CursorInv
  OBVIOUS
<1> USE DataAssumption, CallsAssumption DEF Init, IdleLoop
<1>1. initial \in Nat
  OBVIOUS
<1>2. sizes \in Seq(Seq(Nat))
  <2>1. \A i \in 1..initial : <<>> \in Seq(Nat)
    OBVIOUS
  <2> QED
    BY <1>1, <2>1
<1>3. IsFiniteSet(sel)
  BY FS_EmptySet
<1> QED
  BY <1>1, <1>2, <1>3 DEF CursorInv, TypeOK

\* std::vector::resize keeps a list of lists of lengths one.
LEMMA ResizeType ==
  ASSUME NEW s \in Seq(Seq(Nat)), NEW n \in Nat
  PROVE  Resize(s, n) \in Seq(Seq(Nat)) /\ Len(Resize(s, n)) = n
<1> <<>> \in Seq(Nat)
  OBVIOUS
<1> QED
  BY DEF Resize

\* append_row() adds one row and touches nothing but the lists of lengths.
LEMMA AppendRowType ==
  ASSUME TypeOK, NEW d \in Data, NEW s \in Seq(Nat), AppendRow(d, s)
  PROVE  /\ data' \in Seq(Data) /\ Len(data') = Len(data) + 1
         /\ sizes' \in Seq(Seq(Nat))
         /\ inserted' \in Nat
         /\ UNCHANGED <<initial, loop>>
<1> DEFINE sl == Slots
<1>1. sl \in Seq(Seq(Nat))
  <2>1. <<>> \in Seq(Nat)
    OBVIOUS
  <2> QED
    BY <2>1 DEF TypeOK, Slots
<1>2. ASSUME inserted < Len(sl)
      PROVE  [sl EXCEPT ![inserted + 1] = @ \o s] \in Seq(Seq(Nat))
  <2>1. inserted + 1 \in 1..Len(sl)
    BY <1>2, <1>1 DEF TypeOK
  <2>2. sl[inserted + 1] \o s \in Seq(Nat)
    <3>1. sl[inserted + 1] \in Seq(Nat)
      BY <1>1, <2>1
    <3> QED
      BY <3>1
  <2> QED
    BY <1>1, <2>1, <2>2
<1>3. data' \in Seq(Data) /\ Len(data') = Len(data) + 1 /\ UNCHANGED <<initial, loop>>
  BY DEF AppendRow, Record, TypeOK
<1>4. sizes' \in Seq(Seq(Nat)) /\ inserted' \in Nat
  <2>1. inserted \in Nat /\ inserted + 1 \in Nat /\ sizes \in Seq(Seq(Nat))
    BY DEF TypeOK
  <2>2. \/ inserted' = inserted + 1 /\ sizes' = sizes
        \/ /\ inserted < Len(sl) /\ inserted' = inserted + 1
           /\ sizes' = [sl EXCEPT ![inserted + 1] = @ \o s]
        \/ sizes' = sl /\ inserted' = inserted
    BY DEF AppendRow, Record
  <2> HIDE DEF sl
  <2> QED
    BY <2>1, <2>2, <1>1, <1>2
<1> QED
  BY <1>3, <1>4

\* The lengths that a row's bytes stand for are a list of lengths.
LEMMA SizesOfType == \A d \in Data : SizesOf[d] \in Seq(Nat) /\ Len(SizesOf[d]) = NumDyn
  BY DataAssumption DEF Lengths

LEMMA SizesOfRowsType ==
  ASSUME NEW rs \in Seq(Data)
  PROVE  /\ SizesOfRows(rs) \in Seq(Seq(Nat))
         /\ GotDynamic => /\ Len(SizesOfRows(rs)) = Len(rs)
                          /\ \A i \in 1..Len(rs) : SizesOfRows(rs)[i] = SizesOf[rs[i]]
<1>1. \A i \in 1..Len(rs) : SizesOf[rs[i]] \in Seq(Nat)
  BY SizesOfType
<1> QED
  BY <1>1 DEF SizesOfRows

\* Steps that leave winnow_rows() alone while it is not at work.
LEMMA IdleCursor ==
  ASSUME CursorInv, stage # "winnowing", UNCHANGED loop,
         stage' \in {"loading", "loaded"},
         data' \in Seq(Data), sizes' \in Seq(Seq(Nat)),
         inserted' \in Nat, initial' \in Nat
  PROVE  CursorInv'
  BY DEF CursorInv, TypeOK, loop

LEMMA LeaveLoopCursor ==
  ASSUME LeaveLoop, data' \in Seq(Data), sizes' \in Seq(Seq(Nat)),
         inserted' \in Nat, initial' \in Nat
  PROVE  CursorInv'
<1>1. IsFiniteSet(sel')
  BY FS_EmptySet DEF LeaveLoop
<1> QED
  BY <1>1 DEF CursorInv, TypeOK, LeaveLoop

LEMMA BeginWinnowCursor ==
  ASSUME CursorInv, NEW S \in Selections, BeginWinnow(S)
  PROVE  CursorInv'
<1>1. S \subseteq Nat /\ IsFiniteSet(S) /\ S # {}
  BY SelectionsAssumption
<1>2. PICK r \in S : r < Len(data)
  BY <1>1 DEF BeginWinnow
<1>3. 0 < Len(data)
  BY <1>1, <1>2 DEF CursorInv, TypeOK
<1> QED
  BY <1>1, <1>3 DEF CursorInv, TypeOK, BeginWinnow

\* read_ptr never overtakes the row being looked at, so copying a row changes
\* no type, whatever the selection.
LEMMA MoveRowType ==
  ASSUME CursorInv, NEW r \in todo, MoveRow(r)
  PROVE  /\ Advance(r) \in Nat /\ Advance(r) <= r
         /\ write + 1 \in 1..Len(data) /\ r + 1 \in 1..Len(data)
         /\ data' \in Seq(Data) /\ Len(data') = Len(data)
<1>0. stage = "winnowing" /\ r > write
  BY DEF MoveRow
<1>1. /\ r \in Nat /\ r < Len(data) /\ write < r /\ prev <= r
      /\ read \in Nat /\ prev \in Nat /\ write \in Nat /\ read <= prev
      /\ Len(data) \in Nat
  <2>1. /\ r \in Nat /\ r < Len(data) /\ write \in Nat /\ prev \in Nat
        /\ read \in Nat /\ read <= prev /\ (write > 0 => prev < r) /\ (write = 0 => prev = 0)
    BY <1>0 DEF CursorInv, TypeOK
  <2>2. Len(data) \in Nat
    BY DEF CursorInv, TypeOK
  <2> QED
    BY <1>0, <2>1, <2>2
<1>2. Advance(r) \in Nat /\ Advance(r) <= r
  BY <1>1 DEF Advance
<1>3. write + 1 \in 1..Len(data) /\ r + 1 \in 1..Len(data) /\ Advance(r) + 1 \in 1..Len(data)
  BY <1>1, <1>2
<1>4. data \in Seq(Data) /\ data[Advance(r) + 1] \in Data
  BY <1>3 DEF CursorInv, TypeOK
<1>5. data' = [data EXCEPT ![write + 1] = data[Advance(r) + 1]]
  BY DEF MoveRow
<1> QED
  BY <1>2, <1>3, <1>4, <1>5

\* What an iteration does to the cursors, given what it does to the rows.
LEMMA IterationCursor ==
  ASSUME CursorInv, NEW r \in todo, IsNext(r), stage = "winnowing", write <= r,
         data' \in Seq(Data), Len(data') = Len(data), sizes' \in Seq(Seq(Nat)),
         read' \in Nat, read' <= r,
         write' = write + 1, prev' = r, todo' = todo \ {r},
         kept' = Append(kept, r),
         UNCHANGED <<inserted, initial, stage, sel, before>>
  PROVE  CursorInv'
<1>1. r \in Nat /\ r < Len(data) /\ write \in Nat /\ Len(data) \in Nat
  BY DEF CursorInv, TypeOK
<1>2. \A x \in todo' : x \in Nat /\ r < x
  BY <1>1 DEF CursorInv, TypeOK, IsNext
<1>3. kept' \in Seq(Nat)
  BY <1>1 DEF CursorInv, TypeOK
<1>4. TypeOK'
  BY <1>1, <1>3 DEF CursorInv, TypeOK
<1> QED
  BY <1>1, <1>2, <1>4 DEF CursorInv, TypeOK

LEMMA SwapType ==
  ASSUME NEW s \in Seq(Seq(Nat)), NEW i \in 1..Len(s), NEW j \in 1..Len(s), i # j,
         NEW t, t = [s EXCEPT ![i] = s[j], ![j] = s[i]]
  PROVE  /\ t \in Seq(Seq(Nat)) /\ Len(t) = Len(s)
         /\ t[i] = s[j] /\ t[j] = s[i]
         /\ \A k \in 1..Len(s) : k # i /\ k # j => t[k] = s[k]
<1>1. s[i] \in Seq(Nat) /\ s[j] \in Seq(Nat)
  OBVIOUS
<1> QED
  BY <1>1

LEMMA WinnowCursor == CursorInv /\ WinnowStep => CursorInv'
<1> SUFFICES ASSUME CursorInv, WinnowStep PROVE CursorInv'
  OBVIOUS
<1>1. ASSUME NEW r \in todo, WinnowInPlace(r) PROVE CursorInv'
  <2>1. read <= prev /\ prev <= r /\ read \in Nat /\ prev \in Nat /\ r \in Nat
    BY <1>1 DEF CursorInv, TypeOK, WinnowInPlace, Retained
  <2>2. read' \in Nat /\ read' <= r
    BY <1>1, <2>1 DEF WinnowInPlace, Retained
  <2> QED
    BY <1>1, <2>1, <2>2, IterationCursor DEF WinnowInPlace, Retained, CursorInv, TypeOK
<1>2. ASSUME NEW r \in todo, WinnowMove(r) PROVE CursorInv'
  <2>1. MoveRow(r)
    BY <1>2 DEF WinnowMove
  <2>2. sizes' \in Seq(Seq(Nat))
    <3>1. CASE GotDynamic
      <4>1. r + 1 \in 1..Len(sizes) /\ write + 1 \in 1..Len(sizes) /\ write + 1 # r + 1
        <5>1. r < Len(sizes) /\ r > write /\ Len(sizes) \in Nat
          BY <1>2, <2>1, <3>1 DEF WinnowMove, MoveRow, CursorInv, TypeOK
        <5>2. r \in Nat /\ write \in Nat
          BY DEF CursorInv, TypeOK
        <5> QED
          BY <5>1, <5>2
      <4> QED
        BY <1>2, <3>1, <4>1, SwapType DEF WinnowMove, CursorInv, TypeOK
    <3>2. CASE ~GotDynamic
      BY <1>2, <3>2 DEF WinnowMove, CursorInv, TypeOK
    <3> QED
      BY <3>1, <3>2
  <2>3. write <= r /\ IsNext(r) /\ stage = "winnowing"
    BY <2>1 DEF CursorInv, MoveRow
  <2> QED
    BY <1>2, <2>1, <2>2, <2>3, MoveRowType, IterationCursor DEF WinnowMove, Retained
<1>3. ASSUME NEW r \in todo, WinnowThrows(r) PROVE CursorInv'
  BY <1>3, MoveRowType, LeaveLoopCursor DEF WinnowThrows, CursorInv, TypeOK
<1>4. ASSUME EndWinnow PROVE CursorInv'
  <2>1. Cardinality(sel) \in Nat
    BY FS_CardinalityType DEF CursorInv, TypeOK
  <2>2. sizes' \in Seq(Seq(Nat))
    BY <1>4, <2>1, ResizeType DEF EndWinnow, CursorInv, TypeOK
  <2>3. data' \in Seq(Data)
    BY <1>4 DEF EndWinnow, CursorInv, TypeOK
  <2> QED
    BY <1>4, <2>2, <2>3, LeaveLoopCursor DEF EndWinnow, CursorInv, TypeOK
<1> QED
  BY <1>1, <1>2, <1>3, <1>4 DEF WinnowStep

LEMMA AppendRowCursor ==
  ASSUME CursorInv, stage # "winnowing", NEW d \in Data, AppendRow(d, SizesOf[d]), UNCHANGED stage
  PROVE  CursorInv'
<1>1. SizesOf[d] \in Seq(Nat)
  BY SizesOfType
<1>2. stage' \in {"loading", "loaded"} /\ initial' \in Nat
  BY AppendRowType, <1>1 DEF CursorInv, TypeOK
<1> QED
  BY <1>1, <1>2, AppendRowType, IdleCursor DEF CursorInv

LEMMA AppendRowsCursor ==
  ASSUME CursorInv, stage # "winnowing", NEW o \in Operands, AppendRows(o), UNCHANGED stage
  PROVE  CursorInv'
<1>1. o.data \in Seq(Data) /\ o.sizes \in Seq(Seq(Nat))
  BY CallsAssumption
<1>2. data' \in Seq(Data) /\ sizes' \in Seq(Seq(Nat))
  BY <1>1 DEF AppendRows, CursorInv, TypeOK
<1>3. inserted' \in Nat /\ initial' \in Nat /\ stage' \in {"loading", "loaded"} /\ UNCHANGED loop
  BY DEF AppendRows, CursorInv, TypeOK
<1> QED
  BY <1>2, <1>3, IdleCursor

LEMMA AdjustNumRowsCursor ==
  ASSUME CursorInv, stage # "winnowing", NEW n \in 0..MaxRows, AdjustNumRows(n), UNCHANGED stage
  PROVE  CursorInv'
<1>1. n \in Nat
  BY CallsAssumption
<1>2. data' \in Seq(Data)
  BY <1>1, DataAssumption DEF AdjustNumRows, CursorInv, TypeOK
<1>3. sizes' \in Seq(Seq(Nat))
  BY <1>1, ResizeType DEF AdjustNumRows, CursorInv, TypeOK
<1>4. inserted' \in Nat /\ initial' \in Nat /\ stage' \in {"loading", "loaded"} /\ UNCHANGED loop
  BY DEF AdjustNumRows, CursorInv, TypeOK
<1> QED
  BY <1>2, <1>3, <1>4, IdleCursor

LEMMA WholeType ==
  ASSUME NEW rs \in Wholes
  PROVE  rs \in Seq(Data)
  BY CallsAssumption DEF Wholes

LEMMA ApiCursor == CursorInv /\ [ApiNext]_vars => CursorInv'
<1> SUFFICES ASSUME CursorInv, [ApiNext]_vars PROVE CursorInv'
  OBVIOUS
<1>1. ASSUME stage # "winnowing", NEW d \in Data, AppendRow(d, SizesOf[d]), UNCHANGED stage
      PROVE  CursorInv'
  BY <1>1, AppendRowCursor
<1>2. ASSUME stage # "winnowing", NEW o \in Operands, AppendRows(o), UNCHANGED stage
      PROVE  CursorInv'
  BY <1>2, AppendRowsCursor
<1>3. ASSUME stage # "winnowing", NEW n \in 0..MaxRows, AdjustNumRows(n), UNCHANGED stage
      PROVE  CursorInv'
  BY <1>3, AdjustNumRowsCursor
<1>4. ASSUME NEW S \in Selections, BeginWinnow(S) PROVE CursorInv'
  BY <1>4, BeginWinnowCursor
<1>5. ASSUME UNCHANGED vars PROVE CursorInv'
  BY <1>5 DEF CursorInv, TypeOK, vars, loop
<1> QED
  BY <1>1, <1>2, <1>3, <1>4, <1>5, WinnowCursor DEF ApiNext

LEMMA CliCursor == CursorInv /\ [CliNext]_vars => CursorInv'
<1> SUFFICES ASSUME CursorInv, [CliNext]_vars PROVE CursorInv'
  OBVIOUS
<1>1. ASSUME NEW d \in Data, ReadRow(d) PROVE CursorInv'
  BY <1>1, AppendRowCursor DEF ReadRow
<1>2. ASSUME HandOver PROVE CursorInv'
  BY <1>2, IdleCursor DEF HandOver, CursorInv, TypeOK
<1>3. ASSUME NEW rs \in Wholes, ReadWhole(rs) PROVE CursorInv'
  <2>1. data' \in Seq(Data) /\ sizes' \in Seq(Seq(Nat))
    BY <1>3, WholeType, SizesOfRowsType DEF ReadWhole
  <2> QED
    BY <1>3, <2>1, IdleCursor DEF ReadWhole, CursorInv, TypeOK
<1>4. ASSUME ShrinkToFit PROVE CursorInv'
  <2>1. data' \in Seq(Data) /\ sizes' \in Seq(Seq(Nat)) /\ initial' \in Nat
    BY <1>4, SizesOfRowsType DEF ShrinkToFit, CursorInv, TypeOK
  <2> QED
    BY <1>4, <2>1, IdleCursor DEF ShrinkToFit
<1>5. ASSUME NEW o \in Operands, stage = "loaded", AppendRows(o), UNCHANGED stage
      PROVE  CursorInv'
  BY <1>5, AppendRowsCursor
<1>6. ASSUME NEW S \in Selections, BeginWinnow(S) PROVE CursorInv'
  BY <1>6, BeginWinnowCursor
<1>7. ASSUME UNCHANGED vars PROVE CursorInv'
  BY <1>7 DEF CursorInv, TypeOK, vars, loop
<1> QED
  BY <1>1, <1>2, <1>3, <1>4, <1>5, <1>6, <1>7, WinnowCursor DEF CliNext

\* Whatever calls a client makes and whatever rows it selects, the row store
\* keeps its types and winnow_rows() reads and writes inside data_.
THEOREM ApiTypeOK == ApiSpec => []TypeOK
<1>1. CursorInv => TypeOK
  BY DEF CursorInv
<1> QED
  BY InitCursor, ApiCursor, <1>1, PTL DEF ApiSpec

\* The same for the protocol of the command-line program.
THEOREM CliTypeOK == CliSpec => []TypeOK
<1>1. CursorInv => TypeOK
  BY DEF CursorInv
<1> QED
  BY InitCursor, CliCursor, <1>1, PTL DEF CliSpec

----------------------------------------------------------------------------
(***************************************************************************)
(* The bytes and the lengths, for tables that no header line was counted    *)
(* for, selections that are safe, and operands whose rows have their own    *)
(* lengths.                                                                *)
(***************************************************************************)
OrdinaryCalls ==
  /\ ~HeaderCounted
  /\ \A S \in Selections : SafeSelection(S)
  /\ \A o \in Operands : o.sizes = SizesOfRows(o.data)

\* While a reader appends rows, the lists of lengths init() made are empty.
LoadingRows ==
  /\ inserted = Len(data)
  /\ GotDynamic =>
       /\ Len(sizes) = IF initial > inserted THEN initial ELSE inserted
       /\ \A i \in 1..Len(sizes) :
            sizes[i] = IF i <= Len(data) THEN SizesOf[data[i]] ELSE <<>>

LoadedRows ==
  GotDynamic =>
    /\ Len(sizes) = Len(data)
    /\ \A i \in 1..Len(data) : sizes[i] = SizesOf[data[i]]

\* The selections without a gap never copy; for the others read_ptr is at the
\* last selected row, which is past the rows written as soon as there are two.
CursorsAgree ==
  \/ read = 0 /\ \E m \in Nat : sel = 0..m /\ todo = write..m
  \/ read = prev /\ (write <= prev \/ (prev = 0 /\ write = 1 /\ 1 \notin sel))

RetainedSoFar ==
  /\ Len(kept) = write
  /\ \A k \in 1..write : kept[k] \in sel \ todo
  /\ \A r \in sel \ todo : \E k \in 1..write : kept[k] = r
  /\ \A j, k \in 1..write : j < k => kept[j] < kept[k]
  /\ \A k \in 1..write : data[k] = before[kept[k] + 1]

WinnowingRows ==
  /\ Len(before) = Len(data)
  /\ write + Cardinality(todo) = Cardinality(sel)
  /\ write = 0 => todo = sel
  /\ SafeSelection(sel)
  /\ CursorsAgree
  /\ RetainedSoFar
  /\ \A k \in 1..write : kept[k] <= prev
  /\ \A i \in 1..Len(data) : i > write => data[i] = before[i]
  /\ GotDynamic =>
       /\ Len(sizes) = Len(data)
       /\ \A i \in 1..write : sizes[i] = SizesOf[data[i]]
       /\ \A i \in 1..Len(data) : write = 0 \/ i > prev + 1 => sizes[i] = SizesOf[before[i]]

RowsInv ==
  /\ CursorInv
  /\ stage = "loading" => LoadingRows
  /\ stage = "loaded" => LoadedRows
  /\ stage = "winnowing" => WinnowingRows

LEMMA ReadRowRows ==
  ASSUME RowsInv, NEW d \in Data, ReadRow(d)
  PROVE  LoadingRows'
<1>1. /\ stage = "loading" /\ LoadingRows /\ TypeOK
      /\ AppendRow(d, SizesOf[d])
  BY DEF RowsInv, CursorInv, ReadRow
<1>2. /\ data \in Seq(Data) /\ sizes \in Seq(Seq(Nat)) /\ initial \in Nat /\ inserted \in Nat
      /\ inserted = Len(data) /\ initial' = initial
  BY <1>1 DEF TypeOK, LoadingRows, AppendRow
<1>3. /\ data' = Append(data, d) /\ Len(data') = Len(data) + 1
      /\ \A i \in 1..Len(data) : data'[i] = data[i]
      /\ data'[Len(data) + 1] = d
  BY <1>1, <1>2 DEF AppendRow
<1>4. SizesOf[d] \in Seq(Nat)
  BY SizesOfType
<1>5. CASE ~GotDynamic
  BY <1>1, <1>2, <1>3, <1>5 DEF AppendRow, LoadingRows
<1>6. CASE GotDynamic
  <2> DEFINE sl == Slots
  <2>1. /\ Len(sizes) = IF initial > inserted THEN initial ELSE inserted
        /\ \A i \in 1..Len(sizes) :
             sizes[i] = IF i <= Len(data) THEN SizesOf[data[i]] ELSE <<>>
    BY <1>1, <1>6 DEF LoadingRows
  <2>2. /\ sl \in Seq(Seq(Nat))
        /\ Len(sl) = IF initial > inserted + 1 THEN initial ELSE inserted + 1
        /\ \A i \in 1..Len(sl) :
             sl[i] = IF i <= Len(data) THEN SizesOf[data[i]] ELSE <<>>
    <3>1. CASE inserted >= initial
      <4>1. sl = Append(sizes, <<>>)
        BY <3>1 DEF Slots
      <4>2. Len(sizes) = Len(data) /\ inserted = Len(data)
        BY <1>2, <2>1, <3>1
      <4>3. /\ sl \in Seq(Seq(Nat)) /\ Len(sl) = Len(sizes) + 1 /\ sl[Len(sizes) + 1] = <<>>
            /\ \A i \in 1..Len(sizes) : sl[i] = sizes[i]
        <5> DEFINE none == <<>>
                   L == Seq(Nat)
        <5>1. sizes \in Seq(L) /\ none \in L /\ sl = Append(sizes, none)
          BY <1>2, <4>1
        <5> HIDE DEF sl, none, L
        <5>2. /\ sl \in Seq(L) /\ Len(sl) = Len(sizes) + 1 /\ sl[Len(sizes) + 1] = none
              /\ \A i \in 1..Len(sizes) : sl[i] = sizes[i]
          BY <5>1, AppendProperties
        <5> QED
          BY <5>2 DEF none, L
      <4> HIDE DEF sl
      <4>4. Len(sl) = IF initial > inserted + 1 THEN initial ELSE inserted + 1
        BY <1>2, <3>1, <4>2, <4>3
      <4>5. ASSUME NEW i \in 1..Len(sl)
            PROVE  sl[i] = IF i <= Len(data) THEN SizesOf[data[i]] ELSE <<>>
        <5>1. CASE i = Len(sizes) + 1
          BY <1>2, <4>2, <4>3, <5>1
        <5>2. CASE i # Len(sizes) + 1
          <6>1. i \in 1..Len(sizes)
            BY <1>2, <4>3, <5>2
          <6> QED
            BY <2>1, <4>3, <6>1
        <5> QED
          BY <5>1, <5>2
      <4> QED
        BY <4>3, <4>4, <4>5
    <3>2. CASE ~(inserted >= initial)
      <4>1. sl = sizes
        BY <3>2 DEF Slots
      <4> HIDE DEF sl
      <4> QED
        BY <1>2, <2>1, <3>2, <4>1
    <3> QED
      BY <3>1, <3>2
  <2>3. inserted + 1 \in 1..Len(sl) /\ inserted < Len(sl)
    BY <1>2, <2>2
  <2>4. sl[inserted + 1] \o SizesOf[d] = SizesOf[d]
    <3>1. sl[inserted + 1] = <<>>
      BY <1>2, <2>2, <2>3
    <3> QED
      BY <3>1, <1>4
  <2>5. inserted' = inserted + 1 /\ sizes' = [sl EXCEPT ![inserted + 1] = SizesOf[d]]
    <3>1. ~(inserted >= Len(sl))
      BY <1>2, <2>2, <2>3
    <3>2. /\ inserted' = inserted + 1
          /\ sizes' = [sl EXCEPT ![inserted + 1] = sl[inserted + 1] \o SizesOf[d]]
      BY <1>1, <1>6, <3>1 DEF AppendRow, Record
    <3> QED
      BY <2>4, <3>2
  <2>6. /\ Len(sizes') = Len(sl)
        /\ \A i \in 1..Len(sl) :
             sizes'[i] = IF i <= Len(data) + 1 THEN SizesOf[data'[i]] ELSE <<>>
    <3> HIDE DEF sl
    <3>1. Len(sizes') = Len(sl) /\ sizes'[inserted + 1] = SizesOf[d]
      BY <1>4, <2>2, <2>3, <2>5
    <3>2. \A i \in 1..Len(sl) : i # inserted + 1 => sizes'[i] = sl[i]
      BY <2>2, <2>3, <2>5
    <3>3. ASSUME NEW i \in 1..Len(sl)
          PROVE  sizes'[i] = IF i <= Len(data) + 1 THEN SizesOf[data'[i]] ELSE <<>>
      <4>1. CASE i = inserted + 1
        BY <1>2, <1>3, <3>1, <4>1
      <4>2. CASE i # inserted + 1
        <5>1. sizes'[i] = IF i <= Len(data) THEN SizesOf[data[i]] ELSE <<>>
          BY <2>2, <3>2, <4>2
        <5>2. i <= Len(data) <=> i <= Len(data) + 1
          BY <1>2, <2>2, <4>2
        <5>3. i <= Len(data) => data'[i] = data[i]
          BY <1>2, <1>3, <2>2
        <5> QED
          BY <5>1, <5>2, <5>3
      <4> QED
        BY <4>1, <4>2
    <3> QED
      BY <3>1, <3>3
  <2> HIDE DEF sl
  <2>7. inserted' = Len(data')
    BY <1>2, <1>3, <2>5
  <2>8. Len(sizes') = IF initial' > inserted' THEN initial' ELSE inserted'
    BY <1>2, <2>2, <2>5, <2>6
  <2>9. \A i \in 1..Len(sizes') :
          sizes'[i] = IF i <= Len(data') THEN SizesOf[data'[i]] ELSE <<>>
    BY <1>3, <2>6
  <2> QED
    BY <2>7, <2>8, <2>9 DEF LoadingRows
<1> QED
  BY <1>5, <1>6

LEMMA HandOverRows ==
  ASSUME RowsInv, ~HeaderCounted, HandOver
  PROVE  LoadedRows'
  BY DEF RowsInv, CursorInv, TypeOK, HandOver, LoadingRows, LoadedRows

LEMMA ReadWholeRows ==
  ASSUME NEW rs \in Wholes, ReadWhole(rs)
  PROVE  LoadedRows'
  BY WholeType, SizesOfRowsType DEF ReadWhole, LoadedRows

LEMMA ShrinkToFitRows ==
  ASSUME RowsInv, ShrinkToFit
  PROVE  LoadedRows'
<1>1. data \in Seq(Data)
  BY DEF RowsInv, CursorInv, TypeOK
<1> QED
  BY <1>1, SizesOfRowsType DEF ShrinkToFit, LoadedRows

LEMMA AppendRowsRows ==
  ASSUME RowsInv, stage = "loaded", NEW o \in Operands, o.sizes = SizesOfRows(o.data),
         AppendRows(o)
  PROVE  LoadedRows'
<1>1. /\ data \in Seq(Data) /\ sizes \in Seq(Seq(Nat)) /\ o.data \in Seq(Data)
      /\ LoadedRows
  BY CallsAssumption DEF RowsInv, CursorInv, TypeOK
<1>2. data' = data \o o.data
  BY DEF AppendRows
<1>3. CASE GotDynamic
  <2>1. /\ o.sizes \in Seq(Seq(Nat)) /\ Len(o.sizes) = Len(o.data)
        /\ \A i \in 1..Len(o.data) : o.sizes[i] = SizesOf[o.data[i]]
    BY <1>1, <1>3, SizesOfRowsType
  <2>2. sizes' = sizes \o o.sizes
    BY <1>3 DEF AppendRows
  <2>3. /\ Len(sizes) = Len(data)
        /\ \A i \in 1..Len(data) : sizes[i] = SizesOf[data[i]]
    BY <1>1, <1>3 DEF LoadedRows
  <2>4. Len(sizes') = Len(data') /\ Len(data') = Len(data) + Len(o.data)
    <3>1. Len(data') = Len(data) + Len(o.data)
      BY <1>1, <1>2
    <3>2. Len(sizes') = Len(sizes) + Len(o.sizes)
      BY <1>1, <2>1, <2>2, ConcatProperties, Zenon
    <3> QED
      BY <2>1, <2>3, <3>1, <3>2
  <2>5. ASSUME NEW i \in 1..Len(data') PROVE sizes'[i] = SizesOf[data'[i]]
    <3>1. CASE i <= Len(data)
      BY <1>1, <1>2, <2>1, <2>2, <2>3, <2>4, <3>1
    <3>2. CASE i > Len(data)
      <4>1. i - Len(data) \in 1..Len(o.data)
        BY <1>1, <2>4, <3>2
      <4>2. data'[i] = o.data[i - Len(data)] /\ sizes'[i] = o.sizes[i - Len(data)]
        BY <1>1, <1>2, <2>1, <2>2, <2>3, <2>4, <3>2, SMTT(30)
      <4> QED
        BY <2>1, <4>1, <4>2
    <3> QED
      BY <1>1, <2>4, <3>1, <3>2
  <2> QED
    BY <2>4, <2>5 DEF LoadedRows
<1> QED
  BY <1>3 DEF LoadedRows

LEMMA BeginWinnowRows ==
  ASSUME RowsInv, stage = "loaded", NEW S \in Selections, SafeSelection(S), BeginWinnow(S)
  PROVE  WinnowingRows'
<1>1. data \in Seq(Data) /\ LoadedRows /\ IsFiniteSet(S)
  BY SelectionsAssumption DEF RowsInv, CursorInv, TypeOK
<1>2. Cardinality(S) \in Nat
  BY <1>1, FS_CardinalityType
<1>3. CursorsAgree'
  BY DEF BeginWinnow, CursorsAgree
<1>4. RetainedSoFar'
  BY DEF BeginWinnow, RetainedSoFar
<1>5. SafeSelection(sel)'
  BY DEF BeginWinnow, SafeSelection
<1> QED
  BY <1>1, <1>2, <1>3, <1>4, <1>5 DEF BeginWinnow, WinnowingRows, LoadedRows

\* Where an iteration of winnow_rows() reads: at the row it looks at.
LEMMA ReadsTheRowItLooksAt ==
  ASSUME RowsInv, NEW r \in todo, MoveRow(r)
  PROVE  Advance(r) = r /\ ~(\E m \in Nat : sel = 0..m /\ todo = write..m)
<1>1. /\ stage = "winnowing" /\ IsNext(r) /\ r > write /\ CursorsAgree
      /\ r \in Nat /\ write \in Nat /\ prev \in Nat /\ todo \subseteq Nat
  BY DEF MoveRow, RowsInv, CursorInv, TypeOK, WinnowingRows
<1>2. ASSUME NEW m \in Nat, todo = write..m PROVE FALSE
  <2>1. write \in todo
    BY <1>1, <1>2
  <2> QED
    BY <1>1, <2>1 DEF IsNext
<1>3. read = prev
  BY <1>1, <1>2 DEF CursorsAgree
<1> QED
  BY <1>1, <1>2, <1>3 DEF Advance

\* What one iteration that puts row r at position write does to the rows.
LEMMA IterationRows ==
  ASSUME RowsInv, stage = "winnowing", NEW r \in todo, IsNext(r), write <= r,
         write' = write + 1, prev' = r, todo' = todo \ {r}, kept' = Append(kept, r),
         UNCHANGED <<sel, before>>,
         Len(data') = Len(data),
         data'[write + 1] = before[r + 1],
         \A i \in 1..Len(data) : i # write + 1 => data'[i] = data[i],
         GotDynamic =>
           /\ Len(sizes') = Len(sizes)
           /\ sizes'[write + 1] = SizesOf[before[r + 1]]
           /\ \A i \in 1..Len(sizes) : i <= write \/ i > r + 1 => sizes'[i] = sizes[i],
         CursorsAgree'
  PROVE  WinnowingRows'
<1>1. /\ WinnowingRows /\ TypeOK
      /\ r \in Nat /\ r < Len(data) /\ r \in sel
      /\ write \in Nat /\ prev \in Nat /\ (write > 0 => prev < r) /\ (write = 0 => prev = 0)
      /\ Len(data) \in Nat /\ IsFiniteSet(sel) /\ todo \subseteq sel
  BY DEF RowsInv, CursorInv, TypeOK
<1>2. Cardinality(todo') = Cardinality(todo) - 1 /\ Cardinality(todo) \in Nat
  <2>1. IsFiniteSet(todo)
    BY <1>1, FS_Subset
  <2> QED
    BY <2>1, FS_RemoveElement, FS_CardinalityType
<1>3. write' + Cardinality(todo') = Cardinality(sel')
  BY <1>1, <1>2 DEF WinnowingRows
<1>4. /\ kept \in Seq(Nat) /\ Len(kept) = write
      /\ kept'[write + 1] = r /\ \A k \in 1..write : kept'[k] = kept[k]
      /\ Len(kept') = write + 1
  BY <1>1, SMTT(30) DEF WinnowingRows, RetainedSoFar, TypeOK
<1>5. \A k \in 1..write : kept[k] <= prev /\ kept[k] < r
  BY <1>1, <1>4 DEF WinnowingRows
<1>6. RetainedSoFar'
  <2>1. \A k \in 1..write' : kept'[k] \in sel' \ todo'
    <3>1. \A k \in 1..write : kept[k] \in sel \ todo
      BY <1>1 DEF WinnowingRows, RetainedSoFar
    <3> QED
      BY <1>1, <1>4, <3>1
  <2>2. \A x \in sel' \ todo' : \E k \in 1..write' : kept'[k] = x
    <3> SUFFICES ASSUME NEW x \in sel \ (todo \ {r}) PROVE \E k \in 1..write' : kept'[k] = x
      OBVIOUS
    <3>1. CASE x = r
      BY <1>1, <1>4, <3>1
    <3>2. CASE x # r
      <4>1. PICK k \in 1..write : kept[k] = x
        BY <1>1, <3>2 DEF WinnowingRows, RetainedSoFar
      <4> QED
        BY <1>1, <1>4, <4>1
    <3> QED
      BY <3>1, <3>2
  <2>3. \A j, k \in 1..write' : j < k => kept'[j] < kept'[k]
    <3>1. \A j, k \in 1..write : j < k => kept[j] < kept[k]
      BY <1>1 DEF WinnowingRows, RetainedSoFar
    <3> QED
      BY <1>1, <1>4, <1>5, <3>1
  <2>4. \A k \in 1..write' : data'[k] = before'[kept'[k] + 1]
    <3>1. \A k \in 1..write : data[k] = before[kept[k] + 1]
      BY <1>1 DEF WinnowingRows, RetainedSoFar
    <3>2. \A k \in 1..write : data'[k] = data[k]
      BY <1>1
    <3> QED
      BY <1>1, <1>4, <3>1, <3>2
  <2> QED
    BY <1>4, <2>1, <2>2, <2>3, <2>4 DEF RetainedSoFar
<1>7. \A k \in 1..write' : kept'[k] <= prev'
  BY <1>1, <1>4, <1>5
<1>8. \A i \in 1..Len(data') : i > write' => data'[i] = before'[i]
  BY <1>1 DEF WinnowingRows
<1>9. ASSUME GotDynamic
      PROVE  /\ Len(sizes') = Len(data')
             /\ \A i \in 1..write' : sizes'[i] = SizesOf[data'[i]]
             /\ \A i \in 1..Len(data') : i > prev' + 1 => sizes'[i] = SizesOf[before'[i]]
  <2>1. /\ Len(sizes) = Len(data)
        /\ \A i \in 1..write : sizes[i] = SizesOf[data[i]]
        /\ \A i \in 1..Len(data) : write = 0 \/ i > prev + 1 => sizes[i] = SizesOf[before[i]]
    BY <1>1, <1>9 DEF WinnowingRows
  <2>2. \A i \in 1..write : sizes'[i] = SizesOf[data'[i]]
    BY <1>1, <1>9, <2>1
  <2>3. sizes'[write + 1] = SizesOf[data'[write + 1]]
    BY <1>9
  <2>4. \A i \in 1..write' : sizes'[i] = SizesOf[data'[i]]
    BY <1>1, <2>2, <2>3
  <2>5. \A i \in 1..Len(data') : i > prev' + 1 => sizes'[i] = SizesOf[before'[i]]
    BY <1>1, <1>9, <2>1
  <2> QED
    BY <1>9, <2>1, <2>4, <2>5
<1>10. SafeSelection(sel)' /\ Len(before') = Len(data')
  BY <1>1 DEF WinnowingRows, SafeSelection
<1>11. write' # 0
  BY <1>1
<1> QED
  BY <1>11, <1>3, <1>6, <1>7, <1>8, <1>9, <1>10 DEF WinnowingRows

LEMMA WinnowInPlaceRows ==
  ASSUME RowsInv, NEW r \in todo, WinnowInPlace(r)
  PROVE  WinnowingRows'
<1>1. /\ stage = "winnowing" /\ IsNext(r) /\ r = write /\ r \in Nat
      /\ WinnowingRows /\ r < Len(data) /\ Len(data) \in Nat
      /\ prev \in Nat /\ read \in Nat /\ read <= prev
      /\ (write > 0 => prev < r) /\ (write = 0 => prev = 0)
      /\ r \in sel /\ sel \subseteq Nat /\ todo \subseteq sel
  BY DEF WinnowInPlace, Retained, RowsInv, CursorInv, TypeOK
<1>2. /\ data' = data /\ sizes' = sizes /\ read' = read /\ sel' = sel /\ before' = before
      /\ write' = write + 1 /\ prev' = r /\ todo' = todo \ {r} /\ kept' = Append(kept, r)
  BY DEF WinnowInPlace, Retained
<1>3. /\ data[write + 1] = before[r + 1]
      /\ GotDynamic => sizes[write + 1] = SizesOf[before[r + 1]]
  BY <1>1 DEF WinnowingRows
<1>4. CursorsAgree'
  <2>1. ASSUME read = 0, NEW m \in Nat, sel = 0..m, todo = write..m PROVE CursorsAgree'
    <3>1. todo' = write'..m
      BY <1>1, <1>2, <2>1
    <3> QED
      BY <1>2, <2>1, <3>1 DEF CursorsAgree
  <2>2. ASSUME read = prev, write <= prev \/ (prev = 0 /\ write = 1 /\ 1 \notin sel)
        PROVE  CursorsAgree'
    <3>1. write = 0 /\ prev = 0
      BY <1>1, <2>2
    <3>2. CASE 1 \notin sel
      BY <1>1, <1>2, <2>2, <3>1, <3>2 DEF CursorsAgree
    <3>3. CASE 1 \in sel
      <4>1. PICK m \in sel : sel = 0..m
        BY <1>1, <3>1, <3>3 DEF WinnowingRows, SafeSelection
      <4>2. todo = 0..m /\ m \in Nat
        BY <1>1, <3>1, <4>1 DEF WinnowingRows
      <4>3. todo' = write'..m /\ sel' = 0..m /\ read' = 0
        BY <1>1, <1>2, <2>2, <3>1, <4>1, <4>2
      <4> QED
        BY <4>2, <4>3 DEF CursorsAgree
    <3> QED
      BY <3>2, <3>3
  <2> QED
    BY <1>1, <2>1, <2>2 DEF WinnowingRows, CursorsAgree
<1> QED
  BY <1>1, <1>2, <1>3, <1>4, IterationRows

LEMMA WinnowMoveRows ==
  ASSUME RowsInv, NEW r \in todo, WinnowMove(r)
  PROVE  WinnowingRows'
<1>1. /\ MoveRow(r) /\ stage = "winnowing" /\ IsNext(r) /\ r > write
      /\ read' = Advance(r)
      /\ write' = write + 1 /\ prev' = r /\ todo' = todo \ {r} /\ kept' = Append(kept, r)
      /\ sel' = sel /\ before' = before
  BY DEF WinnowMove, Retained, MoveRow
<1>2. Advance(r) = r
  BY <1>1, ReadsTheRowItLooksAt
<1>3. /\ WinnowingRows /\ data \in Seq(Data) /\ sizes \in Seq(Seq(Nat)) /\ Len(data) \in Nat
      /\ r \in Nat /\ write \in Nat /\ r < Len(data)
      /\ write + 1 \in 1..Len(data) /\ r + 1 \in 1..Len(data) /\ write + 1 # r + 1
      /\ (write > 0 => prev < r) /\ prev \in Nat
  BY <1>1, MoveRowType DEF RowsInv, CursorInv, TypeOK
<1>4. data[r + 1] = before[r + 1]
  BY <1>1, <1>3 DEF WinnowingRows
<1>5. /\ Len(data') = Len(data)
      /\ data'[write + 1] = before[r + 1]
      /\ \A i \in 1..Len(data) : i # write + 1 => data'[i] = data[i]
  <2>1. data' = [data EXCEPT ![write + 1] = data[r + 1]]
    BY <1>1, <1>2 DEF MoveRow
  <2> QED
    BY <1>3, <1>4, <2>1
<1>6. ASSUME GotDynamic
      PROVE  /\ Len(sizes') = Len(sizes)
             /\ sizes'[write + 1] = SizesOf[before[r + 1]]
             /\ \A i \in 1..Len(sizes) : i <= write \/ i > r + 1 => sizes'[i] = sizes[i]
  <2>1. /\ Len(sizes) = Len(data)
        /\ \A i \in 1..Len(data) : write = 0 \/ i > prev + 1 => sizes[i] = SizesOf[before[i]]
    BY <1>3, <1>6 DEF WinnowingRows
  <2>2. sizes[r + 1] = SizesOf[before[r + 1]]
    BY <1>3, <2>1
  <2>3. sizes' = [sizes EXCEPT ![write + 1] = sizes[r + 1], ![r + 1] = sizes[write + 1]]
    BY <1>6 DEF WinnowMove
  <2>4. /\ Len(sizes') = Len(sizes) /\ sizes'[write + 1] = sizes[r + 1]
        /\ \A k \in 1..Len(sizes) : k # write + 1 /\ k # r + 1 => sizes'[k] = sizes[k]
    <3>1. write + 1 \in 1..Len(sizes) /\ r + 1 \in 1..Len(sizes) /\ sizes \in Seq(Seq(Nat))
      BY <1>3, <2>1
    <3> QED
      BY <1>3, <2>3, <3>1, SwapType
  <2>5. ASSUME NEW k \in 1..Len(sizes), k <= write \/ k > r + 1
        PROVE  k # write + 1 /\ k # r + 1
    <3>1. k \in Nat /\ write \in Nat /\ r \in Nat /\ r > write
      BY <1>1, <1>3, <2>1, <2>5
    <3> QED
      BY <2>5, <3>1
  <2>6. sizes'[write + 1] = SizesOf[before[r + 1]]
    BY <2>2, <2>4
  <2> QED
    BY <2>4, <2>5, <2>6, Zenon
<1>7. CursorsAgree'
  BY <1>1, <1>2, <1>3 DEF CursorsAgree
<1> QED
  BY <1>1, <1>3, <1>5, <1>6, <1>7, IterationRows

LEMMA WinnowNeverThrows ==
  ASSUME RowsInv, NEW r \in todo
  PROVE  ~WinnowThrows(r)
<1> SUFFICES ASSUME WinnowThrows(r) PROVE FALSE
  OBVIOUS
<1>1. stage = "winnowing" /\ GotDynamic /\ r >= Len(sizes)
  BY DEF WinnowThrows, MoveRow
<1>2. r < Len(data) /\ r \in Nat /\ Len(data) \in Nat /\ Len(sizes) = Len(data)
  BY <1>1 DEF RowsInv, CursorInv, TypeOK, WinnowingRows
<1> QED
  BY <1>1, <1>2

LEMMA EndWinnowRows ==
  ASSUME RowsInv, EndWinnow
  PROVE  LoadedRows'
<1>1. /\ stage = "winnowing" /\ todo = {} /\ data' = SubSeq(data, 1, write)
      /\ data \in Seq(Data) /\ write \in Nat /\ write <= Len(data) /\ Len(data) \in Nat
      /\ WinnowingRows /\ IsFiniteSet(sel) /\ sizes \in Seq(Seq(Nat))
  BY DEF EndWinnow, RowsInv, CursorInv, TypeOK
<1>2. Cardinality(sel) = write
  BY <1>1, FS_EmptySet DEF WinnowingRows
<1>3. Len(data') = write /\ \A i \in 1..write : data'[i] = data[i]
  BY <1>1
<1>4. CASE GotDynamic
  <2>1. sizes' = Resize(sizes, write)
    BY <1>2, <1>4 DEF EndWinnow
  <2>2. /\ Len(sizes) = Len(data)
        /\ \A i \in 1..write : sizes[i] = SizesOf[data[i]]
    BY <1>1, <1>4 DEF WinnowingRows
  <2>3. Len(sizes') = write
    BY <1>1, <2>1, ResizeType
  <2>4. \A i \in 1..write : sizes'[i] = sizes[i]
    BY <1>1, <2>1, <2>2 DEF Resize
  <2> QED
    BY <1>3, <2>2, <2>3, <2>4 DEF LoadedRows
<1> QED
  BY <1>4 DEF LoadedRows

LEMMA InitRows ==
  ASSUME OrdinaryCalls, Init
  PROVE  RowsInv
<1>1. initial \in Nat
  BY CallsAssumption DEF Init
<1>2. CASE GotDynamic
  BY <1>1, <1>2, InitCursor DEF Init, RowsInv, LoadingRows
<1>3. CASE ~GotDynamic
  BY <1>1, <1>3, InitCursor DEF Init, RowsInv, LoadingRows
<1> QED
  BY <1>2, <1>3

LEMMA WinnowRows ==
  ASSUME RowsInv, CursorInv', WinnowStep
  PROVE  RowsInv'
<1>1. ASSUME NEW r \in todo, WinnowInPlace(r) PROVE RowsInv'
  <2>1. stage' = "winnowing"
    BY <1>1 DEF WinnowInPlace, Retained
  <2> QED
    BY <1>1, <2>1, WinnowInPlaceRows DEF RowsInv
<1>2. ASSUME NEW r \in todo, WinnowMove(r) PROVE RowsInv'
  <2>1. stage' = "winnowing"
    BY <1>2 DEF WinnowMove, Retained, MoveRow
  <2> QED
    BY <1>2, <2>1, WinnowMoveRows DEF RowsInv
<1>3. ASSUME EndWinnow PROVE RowsInv'
  <2>1. stage' = "loaded"
    BY <1>3 DEF EndWinnow, LeaveLoop
  <2> QED
    BY <1>3, <2>1, EndWinnowRows DEF RowsInv
<1> QED
  BY <1>1, <1>2, <1>3, WinnowNeverThrows DEF WinnowStep

LEMMA RowsInductive ==
  ASSUME OrdinaryCalls, RowsInv, [CliNext]_vars
  PROVE  RowsInv'
<1>1. CursorInv'
  BY CliCursor DEF RowsInv
<1>2. ASSUME NEW d \in Data, ReadRow(d) PROVE RowsInv'
  <2>1. stage' = "loading"
    BY <1>2 DEF ReadRow
  <2> QED
    BY <1>1, <1>2, <2>1, ReadRowRows DEF RowsInv
<1>3. ASSUME HandOver PROVE RowsInv'
  <2>1. stage' = "loaded"
    BY <1>3 DEF HandOver
  <2> QED
    BY <1>1, <1>3, <2>1, HandOverRows DEF RowsInv, OrdinaryCalls
<1>4. ASSUME NEW rs \in Wholes, ReadWhole(rs) PROVE RowsInv'
  <2>1. stage' = "loaded"
    BY <1>4 DEF ReadWhole
  <2> QED
    BY <1>1, <1>4, <2>1, ReadWholeRows DEF RowsInv
<1>5. ASSUME ShrinkToFit PROVE RowsInv'
  <2>1. stage' = "loaded"
    BY <1>5 DEF ShrinkToFit
  <2> QED
    BY <1>1, <1>5, <2>1, ShrinkToFitRows DEF RowsInv
<1>6. ASSUME NEW o \in Operands, stage = "loaded", AppendRows(o), UNCHANGED stage
      PROVE  RowsInv'
  <2>1. stage' = "loaded" /\ o.sizes = SizesOfRows(o.data)
    BY <1>6 DEF OrdinaryCalls
  <2> QED
    BY <1>1, <1>6, <2>1, AppendRowsRows DEF RowsInv
<1>7. ASSUME NEW S \in Selections, stage = "loaded", BeginWinnow(S) PROVE RowsInv'
  <2>1. stage' = "winnowing" /\ SafeSelection(S)
    BY <1>7 DEF BeginWinnow, OrdinaryCalls
  <2> QED
    BY <1>1, <1>7, <2>1, BeginWinnowRows DEF RowsInv
<1>8. ASSUME WinnowStep PROVE RowsInv'
  BY <1>1, <1>8, WinnowRows
<1>9. ASSUME UNCHANGED vars PROVE RowsInv'
  BY <1>1, <1>9 DEF RowsInv, vars, loop, LoadingRows, LoadedRows, WinnowingRows,
                    CursorsAgree, RetainedSoFar
<1> QED
  BY <1>2, <1>3, <1>4, <1>5, <1>6, <1>7, <1>8, <1>9 DEF CliNext

LEMMA RowsAlways ==
  ASSUME OrdinaryCalls
  PROVE  CliSpec => []RowsInv
<1>1. Init => RowsInv
  BY InitRows
<1>2. RowsInv /\ [CliNext]_vars => RowsInv'
  BY RowsInductive
<1> QED
  BY <1>1, <1>2, PTL DEF CliSpec

\* A table read from any input, extended by other tables and winnowed, answers
\* every question about the lengths of a row with those of that row.
THEOREM CliRowsKeepTheirSizes ==
  ASSUME OrdinaryCalls
  PROVE  CliSpec => []RowsKeepTheirSizes
<1>1. RowsInv => RowsKeepTheirSizes
  <2> SUFFICES ASSUME RowsInv, stage # "winnowing", GotDynamic PROVE Aligned
    BY DEF RowsKeepTheirSizes, Aligned
  <2>1. stage \in {"loading", "loaded"} /\ sizes \in Seq(Seq(Nat)) /\ data \in Seq(Data)
    BY DEF RowsInv, CursorInv, TypeOK
  <2>2. CASE stage = "loading"
    <3>1. /\ Len(data) <= Len(sizes)
          /\ \A i \in 1..Len(sizes) :
               sizes[i] = IF i <= Len(data) THEN SizesOf[data[i]] ELSE <<>>
      <4>1. LoadingRows /\ inserted \in Nat /\ initial \in Nat
        BY <2>2 DEF RowsInv, CursorInv, TypeOK
      <4> QED
        BY <4>1 DEF LoadingRows
    <3>2. Len(data) \in Nat /\ Len(sizes) \in Nat
      BY <2>1
    <3>3. ASSUME NEW i \in DOMAIN data PROVE RowAligned(i)
      <4>1. i \in 1..Len(data) /\ i \in 1..Len(sizes)
        BY <2>1, <3>1, <3>2
      <4> QED
        BY <2>1, <3>1, <4>1 DEF RowAligned
    <3>4. ASSUME NEW i \in DOMAIN sizes, i > Len(data) PROVE sizes[i] = <<>>
      <4>1. i \in 1..Len(sizes) /\ ~(i <= Len(data))
        BY <2>1, <3>2, <3>4
      <4> QED
        BY <3>1, <4>1
    <3> QED
      BY <3>3, <3>4 DEF Aligned
  <2>3. CASE stage = "loaded"
    BY <2>1, <2>3 DEF RowsInv, LoadedRows, Aligned, RowAligned
  <2> QED
    BY <2>1, <2>2, <2>3
<1> QED
  BY RowsAlways, <1>1, PTL

\* winnow_rows() retains the rows selected, in order, for the selections that
\* do not begin with rows 0 and 1 followed, sooner or later, by a gap.
THEOREM CliWinnowRetainsSelection ==
  ASSUME OrdinaryCalls
  PROVE  CliSpec => []WinnowRetainsSelection
<1>1. RowsInv => WinnowRetainsSelection
  <2> SUFFICES ASSUME RowsInv, stage = "winnowing", RetainedSoFar PROVE WinnowRetainsSelection
    BY DEF RowsInv, WinnowingRows, WinnowRetainsSelection
  <2>1. {kept[k] : k \in 1..write} = sel \ todo
    BY DEF RetainedSoFar
  <2> QED
    BY <2>1 DEF RetainedSoFar, WinnowRetainsSelection
<1> QED
  BY RowsAlways, <1>1, PTL

----------------------------------------------------------------------------
(***************************************************************************)
(* The refinement.  ViewInv adds what the mapping to logical rows needs.    *)
(***************************************************************************)
Rows == IF stage = "winnowing" THEN before ELSE data

ViewInv ==
  /\ RowsInv
  /\ ~GotDynamic => sizes = <<>>
  /\ stage = "winnowing" => sel \in Selections

LEMMA InitView ==
  ASSUME OrdinaryCalls, Init
  PROVE  ViewInv
  BY InitRows DEF Init, ViewInv

LEMMA NoSizesWithoutDynamicColumns ==
  ASSUME ~GotDynamic, sizes = <<>>, [CliNext]_vars, OrdinaryCalls, RowsInv
  PROVE  sizes' = <<>>
<1>1. ASSUME NEW d \in Data, ReadRow(d) PROVE sizes' = <<>>
  BY <1>1 DEF ReadRow, AppendRow
<1>2. ASSUME NEW rs \in Wholes, ReadWhole(rs) PROVE sizes' = <<>>
  BY <1>2 DEF ReadWhole, SizesOfRows
<1>3. ASSUME ShrinkToFit PROVE sizes' = <<>>
  BY <1>3 DEF ShrinkToFit, SizesOfRows
<1>4. ASSUME NEW o \in Operands, AppendRows(o) PROVE sizes' = <<>>
  BY <1>4 DEF AppendRows
<1>5. ASSUME WinnowStep PROVE sizes' = <<>>
  BY <1>5 DEF WinnowStep, WinnowInPlace, Retained, WinnowMove, WinnowThrows, EndWinnow
<1> QED
  BY <1>1, <1>2, <1>3, <1>4, <1>5 DEF CliNext, HandOver, BeginWinnow, vars

LEMMA ViewInductive ==
  ASSUME OrdinaryCalls, ViewInv, [CliNext]_vars
  PROVE  ViewInv'
<1>1. RowsInv'
  BY RowsInductive DEF ViewInv
<1>2. ~GotDynamic' => sizes' = <<>>
  BY NoSizesWithoutDynamicColumns DEF ViewInv, GotDynamic
<1>3. stage' = "winnowing" => sel' \in Selections
  <2>1. ASSUME NEW d \in Data, ReadRow(d) PROVE stage' # "winnowing"
    BY <2>1 DEF ReadRow
  <2>2. ASSUME NEW rs \in Wholes, ReadWhole(rs) PROVE stage' # "winnowing"
    BY <2>2 DEF ReadWhole
  <2>3. ASSUME NEW o \in Operands, stage = "loaded", UNCHANGED stage PROVE stage' # "winnowing"
    BY <2>3
  <2>4. ASSUME NEW S \in Selections, BeginWinnow(S) PROVE sel' \in Selections
    BY <2>4 DEF BeginWinnow
  <2>5. ASSUME WinnowStep PROVE stage' = "winnowing" => sel' \in Selections
    BY <2>5 DEF WinnowStep, WinnowInPlace, Retained, WinnowMove, MoveRow, WinnowThrows, EndWinnow,
                LeaveLoop, ViewInv
  <2>6. ASSUME UNCHANGED vars PROVE stage' = "winnowing" => sel' \in Selections
    BY <2>6 DEF vars, loop, ViewInv
  <2>7. HandOver \/ ShrinkToFit => stage' # "winnowing"
    BY DEF HandOver, ShrinkToFit
  <2> QED
    BY <2>1, <2>2, <2>3, <2>4, <2>5, <2>6, <2>7 DEF CliNext
<1> QED
  BY <1>1, <1>2, <1>3 DEF ViewInv

LEMMA ViewAlways ==
  ASSUME OrdinaryCalls
  PROVE  CliSpec => []ViewInv
<1>1. Init => ViewInv
  BY InitView
<1>2. ViewInv /\ [CliNext]_vars => ViewInv'
  BY ViewInductive
<1> QED
  BY <1>1, <1>2, PTL DEF CliSpec

\* What the users of the table see is a function of the bytes alone.
LEMMA RowsAreVisible == ViewInv => VisibleRows = LogicalRows(Rows)
<1> SUFFICES ASSUME ViewInv PROVE VisibleRows = LogicalRows(Rows)
  OBVIOUS
<1>1. CASE stage = "winnowing"
  BY <1>1 DEF VisibleRows, Rows
<1>2. CASE stage # "winnowing"
  <2>1. /\ data \in Seq(Data) /\ sizes \in Seq(Seq(Nat)) /\ stage \in {"loading", "loaded"}
        /\ inserted \in Nat /\ initial \in Nat
    BY <1>2 DEF ViewInv, RowsInv, CursorInv, TypeOK
  <2>2. ASSUME NEW i \in 1..Len(data)
        PROVE  (IF i \in DOMAIN sizes THEN sizes[i] ELSE <<>>) = SizesOf[data[i]]
    <3>1. CASE ~GotDynamic
      <4>1. data[i] \in Data /\ sizes = <<>>
        BY <2>1, <3>1 DEF ViewInv
      <4>2. SizesOf[data[i]] \in Seq(Nat) /\ Len(SizesOf[data[i]]) = NumDyn
        BY <4>1, SizesOfType
      <4>3. NumDyn = 0
        BY <3>1, DataAssumption DEF GotDynamic
      <4>4. SizesOf[data[i]] = <<>>
        BY <4>2, <4>3
      <4> QED
        BY <4>1, <4>4
    <3>2. CASE GotDynamic
      <4>1. RowAligned(i)
        <5>1. CASE stage = "loading"
          <6>1. LoadingRows
            BY <5>1 DEF ViewInv, RowsInv
          <6>2. /\ Len(data) <= Len(sizes)
                /\ \A k \in 1..Len(sizes) :
                     sizes[k] = IF k <= Len(data) THEN SizesOf[data[k]] ELSE <<>>
            BY <2>1, <3>2, <6>1 DEF LoadingRows
          <6>3. i \in 1..Len(sizes) /\ i <= Len(data)
            BY <2>1, <6>2
          <6> QED
            BY <2>1, <6>2, <6>3 DEF RowAligned
        <5>2. CASE stage = "loaded"
          BY <2>1, <3>2, <5>2 DEF ViewInv, RowsInv, LoadedRows, RowAligned
        <5> QED
          BY <2>1, <5>1, <5>2
      <4> QED
        BY <4>1 DEF RowAligned
    <3> QED
      BY <3>1, <3>2
  <2> QED
    BY <1>2, <2>2 DEF VisibleRows, Rows, LogicalRows, LogicalRow
<1> QED
  BY <1>1, <1>2

LEMMA RowsStayVisible == ViewInv' => VisibleRows' = LogicalRows(Rows')
<1>1. (ViewInv => VisibleRows = LogicalRows(Rows))'
  BY RowsAreVisible, PTL
<1> QED
  BY <1>1 DEF LogicalRows, LogicalRow

AllLogicalRows == {LogicalRow(d) : d \in Data}

LEMMA LogicalRowsType ==
  ASSUME NEW rs \in Seq(Data)
  PROVE  /\ LogicalRows(rs) \in Seq(AllLogicalRows)
         /\ Len(LogicalRows(rs)) = Len(rs)
         /\ \A i \in 1..Len(rs) : LogicalRows(rs)[i] = LogicalRow(rs[i])
  BY DEF LogicalRows, AllLogicalRows

LEMMA LogicalRowsAppend ==
  ASSUME NEW rs \in Seq(Data), NEW d \in Data
  PROVE  LogicalRows(Append(rs, d)) = Append(LogicalRows(rs), LogicalRow(d))
  BY DEF LogicalRows

LEMMA LogicalRowsConcat ==
  ASSUME NEW rs \in Seq(Data), NEW qs \in Seq(Data)
  PROVE  LogicalRows(rs \o qs) = LogicalRows(rs) \o LogicalRows(qs)
<1>1. /\ rs \o qs \in Seq(Data) /\ Len(rs \o qs) = Len(rs) + Len(qs)
      /\ \A i \in 1..(Len(rs) + Len(qs)) :
           (rs \o qs)[i] = IF i <= Len(rs) THEN rs[i] ELSE qs[i - Len(rs)]
  BY ConcatProperties
<1> DEFINE a == LogicalRows(rs \o qs)
           b == LogicalRows(rs) \o LogicalRows(qs)
<1>2. /\ a \in Seq(AllLogicalRows) /\ Len(a) = Len(rs) + Len(qs)
      /\ \A i \in 1..(Len(rs) + Len(qs)) : a[i] = LogicalRow((rs \o qs)[i])
  BY <1>1, LogicalRowsType
<1>3. /\ b \in Seq(AllLogicalRows) /\ Len(b) = Len(rs) + Len(qs)
      /\ \A i \in 1..(Len(rs) + Len(qs)) :
           b[i] = IF i <= Len(rs) THEN LogicalRows(rs)[i] ELSE LogicalRows(qs)[i - Len(rs)]
  BY LogicalRowsType, ConcatProperties
<1> HIDE DEF a, b
<1>4. ASSUME NEW i \in 1..(Len(rs) + Len(qs)) PROVE a[i] = b[i]
  <2>1. CASE i <= Len(rs)
    <3>1. LogicalRows(rs)[i] = LogicalRow(rs[i])
      BY <2>1, LogicalRowsType
    <3> QED
      BY <1>1, <1>2, <1>3, <2>1, <3>1
  <2>2. CASE ~(i <= Len(rs))
    <3>1. i - Len(rs) \in 1..Len(qs)
      BY <2>2
    <3>2. LogicalRows(qs)[i - Len(rs)] = LogicalRow(qs[i - Len(rs)])
      BY <3>1, LogicalRowsType
    <3> QED
      BY <1>1, <1>2, <1>3, <2>2, <3>2
  <2> QED
    BY <2>1, <2>2
<1>5. a = b
  BY <1>2, <1>3, <1>4, SeqEqual
<1> QED
  BY <1>5 DEF a, b

LEMMA EndWinnowRetains ==
  ASSUME ViewInv, ViewInv', EndWinnow
  PROVE  Logical!Retain(sel)
<1>1. /\ stage = "winnowing" /\ todo = {} /\ data' = SubSeq(data, 1, write)
      /\ data \in Seq(Data) /\ before \in Seq(Data) /\ write \in Nat /\ write <= Len(data)
      /\ kept \in Seq(Nat) /\ WinnowingRows /\ IsFiniteSet(sel) /\ sel \subseteq Nat
      /\ \A r \in sel : r < Len(data)
  BY DEF EndWinnow, ViewInv, RowsInv, CursorInv, TypeOK
<1>2. Cardinality(sel) = write /\ Len(before) = Len(data) /\ RetainedSoFar
  BY <1>1, FS_EmptySet DEF WinnowingRows
<1>3. stage' = "loaded"
  BY DEF EndWinnow, LeaveLoop
<1>4. VisibleRows = LogicalRows(before) /\ VisibleRows' = LogicalRows(data')
  BY <1>1, <1>3, RowsAreVisible, RowsStayVisible DEF Rows
<1>5. kept \in [1..write -> sel] /\ Logical!Enumerates(kept, sel)
  <2>1. Len(kept) = write /\ (\A k \in 1..write : kept[k] \in sel) /\ DOMAIN kept = 1..write
    BY <1>1, <1>2 DEF RetainedSoFar
  <2>2. \A j, k \in 1..write : j < k => kept[j] < kept[k]
    BY <1>2 DEF RetainedSoFar
  <2>3. \A r \in sel : \E k \in 1..write : kept[k] = r
    BY <1>1, <1>2 DEF RetainedSoFar
  <2>4. Logical!Enumerates(kept, sel)
    BY <2>1, <2>2, <2>3, Zenon DEF Logical!Enumerates
  <2>5. kept \in [1..write -> sel]
    <3>1. kept \in [1..write -> Nat]
      BY <1>1, <2>1
    <3> QED
      BY <2>1, <3>1
  <2> QED
    BY <2>4, <2>5
<1>6. LogicalRows(data') = [k \in 1..write |-> LogicalRows(before)[kept[k] + 1]]
  <2>1. ASSUME NEW k \in 1..write
        PROVE  LogicalRow(data'[k]) = LogicalRows(before)[kept[k] + 1]
    <3>1. data'[k] = data[k]
      BY <1>1
    <3>2. data[k] = before[kept[k] + 1]
      BY <1>2 DEF RetainedSoFar
    <3>3. kept[k] \in Nat /\ kept[k] < Len(data) /\ Len(data) \in Nat
      <4>1. kept[k] \in sel
        BY <1>5
      <4>2. Len(data) \in Nat
        BY <1>1
      <4>3. sel \subseteq Nat /\ \A r \in sel : r < Len(data)
        BY <1>1, Zenon
      <4> QED
        BY <4>1, <4>2, <4>3
    <3>4. kept[k] + 1 \in 1..Len(before)
      BY <1>2, <3>3
    <3>5. LogicalRows(before)[kept[k] + 1] = LogicalRow(before[kept[k] + 1])
      BY <1>1, <3>4, LogicalRowsType
    <3> QED
      BY <3>1, <3>2, <3>5
  <2>2. Len(data') = write
    BY <1>1
  <2> QED
    BY <2>1, <2>2, Zenon DEF LogicalRows
<1>7. \A r \in sel : r < Len(VisibleRows)
  BY <1>1, <1>2, <1>4, LogicalRowsType
<1>8. VisibleRows' = [k \in 1..write |-> VisibleRows[kept[k] + 1]]
  BY <1>4, <1>6, Zenon
<1>9. write \in 0..Len(VisibleRows)
  BY <1>1, <1>2, <1>4, LogicalRowsType
<1> QED
  BY <1>1, <1>3, <1>5, <1>7, <1>8, <1>9 DEF Logical!Retain

LEMMA StepRefines ==
  ASSUME OrdinaryCalls, ViewInv, ViewInv', [CliNext]_vars
  PROVE  [Logical!Next]_(Logical!vars)
<1>1. /\ VisibleRows = LogicalRows(Rows) /\ VisibleRows' = LogicalRows(Rows')
      /\ data \in Seq(Data) /\ stage \in {"loading", "loaded", "winnowing"}
  BY RowsAreVisible, RowsStayVisible DEF ViewInv, RowsInv, CursorInv, TypeOK
<1>2. ASSUME NEW d \in Data, ReadRow(d) PROVE Logical!Insert(LogicalRow(d))
  <2>1. Rows = data /\ Rows' = Append(data, d) /\ stage = "loading" /\ stage' = "loading"
    BY <1>2 DEF ReadRow, AppendRow, Rows
  <2> QED
    BY <1>1, <2>1, LogicalRowsAppend DEF Logical!Insert
<1>3. ASSUME HandOver PROVE Logical!HandOver
  BY <1>1, <1>3 DEF HandOver, Rows, Logical!HandOver
<1>4. ASSUME NEW rs \in Wholes, ReadWhole(rs) PROVE Logical!Load(LogicalRows(rs))
  <2>1. Rows = <<>> /\ Rows' = rs /\ stage = "loading" /\ stage' = "loaded"
    <3>1. stage = "loading" /\ inserted = 0 /\ LoadingRows
      BY <1>4 DEF ReadWhole, ViewInv, RowsInv
    <3>2. data = <<>>
      BY <1>1, <3>1 DEF LoadingRows
    <3> QED
      BY <1>4, <3>2 DEF ReadWhole, Rows
  <2>2. LogicalRows(<<>>) = <<>>
    BY DEF LogicalRows
  <2> QED
    BY <1>1, <2>1, <2>2 DEF Logical!Load
<1>5. ASSUME ShrinkToFit PROVE Logical!HandOver
  BY <1>1, <1>5 DEF ShrinkToFit, Rows, Logical!HandOver
<1>6. ASSUME NEW o \in Operands, stage = "loaded", AppendRows(o), UNCHANGED stage
      PROVE  Logical!Extend(LogicalRows(o.data))
  <2>1. Rows = data /\ Rows' = data \o o.data /\ o.data \in Seq(Data)
    BY <1>6, CallsAssumption DEF AppendRows, Rows
  <2> QED
    BY <1>1, <1>6, <2>1, LogicalRowsConcat DEF Logical!Extend
<1>7. ASSUME NEW S \in Selections, stage = "loaded", BeginWinnow(S)
      PROVE  UNCHANGED Logical!vars
  BY <1>1, <1>7 DEF BeginWinnow, Rows, Logical!vars
<1>8. ASSUME NEW r \in todo, WinnowInPlace(r) \/ WinnowMove(r) PROVE UNCHANGED Logical!vars
  BY <1>1, <1>8 DEF WinnowInPlace, Retained, WinnowMove, MoveRow, Rows, Logical!vars
<1>9. ASSUME EndWinnow PROVE \E S \in Selections : Logical!Retain(S)
  <2>1. sel \in Selections
    BY <1>9 DEF EndWinnow, ViewInv
  <2> QED
    BY <1>9, <2>1, EndWinnowRetains
<1>10. ASSUME NEW r \in todo PROVE ~WinnowThrows(r)
  BY WinnowNeverThrows DEF ViewInv
<1>11. ASSUME UNCHANGED vars PROVE UNCHANGED Logical!vars
  BY <1>11 DEF vars, loop, VisibleRows, Logical!vars
<1> QED
  BY <1>2, <1>3, <1>4, <1>5, <1>6, <1>7, <1>8, <1>9, <1>10, <1>11
     DEF CliNext, WinnowStep, Logical!Next

\* Every behaviour of the row store, bytes and lengths and cursors together,
\* is a behaviour of the table of logical rows.
THEOREM CliImplementsLogicalTable ==
  ASSUME OrdinaryCalls
  PROVE  CliSpec => ImplementsLogicalTable
<1>1. Init => Logical!Init
  BY DEF Init, VisibleRows, Logical!Init
<1>2. ViewInv /\ ViewInv' /\ [CliNext]_vars => [Logical!Next]_(Logical!vars)
  BY StepRefines
<1> QED
  BY <1>1, <1>2, ViewAlways, PTL DEF CliSpec, ImplementsLogicalTable, Logical!Spec

----------------------------------------------------------------------------
(***************************************************************************)
(* What single calls do to an aligned table, whatever calls came before.     *)
(***************************************************************************)

\* A list of lengths is never taken for none.
LEMMA LengthsAreNotNone == GotDynamic => \A d \in Data : SizesOf[d] # <<>>
<1>1. \A d \in Data : Len(SizesOf[d]) = NumDyn /\ Len(<<>>) = 0
  BY SizesOfType
<1>2. GotDynamic => NumDyn # 0
  BY DataAssumption DEF GotDynamic
<1> QED
  BY <1>1, <1>2

\* The lists append_row() works on: what there was, and at most one empty list more.
LEMMA SlotsOfAligned ==
  ASSUME TypeOK, GotDynamic, Aligned
  PROVE  /\ Slots \in Seq(Seq(Nat)) /\ Len(Slots) >= Len(data)
         /\ \A i \in 1..Len(data) : Slots[i] = SizesOf[data[i]]
         /\ \A i \in 1..Len(Slots) : i > Len(data) => Slots[i] = <<>>
<1>1. data \in Seq(Data) /\ sizes \in Seq(Seq(Nat)) /\ Len(data) \in Nat /\ Len(sizes) \in Nat
  BY DEF TypeOK
<1>2. /\ \A i \in 1..Len(data) : i \in 1..Len(sizes) /\ sizes[i] = SizesOf[data[i]]
      /\ \A i \in 1..Len(sizes) : i > Len(data) => sizes[i] = <<>>
  BY <1>1 DEF Aligned, RowAligned
<1>3. Len(sizes) >= Len(data)
  BY <1>1, <1>2
<1>4. CASE inserted >= initial
  <2> DEFINE none == <<>>
             L == Seq(Nat)
  <2>1. sizes \in Seq(L) /\ none \in L /\ Slots = Append(sizes, none)
    BY <1>1, <1>4 DEF Slots
  <2> HIDE DEF none, L
  <2>2. /\ Slots \in Seq(L) /\ Len(Slots) = Len(sizes) + 1 /\ Slots[Len(sizes) + 1] = none
        /\ \A i \in 1..Len(sizes) : Slots[i] = sizes[i]
    BY <2>1, AppendProperties
  <2>3. \A i \in 1..Len(data) : Slots[i] = SizesOf[data[i]]
    BY <1>2, <2>2
  <2>4. ASSUME NEW i \in 1..Len(Slots), i > Len(data)
        PROVE  Slots[i] = none
    <3>1. CASE i = Len(sizes) + 1
      BY <2>2, <3>1
    <3>2. CASE i # Len(sizes) + 1
      <4>1. i \in 1..Len(sizes)
        BY <1>1, <2>2, <3>2
      <4> QED
        BY <1>2, <2>2, <2>4, <4>1 DEF none
    <3> QED
      BY <3>1, <3>2
  <2> QED
    BY <1>1, <1>3, <2>2, <2>3, <2>4 DEF none, L
<1>5. CASE ~(inserted >= initial)
  <2>1. Slots = sizes
    BY <1>5 DEF Slots
  <2> QED
    BY <1>1, <1>2, <1>3, <2>1
<1> QED
  BY <1>4, <1>5

LEMMA AppendRowAligns ==
  ASSUME TypeOK, GotDynamic, Aligned, NEW d \in Data, AppendRow(d, SizesOf[d])
  PROVE  Aligned' <=> CounterIsCurrent
<1> DEFINE n == Len(data)
           sl == Slots
<1>1. data \in Seq(Data) /\ n \in Nat /\ inserted \in Nat
  BY DEF TypeOK
<1>2. /\ sl \in Seq(Seq(Nat)) /\ Len(sl) \in Nat /\ Len(sl) >= n
      /\ \A i \in 1..n : sl[i] = SizesOf[data[i]]
      /\ \A i \in 1..Len(sl) : i > n => sl[i] = <<>>
  BY SlotsOfAligned
<1>3. /\ data' = Append(data, d) /\ Len(data') = n + 1
      /\ \A i \in 1..n : data'[i] = data[i]
      /\ data'[n + 1] = d /\ DOMAIN data' = 1..(n + 1)
  BY <1>1 DEF AppendRow
<1>4. SizesOf[d] \in Seq(Nat) /\ SizesOf[d] # <<>>
  BY SizesOfType, LengthsAreNotNone
<1>5. CounterIsCurrent <=> inserted = n /\ inserted < Len(sl)
  BY DEF CounterIsCurrent
<1>6. CASE inserted < Len(sl)
  <2>1. sizes' = [sl EXCEPT ![inserted + 1] = sl[inserted + 1] \o SizesOf[d]]
    <3>1. ~(inserted >= Len(sl))
      BY <1>1, <1>2, <1>6
    <3> QED
      BY <3>1 DEF AppendRow, Record
  <2> DEFINE joined == sl[inserted + 1] \o SizesOf[d]
  <2> HIDE DEF sl, n
  <2>2. inserted + 1 \in 1..Len(sl) /\ DOMAIN sl = 1..Len(sl)
    BY <1>1, <1>2, <1>6
  <2>3. /\ DOMAIN sizes' = 1..Len(sl) /\ sizes'[inserted + 1] = joined
        /\ \A i \in 1..Len(sl) : i # inserted + 1 => sizes'[i] = sl[i]
    BY <2>1, <2>2
  <2>4. CASE inserted = n
    <3>1. joined = SizesOf[d]
      <4>1. sl[inserted + 1] = <<>>
        BY <1>1, <1>2, <2>2, <2>4
      <4> QED
        BY <1>4, <4>1
    <3> HIDE DEF joined
    <3>2. ASSUME NEW i \in 1..(n + 1)
          PROVE  i \in 1..Len(sl) /\ sizes'[i] = SizesOf[data'[i]]
      <4>1. CASE i = n + 1
        BY <1>3, <2>2, <2>3, <2>4, <3>1, <4>1
      <4>2. CASE i # n + 1
        <5>1. i \in 1..n /\ i \in 1..Len(sl)
          BY <1>1, <1>2, <4>2
        <5> QED
          BY <1>2, <1>3, <2>3, <2>4, <4>2, <5>1
      <4> QED
        BY <4>1, <4>2
    <3>3. ASSUME NEW i \in 1..Len(sl), i > n + 1
          PROVE  sizes'[i] = <<>>
      <4>1. i # inserted + 1 /\ i > n
        BY <1>1, <2>4, <3>3
      <4> QED
        BY <1>2, <2>3, <4>1
    <3>4. Aligned'
      BY <1>3, <2>3, <3>2, <3>3 DEF Aligned, RowAligned, GotDynamic
    <3> QED
      BY <1>5, <1>6, <2>4, <3>4
  <2>5. CASE inserted # n
    <3>1. ASSUME Aligned'
          PROVE  FALSE
      <4>1. n + 1 \in DOMAIN sizes' /\ sizes'[n + 1] = SizesOf[d]
        BY <1>1, <1>3, <3>1 DEF Aligned, RowAligned, GotDynamic
      <4>2. n + 1 # inserted + 1
        BY <1>1, <2>5
      <4>3. sl[n + 1] = <<>>
        BY <1>1, <1>2, <2>3, <4>1
      <4> QED
        BY <1>4, <2>3, <4>1, <4>2, <4>3
    <3> QED
      BY <1>5, <2>5, <3>1
  <2> QED
    BY <2>4, <2>5
<1>7. CASE ~(inserted < Len(sl))
  <2>1. sizes' = sl
    BY <1>7 DEF AppendRow
  <2> HIDE DEF sl, n
  <2>2. ASSUME Aligned'
        PROVE  FALSE
    <3>1. n + 1 \in DOMAIN sizes' /\ sizes'[n + 1] = SizesOf[d]
      BY <1>1, <1>3, <2>2 DEF Aligned, RowAligned, GotDynamic
    <3>2. n + 1 \in 1..Len(sl)
      BY <1>2, <2>1, <3>1
    <3>3. sl[n + 1] = <<>>
      BY <1>1, <1>2, <3>2
    <3> QED
      BY <1>4, <2>1, <3>1, <3>3
  <2> QED
    BY <1>5, <1>7, <2>2
<1> QED
  BY <1>6, <1>7

\* In any order of public calls: a row appended to an aligned table leaves it aligned
\* exactly if num_rows_inserted_ is the number of rows and its slot exists.
THEOREM ApiAppendRow == ApiSpec => AppendRowNeedsCurrentCounter
<1>1. TypeOK => [GotDynamic /\ Aligned /\ AppendsOneRow => (Aligned' <=> CounterIsCurrent)]_vars
  BY AppendRowAligns DEF AppendsOneRow
<1> QED
  BY <1>1, ApiTypeOK, PTL DEF AppendRowNeedsCurrentCounter

LEMMA AppendRowsAligns ==
  ASSUME TypeOK, GotDynamic, Aligned, NEW o \in Operands,
         o.data # <<>>, o.sizes = SizesOfRows(o.data), AppendRows(o)
  PROVE  Aligned' <=> Len(sizes) = Len(data)
<1> DEFINE n == Len(data)
           m == Len(sizes)
           k == Len(o.data)
           more == o.sizes
<1>1. /\ data \in Seq(Data) /\ sizes \in Seq(Seq(Nat)) /\ n \in Nat /\ m \in Nat
      /\ o.data \in Seq(Data) /\ k \in Nat /\ k > 0
  BY CallsAssumption DEF TypeOK
<1>2. /\ more \in Seq(Seq(Nat)) /\ Len(more) = k
      /\ \A i \in 1..k : more[i] = SizesOf[o.data[i]]
  BY <1>1, SizesOfRowsType
<1>3. /\ \A i \in 1..n : i \in 1..m /\ sizes[i] = SizesOf[data[i]]
      /\ \A i \in 1..m : i > n => sizes[i] = <<>>
  BY <1>1 DEF Aligned, RowAligned
<1>4. m >= n
  BY <1>1, <1>3
<1>5. data' = data \o o.data /\ sizes' = sizes \o more
  BY DEF AppendRows
<1> HIDE DEF n, m, k, more
<1>6. /\ DOMAIN data' = 1..(n + k) /\ Len(data') = n + k
      /\ \A i \in 1..n : data'[i] = data[i]
      /\ \A i \in 1..(n + k) : i > n => data'[i] = o.data[i - n]
  BY <1>1, <1>5, ConcatProperties DEF n, k
<1>7. /\ DOMAIN sizes' = 1..(m + k)
      /\ \A i \in 1..m : sizes'[i] = sizes[i]
      /\ \A i \in 1..(m + k) : i > m => sizes'[i] = more[i - m]
  <2> DEFINE L == Seq(Nat)
  <2>1. sizes \in Seq(L) /\ more \in Seq(L) /\ Len(more) = k /\ Len(sizes) = m
    BY <1>1, <1>2 DEF m
  <2> HIDE DEF L
  <2>2. sizes \o more \in Seq(L) /\ Len(sizes \o more) = m + k
    BY <2>1, ConcatProperties
  <2>3. \A i \in 1..(m + k) : (sizes \o more)[i] = IF i <= m THEN sizes[i] ELSE more[i - m]
    BY <2>1, ConcatProperties
  <2>4. DOMAIN (sizes \o more) = 1..(m + k)
    BY <2>2
  <2>5. \A i \in 1..m : i \in 1..(m + k) /\ i <= m
    BY <1>1
  <2>6. \A i \in 1..(m + k) : i > m => ~(i <= m)
    BY <1>1
  <2> QED
    BY <1>5, <2>3, <2>4, <2>5, <2>6
<1>8. CASE m = n
  <2>1. ASSUME NEW i \in 1..(n + k)
        PROVE  sizes'[i] = SizesOf[data'[i]]
    <3>1. CASE i <= n
      <4>1. i \in 1..n
        BY <1>1, <3>1
      <4> QED
        BY <1>3, <1>6, <1>7, <4>1
    <3>2. CASE i > n
      <4>1. i - n \in 1..k
        BY <1>1, <3>2
      <4> QED
        BY <1>2, <1>6, <1>7, <1>8, <3>2, <4>1
    <3> QED
      BY <1>1, <3>1, <3>2
  <2>2. Aligned'
    BY <1>6, <1>7, <1>8, <2>1 DEF Aligned, RowAligned
  <2> QED
    BY <1>8, <2>2 DEF m, n
<1>9. CASE m # n
  <2>1. ASSUME Aligned'
        PROVE  FALSE
    <3>1. n + 1 \in 1..(n + k) /\ n + 1 \in 1..m
      BY <1>1, <1>4, <1>9
    <3>2. sizes'[n + 1] = SizesOf[data'[n + 1]]
      BY <1>6, <2>1, <3>1 DEF Aligned, RowAligned
    <3>3. data'[n + 1] \in Data
      <4>1. ASSUME NEW i \in 1..(n + k), i > n
            PROVE  data'[i] \in Data
        <5>1. i - n \in 1..Len(o.data)
          BY <1>1, <4>1 DEF k
        <5>2. o.data[i - n] \in Data
          BY <1>1, <5>1
        <5> QED
          BY <1>6, <4>1, <5>2
      <4>2. n + 1 > n
        BY <1>1
      <4> QED
        BY <3>1, <4>1, <4>2
    <3>4. sizes'[n + 1] = <<>>
      <4>1. n + 1 > n
        BY <1>1
      <4>2. sizes[n + 1] = <<>> /\ sizes'[n + 1] = sizes[n + 1]
        BY <1>3, <1>7, <3>1, <4>1
      <4> QED
        BY <4>2
    <3> QED
      BY <3>2, <3>3, <3>4, LengthsAreNotNone
  <2> QED
    BY <1>9, <2>1 DEF m, n
<1> QED
  BY <1>8, <1>9

\* Rows appended to an aligned table leave it aligned exactly if the table has no list of
\* lengths beyond its last row, as one has whose header line was counted.
THEOREM ApiAppendRows == ApiSpec => AppendRowsNeedsExactSizes
<1>1. TypeOK => [\A o \in Operands :
                   /\ GotDynamic /\ Aligned /\ stage' = stage
                   /\ o.data # <<>> /\ o.sizes = SizesOfRows(o.data)
                   /\ AppendRows(o)
                   => (Aligned' <=> Len(sizes) = Len(data))]_vars
  BY AppendRowsAligns
<1> QED
  BY <1>1, ApiTypeOK, PTL DEF AppendRowsNeedsExactSizes
=============================================================================
