----------------------------- MODULE Dsv_proofs -----------------------------
(***************************************************************************)
(* Streams of any number of lines of any length: the parser's positions stay *)
(* in its buffer, and what it makes of a stream is what DsvText says of the   *)
(* characters of the stream.  Tables of any size: which of them come back     *)
(* from the text that is written.  Documents of any size: the first pass of   *)
(* the reader leaves for every element a type that accepts it, not above that *)
(* of its column, and a width that it does not exceed; what the second pass   *)
(* makes of an element follows from these two.                               *)
(***************************************************************************)
EXTENDS DsvRoundTrip, DsvReader, FiniteSetTheorems, WellFoundedInduction, TLAPS

----------------------------------------------------------------------------
\* Induction, by the least number of which something is not true.
LEMMA LeastElement ==
  ASSUME NEW T, T \subseteq Nat, T # {}
  PROVE  \E x \in T : \A y \in T : x <= y
<1> DEFINE R == OpToRel(<, Nat)
<1>1. IsWellFoundedOn(R, Nat)
  BY NatLessThanWellFounded
<1>2. \A p \in Nat \X Nat : p[1] < p[2] => p \in R
  BY DEF OpToRel
<1> HIDE DEF R
<1>3. PICK x \in T : \A y \in T : <<y, x>> \notin R
  BY <1>1, WFMin
<1>4. \A y \in T : ~(y < x)
  BY <1>2, <1>3
<1> QED
  BY <1>4

\* A function can be applied over and over.
LEMMA Iteration ==
  ASSUME NEW S, NEW a \in S, NEW step \in [S -> S]
  PROVE  \E f \in [Nat -> S] : f[0] = a /\ \A n \in Nat : f[n + 1] = step[f[n]]
<1> DEFINE A(n) == {g \in [0..n -> S] : g[0] = a /\ \A k \in 0..(n - 1) : g[k + 1] = step[g[k]]}
<1>1. \A n \in Nat : A(n) # {}
  <2> DEFINE T == {n \in Nat : A(n) = {}}
  <2> SUFFICES ASSUME T # {} PROVE FALSE
    OBVIOUS
  <2>1. PICK x \in T : \A y \in T : x <= y
    BY LeastElement
  <2>2. x # 0
    <3>1. [k \in 0..0 |-> a] \in A(0)
      OBVIOUS
    <3> QED
      BY <3>1
  <2>3. x - 1 \in Nat /\ x - 1 \notin T
    BY <2>1, <2>2
  <2>4. PICK g \in A(x - 1) : TRUE
    BY <2>3
  <2> DEFINE h == [k \in 0..x |-> IF k < x THEN g[k] ELSE step[g[x - 1]]]
  <2>5. h \in [0..x -> S] /\ h[0] = a
    BY <2>2, <2>3, <2>4
  <2>6. \A k \in 0..(x - 1) : h[k + 1] = step[h[k]]
    BY <2>2, <2>3, <2>4
  <2> QED
    BY <2>1, <2>5, <2>6
<1>2. ASSUME NEW n \in Nat, NEW m \in Nat, NEW g \in A(n), NEW h \in A(m),
             NEW k \in Nat, k <= n, k <= m
      PROVE  g[k] = h[k]
  <2> DEFINE T == {i \in Nat : i <= n /\ i <= m /\ g[i] # h[i]}
  <2> SUFFICES ASSUME T # {} PROVE FALSE
    BY <1>2
  <2>1. PICK x \in T : \A y \in T : x <= y
    BY LeastElement
  <2>2. g[0] = a /\ h[0] = a
    OBVIOUS
  <2>3. PICK y \in Nat : x = y + 1
    BY <2>1, <2>2
  <2>4. y \notin T /\ y < x
    BY <2>1, <2>3
  <2>5. y <= n - 1 /\ y <= m - 1 /\ g[y] = h[y]
    BY <2>3, <2>4
  <2>6. g[y + 1] = step[g[y]] /\ h[y + 1] = step[h[y]]
    BY <2>5
  <2> QED
    BY <2>1, <2>3, <2>5, <2>6
<1>3. /\ \A n \in Nat : \A g \in A(n) : g[n] \in S /\ g[0] = a
      /\ \A n \in Nat : \A g \in A(n + 1) : g[n + 1] = step[g[n]]
  OBVIOUS
<1> HIDE DEF A
<1> DEFINE pick == [n \in Nat |-> CHOOSE g \in A(n) : TRUE]
           f == [n \in Nat |-> pick[n][n]]
<1>4. \A n \in Nat : pick[n] \in A(n)
  <2> SUFFICES ASSUME NEW n \in Nat PROVE (CHOOSE g \in A(n) : TRUE) \in A(n)
    OBVIOUS
  <2>1. \E g \in A(n) : TRUE
    BY <1>1
  <2> QED
    BY <2>1, Zenon
<1> HIDE DEF pick
<1>5. f \in [Nat -> S] /\ f[0] = a
  BY <1>3, <1>4
<1>6. ASSUME NEW n \in Nat
      PROVE  f[n + 1] = step[f[n]]
  <2>1. n + 1 \in Nat /\ n <= n + 1 /\ n <= n
    OBVIOUS
  <2>2. pick[n] \in A(n) /\ pick[n + 1] \in A(n + 1)
    BY <1>4, <2>1
  <2>3. pick[n + 1][n] = pick[n][n]
    BY <1>2, <2>1, <2>2
  <2>4. pick[n + 1][n + 1] = step[pick[n + 1][n]]
    BY <1>3, <2>2
  <2> QED
    BY <2>1, <2>3, <2>4
<1> QED
  BY <1>5, <1>6

----------------------------------------------------------------------------
\* Joined is what its definition says.
LinesSeq == Seq(Seq(CharInLine))

LEMMA WithoutReturnType ==
  ASSUME NEW S, NEW line \in Seq(S)
  PROVE  WithoutReturn(line) \in Seq(S)
<1>1. CASE line # <<>> /\ line[Len(line)] = CARRIAGE_RETURN
  <2>1. SubSeq(line, 1, Len(line) - 1) \in Seq(S)
    BY <1>1
  <2> QED
    BY <1>1, <2>1 DEF WithoutReturn
<1>2. CASE ~(line # <<>> /\ line[Len(line)] = CARRIAGE_RETURN)
  BY <1>2 DEF WithoutReturn
<1> QED
  BY <1>1, <1>2

LEMMA LineOfType ==
  ASSUME NEW s \in LinesSeq, s # <<>>
  PROVE  /\ Head(s) \in Seq(CharInLine) /\ Tail(s) \in LinesSeq
         /\ LineOf(s) \in Seq(Char) /\ Len(LineOf(s)) \in Nat \ {0}
         /\ \A i \in 1..Len(LineOf(s)) : LineOf(s)[i] = Newline <=> i = Len(LineOf(s))
<1>1. Head(s) \in Seq(CharInLine) /\ Tail(s) \in LinesSeq
  BY DEF LinesSeq
<1>2. Newline \notin CharInLine /\ Newline \in Char /\ CharInLine \subseteq Char
  BY CharactersAssumption
     DEF CharInLine, Char, Quotes, Newline, DOUBLE_QUOTE, SINGLE_QUOTE, CARRIAGE_RETURN
<1>3. PICK h \in Seq(CharInLine) : h = WithoutReturn(Head(s))
  BY <1>1, WithoutReturnType
<1>4. LineOf(s) = Append(h, Newline)
  BY <1>3 DEF LineOf
<1>5. h \in Seq(Char)
  BY <1>2, <1>3
<1>6. /\ Append(h, Newline) \in Seq(Char) /\ Len(Append(h, Newline)) = Len(h) + 1
      /\ Len(h) \in Nat /\ \A i \in 1..Len(h) : h[i] \in CharInLine
      /\ \A i \in 1..Len(h) : Append(h, Newline)[i] = h[i]
      /\ Append(h, Newline)[Len(h) + 1] = Newline
  BY <1>2, <1>3, <1>5
<1> QED
  BY <1>1, <1>2, <1>4, <1>6

LEMMA JoinedExists ==
  /\ Joined \in [LinesSeq -> Seq(Char)]
  /\ \A s \in LinesSeq :
       Joined[s] = IF s = <<>> THEN <<>> ELSE LineOf(s) \o Joined[Tail(s)]
<1> DEFINE Next1(f, s) == IF s = <<>> THEN <<>> ELSE LineOf(s) \o f[Tail(s)]
           F == [LinesSeq -> Seq(Char)]
           step == [f \in F |-> [s \in LinesSeq |-> Next1(f, s)]]
           zero == [s \in LinesSeq |-> <<>>]
<1>1. \A f \in F : \A s \in LinesSeq : Next1(f, s) \in Seq(Char)
  BY LineOfType
<1>2. step \in [F -> F] /\ zero \in F
  BY <1>1
<1>3. PICK g \in [Nat -> F] : g[0] = zero /\ \A n \in Nat : g[n + 1] = step[g[n]]
  <2> HIDE DEF F, step, zero
  <2> QED
    BY <1>2, Iteration
<1> DEFINE j == [s \in LinesSeq |-> g[Len(s) + 1][s]]
<1>4. \A s \in LinesSeq : Len(s) \in Nat
  BY DEF LinesSeq
<1>5. j \in F
  BY <1>3, <1>4
<1>6. \A s \in LinesSeq : j[s] = Next1(j, s)
  <2> SUFFICES ASSUME NEW s \in LinesSeq PROVE j[s] = Next1(j, s)
    OBVIOUS
  <2>1. j[s] = Next1(g[Len(s)], s)
    <3>1. j[s] = step[g[Len(s)]][s]
      BY <1>3, <1>4
    <3>2. g[Len(s)] \in F
      BY <1>3, <1>4
    <3> QED
      BY <3>1, <3>2
  <2>2. s # <<>> => /\ Tail(s) \in LinesSeq /\ Len(Tail(s)) + 1 = Len(s)
    BY DEF LinesSeq
  <2>3. s # <<>> => j[Tail(s)] = g[Len(s)][Tail(s)]
    BY <2>2
  <2> QED
    BY <2>1, <2>3
<1>7. j = [s \in LinesSeq |-> IF s = <<>> THEN <<>> ELSE LineOf(s) \o j[Tail(s)]]
  BY <1>6
<1> HIDE DEF j
<1>8. Joined = [s \in LinesSeq |-> IF s = <<>> THEN <<>> ELSE LineOf(s) \o Joined[Tail(s)]]
  BY <1>7, Zenon DEF Joined, LinesSeq
<1> HIDE DEF F, step, zero
<1>9. \A s \in LinesSeq : Joined[s] \in Seq(Char)
  <2> DEFINE T == {n \in Nat : \E s \in LinesSeq : Len(s) = n /\ Joined[s] \notin Seq(Char)}
  <2> SUFFICES ASSUME T # {} PROVE FALSE
    BY <1>4
  <2>1. PICK n \in T : \A m \in T : n <= m
    BY LeastElement
  <2>2. PICK s \in LinesSeq : Len(s) = n /\ Joined[s] \notin Seq(Char)
    BY <2>1
  <2>3. s # <<>>
    BY <1>8, <2>2
  <2>4. Tail(s) \in LinesSeq /\ Len(Tail(s)) \in Nat /\ Len(Tail(s)) < n
    BY <2>2, <2>3 DEF LinesSeq
  <2>5. Joined[Tail(s)] \in Seq(Char)
    <3>1. PICK t \in LinesSeq : t = Tail(s)
      BY <2>4
    <3>2. Len(t) \notin T
      BY <2>1, <2>4, <3>1
    <3> QED
      BY <2>4, <3>1, <3>2
  <2>6. LineOf(s) \in Seq(Char)
    BY <2>3, LineOfType
  <2>7. Joined[s] = LineOf(s) \o Joined[Tail(s)]
    BY <1>8, <2>3
  <2> QED
    BY <2>2, <2>5, <2>6, <2>7
<1> QED
  BY <1>8, <1>9

----------------------------------------------------------------------------
\* The invariant.  A newline is the end of the buffer; a field that has begun is
\* not empty, and it has a quote unless it began without one.
BufferInv ==
  /\ ~Done => \A i \in (At + 1)..Len(row_str) : row_str[i] = Newline <=> i = Len(row_str)
  /\ ~Done /\ ~Opening => elem # <<>> \/ field_beg < idx
  /\ state \in {"FrontQuote", "EscapeOn", "EscapeOff"} => outer_quote_char \in Quotes
  /\ state = "FieldStart" => outer_quote_char = NULL_CHAR
  /\ state = "FieldEnd" => row # <<>>
  /\ col_count = IF document = <<>> THEN 0 ELSE Len(document[1])
  /\ document # <<>> => col_count > 0

Inv == TypeOK /\ BufferInv

LEMMA Characters ==
  /\ Newline \in Char /\ Newline \notin CharInLine /\ CharInLine \subseteq Char
  /\ Quotes \subseteq Char /\ Delimiter \in Char /\ Delimiter \notin Quotes \cup {Newline}
  /\ Newline \notin Quotes /\ CARRIAGE_RETURN \in CharInLine
  /\ NULL_CHAR \notin Char
  BY CharactersAssumption
     DEF CharInLine, Char, Quotes, Newline, DOUBLE_QUOTE, SINGLE_QUOTE, CARRIAGE_RETURN, NULL_CHAR

LEMMA SubSequence ==
  ASSUME NEW s \in Seq(Char), NEW a \in Nat, NEW b \in Nat, a <= b, b <= Len(s)
  PROVE  /\ SubSeq(s, a + 1, b) \in Seq(Char) /\ Len(SubSeq(s, a + 1, b)) = b - a
         /\ Len(s) \in Nat
         /\ \A i \in 1..(b - a) : SubSeq(s, a + 1, b)[i] = s[a + i]
  OBVIOUS

\* While the parser is at work, its position is a character of the buffer, behind
\* the beginning of the field.
LEMMA Reading ==
  ASSUME Inv, ~Done
  PROVE  /\ row_str \in Seq(Char) /\ Len(row_str) \in Nat /\ At \in Nat /\ At + 1 <= Len(row_str)
         /\ _curr_char = row_str[At + 1] /\ _curr_char \in Char /\ _curr_char # NULL_CHAR
         /\ _curr_char = Newline <=> At + 1 = Len(row_str)
         /\ Beg \in Nat /\ Beg <= At
         /\ Elem \in Seq(Char) /\ Fields \in Seq(Seq(Char))
         /\ Chunk(Beg, At) \in Seq(Char) /\ Len(Chunk(Beg, At)) = At - Beg
         /\ ClosedField \in Seq(Char)
         /\ ~Opening => At = idx /\ Fields = row /\ Elem = elem /\ Beg = field_beg
                        /\ Outer = outer_quote_char
         /\ Outer \in Quotes \cup {NULL_CHAR}
<1>1. /\ row_str \in Seq(Char) /\ idx \in Nat /\ field_beg \in Nat /\ elem \in Seq(Char)
      /\ row \in Seq(Seq(Char)) /\ outer_quote_char \in Quotes \cup {NULL_CHAR}
      /\ At < Len(row_str)
      /\ ~Opening => field_beg <= idx
  BY DEF Inv, TypeOK
<1>2. At \in Nat /\ Fields \in Seq(Seq(Char)) /\ Len(row_str) \in Nat
  BY <1>1 DEF At, Fields
<1>3. At + 1 <= Len(row_str) /\ At + 1 \in 1..Len(row_str)
  BY <1>1, <1>2
<1>4. _curr_char = row_str[At + 1] /\ _curr_char \in Char
  BY <1>1, <1>3 DEF _curr_char
<1>5. _curr_char = Newline <=> At + 1 = Len(row_str)
  BY <1>2, <1>3, <1>4 DEF Inv, BufferInv
<1>6. ~Opening => At = idx /\ Fields = row /\ Elem = elem /\ Beg = field_beg
                  /\ Outer = outer_quote_char
  BY DEF Opening, At, Fields, Elem, Beg, Outer
<1>7. Beg \in Nat /\ Beg <= At /\ Elem \in Seq(Char) /\ Outer \in Quotes \cup {NULL_CHAR}
  BY <1>1, <1>2, <1>6 DEF Beg, Elem, Outer
<1>8. Chunk(Beg, At) \in Seq(Char) /\ Len(Chunk(Beg, At)) = At - Beg
  <2>1. At <= Len(row_str)
    BY <1>2, <1>3
  <2> QED
    BY <1>1, <1>2, <1>7, <2>1, SubSequence DEF Chunk
<1>9. ClosedField \in Seq(Char)
  BY <1>7, <1>8 DEF ClosedField
<1> QED
  BY <1>1, <1>2, <1>3, <1>4, <1>5, <1>6, <1>7, <1>8, <1>9, Characters

\* The next line of the stream becomes the buffer.
LEMMA NewBuffer ==
  ASSUME NEW s \in LinesSeq, s # <<>>
  PROVE  /\ LineOf(s) \in Seq(Char) /\ 0 < Len(LineOf(s)) /\ Tail(s) \in LinesSeq
         /\ \A i \in (0 + 1)..Len(LineOf(s)) : LineOf(s)[i] = Newline <=> i = Len(LineOf(s))
  BY LineOfType

LEMMA InitInv == Init => Inv
<1> SUFFICES ASSUME Init PROVE Inv
  OBVIOUS
<1>1. /\ idx = 0 /\ field_beg = 0 /\ field_end = 0 /\ elem = <<>> /\ outer_quote_char = NULL_CHAR
      /\ row = <<>> /\ col_count = 0 /\ document = <<>>
  BY DEF Init
<1>2. PICK s \in Streams :
        IF s = <<>>
        THEN state = "ParseCompleted" /\ row_str = <<>> /\ dsv_stream = <<>>
        ELSE state = "LineEnd" /\ row_str = LineOf(s) /\ dsv_stream = Tail(s)
  BY DEF Init
<1>3. s \in LinesSeq
  BY StreamsAssumption DEF LinesSeq
<1>4. CASE s = <<>>
  BY <1>1, <1>2, <1>4 DEF Inv, TypeOK, BufferInv, Done, Opening
<1>5. CASE s # <<>>
  <2>1. /\ row_str \in Seq(Char) /\ 0 < Len(row_str) /\ dsv_stream \in LinesSeq
        /\ \A i \in (0 + 1)..Len(row_str) : row_str[i] = Newline <=> i = Len(row_str)
    BY <1>2, <1>3, <1>5, NewBuffer
  <2>2. state = "LineEnd" /\ At = 0 /\ Opening
    BY <1>2, <1>5 DEF At, Opening
  <2>3. TypeOK
    BY <1>1, <2>1, <2>2 DEF TypeOK, LinesSeq
  <2>4. BufferInv
    BY <1>1, <2>1, <2>2 DEF BufferInv
  <2> QED
    BY <2>3, <2>4 DEF Inv
<1> QED
  BY <1>4, <1>5

\* From a character that is no newline to the next one of the buffer.
LEMMA Advance ==
  ASSUME Inv, ~Done, _curr_char # Newline, row_str' = row_str, At' = At + 1
  PROVE  /\ At' \in Nat /\ At' < Len(row_str')
         /\ \A i \in (At' + 1)..Len(row_str') : row_str'[i] = Newline <=> i = Len(row_str')
<1>1. At \in Nat /\ Len(row_str) \in Nat /\ At + 1 < Len(row_str)
  BY Reading
<1>2. \A i \in (At + 1)..Len(row_str) : row_str[i] = Newline <=> i = Len(row_str)
  BY DEF Inv, BufferInv
<1>3. \A i \in ((At + 1) + 1)..Len(row_str) : i \in (At + 1)..Len(row_str)
  BY <1>1
<1> QED
  BY <1>1, <1>2, <1>3

LEMMA ThrowInv == Inv /\ Throw => Inv'
  BY DEF Throw, Inv, TypeOK, BufferInv, Done, buffer, field

LEMMA DelimitInv == ASSUME Inv, ~Done, Delimit PROVE Inv'
<1>1. /\ state' = "FieldEnd" /\ row_str' = row_str /\ dsv_stream' = dsv_stream
      /\ elem' = ClosedField /\ row' = Append(Fields, ClosedField)
      /\ field_end' = At /\ field_beg' = At + 1 /\ outer_quote_char' = Outer /\ idx' = At + 1
      /\ col_count' = col_count /\ document' = document
  BY DEF Delimit, _field_end, buffer
<1>2. At' = At + 1 /\ ~Done' /\ Opening'
  BY <1>1 DEF At, Done, Opening
<1>3. _curr_char # Newline
  BY Characters DEF Delimit
<1>4. /\ At' \in Nat /\ At' < Len(row_str')
      /\ \A i \in (At' + 1)..Len(row_str') : row_str'[i] = Newline <=> i = Len(row_str')
  BY <1>1, <1>2, <1>3, Advance
<1>5. /\ At \in Nat /\ ClosedField \in Seq(Char) /\ Fields \in Seq(Seq(Char))
      /\ Outer \in Quotes \cup {NULL_CHAR}
  BY Reading
<1>6. row' \in Seq(Seq(Char)) /\ row' # <<>>
  BY <1>1, <1>5
<1>7. TypeOK'
  BY <1>1, <1>2, <1>4, <1>5, <1>6 DEF Inv, TypeOK
<1>8. BufferInv'
  BY <1>1, <1>2, <1>4, <1>6 DEF Inv, BufferInv
<1> QED
  BY <1>7, <1>8 DEF Inv

LEMMA StartFieldInv == ASSUME Inv, ~Done, StartField PROVE Inv'
<1>1. /\ row_str' = row_str /\ dsv_stream' = dsv_stream
      /\ elem' = <<>> /\ field_beg' = At /\ field_end' = At
      /\ row' = Fields /\ idx' = At + 1
      /\ col_count' = col_count /\ document' = document
      /\ \/ /\ state' = "FrontQuote" /\ outer_quote_char' \in Quotes
         \/ /\ state' = "FieldStart" /\ outer_quote_char' = NULL_CHAR
      /\ _curr_char # Newline
  BY DEF StartField, buffer
<1>2. At' = At + 1 /\ ~Done' /\ ~Opening'
  BY <1>1 DEF At, Done, Opening
<1>4. /\ At' \in Nat /\ At' < Len(row_str')
      /\ \A i \in (At' + 1)..Len(row_str') : row_str'[i] = Newline <=> i = Len(row_str')
  BY <1>1, <1>2, Advance
<1>5. At \in Nat /\ Fields \in Seq(Seq(Char))
  BY Reading
<1>7. TypeOK'
  BY <1>1, <1>2, <1>4, <1>5 DEF Inv, TypeOK
<1>8. BufferInv'
  BY <1>1, <1>2, <1>4, <1>5 DEF Inv, BufferInv
<1> QED
  BY <1>7, <1>8 DEF Inv

\* Within a field.
LEMMA WithinFieldInv ==
  ASSUME Inv, ~Done, Skip \/ EscapeOn \/ EscapeOff
  PROVE  Inv'
<1>1. /\ row_str' = row_str /\ dsv_stream' = dsv_stream /\ idx' = idx + 1
      /\ field_end' = field_end /\ outer_quote_char' = outer_quote_char /\ row' = row
      /\ col_count' = col_count /\ document' = document
      /\ ~Opening
      /\ \/ state' = state
         \/ state \in {"FrontQuote", "EscapeOn", "EscapeOff"} /\ state' \in {"EscapeOn", "EscapeOff"}
      /\ state \in {"FieldStart", "FrontQuote", "EscapeOn", "EscapeOff"}
  BY DEF Skip, EscapeOn, EscapeOff, buffer, field, InQuotes, Opening
<1>2. /\ At = idx /\ At' = At + 1 /\ ~Done' /\ ~Opening' /\ idx \in Nat
      /\ idx + 1 <= Len(row_str) /\ row_str \in Seq(Char) /\ elem \in Seq(Char)
      /\ field_beg \in Nat /\ field_beg <= idx
  BY <1>1, Reading DEF At, Done, Opening, Inv, TypeOK
<1>3. _curr_char # Newline
  <2>1. CASE Skip
    BY <2>1 DEF Skip
  <2>2. CASE EscapeOn \/ EscapeOff
    <3>1. outer_quote_char \in Quotes
      BY <2>2 DEF EscapeOn, EscapeOff, InQuotes, Inv, BufferInv
    <3> QED
      BY <2>2, <3>1, Characters DEF EscapeOn, EscapeOff
  <2> QED
    BY <2>1, <2>2
<1>4. /\ At' \in Nat /\ At' < Len(row_str')
      /\ \A i \in (At' + 1)..Len(row_str') : row_str'[i] = Newline <=> i = Len(row_str')
  BY <1>1, <1>2, <1>3, Advance
<1>5. \/ elem' = elem /\ field_beg' = field_beg
      \/ elem' = Escaped /\ field_beg' = idx + 1
  BY DEF Skip, EscapeOn, EscapeOff, field
<1>6. Escaped \in Seq(Char) /\ Escaped # <<>>
  <2>1. Chunk(field_beg, idx + 1) \in Seq(Char) /\ Len(Chunk(field_beg, idx + 1)) > 0
    BY <1>2, SubSequence DEF Chunk
  <2> QED
    BY <1>2, <2>1 DEF Escaped
<1>7. TypeOK'
  <2>1. elem' \in Seq(Char) /\ field_beg' \in Nat /\ field_beg' <= idx'
    BY <1>1, <1>2, <1>5, <1>6
  <2>2. field_end' \in Nat /\ field_end' <= idx'
    BY <1>1, <1>2 DEF Inv, TypeOK
  <2>3. state' \in {"FieldStart", "FrontQuote", "EscapeOn", "EscapeOff"} /\ idx' \in Nat
    BY <1>1, <1>2
  <2> QED
    BY <1>1, <1>4, <2>1, <2>2, <2>3 DEF Inv, TypeOK
<1>8. elem' # <<>> \/ field_beg' < idx'
  BY <1>1, <1>2, <1>5, <1>6
<1>9. BufferInv'
  BY <1>1, <1>2, <1>4, <1>8 DEF Inv, BufferInv
<1> QED
  BY <1>7, <1>9 DEF Inv

LEMMA EndLineInv == ASSUME Inv, ~Done, EndLine PROVE Inv'
<1>1. /\ elem' = ClosedField /\ row' = Append(Fields, ClosedField)
      /\ field_end' = At /\ field_beg' = At + 1 /\ outer_quote_char' = Outer /\ idx' = At + 1
      /\ col_count' = Len(Fields) + 1 /\ document' = Append(document, row')
      /\ RightLength
      /\ \/ /\ dsv_stream = <<>> /\ state' = "ParseCompleted"
            /\ dsv_stream' = dsv_stream /\ row_str' = row_str
         \/ /\ dsv_stream # <<>> /\ state' = "LineEnd"
            /\ row_str' = LineOf(dsv_stream) /\ dsv_stream' = Tail(dsv_stream)
  BY DEF EndLine, _field_end, NextLine, buffer
<1>2. /\ At \in Nat /\ ClosedField \in Seq(Char) /\ Fields \in Seq(Seq(Char))
      /\ Outer \in Quotes \cup {NULL_CHAR}
  BY Reading
<1>3. /\ row' \in Seq(Seq(Char)) /\ Len(row') = Len(Fields) + 1 /\ Len(Fields) \in Nat
  BY <1>1, <1>2
<1>4. /\ document' \in Seq(Seq(Seq(Char))) /\ document' # <<>>
      /\ document = <<>> => document'[1] = row'
      /\ document # <<>> => document'[1] = document[1]
  BY <1>1, <1>3, SMTT(30) DEF Inv, TypeOK
<1>5. Len(document'[1]) = col_count' /\ col_count' > 0 /\ col_count' \in Nat
  <2>1. CASE document = <<>>
    BY <1>1, <1>3, <1>4, <2>1
  <2>2. CASE document # <<>>
    <3>1. col_count = Len(document[1]) /\ col_count > 0
      BY <2>2 DEF Inv, BufferInv
    <3>2. Len(Fields) + 1 = col_count
      BY <1>1, <3>1 DEF RightLength
    <3> QED
      BY <1>1, <1>3, <1>4, <2>2, <3>1, <3>2
  <2> QED
    BY <2>1, <2>2
<1>6. CASE dsv_stream = <<>>
  <2>1. /\ state' = "ParseCompleted" /\ dsv_stream' = dsv_stream /\ row_str' = row_str
        /\ Done'
    BY <1>1, <1>6 DEF Done
  <2>2. TypeOK'
    BY <1>1, <1>2, <1>3, <1>4, <1>5, <2>1 DEF Inv, TypeOK
  <2>3. BufferInv'
    BY <1>4, <1>5, <2>1 DEF BufferInv
  <2> QED
    BY <2>2, <2>3 DEF Inv
<1>7. CASE dsv_stream # <<>>
  <2>1. /\ state' = "LineEnd" /\ row_str' = LineOf(dsv_stream) /\ dsv_stream' = Tail(dsv_stream)
        /\ Opening' /\ At' = 0
    BY <1>1, <1>7 DEF Opening, At
  <2>2. /\ row_str' \in Seq(Char) /\ 0 < Len(row_str') /\ dsv_stream' \in LinesSeq
        /\ \A i \in (0 + 1)..Len(row_str') : row_str'[i] = Newline <=> i = Len(row_str')
    BY <1>7, <2>1, NewBuffer DEF Inv, TypeOK, LinesSeq
  <2>3. TypeOK'
    BY <1>1, <1>2, <1>3, <1>4, <1>5, <2>1, <2>2 DEF TypeOK, LinesSeq
  <2>4. BufferInv'
    BY <1>4, <1>5, <2>1, <2>2 DEF BufferInv
  <2> QED
    BY <2>3, <2>4 DEF Inv
<1> QED
  BY <1>6, <1>7

----------------------------------------------------------------------------
\* Sequences of characters.
LEMMA SameSequence ==
  ASSUME NEW s \in Seq(Char), NEW t \in Seq(Char), Len(s) = Len(t),
         \A i \in 1..Len(s) : s[i] = t[i]
  PROVE  s = t
  OBVIOUS

LEMMA Concatenation ==
  ASSUME NEW s \in Seq(Char), NEW t \in Seq(Char)
  PROVE  /\ s \o t \in Seq(Char) /\ Len(s \o t) = Len(s) + Len(t)
         /\ Len(s) \in Nat /\ Len(t) \in Nat
         /\ \A i \in 1..Len(s) : (s \o t)[i] = s[i]
         /\ \A i \in 1..Len(t) : (s \o t)[Len(s) + i] = t[i]
  OBVIOUS

LEMMA TailOf ==
  ASSUME NEW u \in Seq(Char), u # <<>>
  PROVE  /\ Len(u) - 1 \in Nat /\ Tail(u) \in Seq(Char) /\ Len(Tail(u)) = Len(u) - 1
         /\ \A i \in 1..(Len(u) - 1) : Tail(u)[i] = u[i + 1]
         /\ Head(u) = u[1]
  OBVIOUS

LEMMA TailOfConcatenation ==
  ASSUME NEW u \in Seq(Char), NEW t \in Seq(Char), u # <<>>
  PROVE  /\ u \o t # <<>> /\ Head(u \o t) = Head(u) /\ Tail(u) \in Seq(Char)
         /\ Tail(u \o t) = Tail(u) \o t
<1> DEFINE m == Len(u) - 1
           n == Len(t)
           left == u \o t
           v == Tail(u)
           w == Tail(left)
           z == v \o t
<1>1. m \in Nat /\ n \in Nat /\ Len(u) = m + 1
  BY TailOf
<1>2. /\ left \in Seq(Char) /\ Len(left) = (m + 1) + n
      /\ \A i \in 1..(m + 1) : left[i] = u[i]
      /\ \A i \in 1..n : left[(m + 1) + i] = t[i]
  BY <1>1, Concatenation
<1>3. v \in Seq(Char) /\ Len(v) = m /\ Head(u) = u[1] /\ \A i \in 1..m : v[i] = u[i + 1]
  BY TailOf
<1>4. z \in Seq(Char) /\ Len(z) = m + n
  BY <1>3, Concatenation
<1>5. (\A i \in 1..m : z[i] = v[i]) /\ \A i \in 1..n : z[m + i] = t[i]
  <2> HIDE DEF v
  <2> QED
    BY <1>3, Concatenation
<1> HIDE DEF m, n, left, v, z
<1>6. left # <<>> /\ Len(left) - 1 = m + n /\ left[1] = u[1]
  <2>1. 1 \in 1..(m + 1) /\ (m + 1) + n # 0
    BY <1>1
  <2> QED
    BY <1>1, <1>2, <2>1
<1>7. /\ w \in Seq(Char) /\ Len(w) = m + n /\ Head(left) = u[1]
      /\ \A i \in 1..(m + n) : w[i] = left[i + 1]
  BY <1>2, <1>6, TailOf
<1> HIDE DEF w
<1>8. ASSUME NEW i \in 1..(m + n)
      PROVE  w[i] = z[i]
  <2>1. CASE i <= m
    <3>1. i \in 1..m /\ i + 1 \in 1..(m + 1)
      BY <1>1, <2>1
    <3>2. w[i] = left[i + 1] /\ left[i + 1] = u[i + 1]
      BY <1>2, <1>7, <3>1
    <3>3. z[i] = v[i] /\ v[i] = u[i + 1]
      BY <1>3, <1>5, <3>1
    <3> QED
      BY <3>2, <3>3
  <2>2. CASE ~(i <= m)
    <3>1. PICK k \in 1..n : i = m + k /\ i + 1 = (m + 1) + k
      <4>1. i - m \in 1..n /\ i = m + (i - m) /\ i + 1 = (m + 1) + (i - m)
        BY <1>1, <2>2
      <4> QED
        BY <4>1
    <3>2. w[i] = left[i + 1] /\ left[(m + 1) + k] = t[k]
      BY <1>2, <1>7
    <3>3. z[m + k] = t[k]
      BY <1>5
    <3> QED
      BY <3>1, <3>2, <3>3
  <2> QED
    BY <2>1, <2>2
<1>9. w = z
  BY <1>4, <1>7, <1>8, SameSequence
<1> QED
  BY <1>3, <1>6, <1>7, <1>9 DEF left, v, w, z

LEMMA TailOfSubSequence ==
  ASSUME NEW s \in Seq(Char), NEW a \in Nat, a + 1 <= Len(s)
  PROVE  /\ SubSeq(s, a + 1, Len(s)) \in Seq(Char) /\ SubSeq(s, a + 1, Len(s)) # <<>>
         /\ Head(SubSeq(s, a + 1, Len(s))) = s[a + 1]
         /\ Tail(SubSeq(s, a + 1, Len(s))) = SubSeq(s, (a + 1) + 1, Len(s))
<1> DEFINE ch == a + 1
           n == Len(s)
           m == n - ch
           u == SubSeq(s, a + 1, n)
           v == SubSeq(s, ch + 1, n)
           w == Tail(u)
<1>1. ch \in Nat /\ n \in Nat /\ ch <= n /\ a <= n /\ n - a = m + 1 /\ m \in Nat
  OBVIOUS
<1>2. u \in Seq(Char) /\ Len(u) = n - a /\ \A i \in 1..(n - a) : u[i] = s[a + i]
  BY <1>1, SubSequence
<1>3. v \in Seq(Char) /\ Len(v) = m /\ \A i \in 1..m : v[i] = s[ch + i]
  <2> HIDE DEF ch, n
  <2> QED
    BY <1>1, SubSequence DEF n
<1>4. \A i \in 1..m : i + 1 \in 1..(m + 1) /\ a + (i + 1) = ch + i
  BY <1>1
<1> HIDE DEF ch, n, m, u, v
<1>5. Len(u) = m + 1 /\ u # <<>> /\ Len(u) - 1 = m
  BY <1>1, <1>2
<1>6. w \in Seq(Char) /\ Len(w) = m /\ Head(u) = u[1] /\ \A i \in 1..m : w[i] = u[i + 1]
  BY <1>2, <1>5, TailOf
<1> HIDE DEF w
<1>7. ASSUME NEW i \in 1..m
      PROVE  w[i] = v[i]
  <2>1. i + 1 \in 1..(n - a) /\ a + (i + 1) = ch + i
    BY <1>1, <1>4
  <2>2. u[i + 1] = s[a + (i + 1)]
    BY <1>2, <2>1
  <2> QED
    BY <1>3, <1>6, <2>1, <2>2
<1>8. w = v
  BY <1>3, <1>6, <1>7, SameSequence
<1>9. u[1] = s[a + 1]
  BY <1>1, <1>2
<1> QED
  BY <1>2, <1>5, <1>6, <1>8, <1>9 DEF u, v, w, ch, n

\* What is left of a text when its first character has been taken away.
LEMMA HeadAndTail ==
  ASSUME NEW s \in Seq(Char), NEW t \in Seq(Char), NEW ch \in Nat, 0 < ch, ch <= Len(s),
         NEW left, left = SubSeq(s, ch, Len(s)) \o t
  PROVE  /\ left \in Seq(Char) /\ left # <<>> /\ Head(left) = s[ch]
         /\ Tail(left) = SubSeq(s, ch + 1, Len(s)) \o t
<1>1. PICK a \in Nat : ch = a + 1
  <2>1. ch - 1 \in Nat /\ ch = (ch - 1) + 1
    OBVIOUS
  <2> QED
    BY <2>1
<1> DEFINE u == SubSeq(s, a + 1, Len(s))
<1>2. /\ u \in Seq(Char) /\ u # <<>> /\ Head(u) = s[a + 1]
      /\ Tail(u) = SubSeq(s, (a + 1) + 1, Len(s))
  BY <1>1, TailOfSubSequence
<1>3. left = u \o t
  BY <1>1
<1> HIDE DEF u
<1>4. left \in Seq(Char)
  BY <1>2, <1>3, Concatenation
<1>5. u \o t # <<>> /\ Head(u \o t) = Head(u) /\ Tail(u \o t) = Tail(u) \o t
  BY <1>2, TailOfConcatenation
<1> QED
  BY <1>1, <1>2, <1>3, <1>4, <1>5

LEMMA WholeAndNothing ==
  ASSUME NEW s \in Seq(Char), NEW t \in Seq(Char)
  PROVE  /\ SubSeq(s, Len(s) + 1, Len(s)) \o t = t
         /\ SubSeq(s, 0 + 1, Len(s)) = s
         /\ t \o <<>> = t /\ <<>> \o t = t
<1>1. SubSeq(s, Len(s) + 1, Len(s)) = <<>>
  OBVIOUS
<1>2. SubSeq(s, 0 + 1, Len(s)) = s
  BY SubSequence, SameSequence
<1>3. t \o <<>> = t /\ <<>> \o t = t
  BY Concatenation, SameSequence
<1> QED
  BY <1>1, <1>2, <1>3

\* A chunk grows by one character.
LEMMA ChunkGrows ==
  ASSUME NEW s \in Seq(Char), NEW e \in Seq(Char), NEW a \in Nat, NEW b \in Nat,
         a <= b, b + 1 <= Len(s)
  PROVE  e \o SubSeq(s, a + 1, b + 1) = Append(e \o SubSeq(s, a + 1, b), s[b + 1])
<1>1. b + 1 \in Nat /\ a <= b + 1 /\ b <= Len(s) /\ Len(s) \in Nat
  OBVIOUS
<1>2. PICK u \in Seq(Char) : /\ u = SubSeq(s, a + 1, b) /\ Len(u) = b - a
                             /\ \A i \in 1..(b - a) : u[i] = s[a + i]
  BY <1>1, SubSequence, ZenonT(30)
<1>3. PICK v \in Seq(Char) : /\ v = SubSeq(s, a + 1, b + 1) /\ Len(v) = (b + 1) - a
                             /\ \A i \in 1..((b + 1) - a) : v[i] = s[a + i]
  <2>1. PICK d \in Nat : d = b + 1
    BY <1>1
  <2>2. /\ SubSeq(s, a + 1, d) \in Seq(Char) /\ Len(SubSeq(s, a + 1, d)) = d - a
        /\ \A i \in 1..(d - a) : SubSeq(s, a + 1, d)[i] = s[a + i]
    BY <1>1, <2>1, SubSequence
  <2> QED
    BY <2>1, <2>2
<1>4. PICK ch \in Char : ch = s[b + 1]
  BY <1>1
<1>5. PICK n \in Nat : n = b - a /\ n + 1 = (b + 1) - a /\ b + 1 = a + (n + 1)
  BY <1>1
<1>6. /\ Append(u, ch) \in Seq(Char) /\ Len(Append(u, ch)) = n + 1
      /\ \A i \in 1..n : Append(u, ch)[i] = u[i]
      /\ Append(u, ch)[n + 1] = ch
  BY <1>2, <1>5
<1>7. v[n + 1] = ch
  BY <1>3, <1>4, <1>5
<1>8. \A i \in 1..(n + 1) : v[i] = Append(u, ch)[i]
  <2>1. \A i \in 1..(n + 1) : i \in 1..n \/ i = n + 1
    OBVIOUS
  <2>2. \A i \in 1..n : v[i] = u[i]
    BY <1>2, <1>3, <1>5
  <2> QED
    BY <1>6, <1>7, <2>1, <2>2
<1>9. v = Append(u, ch)
  BY <1>3, <1>5, <1>6, <1>8, SameSequence
<1>10. e \o Append(u, ch) = Append(e \o u, ch)
  OBVIOUS
<1> QED
  BY <1>2, <1>3, <1>4, <1>9, <1>10

LEMMA PartsOfConcatenation ==
  ASSUME NEW s \in Seq(Char), NEW t \in Seq(Char)
  PROVE  /\ SubSeq(s \o t, 0 + 1, Len(s)) = s
         /\ SubSeq(s \o t, Len(s) + 1, Len(s \o t)) = t
<1> DEFINE left == s \o t
           m == Len(s)
           n == Len(t)
           k == Len(left)
           u == SubSeq(left, 0 + 1, m)
           v == SubSeq(left, m + 1, k)
<1>1. /\ left \in Seq(Char) /\ k = m + n /\ m \in Nat /\ n \in Nat
      /\ \A i \in 1..m : left[i] = s[i]
      /\ \A i \in 1..n : left[m + i] = t[i]
  BY Concatenation
<1> HIDE DEF left
<1>2. m <= Len(left) /\ 0 <= m /\ k \in Nat /\ m <= k /\ m - 0 = m /\ k - m = n
  BY <1>1
<1> HIDE DEF m, k, n
<1>3. u \in Seq(Char) /\ Len(u) = m /\ \A i \in 1..m : u[i] = left[0 + i]
  BY <1>1, <1>2, SubSequence
<1>4. v \in Seq(Char) /\ Len(v) = n /\ \A i \in 1..n : v[i] = left[m + i]
  <2>1. v \in Seq(Char) /\ Len(v) = k - m /\ \A i \in 1..(k - m) : v[i] = left[m + i]
    BY <1>1, <1>2, SubSequence DEF k
  <2> QED
    BY <1>2, <2>1
<1> HIDE DEF u, v
<1>5. u = s
  <2>1. \A i \in 1..m : u[i] = s[i]
    BY <1>1, <1>3
  <2> QED
    BY <1>3, <2>1, SameSequence DEF m
<1>6. v = t
  <2>1. \A i \in 1..n : v[i] = t[i]
    BY <1>1, <1>4
  <2> QED
    BY <1>4, <2>1, SameSequence DEF n
<1> QED
  BY <1>5, <1>6 DEF u, v, left, m, k

\* The next line is appended to the part of the buffer from the field on.
LEMMA AppendedLine ==
  ASSUME Inv, ~Done, AppendLine
  PROVE  /\ row_str' \in Seq(Char) /\ At = idx /\ idx \in Nat /\ idx + 1 = Len(row_str)
         /\ dsv_stream \in LinesSeq /\ dsv_stream # <<>> /\ dsv_stream' = Tail(dsv_stream)
         /\ dsv_stream' \in LinesSeq
         /\ idx' \in Nat /\ idx' > 0 /\ idx' < Len(row_str')
         /\ \A i \in (idx' + 1)..Len(row_str') : row_str'[i] = Newline <=> i = Len(row_str')
         /\ SubSeq(row_str', 0 + 1, idx') = SubSeq(row_str, field_beg + 1, idx + 1)
         /\ SubSeq(row_str', idx' + 1, Len(row_str')) = LineOf(dsv_stream)
<1>1. ~Opening
  BY DEF AppendLine, InQuotes, Opening
<1>2. /\ row_str \in Seq(Char) /\ Len(row_str) \in Nat /\ At = idx /\ idx \in Nat
      /\ idx + 1 = Len(row_str) /\ field_beg \in Nat /\ field_beg <= idx
  BY <1>1, Reading DEF AppendLine
<1>3. /\ dsv_stream \in LinesSeq /\ dsv_stream # <<>> /\ dsv_stream' = Tail(dsv_stream)
      /\ row_str' = SubSeq(row_str, field_beg + 1, Len(row_str)) \o LineOf(dsv_stream)
      /\ idx' = (idx - field_beg) + 1
  BY DEF AppendLine, Shifted, Inv, TypeOK, LinesSeq
<1>4. PICK p : p = SubSeq(row_str, field_beg + 1, idx + 1)
  OBVIOUS
<1>5. p \in Seq(Char) /\ Len(p) = idx' /\ Len(p) \in Nat /\ Len(p) > 0
  <2>1. idx + 1 \in Nat /\ field_beg <= idx + 1 /\ idx + 1 <= Len(row_str)
    BY <1>2
  <2>2. p \in Seq(Char) /\ Len(p) = (idx + 1) - field_beg
    BY <1>2, <1>4, <2>1, SubSequence
  <2> QED
    BY <1>2, <1>3, <2>2
<1>6. PICK q : q = LineOf(dsv_stream)
  OBVIOUS
<1>7. /\ q \in Seq(Char) /\ Len(q) \in Nat \ {0} /\ dsv_stream' \in LinesSeq
      /\ \A i \in 1..Len(q) : q[i] = Newline <=> i = Len(q)
  BY <1>3, <1>6, LineOfType
<1>8. row_str' = p \o q
  BY <1>2, <1>3, <1>4, <1>6
<1>9. /\ row_str' \in Seq(Char) /\ Len(row_str') = Len(p) + Len(q)
      /\ \A i \in 1..Len(q) : row_str'[Len(p) + i] = q[i]
  BY <1>5, <1>7, <1>8, Concatenation
<1>10. ASSUME NEW i \in (idx' + 1)..Len(row_str')
       PROVE  row_str'[i] = Newline <=> i = Len(row_str')
  <2>1. PICK k \in 1..Len(q) : i = Len(p) + k
    <3>1. i - Len(p) \in 1..Len(q) /\ i = Len(p) + (i - Len(p))
      BY <1>5, <1>7, <1>9
    <3> QED
      BY <3>1
  <2>2. row_str'[i] = q[k]
    BY <1>9, <2>1
  <2>3. k = Len(q) <=> i = Len(row_str')
    BY <1>5, <1>7, <1>9, <2>1
  <2> QED
    BY <1>7, <2>2, <2>3
<1>11. /\ SubSeq(row_str', 0 + 1, Len(p)) = p
       /\ SubSeq(row_str', Len(p) + 1, Len(row_str')) = q
  BY <1>5, <1>7, <1>8, PartsOfConcatenation
<1>12. idx' < Len(row_str')
  BY <1>5, <1>7, <1>9
<1> QED
  BY <1>2, <1>3, <1>4, <1>5, <1>6, <1>7, <1>9, <1>10, <1>11, <1>12

LEMMA AppendLineInv == ASSUME Inv, ~Done, AppendLine PROVE Inv'
<1>1. /\ field_beg' = 0 /\ field_end' = 0 /\ elem' = elem /\ outer_quote_char' = outer_quote_char
      /\ row' = row /\ col_count' = col_count /\ document' = document /\ state' = state
      /\ state \in {"FrontQuote", "EscapeOff"}
  BY DEF AppendLine, InQuotes
<1>2. ~Done' /\ ~Opening' /\ At' = idx'
  BY <1>1 DEF Done, Opening, At
<1>3. TypeOK'
  BY <1>1, <1>2, AppendedLine DEF Inv, TypeOK, LinesSeq
<1>4. BufferInv'
  BY <1>1, <1>2, AppendedLine DEF Inv, BufferInv
<1> QED
  BY <1>3, <1>4 DEF Inv

LEMMA NextInv == Inv /\ [Next]_vars => Inv'
<1> SUFFICES ASSUME Inv, [Next]_vars PROVE Inv'
  OBVIOUS
<1>1. CASE UNCHANGED vars
  BY <1>1 DEF vars, buffer, field, Inv, TypeOK, BufferInv, Done, Opening, At
<1>2. CASE Next
  <2>1. ~Done
    BY <1>2 DEF Next
  <2>2. CASE WrongLength \/ EmptyLine \/ NoMoreData
    BY <2>2, ThrowInv DEF WrongLength, EmptyLine, NoMoreData
  <2>3. CASE Delimit
    BY <2>1, <2>3, DelimitInv
  <2>4. CASE EndLine
    BY <2>1, <2>4, EndLineInv
  <2>5. CASE StartField
    BY <2>1, <2>5, StartFieldInv
  <2>6. CASE Skip \/ EscapeOn \/ EscapeOff
    BY <2>1, <2>6, WithinFieldInv
  <2>7. CASE AppendLine
    BY <2>1, <2>7, AppendLineInv
  <2> QED
    BY <1>2, <2>2, <2>3, <2>4, <2>5, <2>6, <2>7 DEF Next
<1> QED
  BY <1>1, <1>2

\* The position is always that of a character in the buffer, and the field at work
\* begins at or before it.
THEOREM PositionsInBuffer == Spec => []TypeOK
<1>1. Inv => TypeOK
  BY DEF Inv
<1> QED
  BY InitInv, NextInv, <1>1, PTL DEF Spec

----------------------------------------------------------------------------
\* What the parser's state means.
LEMMA JoinedLines ==
  ASSUME NEW s \in LinesSeq
  PROVE  /\ Joined[s] \in Seq(Char)
         /\ s = <<>> => Joined[s] = <<>>
         /\ s # <<>> => /\ Joined[s] = LineOf(s) \o Joined[Tail(s)]
                        /\ Joined[s] # <<>> /\ Tail(s) \in LinesSeq
<1>1. CASE s = <<>>
  BY <1>1, JoinedExists
<1>2. CASE s # <<>>
  <2>1. /\ LineOf(s) \in Seq(Char) /\ Len(LineOf(s)) \in Nat \ {0} /\ Tail(s) \in LinesSeq
    BY <1>2, LineOfType
  <2>2. Joined[Tail(s)] \in Seq(Char) /\ Joined[s] = LineOf(s) \o Joined[Tail(s)]
    BY <1>2, <2>1, JoinedExists
  <2>3. Joined[s] \in Seq(Char) /\ Len(Joined[s]) # 0
    BY <2>1, <2>2, Concatenation
  <2> QED
    BY <1>2, <2>1, <2>2, <2>3
<1> QED
  BY <1>1, <1>2

LEMMA WhatRemains ==
  ASSUME Inv, ~Done
  PROVE  /\ Remaining \in Seq(Char) /\ Remaining # <<>> /\ Head(Remaining) = _curr_char
         /\ Tail(Remaining) = SubSeq(row_str, (At + 1) + 1, Len(row_str)) \o Joined[dsv_stream]
         /\ _curr_char = Newline => Tail(Remaining) = Joined[dsv_stream]
         /\ _curr_char # Newline => Tail(Remaining) # <<>>
         /\ dsv_stream \in LinesSeq
<1>1. /\ row_str \in Seq(Char) /\ Len(row_str) \in Nat /\ At \in Nat /\ At + 1 <= Len(row_str)
      /\ _curr_char = row_str[At + 1] /\ (_curr_char = Newline <=> At + 1 = Len(row_str))
  BY Reading
<1>2. dsv_stream \in LinesSeq
  BY DEF Inv, TypeOK, LinesSeq
<1>3. PICK t \in Seq(Char) : t = Joined[dsv_stream]
  BY <1>2, JoinedLines
<1>4. Remaining = SubSeq(row_str, At + 1, Len(row_str)) \o t
  BY <1>3 DEF Remaining
<1>5. /\ Remaining \in Seq(Char) /\ Remaining # <<>> /\ Head(Remaining) = row_str[At + 1]
      /\ Tail(Remaining) = SubSeq(row_str, (At + 1) + 1, Len(row_str)) \o t
  <2>1. PICK ch \in Nat : ch = At + 1 /\ 0 < ch
    BY <1>1
  <2>2. Remaining = SubSeq(row_str, ch, Len(row_str)) \o t
    BY <1>4, <2>1
  <2>3. /\ Remaining \in Seq(Char) /\ Remaining # <<>> /\ Head(Remaining) = row_str[ch]
        /\ Tail(Remaining) = SubSeq(row_str, ch + 1, Len(row_str)) \o t
    <3>1. Remaining \in Seq(Char)
      BY <1>1, <2>1, <2>2, HeadAndTail
    <3>2. Remaining # <<>>
      BY <1>1, <2>1, <2>2, HeadAndTail
    <3>3. Head(Remaining) = row_str[ch]
      BY <1>1, <2>1, <2>2, HeadAndTail
    <3>4. Tail(Remaining) = SubSeq(row_str, ch + 1, Len(row_str)) \o t
      BY <1>1, <2>1, <2>2, HeadAndTail
    <3> QED
      BY <3>1, <3>2, <3>3, <3>4
  <2> QED
    BY <2>1, <2>3
<1>6. ASSUME _curr_char = Newline
      PROVE  Tail(Remaining) = t
  <2>1. At + 1 = Len(row_str)
    BY <1>1, <1>6
  <2>2. SubSeq(row_str, Len(row_str) + 1, Len(row_str)) \o t = t
    BY <1>1, WholeAndNothing
  <2> QED
    BY <1>5, <2>1, <2>2
<1>7. ASSUME _curr_char # Newline
      PROVE  Tail(Remaining) # <<>>
  <2>1. PICK ch \in Nat : ch = (At + 1) + 1 /\ 0 < ch
    BY <1>1
  <2>2. ch <= Len(row_str)
    BY <1>1, <1>7, <2>1
  <2>3. PICK left : left = SubSeq(row_str, ch, Len(row_str)) \o t
    OBVIOUS
  <2>4. left # <<>>
    BY <1>1, <2>1, <2>2, <2>3, HeadAndTail
  <2> QED
    BY <1>5, <2>1, <2>3, <2>4
<1> QED
  BY <1>1, <1>2, <1>3, <1>5, <1>6, <1>7

\* A field that has begun has characters.
LEMMA WhatIsRead ==
  ASSUME Inv, ~Done
  PROVE  /\ Record = Fields /\ FieldSoFar = ClosedField /\ QuoteOfField = Outer
         /\ Records = document /\ Outcome = "reading"
         /\ Unclosed \in BOOLEAN /\ (Unclosed <=> InQuotes)
         /\ Opening => FieldSoFar = <<>> /\ Outer = NULL_CHAR
         /\ ~Opening => FieldSoFar # <<>>
<1>1. /\ Record = Fields /\ FieldSoFar = ClosedField /\ QuoteOfField = Outer
      /\ Records = document /\ Outcome = "reading"
  BY DEF Record, FieldSoFar, QuoteOfField, Records, Outcome, Done
<1>2. Unclosed \in BOOLEAN /\ (Unclosed <=> InQuotes)
  BY Zenon DEF Unclosed
<1>3. /\ Chunk(Beg, At) \in Seq(Char) /\ Len(Chunk(Beg, At)) = At - Beg /\ Elem \in Seq(Char)
      /\ At \in Nat /\ Beg \in Nat
      /\ ~Opening => At = idx /\ Elem = elem /\ Beg = field_beg
  BY Reading
<1>4. ClosedField = Elem \o Chunk(Beg, At)
  BY DEF ClosedField
<1>5. CASE Opening
  <2>1. Beg = At /\ Elem = <<>> /\ Outer = NULL_CHAR
    BY <1>5 DEF Beg, Elem, Outer
  <2>2. Len(Chunk(Beg, At)) = 0
    BY <1>3, <2>1
  <2>3. Chunk(Beg, At) = <<>>
    BY <1>3, <2>2
  <2>4. <<>> \o <<>> = <<>>
    BY <1>3, <2>1, WholeAndNothing
  <2> QED
    BY <1>1, <1>2, <1>4, <1>5, <2>1, <2>3, <2>4
<1>6. CASE ~Opening
  <2>1. elem # <<>> \/ field_beg < idx
    BY <1>6 DEF Inv, BufferInv
  <2>2. Len(Elem) # 0 \/ Len(Chunk(Beg, At)) # 0
    BY <1>3, <1>6, <2>1
  <2>3. /\ Len(ClosedField) = Len(Elem) + Len(Chunk(Beg, At))
        /\ Len(Elem) \in Nat /\ Len(Chunk(Beg, At)) \in Nat
    BY <1>3, <1>4, Concatenation
  <2>4. ClosedField # <<>>
    BY <2>2, <2>3
  <2> QED
    BY <1>1, <1>2, <1>6, <2>4
<1> QED
  BY <1>5, <1>6

\* The same of the next state.
Meaning ==
  /\ Record = Fields /\ QuoteOfField = Outer /\ Records = document /\ Outcome = "reading"
  /\ FieldSoFar = ClosedField
  /\ Opening => FieldSoFar = <<>> /\ Outer = NULL_CHAR

LEMMA ReadNext == (Inv /\ ~Done => Meaning)'
<1>1. Inv /\ ~Done => Meaning
  BY WhatIsRead DEF Meaning
<1> QED
  BY <1>1, PTL

LEMMA InitImplements == Init => Text!Init
<1> SUFFICES ASSUME Init PROVE Text!Init
  OBVIOUS
<1>0. Inv
  BY InitInv
<1>1. PICK s \in Streams :
        IF s = <<>>
        THEN state = "ParseCompleted" /\ row_str = <<>> /\ dsv_stream = <<>>
        ELSE state = "LineEnd" /\ row_str = LineOf(s) /\ dsv_stream = Tail(s)
  BY DEF Init
<1>2. document = <<>>
  BY DEF Init
<1>3. CASE s = <<>>
  <2>1. state = "ParseCompleted" /\ Done /\ Unclosed = FALSE
    BY <1>1, <1>3 DEF Done, Unclosed
  <2>2. /\ Remaining = <<>> /\ Record = <<>> /\ FieldSoFar = <<>> /\ QuoteOfField = NULL_CHAR
        /\ Records = <<>> /\ Outcome = "complete"
    BY <1>2, <2>1 DEF Remaining, Record, FieldSoFar, QuoteOfField, Records, Outcome
  <2>3. Remaining \in Seq(Char)
    BY <2>2
  <2> QED
    BY <2>1, <2>2, <2>3 DEF Text!Init
<1>4. CASE s # <<>>
  <2>1. state = "LineEnd"
    BY <1>1, <1>4
  <2>2. ~Done /\ Opening /\ Fields = <<>> /\ ~InQuotes
    BY <2>1 DEF Done, Opening, Fields, InQuotes
  <2>3. Remaining \in Seq(Char) /\ Remaining # <<>>
    BY <1>0, <2>2, WhatRemains
  <2>4. /\ Record = <<>> /\ FieldSoFar = <<>> /\ QuoteOfField = NULL_CHAR
        /\ Records = <<>> /\ Outcome = "reading"
    BY <1>0, <1>2, <2>2, WhatIsRead
  <2>5. Unclosed = FALSE
    BY <2>2 DEF Unclosed
  <2> QED
    BY <2>3, <2>4, <2>5 DEF Text!Init
<1> QED
  BY <1>3, <1>4

\* An exception.
LEMMA ThrowImplements ==
  ASSUME Inv, ~Done, Throw
  PROVE  Text!Fail
<1>1. state' = "failed" /\ Done' /\ Unclosed' = FALSE
  BY DEF Throw, Done, Unclosed
<1>2. /\ Remaining' = <<>> /\ Record' = <<>> /\ FieldSoFar' = <<>> /\ QuoteOfField' = NULL_CHAR
      /\ Records' = <<>> /\ Outcome' = "failed"
  BY <1>1 DEF Remaining, Record, FieldSoFar, QuoteOfField, Records, Outcome
<1> QED
  BY <1>1, <1>2 DEF Text!Fail, Text!NewField

LEMMA DelimitImplements ==
  ASSUME Inv, ~Done, Delimit
  PROVE  Text!EndField
<1>1. /\ state' = "FieldEnd" /\ row_str' = row_str /\ dsv_stream' = dsv_stream
      /\ row' = Append(Fields, ClosedField) /\ idx' = At + 1 /\ document' = document
      /\ _curr_char = Delimiter
      /\ state \in {"LineEnd", "FieldEnd", "FieldStart", "EscapeOn"}
  BY DEF Delimit, _field_end, buffer, AtEnd, Opening
<1>2. ~Done' /\ Opening' /\ At' = At + 1 /\ Fields' = row' /\ ~InQuotes /\ ~InQuotes'
  BY <1>1 DEF Done, Opening, At, Fields, InQuotes
<1>3. Inv'
  BY DelimitInv
<1>4. /\ Remaining # <<>> /\ Head(Remaining) = Delimiter
      /\ Tail(Remaining) = SubSeq(row_str, (At + 1) + 1, Len(row_str)) \o Joined[dsv_stream]
  BY <1>1, WhatRemains
<1>5. Remaining' = Tail(Remaining)
  BY <1>1, <1>2, <1>4 DEF Remaining
<1>6. /\ Record = Fields /\ FieldSoFar = ClosedField /\ Records = document /\ Outcome = "reading"
      /\ ~Unclosed
  BY <1>2, WhatIsRead
<1>7. /\ Record' = Fields' /\ FieldSoFar' = <<>> /\ QuoteOfField' = NULL_CHAR
      /\ Records' = document' /\ Outcome' = "reading"
  <2>1. Meaning'
    BY <1>2, <1>3, ReadNext
  <2> QED
    BY <1>2, <2>1 DEF Meaning
<1>8. Unclosed' = FALSE
  BY <1>2 DEF Unclosed
<1> QED
  BY <1>1, <1>2, <1>4, <1>5, <1>6, <1>7, <1>8 DEF Text!EndField, Text!NewField

LEMMA EndLineImplements ==
  ASSUME Inv, ~Done, EndLine
  PROVE  Text!EndRecord
<1>1. /\ row' = Append(Fields, ClosedField) /\ document' = Append(document, row')
      /\ RightLength /\ _curr_char = Newline
      /\ state \in {"FieldEnd", "FieldStart", "EscapeOn"}
      /\ \/ /\ dsv_stream = <<>> /\ state' = "ParseCompleted"
         \/ /\ dsv_stream # <<>> /\ state' = "LineEnd"
            /\ row_str' = LineOf(dsv_stream) /\ dsv_stream' = Tail(dsv_stream)
  BY DEF EndLine, _field_end, NextLine, AtEnd, Opening
<1>2. ~InQuotes /\ ~InQuotes'
  BY <1>1 DEF InQuotes
<1>3. /\ Remaining # <<>> /\ Head(Remaining) = Newline /\ Tail(Remaining) = Joined[dsv_stream]
      /\ dsv_stream \in LinesSeq
  BY <1>1, WhatRemains
<1>4. /\ Record = Fields /\ FieldSoFar = ClosedField /\ Records = document /\ Outcome = "reading"
      /\ ~Unclosed
      /\ Opening => FieldSoFar = <<>>
      /\ ~Opening => FieldSoFar # <<>>
  BY <1>2, WhatIsRead
<1>5. Unclosed' = FALSE
  BY <1>2 DEF Unclosed
<1>6. ~Text!Blank
  <2>1. CASE state = "FieldEnd"
    <3>1. Fields # <<>>
      BY <2>1 DEF Fields, Inv, BufferInv
    <3> QED
      BY <1>4, <3>1 DEF Text!Blank
  <2>2. CASE state # "FieldEnd"
    <3>1. ~Opening
      BY <1>1, <2>2 DEF Opening
    <3> QED
      BY <1>4, <3>1 DEF Text!Blank
  <2> QED
    BY <2>1, <2>2
<1>7. Text!AsLongAsTheFirst
  <2> SUFFICES ASSUME document # <<>> PROVE Len(Fields) + 1 = Len(document[1])
    BY <1>4 DEF Text!AsLongAsTheFirst
  <2>1. col_count = Len(document[1]) /\ col_count > 0
    BY DEF Inv, BufferInv
  <2> QED
    BY <1>1, <2>1 DEF RightLength
<1>8. CASE dsv_stream = <<>>
  <2>1. state' = "ParseCompleted" /\ Done' /\ Joined[dsv_stream] = <<>>
    BY <1>1, <1>3, <1>8, JoinedLines DEF Done
  <2>2. /\ Remaining' = <<>> /\ Record' = <<>> /\ FieldSoFar' = <<>> /\ QuoteOfField' = NULL_CHAR
        /\ Records' = document' /\ Outcome' = "complete"
    BY <2>1 DEF Remaining, Record, FieldSoFar, QuoteOfField, Records, Outcome
  <2> QED
    BY <1>1, <1>3, <1>4, <1>5, <1>6, <1>7, <2>1, <2>2 DEF Text!EndRecord, Text!NewField
<1>9. CASE dsv_stream # <<>>
  <2>1. /\ state' = "LineEnd" /\ row_str' = LineOf(dsv_stream) /\ dsv_stream' = Tail(dsv_stream)
        /\ ~Done' /\ Opening' /\ At' = 0 /\ Fields' = <<>>
    BY <1>1, <1>9 DEF Done, Opening, At, Fields
  <2>2. Meaning'
    BY <2>1, EndLineInv, ReadNext
  <2>3. /\ LineOf(dsv_stream) \in Seq(Char) /\ Joined[dsv_stream] # <<>>
        /\ Joined[dsv_stream] = LineOf(dsv_stream) \o Joined[Tail(dsv_stream)]
    BY <1>3, <1>9, LineOfType, JoinedLines
  <2>4. SubSeq(LineOf(dsv_stream), 0 + 1, Len(LineOf(dsv_stream))) = LineOf(dsv_stream)
    <3>1. PICK l \in Seq(Char) : l = LineOf(dsv_stream)
      BY <2>3
    <3>2. SubSeq(l, 0 + 1, Len(l)) = l
      BY <3>1, WholeAndNothing
    <3> QED
      BY <3>1, <3>2
  <2>5. Remaining' = Joined[dsv_stream]
    BY <2>1, <2>3, <2>4 DEF Remaining
  <2>6. /\ Record' = <<>> /\ FieldSoFar' = <<>> /\ QuoteOfField' = NULL_CHAR
        /\ Records' = document' /\ Outcome' = "reading"
    BY <2>1, <2>2 DEF Meaning
  <2> QED
    BY <1>1, <1>3, <1>4, <1>5, <1>6, <1>7, <2>3, <2>5, <2>6 DEF Text!EndRecord, Text!NewField
<1> QED
  BY <1>8, <1>9

\* An empty line, or one that is not as long as the first.
LEMMA BadRecordImplements ==
  ASSUME Inv, ~Done, WrongLength \/ EmptyLine
  PROVE  Text!BadRecord
<1>1. Throw /\ _curr_char = Newline /\ state \in {"LineEnd", "FieldEnd", "FieldStart", "EscapeOn"}
  BY DEF WrongLength, EmptyLine, AtEnd, Opening
<1>2. /\ Remaining # <<>> /\ Head(Remaining) = Newline
  BY <1>1, WhatRemains
<1>3. ~InQuotes
  BY <1>1 DEF InQuotes
<1>4. /\ Record = Fields /\ FieldSoFar = ClosedField /\ Records = document /\ Outcome = "reading"
      /\ ~Unclosed /\ (Opening => FieldSoFar = <<>>)
  BY <1>3, WhatIsRead
<1>5. Text!Blank \/ ~Text!AsLongAsTheFirst
  <2>1. CASE EmptyLine
    <3>1. Fields = <<>> /\ Opening
      BY <2>1 DEF EmptyLine, Fields, Opening
    <3> QED
      BY <1>4, <3>1 DEF Text!Blank
  <2>2. CASE WrongLength
    <3>1. col_count # 0 /\ Len(Fields) + 1 # col_count
      BY <2>2 DEF WrongLength, RightLength
    <3>2. document # <<>> /\ col_count = Len(document[1])
      BY <3>1 DEF Inv, BufferInv
    <3> QED
      BY <1>4, <3>1, <3>2 DEF Text!AsLongAsTheFirst
  <2> QED
    BY <2>1, <2>2
<1>6. Text!Fail
  BY <1>1, ThrowImplements
<1> QED
  BY <1>2, <1>4, <1>5, <1>6 DEF Text!BadRecord

LEMMA NoMoreDataImplements ==
  ASSUME Inv, ~Done, NoMoreData
  PROVE  Text!Unfinished
<1>1. Throw /\ _curr_char = Newline /\ dsv_stream = <<>> /\ InQuotes
  BY DEF NoMoreData
<1>2. Tail(Remaining) = <<>>
  BY <1>1, WhatRemains, JoinedLines
<1>3. Unclosed
  BY <1>1, WhatIsRead
<1> QED
  BY <1>1, <1>2, <1>3, ThrowImplements DEF Text!Unfinished

\* A character of a field.
LEMMA CharacterImplements ==
  ASSUME Inv, ~Done, NEW ch, ch = _curr_char, Inv', ~Done',
         InQuotes \/ ch \notin {Delimiter, Newline},
         ch # Newline \/ dsv_stream # <<>>,
         Remaining' = Tail(Remaining),
         Fields' = Fields, document' = document,
         ClosedField' = Append(ClosedField, ch),
         Outer' = IF Opening /\ ch \in Quotes THEN ch ELSE Outer,
         InQuotes' <=> IF (Opening /\ ch \in Quotes) \/ ch = Outer THEN ~InQuotes ELSE InQuotes
  PROVE  Text!Character
<1>1. /\ Remaining # <<>> /\ Head(Remaining) = ch
      /\ ch = Newline => Tail(Remaining) = Joined[dsv_stream]
      /\ ch # Newline => Tail(Remaining) # <<>>
      /\ dsv_stream \in LinesSeq
  BY WhatRemains
<1>2. Tail(Remaining) # <<>>
  BY <1>1, JoinedLines
<1>3. /\ Record = Fields /\ FieldSoFar = ClosedField /\ QuoteOfField = Outer
      /\ Records = document /\ Outcome = "reading"
      /\ Unclosed \in BOOLEAN /\ (Unclosed <=> InQuotes)
      /\ FieldSoFar = <<>> <=> Opening
  BY WhatIsRead
<1>4. Meaning'
  BY ReadNext
<1>5. /\ Record' = Record /\ FieldSoFar' = Append(FieldSoFar, ch) /\ QuoteOfField' = Outer'
      /\ Records' = Records /\ Outcome' = Outcome
  BY <1>3, <1>4 DEF Meaning
<1>6. Unclosed' = IF (FieldSoFar = <<>> /\ ch \in Quotes) \/ ch = QuoteOfField
                  THEN ~Unclosed ELSE Unclosed
  <2>1. Unclosed' \in BOOLEAN /\ (Unclosed' <=> InQuotes')
    BY Zenon DEF Unclosed
  <2>2. Unclosed' <=> IF (FieldSoFar = <<>> /\ ch \in Quotes) \/ ch = QuoteOfField
                      THEN ~Unclosed ELSE Unclosed
    BY <1>3, <2>1
  <2> QED
    BY <1>3, <2>1, <2>2
<1>7. QuoteOfField' = IF FieldSoFar = <<>> /\ ch \in Quotes THEN ch ELSE QuoteOfField
  BY <1>3, <1>5
<1>8. Text!Extend(ch)
  BY <1>5, <1>6, <1>7 DEF Text!Extend
<1>9. Unclosed \/ ch \notin {Delimiter, Newline}
  BY <1>3
<1> QED
  BY <1>1, <1>2, <1>5, <1>8, <1>9 DEF Text!Character

LEMMA GrownField ==
  ASSUME Inv, ~Done
  PROVE  Elem \o SubSeq(row_str, Beg + 1, At + 1) = Append(ClosedField, _curr_char)
<1>1. /\ row_str \in Seq(Char) /\ At \in Nat /\ Beg \in Nat /\ Beg <= At /\ At + 1 <= Len(row_str)
      /\ Elem \in Seq(Char) /\ _curr_char = row_str[At + 1]
  BY Reading
<1>2. PICK s \in Seq(Char), e \in Seq(Char), a \in Nat, b \in Nat :
        s = row_str /\ e = Elem /\ a = Beg /\ b = At
  BY <1>1
<1>3. a <= b /\ b + 1 <= Len(s)
  BY <1>1, <1>2
<1>4. e \o SubSeq(s, a + 1, b + 1) = Append(e \o SubSeq(s, a + 1, b), s[b + 1])
  BY <1>3, ChunkGrows
<1> QED
  BY <1>1, <1>2, <1>4 DEF ClosedField, Chunk

LEMMA NextCharacter ==
  ASSUME Inv, ~Done, row_str' = row_str, dsv_stream' = dsv_stream, At' = At + 1, ~Done'
  PROVE  Remaining' = Tail(Remaining)
  BY WhatRemains DEF Remaining

LEMMA StartFieldImplements ==
  ASSUME Inv, ~Done, StartField
  PROVE  Text!Character
<1>1. /\ row_str' = row_str /\ dsv_stream' = dsv_stream
      /\ elem' = <<>> /\ field_beg' = At /\ row' = Fields /\ idx' = At + 1 /\ document' = document
      /\ Opening /\ _curr_char \notin {Delimiter, Newline}
      /\ IF _curr_char \in Quotes
         THEN outer_quote_char' = _curr_char /\ state' = "FrontQuote"
         ELSE outer_quote_char' = NULL_CHAR /\ state' = "FieldStart"
  BY DEF StartField, buffer
<1>2. state' \in {"FrontQuote", "FieldStart"} /\ state \in {"LineEnd", "FieldEnd"}
  BY <1>1 DEF Opening
<1>3. /\ ~Done' /\ ~Opening' /\ At' = At + 1 /\ Fields' = Fields
      /\ Elem' = <<>> /\ Beg' = At /\ Outer' = outer_quote_char'
  BY <1>1, <1>2 DEF Done, Opening, At, Fields, Elem, Beg, Outer
<1>4. Elem = <<>> /\ Beg = At /\ Outer = NULL_CHAR
  BY <1>1 DEF Elem, Beg, Outer
<1>5. ClosedField' = Append(ClosedField, _curr_char)
  BY <1>1, <1>3, <1>4, GrownField DEF ClosedField, Chunk
<1>6. _curr_char # NULL_CHAR
  BY Reading
<1>7. ~InQuotes /\ (InQuotes' <=> _curr_char \in Quotes)
  BY <1>1, <1>2 DEF InQuotes
<1>8. PICK ch : ch = _curr_char
  OBVIOUS
<1>9. Inv' /\ Remaining' = Tail(Remaining)
  BY <1>1, <1>3, StartFieldInv, NextCharacter
<1>10. Outer' = IF Opening /\ ch \in Quotes THEN ch ELSE Outer
  BY <1>1, <1>3, <1>4, <1>8
<1>11. InQuotes' <=> IF (Opening /\ ch \in Quotes) \/ ch = Outer THEN ~InQuotes ELSE InQuotes
  BY <1>1, <1>4, <1>6, <1>7, <1>8
<1> QED
  BY <1>1, <1>3, <1>5, <1>8, <1>9, <1>10, <1>11, CharacterImplements

LEMMA WithinFieldImplements ==
  ASSUME Inv, ~Done, Skip \/ EscapeOn \/ EscapeOff
  PROVE  Text!Character
<1>1. /\ row_str' = row_str /\ dsv_stream' = dsv_stream /\ idx' = idx + 1
      /\ outer_quote_char' = outer_quote_char /\ row' = row /\ document' = document
      /\ state \in {"FieldStart", "FrontQuote", "EscapeOn", "EscapeOff"}
      /\ state' \in {"FieldStart", "FrontQuote", "EscapeOn", "EscapeOff"}
  BY DEF Skip, EscapeOn, EscapeOff, buffer, field, InQuotes
<1>2. ~Opening
  BY <1>1 DEF Opening
<1>3. /\ ~Done' /\ ~Opening' /\ At = idx /\ At' = At + 1 /\ Fields' = Fields
      /\ Elem' = elem' /\ Beg' = field_beg' /\ Outer' = Outer
      /\ Elem = elem /\ Beg = field_beg /\ Outer = outer_quote_char
  BY <1>1 DEF Done, Opening, At, Fields, Elem, Beg, Outer
<1>4. /\ row_str \in Seq(Char) /\ idx \in Nat /\ field_beg \in Nat /\ field_beg <= idx
      /\ idx + 1 <= Len(row_str) /\ elem \in Seq(Char) /\ _curr_char # NULL_CHAR
  BY <1>3, Reading
<1>5. elem \o SubSeq(row_str, field_beg + 1, idx + 1) = Append(ClosedField, _curr_char)
  BY <1>3, GrownField
<1>6. ClosedField' = Append(ClosedField, _curr_char)
  <2>1. CASE elem' = elem /\ field_beg' = field_beg
    BY <1>1, <1>3, <1>5, <2>1 DEF ClosedField, Chunk
  <2>2. CASE elem' = Escaped /\ field_beg' = idx + 1
    <3>1. elem' = Append(ClosedField, _curr_char)
      BY <1>5, <2>2 DEF Escaped, Chunk
    <3>2. PICK t \in Seq(Char) : t = elem'
      <4>1. Append(ClosedField, _curr_char) \in Seq(Char)
        BY Reading
      <4> QED
        BY <3>1, <4>1
    <3>3. SubSeq(row_str, (idx + 1) + 1, idx + 1) = <<>>
      BY <1>4
    <3>4. t \o <<>> = t
      BY WholeAndNothing
    <3>5. ClosedField' = t \o <<>>
      BY <1>1, <1>3, <2>2, <3>2, <3>3 DEF ClosedField, Chunk
    <3> QED
      BY <3>1, <3>2, <3>4, <3>5
  <2> QED
    BY <2>1, <2>2 DEF Skip, EscapeOn, EscapeOff, field
<1>7. /\ InQuotes \/ _curr_char \notin {Delimiter, Newline}
      /\ _curr_char # Newline
      /\ InQuotes' <=> IF _curr_char = outer_quote_char THEN ~InQuotes ELSE InQuotes
  <2>1. CASE Skip
    BY <2>1 DEF Skip, InQuotes
  <2>2. CASE EscapeOn
    <3>1. outer_quote_char \in Quotes
      BY <2>2 DEF EscapeOn, InQuotes, Inv, BufferInv
    <3>2. _curr_char # Newline
      BY <2>2, <3>1, Characters DEF EscapeOn
    <3> QED
      BY <2>2, <3>2 DEF EscapeOn, InQuotes
  <2>3. CASE EscapeOff
    <3>1. outer_quote_char \in Quotes
      BY <2>3 DEF EscapeOff, InQuotes, Inv, BufferInv
    <3>2. _curr_char \notin {Delimiter, Newline}
      BY <2>3, <3>1, Characters DEF EscapeOff
    <3> QED
      BY <2>3, <3>2 DEF EscapeOff, InQuotes
  <2> QED
    BY <2>1, <2>2, <2>3
<1>8. PICK ch : ch = _curr_char
  OBVIOUS
<1>9. Inv' /\ Remaining' = Tail(Remaining)
  BY <1>1, <1>3, WithinFieldInv, NextCharacter
<1> QED
  BY <1>1, <1>2, <1>3, <1>6, <1>7, <1>8, <1>9, CharacterImplements

\* A newline inside quotes.
LEMMA AppendLineImplements ==
  ASSUME Inv, ~Done, AppendLine
  PROVE  Text!Character
<1>1. /\ field_beg' = 0 /\ elem' = elem /\ outer_quote_char' = outer_quote_char /\ row' = row
      /\ document' = document /\ state' = state /\ state \in {"FrontQuote", "EscapeOff"}
      /\ _curr_char = Newline /\ dsv_stream # <<>>
  BY DEF AppendLine, InQuotes
<1>2. /\ ~Opening /\ InQuotes /\ InQuotes' /\ ~Done' /\ ~Opening' /\ At = idx /\ At' = idx'
      /\ Fields' = Fields /\ Elem' = Elem /\ Beg' = 0 /\ Beg = field_beg /\ Outer' = Outer
      /\ Outer = outer_quote_char
  BY <1>1 DEF Done, Opening, InQuotes, At, Fields, Elem, Beg, Outer
<1>3. /\ SubSeq(row_str', 0 + 1, idx') = SubSeq(row_str, field_beg + 1, idx + 1)
      /\ SubSeq(row_str', idx' + 1, Len(row_str')) = LineOf(dsv_stream)
      /\ dsv_stream' = Tail(dsv_stream) /\ dsv_stream \in LinesSeq
  BY AppendedLine
<1>4. ClosedField' = Append(ClosedField, _curr_char)
  BY <1>2, <1>3, GrownField DEF ClosedField, Chunk
<1>5. Remaining' = Tail(Remaining)
  <2>1. Tail(Remaining) = Joined[dsv_stream]
    BY <1>1, WhatRemains
  <2>2. Joined[dsv_stream] = LineOf(dsv_stream) \o Joined[Tail(dsv_stream)]
    BY <1>1, <1>3, JoinedLines
  <2> QED
    BY <1>2, <1>3, <2>1, <2>2 DEF Remaining
<1>6. outer_quote_char \in Quotes
  BY <1>1 DEF Inv, BufferInv
<1>7. _curr_char # Outer /\ _curr_char \notin Quotes
  BY <1>1, <1>2, <1>6, Characters
<1>8. PICK ch : ch = _curr_char
  OBVIOUS
<1>9. Inv'
  BY AppendLineInv
<1> QED
  BY <1>1, <1>2, <1>4, <1>5, <1>7, <1>8, <1>9, CharacterImplements

LEMMA NextImplements == Inv /\ [Next]_vars => [Text!Next]_(Text!vars)
<1> SUFFICES ASSUME Inv, [Next]_vars PROVE [Text!Next]_(Text!vars)
  OBVIOUS
<1>1. CASE UNCHANGED vars
  <2>1. /\ UNCHANGED <<dsv_stream, row_str, idx, field_beg, elem, outer_quote_char, row, document,
                       state>>
    BY <1>1 DEF vars, buffer, field
  <2>2. /\ Done' = Done /\ Opening' = Opening /\ At' = At /\ Fields' = Fields /\ InQuotes' = InQuotes
    BY <2>1 DEF Done, Opening, At, Fields, InQuotes
  <2>3. Elem' = Elem /\ Beg' = Beg /\ Outer' = Outer
    BY <2>1, <2>2 DEF Elem, Beg, Outer, Opening, At
  <2>4. ClosedField' = ClosedField
    BY <2>1, <2>2, <2>3 DEF ClosedField, Chunk
  <2>5. /\ Remaining' = Remaining /\ Records' = Records /\ Record' = Record
        /\ FieldSoFar' = FieldSoFar /\ QuoteOfField' = QuoteOfField /\ Outcome' = Outcome
    BY <2>1, <2>2, <2>3, <2>4
       DEF Remaining, Records, Record, FieldSoFar, QuoteOfField, Outcome, Done
  <2>6. Unclosed' = Unclosed
    BY <2>2 DEF Unclosed
  <2> QED
    BY <2>5, <2>6 DEF Text!vars
<1>2. CASE Next
  <2>1. ~Done
    BY <1>2 DEF Next
  <2>2. Outcome = "reading"
    BY <2>1, WhatIsRead
  <2>3. CASE Delimit
    BY <2>1, <2>2, <2>3, DelimitImplements DEF Text!Next
  <2>4. CASE EndLine
    BY <2>1, <2>2, <2>4, EndLineImplements DEF Text!Next
  <2>5. CASE WrongLength \/ EmptyLine
    BY <2>1, <2>2, <2>5, BadRecordImplements DEF Text!Next
  <2>6. CASE StartField
    BY <2>1, <2>2, <2>6, StartFieldImplements DEF Text!Next
  <2>7. CASE Skip \/ EscapeOn \/ EscapeOff
    BY <2>1, <2>2, <2>7, WithinFieldImplements DEF Text!Next
  <2>8. CASE AppendLine
    BY <2>1, <2>2, <2>8, AppendLineImplements DEF Text!Next
  <2>9. CASE NoMoreData
    BY <2>1, <2>2, <2>9, NoMoreDataImplements DEF Text!Next
  <2> QED
    BY <1>2, <2>3, <2>4, <2>5, <2>6, <2>7, <2>8, <2>9 DEF Next
<1> QED
  BY <1>1, <1>2

\* The parser does with a stream what DsvText says of its characters: delimiters
\* and newlines inside quotes belong to fields, all others end fields and records,
\* and a text whose records differ in length, or that ends inside quotes, fails.
THEOREM Refinement == Spec => ImplementsText
  BY InitInv, NextInv, InitImplements, NextImplements, PTL DEF Spec, ImplementsText, Text!Spec

----------------------------------------------------------------------------
(* The round trip: the text that write_dsv() writes, and what the parser does with it. *)

\* What is true of the empty sequence, and of a sequence if of its tail, is true of
\* all; and a function may be defined by what it is of the tail.
LEMMA InductionOnTails ==
  ASSUME NEW S, NEW P, <<>> \in P, \A s \in Seq(S) : s # <<>> /\ Tail(s) \in P => s \in P
  PROVE  Seq(S) \subseteq P
<1> DEFINE T == {n \in Nat : \E s \in Seq(S) : Len(s) = n /\ s \notin P}
<1>0. \A s \in Seq(S) : Len(s) \in Nat
  OBVIOUS
<1> SUFFICES ASSUME T # {} PROVE FALSE
  BY <1>0
<1>1. PICK n \in T : \A m \in T : n <= m
  BY LeastElement
<1>2. PICK s \in Seq(S) : Len(s) = n /\ s \notin P
  BY <1>1
<1>3. s # <<>> /\ Tail(s) \in Seq(S) /\ Len(Tail(s)) \in Nat /\ Len(Tail(s)) < n
  BY <1>2
<1>4. Tail(s) \in P
  <2>1. PICK t \in Seq(S) : t = Tail(s)
    BY <1>3
  <2>2. Len(t) \notin T
    BY <1>1, <1>3, <2>1
  <2> QED
    BY <1>3, <2>1, <2>2
<1> QED
  BY <1>2, <1>3, <1>4

IsFold(f, S, e, step) ==
  \A s \in Seq(S) : f[s] = IF s = <<>> THEN e ELSE step[<<s, f[Tail(s)]>>]

LEMMA RecursionOnTails ==
  ASSUME NEW S, NEW V, NEW e \in V, NEW step \in [Seq(S) \X V -> V]
  PROVE  \E f \in [Seq(S) -> V] : IsFold(f, S, e, step)
<1> DEFINE Maps == [Seq(S) -> V]
           body(f, s) == IF s = <<>> THEN e ELSE step[<<s, f[Tail(s)]>>]
           next == [f \in Maps |-> [s \in Seq(S) |-> body(f, s)]]
           zero == [s \in Seq(S) |-> e]
<1>1. \A s \in Seq(S) : /\ Len(s) \in Nat
                        /\ s # <<>> => Tail(s) \in Seq(S) /\ Len(Tail(s)) + 1 = Len(s)
  OBVIOUS
<1>2. \A f \in Maps : \A s \in Seq(S) : body(f, s) \in V
  <2> SUFFICES ASSUME NEW f \in Maps, NEW s \in Seq(S), s # <<>> PROVE step[<<s, f[Tail(s)]>>] \in V
    OBVIOUS
  <2>1. f[Tail(s)] \in V
    BY <1>1
  <2>2. <<s, f[Tail(s)]>> \in Seq(S) \X V
    BY <2>1
  <2> QED
    BY <2>2
<1>3. next \in [Maps -> Maps] /\ zero \in Maps
  <2> HIDE DEF body
  <2> QED
    BY <1>2
<1>4. PICK g \in [Nat -> Maps] : g[0] = zero /\ \A n \in Nat : g[n + 1] = next[g[n]]
  <2> HIDE DEF Maps, next, zero
  <2> DEFINE Iterated(A) ==
        \A a \in A : \A once \in [A -> A] :
          \E f \in [Nat -> A] : f[0] = a /\ \A n \in Nat : f[n + 1] = once[f[n]]
  <2>1. \A A : Iterated(A)
    BY Iteration, Zenon
  <2>2. Iterated(Maps)
    <3> HIDE DEF Iterated
    <3> QED
      BY <2>1
  <2> QED
    BY <1>3, <2>2
<1> DEFINE j == [s \in Seq(S) |-> g[Len(s) + 1][s]]
<1>5. j \in Maps
  BY <1>1, <1>4
<1>6. \A s \in Seq(S) : j[s] = body(j, s)
  <2> SUFFICES ASSUME NEW s \in Seq(S) PROVE j[s] = body(j, s)
    OBVIOUS
  <2>1. j[s] = body(g[Len(s)], s)
    <3> HIDE DEF body
    <3>1. j[s] = next[g[Len(s)]][s]
      BY <1>1, <1>4
    <3>2. g[Len(s)] \in Maps
      BY <1>1, <1>4
    <3> QED
      BY <3>1, <3>2
  <2>2. s # <<>> => j[Tail(s)] = g[Len(s)][Tail(s)]
    <3> SUFFICES ASSUME s # <<>> PROVE j[Tail(s)] = g[Len(s)][Tail(s)]
      OBVIOUS
    <3>1. PICK t \in Seq(S) : t = Tail(s) /\ Len(t) + 1 = Len(s)
      BY <1>1
    <3>2. j[t] = g[Len(s)][t]
      BY <3>1
    <3> QED
      BY <3>1, <3>2
  <2> HIDE DEF j
  <2> QED
    BY <2>1, <2>2
<1>7. IsFold(j, S, e, step)
  BY <1>6 DEF IsFold
<1> QED
  BY <1>5, <1>7

----------------------------------------------------------------------------
\* The recursive functions of the writer are what their definitions say.
Separator(fields) == IF Len(fields) = 1 THEN Newline ELSE Delimiter
FirstOf(fields, text) == Head(fields) \o (<<Separator(fields)>> \o text)

LEMMA FirstOfType ==
  ASSUME NEW fields \in Seq(String), fields # <<>>, NEW text \in Seq(Char)
  PROVE  /\ Tail(fields) \in Seq(String) /\ Head(fields) \in Seq(Char)
         /\ <<Separator(fields)>> \o text \in Seq(Char)
         /\ FirstOf(fields, text) \in Seq(Char)
<1>1. Tail(fields) \in Seq(String) /\ Head(fields) \in String
  OBVIOUS
<1>2. Head(fields) \in Seq(Char)
  BY <1>1 DEF String
<1>3. <<Separator(fields)>> \in Seq(Char)
  BY Characters DEF Separator
<1>4. <<Separator(fields)>> \o text \in Seq(Char)
  BY <1>3, Concatenation
<1> QED
  BY <1>1, <1>2, <1>4, Concatenation DEF FirstOf

LEMMA RowTextIs ==
  /\ RowText[<<>>] = <<>>
  /\ \A fields \in Seq(String) :
       /\ RowText[fields] \in Seq(Char)
       /\ fields # <<>> => RowText[fields] = FirstOf(fields, RowText[Tail(fields)])
<1> DEFINE V == Seq(Char)
           Body(fields, text) == IF fields = <<>> THEN <<>> ELSE FirstOf(fields, text)
           step == [p \in Seq(String) \X V |-> Body(p[1], p[2])]
<1>1. \A p \in Seq(String) \X V : Body(p[1], p[2]) \in V
  BY FirstOfType
<1>2. step \in [Seq(String) \X V -> V] /\ <<>> \in V
  <2> HIDE DEF Body
  <2> QED
    BY <1>1 DEF V
<1>3. PICK g \in [Seq(String) -> V] :
        IsFold(g, String, <<>>, step)
  <2> HIDE DEF step, V
  <2> QED
    BY <1>2, RecursionOnTails
<1>4. ASSUME NEW s \in Seq(String)
      PROVE  g[s] = IF s = <<>> THEN <<>> ELSE FirstOf(s, g[Tail(s)])
  <2> SUFFICES ASSUME s # <<>> PROVE g[s] = FirstOf(s, g[Tail(s)])
    BY <1>3 DEF IsFold
  <2>1. Tail(s) \in Seq(String)
    OBVIOUS
  <2>2. <<s, g[Tail(s)]>> \in Seq(String) \X V
    BY <2>1
  <2>3. step[<<s, g[Tail(s)]>>] = Body(s, g[Tail(s)])
    BY <2>2
  <2> QED
    BY <1>3, <2>3 DEF IsFold
<1>5. g = [s \in Seq(String) |->
             IF s = <<>> THEN <<>>
             ELSE Head(s) \o (<<IF Len(s) = 1 THEN Newline ELSE Delimiter>> \o g[Tail(s)])]
  BY <1>3, <1>4 DEF FirstOf, Separator
<1>6. RowText = [s \in Seq(String) |->
             IF s = <<>> THEN <<>>
             ELSE Head(s) \o (<<IF Len(s) = 1 THEN Newline ELSE Delimiter>> \o RowText[Tail(s)])]
  BY <1>5, Zenon DEF RowText
<1>7. \A s \in Seq(String) :
        RowText[s] = IF s = <<>> THEN <<>> ELSE FirstOf(s, RowText[Tail(s)])
  BY <1>6 DEF FirstOf, Separator
<1>8. <<>> \in Seq(String) /\ RowText[<<>>] = <<>>
  <2>1. <<>> \in Seq(String)
    OBVIOUS
  <2> QED
    BY <1>7, <2>1
<1> DEFINE P == {s \in Seq(String) : RowText[s] \in Seq(Char)}
<1>9. \A s \in Seq(String) : s # <<>> /\ Tail(s) \in P => s \in P
  <2> SUFFICES ASSUME NEW s \in Seq(String), s # <<>>, RowText[Tail(s)] \in Seq(Char)
               PROVE  RowText[s] \in Seq(Char)
    OBVIOUS
  <2> QED
    BY <1>7, FirstOfType
<1>10. <<>> \in P
  <2>1. <<>> \in Seq(Char)
    OBVIOUS
  <2>2. RowText[<<>>] \in Seq(Char)
    BY <1>8, <2>1
  <2> QED
    BY <1>8, <2>2
<1>11. Seq(String) \subseteq P
  <2> HIDE DEF P
  <2> QED
    BY <1>9, <1>10, InductionOnTails
<1> QED
  BY <1>7, <1>8, <1>11

LEMMA RowsTextIs ==
  /\ RowsText[<<>>] = <<>>
  /\ \A t \in Seq(Seq(String)) :
       /\ RowsText[t] \in Seq(Char)
       /\ t # <<>> => RowsText[t] = RowText[Head(t)] \o RowsText[Tail(t)]
<1> DEFINE V == Seq(Char)
           R == Seq(String)
           S == Seq(R)
           Body(t, text) == IF t = <<>> THEN <<>> ELSE RowText[Head(t)] \o text
           step == [p \in S \X V |-> Body(p[1], p[2])]
<1>1. ASSUME NEW t \in S, t # <<>>, NEW text \in V
      PROVE  Tail(t) \in S /\ Head(t) \in Seq(String) /\ RowText[Head(t)] \o text \in V
  <2>1. Tail(t) \in S /\ Head(t) \in Seq(String)
    BY <1>1
  <2>2. RowText[Head(t)] \in Seq(Char)
    BY <2>1, RowTextIs
  <2> QED
    BY <2>1, <2>2, Concatenation
<1>2. step \in [S \X V -> V] /\ <<>> \in V
  <2>1. \A p \in S \X V : Body(p[1], p[2]) \in V
    BY <1>1
  <2> HIDE DEF Body
  <2> QED
    BY <2>1 DEF V
<1>3. PICK g \in [S -> V] :
        IsFold(g, R, <<>>, step)
  <2> HIDE DEF step, V, R
  <2> QED
    BY <1>2, RecursionOnTails
<1>4. ASSUME NEW s \in S
      PROVE  g[s] = IF s = <<>> THEN <<>> ELSE RowText[Head(s)] \o g[Tail(s)]
  <2> SUFFICES ASSUME s # <<>> PROVE g[s] = RowText[Head(s)] \o g[Tail(s)]
    BY <1>3 DEF IsFold
  <2>1. Tail(s) \in S
    OBVIOUS
  <2>2. <<s, g[Tail(s)]>> \in S \X V
    BY <2>1
  <2>3. step[<<s, g[Tail(s)]>>] = Body(s, g[Tail(s)])
    BY <2>2
  <2> QED
    BY <1>3, <2>3 DEF IsFold
<1>5. g = [s \in S |-> IF s = <<>> THEN <<>> ELSE RowText[Head(s)] \o g[Tail(s)]]
  BY <1>3, <1>4
<1>6. RowsText = [s \in S |-> IF s = <<>> THEN <<>> ELSE RowText[Head(s)] \o RowsText[Tail(s)]]
  BY <1>5, Zenon DEF RowsText
<1>7. \A s \in S : RowsText[s] = IF s = <<>> THEN <<>> ELSE RowText[Head(s)] \o RowsText[Tail(s)]
  BY <1>6
<1>8. <<>> \in S /\ RowsText[<<>>] = <<>>
  <2>1. <<>> \in S
    OBVIOUS
  <2> QED
    BY <1>7, <2>1
<1> DEFINE P == {s \in S : RowsText[s] \in V}
<1>9. \A s \in S : s # <<>> /\ Tail(s) \in P => s \in P
  BY <1>1, <1>7
<1>10. S \subseteq P
  <2>1. <<>> \in P
    <3>1. <<>> \in V
      OBVIOUS
    <3>2. RowsText[<<>>] \in V
      BY <1>8, <3>1
    <3> QED
      BY <1>8, <3>2
  <2> HIDE DEF P
  <2> QED
    BY <1>9, <2>1, InductionOnTails
<1> QED
  BY <1>7, <1>8, <1>10

----------------------------------------------------------------------------
\* Sequences put together from a first element and the rest.
LEMMA FirstAndRest ==
  ASSUME NEW S, NEW a \in S, NEW s \in Seq(S)
  PROVE  /\ <<a>> \o s \in Seq(S) /\ <<a>> \o s # <<>>
         /\ Len(<<a>> \o s) = Len(s) + 1 /\ Len(s) \in Nat
         /\ Head(<<a>> \o s) = a /\ Tail(<<a>> \o s) = s
  OBVIOUS

LEMMA TakenApart ==
  ASSUME NEW S, NEW s \in Seq(S), s # <<>>
  PROVE  /\ Head(s) \in S /\ Tail(s) \in Seq(S) /\ s = <<Head(s)>> \o Tail(s)
         /\ Len(s) = Len(Tail(s)) + 1 /\ Len(Tail(s)) \in Nat
  OBVIOUS

LEMMA Associative ==
  ASSUME NEW s \in Seq(Char), NEW t \in Seq(Char), NEW u \in Seq(Char)
  PROVE  (s \o t) \o u = s \o (t \o u)
<1> DEFINE m == Len(s)
           n == Len(t)
           l == Len(u)
           left == (s \o t) \o u
           right == s \o (t \o u)
<1>1. m \in Nat /\ n \in Nat /\ l \in Nat
  BY Concatenation
<1>2. /\ s \o t \in Seq(Char) /\ Len(s \o t) = m + n
      /\ \A i \in 1..m : (s \o t)[i] = s[i]
      /\ \A i \in 1..n : (s \o t)[m + i] = t[i]
  BY Concatenation
<1>3. /\ t \o u \in Seq(Char) /\ Len(t \o u) = n + l
      /\ \A i \in 1..n : (t \o u)[i] = t[i]
      /\ \A i \in 1..l : (t \o u)[n + i] = u[i]
  BY Concatenation
<1>4. /\ left \in Seq(Char) /\ Len(left) = (m + n) + l
      /\ \A i \in 1..(m + n) : left[i] = (s \o t)[i]
      /\ \A i \in 1..l : left[(m + n) + i] = u[i]
  <2>1. PICK v \in Seq(Char) : v = s \o t
    BY <1>2
  <2> QED
    BY <1>2, <2>1, Concatenation
<1>5. /\ right \in Seq(Char) /\ Len(right) = m + (n + l)
      /\ \A i \in 1..m : right[i] = s[i]
      /\ \A i \in 1..(n + l) : right[m + i] = (t \o u)[i]
  <2>1. PICK v \in Seq(Char) : v = t \o u
    BY <1>3
  <2> QED
    BY <1>3, <2>1, Concatenation
<1> HIDE DEF m, n, l, left, right
<1>6. Len(left) = Len(right) /\ Len(left) = m + n + l
  BY <1>1, <1>4, <1>5
<1>7. ASSUME NEW i \in 1..(m + n + l)
      PROVE  left[i] = right[i]
  <2>1. CASE i \in 1..m
    <3>1. i \in 1..(m + n)
      BY <1>1, <2>1
    <3> QED
      BY <1>2, <1>4, <1>5, <2>1, <3>1
  <2>2. CASE i \in (m + 1)..(m + n)
    <3>1. PICK k \in 1..n : i = m + k
      <4>1. i - m \in 1..n /\ i = m + (i - m)
        BY <1>1, <2>2
      <4> QED
        BY <4>1
    <3>2. i \in 1..(m + n) /\ k \in 1..(n + l)
      BY <1>1, <3>1
    <3>3. left[i] = t[k]
      BY <1>2, <1>4, <3>1, <3>2
    <3>4. right[i] = t[k]
      BY <1>3, <1>5, <3>1, <3>2
    <3> QED
      BY <3>3, <3>4
  <2>3. CASE i \in (m + n + 1)..(m + n + l)
    <3>1. PICK k \in 1..l : i = (m + n) + k /\ i = m + (n + k)
      <4>1. i - (m + n) \in 1..l /\ i = (m + n) + (i - (m + n)) /\ i = m + (n + (i - (m + n)))
        BY <1>1, <2>3
      <4> QED
        BY <4>1
    <3>2. n + k \in 1..(n + l)
      BY <1>1
    <3>3. left[i] = u[k]
      BY <1>4, <3>1
    <3>4. right[i] = u[k]
      BY <1>3, <1>5, <3>1, <3>2
    <3> QED
      BY <3>3, <3>4
  <2> QED
    BY <1>1, <2>1, <2>2, <2>3
<1>8. left = right
  BY <1>4, <1>5, <1>6, <1>7, SameSequence
<1> QED
  BY <1>8 DEF left, right

LEMMA LastAppended ==
  ASSUME NEW s \in Seq(Char), NEW a \in Char, NEW b \in Char
  PROVE  Append(<<a>> \o s, b) = <<a>> \o Append(s, b)
<1>1. <<a>> \in Seq(Char) /\ <<b>> \in Seq(Char)
  OBVIOUS
<1>2. \A t \in Seq(Char) : Append(t, b) = t \o <<b>>
  OBVIOUS
<1>3. <<a>> \o s \in Seq(Char)
  BY <1>1, Concatenation
<1> QED
  BY <1>1, <1>2, <1>3, Associative

----------------------------------------------------------------------------
\* getline() takes the text apart: its lines, each with the newline that ended it, are
\* the text again, without the carriage returns at their ends.

\* The lines of a text that begins with this character.
WithFirst(ch, lines) ==
  IF ch = Newline THEN << <<>> >> \o lines
  ELSE IF lines = <<>> THEN << <<ch>> >>
  ELSE << <<ch>> \o Head(lines) >> \o Tail(lines)

LEMMA WithFirstType ==
  ASSUME NEW S, NEW ch, NEW lines \in Seq(Seq(S)), ch # Newline => ch \in S
  PROVE  WithFirst(ch, lines) \in Seq(Seq(S)) /\ WithFirst(ch, lines) # <<>>
<1> DEFINE L == Seq(S)
<1>1. <<>> \in L
  OBVIOUS
<1>2. CASE ch = Newline
  <2>1. PICK l \in L : l = <<>>
    BY <1>1
  <2>2. WithFirst(ch, lines) = <<l>> \o lines
    BY <1>2, <2>1 DEF WithFirst
  <2> HIDE DEF L
  <2>3. <<l>> \o lines \in Seq(L) /\ <<l>> \o lines # <<>>
    BY FirstAndRest DEF L
  <2> QED
    BY <2>2, <2>3 DEF L
<1>3. CASE ch # Newline /\ lines = <<>>
  <2>1. PICK l \in L : l = <<ch>>
    <3>1. <<ch>> \in Seq(S)
      BY <1>3
    <3> QED
      BY <3>1
  <2>2. WithFirst(ch, lines) = <<l>>
    BY <1>3, <2>1 DEF WithFirst
  <2> HIDE DEF L
  <2> QED
    BY <2>2 DEF L
<1>4. CASE ch # Newline /\ lines # <<>>
  <2>1. Head(lines) \in L /\ Tail(lines) \in Seq(L)
    BY <1>4, TakenApart
  <2>2. <<ch>> \o Head(lines) \in L
    BY <1>4, <2>1
  <2>3. WithFirst(ch, lines) = << <<ch>> \o Head(lines) >> \o Tail(lines)
    BY <1>4 DEF WithFirst
  <2>4. PICK l \in L : l = <<ch>> \o Head(lines)
    BY <2>2
  <2> HIDE DEF L
  <2>5. <<l>> \o Tail(lines) \in Seq(L) /\ <<l>> \o Tail(lines) # <<>>
    BY <2>1, FirstAndRest
  <2> QED
    BY <2>3, <2>4, <2>5 DEF L
<1> QED
  BY <1>2, <1>3, <1>4

LEMMA LinesOfIs ==
  /\ LinesOf[<<>>] = <<>>
  /\ \A text \in Seq(Char) :
       text # <<>> => LinesOf[text] = WithFirst(Head(text), LinesOf[Tail(text)])
<1> DEFINE V == Seq(Seq(Char))
           S == Seq(Char)
           Body(text, lines) == IF text = <<>> THEN <<>> ELSE WithFirst(Head(text), lines)
           step == [p \in S \X V |-> Body(p[1], p[2])]
<1>1. ASSUME NEW text \in S, text # <<>>, NEW lines \in V
      PROVE  Tail(text) \in S /\ WithFirst(Head(text), lines) \in V
  <2>1. Tail(text) \in S /\ Head(text) \in Char
    BY <1>1
  <2> QED
    BY <2>1, WithFirstType
<1>2. step \in [S \X V -> V] /\ <<>> \in V
  <2>1. \A p \in S \X V : Body(p[1], p[2]) \in V
    BY <1>1
  <2> HIDE DEF Body
  <2> QED
    BY <2>1
<1>3. PICK g \in [S -> V] : IsFold(g, Char, <<>>, step)
  <2> HIDE DEF step, V
  <2> QED
    BY <1>2, RecursionOnTails
<1>4. ASSUME NEW s \in S
      PROVE  g[s] = IF s = <<>> THEN <<>> ELSE WithFirst(Head(s), g[Tail(s)])
  <2> SUFFICES ASSUME s # <<>> PROVE g[s] = WithFirst(Head(s), g[Tail(s)])
    BY <1>3 DEF IsFold
  <2>1. Tail(s) \in S
    OBVIOUS
  <2>2. <<s, g[Tail(s)]>> \in S \X V
    BY <2>1
  <2>3. step[<<s, g[Tail(s)]>>] = Body(s, g[Tail(s)])
    BY <2>2
  <2> QED
    BY <1>3, <2>3 DEF IsFold
<1>5. g = [s \in S |->
             IF s = <<>> THEN <<>>
             ELSE IF Head(s) = Newline THEN << <<>> >> \o g[Tail(s)]
             ELSE IF g[Tail(s)] = <<>> THEN << <<Head(s)>> >>
             ELSE << <<Head(s)>> \o Head(g[Tail(s)]) >> \o Tail(g[Tail(s)])]
  BY <1>3, <1>4 DEF WithFirst
<1>6. LinesOf = [s \in S |->
             IF s = <<>> THEN <<>>
             ELSE IF Head(s) = Newline THEN << <<>> >> \o LinesOf[Tail(s)]
             ELSE IF LinesOf[Tail(s)] = <<>> THEN << <<Head(s)>> >>
             ELSE << <<Head(s)>> \o Head(LinesOf[Tail(s)]) >> \o Tail(LinesOf[Tail(s)])]
  BY <1>5, Zenon DEF LinesOf
<1>7. \A s \in S : LinesOf[s] = IF s = <<>> THEN <<>> ELSE WithFirst(Head(s), LinesOf[Tail(s)])
  BY <1>6 DEF WithFirst
<1>8. <<>> \in S
  OBVIOUS
<1> QED
  BY <1>7, <1>8

\* A text that is empty or ends with a newline: its lines are all of it.
Ended(text) == text # <<>> => text[Len(text)] = Newline

\* The line that begins with this character, without the return at its end.
LEMMA ReturnBehindFirst ==
  ASSUME NEW ch \in Char, NEW h \in Seq(Char)
  PROVE  WithoutReturn(<<ch>> \o h)
           = IF ch = CARRIAGE_RETURN /\ h = <<>> THEN <<>> ELSE <<ch>> \o WithoutReturn(h)
<1> DEFINE line == <<ch>> \o h
           n == Len(h)
<1>1. /\ line \in Seq(Char) /\ line # <<>> /\ n \in Nat /\ Len(line) = n + 1 /\ line[1] = ch
      /\ \A i \in 1..n : line[1 + i] = h[i]
  OBVIOUS
<1>2. CASE h = <<>>
  <2>1. line = <<ch>> /\ Len(line) = 1 /\ SubSeq(line, 1, 1 - 1) = <<>>
    BY <1>1, <1>2
  <2>2. WithoutReturn(h) = <<>>
    BY <1>2 DEF WithoutReturn
  <2>3. WithoutReturn(line) = IF ch = CARRIAGE_RETURN THEN <<>> ELSE <<ch>>
    BY <1>1, <2>1 DEF WithoutReturn
  <2>4. <<ch>> \o <<>> = <<ch>>
    OBVIOUS
  <2> QED
    BY <1>2, <2>2, <2>3, <2>4
<1>3. CASE h # <<>>
  <2>1. n # 0 /\ line[n + 1] = h[n]
    BY <1>1, <1>3
  <2>2. CASE h[n] = CARRIAGE_RETURN
    <3>1. WithoutReturn(h) = SubSeq(h, 1, n - 1)
      BY <1>3, <2>2 DEF WithoutReturn
    <3>2. WithoutReturn(line) = SubSeq(line, 1, n)
      BY <1>1, <2>1, <2>2 DEF WithoutReturn
    <3>0. ASSUME NEW s \in Seq(Char), NEW m \in 0..Len(s)
          PROVE  \E v \in Seq(Char) : v = SubSeq(s, 1, m) /\ Len(v) = m
                                      /\ \A i \in 1..m : v[i] = s[i]
      <4>1. /\ SubSeq(s, 1, m) \in Seq(Char) /\ Len(SubSeq(s, 1, m)) = m
            /\ \A i \in 1..m : SubSeq(s, 1, m)[i] = s[i]
        OBVIOUS
      <4> QED
        BY <4>1
    <3>3. PICK u \in Seq(Char) : u = SubSeq(h, 1, n - 1) /\ Len(u) = n - 1
                                 /\ \A i \in 1..(n - 1) : u[i] = h[i]
      <4>1. n - 1 \in 0..Len(h)
        BY <1>1, <2>1
      <4> QED
        BY <3>0, <4>1
    <3>4. PICK v \in Seq(Char) : v = SubSeq(line, 1, n) /\ Len(v) = n
                                 /\ \A i \in 1..n : v[i] = line[i]
      <4>1. n \in 0..Len(line)
        BY <1>1
      <4> HIDE DEF line, n
      <4> QED
        BY <1>1, <3>0, <4>1
    <3>5. <<ch>> \o u \in Seq(Char) /\ Len(<<ch>> \o u) = n /\ (<<ch>> \o u)[1] = ch
          /\ \A i \in 1..(n - 1) : (<<ch>> \o u)[1 + i] = u[i]
      BY <1>1, <2>1, <3>3
    <3>6. ASSUME NEW i \in 1..n
          PROVE  v[i] = (<<ch>> \o u)[i]
      <4>1. CASE i = 1
        BY <1>1, <3>4, <3>5, <4>1
      <4>2. CASE i # 1
        <5>1. PICK k \in 1..(n - 1) : i = 1 + k
          <6>1. i - 1 \in 1..(n - 1) /\ i = 1 + (i - 1)
            BY <1>1, <4>2
          <6> QED
            BY <6>1
        <5>2. k \in 1..n
          BY <1>1
        <5> QED
          BY <1>1, <3>3, <3>4, <3>5, <5>1, <5>2
      <4> QED
        BY <4>1, <4>2
    <3>7. v = <<ch>> \o u
      BY <3>4, <3>5, <3>6, SameSequence
    <3> QED
      BY <1>3, <3>1, <3>2, <3>3, <3>4, <3>7
  <2>3. CASE h[n] # CARRIAGE_RETURN
    BY <1>1, <1>3, <2>1, <2>3 DEF WithoutReturn
  <2> QED
    BY <2>2, <2>3
<1> QED
  BY <1>2, <1>3

\* A carriage return before a newline is lost, any other character is the first one
\* of what is joined.
LEMMA LinesJoined ==
  ASSUME NEW ch \in Char, NEW lines \in LinesSeq, ch # Newline => lines # <<>>
  PROVE  /\ WithFirst(ch, lines) \in LinesSeq /\ WithFirst(ch, lines) # <<>>
         /\ Head(WithFirst(ch, lines)) = <<>> <=> ch = Newline
         /\ Joined[WithFirst(ch, lines)]
              = IF ch = CARRIAGE_RETURN /\ Head(lines) = <<>> THEN Joined[lines]
                ELSE <<ch>> \o Joined[lines]
<1> DEFINE new == WithFirst(ch, lines)
<1>0. CARRIAGE_RETURN # Newline
  BY DEF CARRIAGE_RETURN, Newline
<1>1. new \in LinesSeq /\ new # <<>>
  <2>1. ch # Newline => ch \in CharInLine
    BY DEF Char
  <2> QED
    BY <2>1, WithFirstType DEF LinesSeq
<1>2. /\ Joined[new] = LineOf(new) \o Joined[Tail(new)]
      /\ LineOf(new) = Append(WithoutReturn(Head(new)), Newline)
  <2> HIDE DEF new
  <2> QED
    BY <1>1, JoinedLines DEF LineOf
<1>3. CASE ch = Newline
  <2>1. PICK l \in Seq(CharInLine) : l = <<>>
    <3>1. <<>> \in Seq(CharInLine)
      OBVIOUS
    <3> QED
      BY <3>1
  <2>2. new = <<l>> \o lines
    BY <1>3, <2>1 DEF WithFirst
  <2>3. Head(new) = l /\ Tail(new) = lines
    BY <2>2, FirstAndRest DEF LinesSeq
  <2>4. LineOf(new) = <<ch>>
    <3>1. LineOf(new) = Append(l, Newline)
      BY <1>2, <2>1, <2>3 DEF WithoutReturn
    <3> HIDE DEF new
    <3> QED
      BY <1>3, <2>1, <3>1
  <2> QED
    BY <1>0, <1>1, <1>2, <1>3, <2>1, <2>3, <2>4
<1>4. CASE ch # Newline
  <2>1. Head(lines) \in Seq(CharInLine) /\ Tail(lines) \in LinesSeq
    BY <1>4, LineOfType
  <2>2. PICK h \in Seq(Char) : h = Head(lines)
    BY <2>1, Characters
  <2>3. new = << <<ch>> \o h >> \o Tail(lines)
    BY <1>4, <2>2 DEF WithFirst
  <2>4. Head(new) = <<ch>> \o h /\ Tail(new) = Tail(lines) /\ Head(new) # <<>>
    <3>1. PICK l : l = <<ch>> \o h /\ l \in Seq(CharInLine) /\ l # <<>>
      <4>1. ch \in CharInLine
        BY <1>4 DEF Char
      <4>2. h \in Seq(CharInLine)
        BY <2>1, <2>2
      <4>3. <<ch>> \o h \in Seq(CharInLine) /\ <<ch>> \o h # <<>>
        BY <4>1, <4>2, FirstAndRest
      <4> QED
        BY <4>3
    <3>2. new = <<l>> \o Tail(lines)
      BY <2>3, <3>1
    <3>3. Head(<<l>> \o Tail(lines)) = l /\ Tail(<<l>> \o Tail(lines)) = Tail(lines)
      <4> DEFINE L == Seq(CharInLine)
      <4>1. l \in L /\ Tail(lines) \in Seq(L)
        BY <2>1, <3>1 DEF LinesSeq
      <4> HIDE DEF L
      <4> QED
        BY <4>1, FirstAndRest
    <3> QED
      BY <3>1, <3>2, <3>3
  <2>5. LineOf(lines) = Append(WithoutReturn(h), Newline) /\ WithoutReturn(h) \in Seq(Char)
    BY <2>2, WithoutReturnType DEF LineOf
  <2>6. Joined[lines] = LineOf(lines) \o Joined[Tail(lines)]
    BY <1>4, JoinedLines
  <2>7. CASE ch = CARRIAGE_RETURN /\ h = <<>>
    <3>1. LineOf(new) = Append(<<>>, Newline)
      BY <1>2, <2>4, <2>7, ReturnBehindFirst
    <3>2. WithoutReturn(h) = <<>>
      BY <2>7 DEF WithoutReturn
    <3> HIDE DEF new
    <3>3. Joined[new] = Joined[lines]
      BY <1>2, <2>4, <2>5, <2>6, <3>1, <3>2
    <3> QED
      BY <1>1, <1>4, <2>2, <2>4, <2>7, <3>3 DEF new
  <2>8. CASE ~(ch = CARRIAGE_RETURN /\ h = <<>>)
    <3>1. WithoutReturn(<<ch>> \o h) = <<ch>> \o WithoutReturn(h)
      BY <2>8, ReturnBehindFirst
    <3>2. LineOf(new) = <<ch>> \o LineOf(lines)
      <4>1. PICK u \in Seq(Char) : u = WithoutReturn(h)
        BY <2>5
      <4>2. Append(<<ch>> \o u, Newline) = <<ch>> \o Append(u, Newline)
        BY LastAppended, Characters
      <4> QED
        BY <1>2, <2>4, <2>5, <3>1, <4>1, <4>2
    <3>3. Joined[new] = (<<ch>> \o LineOf(lines)) \o Joined[Tail(lines)]
      BY <1>2, <2>4, <3>2
    <3>4. <<ch>> \in Seq(Char) /\ LineOf(lines) \in Seq(Char) /\ Joined[Tail(lines)] \in Seq(Char)
      BY <1>4, <2>1, LineOfType, JoinedLines
    <3>5. (<<ch>> \o LineOf(lines)) \o Joined[Tail(lines)]
              = <<ch>> \o (LineOf(lines) \o Joined[Tail(lines)])
      BY <3>4, Associative
    <3>6. Joined[new] = <<ch>> \o Joined[lines]
      BY <2>6, <3>3, <3>5
    <3> HIDE DEF new
    <3> QED
      BY <1>1, <1>4, <2>2, <2>4, <2>8, <3>6 DEF new
  <2> QED
    BY <2>7, <2>8
<1> QED
  BY <1>3, <1>4

LEMMA EndsOfLines ==
  ASSUME NEW ch \in Char, NEW u \in Seq(Char), NEW t, t = <<ch>> \o u
  PROVE  EndsAreNewlines(t)
           <=> EndsAreNewlines(u) /\ ~(ch = CARRIAGE_RETURN /\ u # <<>> /\ u[1] = Newline)
<1> DEFINE n == Len(u)
<1>1. n \in Nat /\ Len(t) = n + 1 /\ t[1] = ch /\ (u = <<>> <=> n = 0)
      /\ \A i \in 1..n : t[1 + i] = u[i]
  OBVIOUS
<1> HIDE DEF n
<1>2. ASSUME EndsAreNewlines(t)
      PROVE  EndsAreNewlines(u) /\ ~(ch = CARRIAGE_RETURN /\ u # <<>> /\ u[1] = Newline)
  <2>1. ASSUME NEW i \in 1..(n - 1), u[i] = CARRIAGE_RETURN
        PROVE  u[i + 1] # Newline
    <3>1. 1 + i \in 1..(Len(t) - 1) /\ i \in 1..n /\ i + 1 \in 1..n /\ (1 + i) + 1 = 1 + (i + 1)
      BY <1>1
    <3> QED
      BY <1>1, <1>2, <2>1, <3>1 DEF EndsAreNewlines
  <2>2. ASSUME ch = CARRIAGE_RETURN, u # <<>>, u[1] = Newline
        PROVE  FALSE
    <3>1. 1 \in 1..(Len(t) - 1) /\ 1 \in 1..n
      BY <1>1, <2>2
    <3> QED
      BY <1>1, <1>2, <2>2, <3>1 DEF EndsAreNewlines
  <2> QED
    BY <2>1, <2>2 DEF EndsAreNewlines, n
<1>3. ASSUME EndsAreNewlines(u), ~(ch = CARRIAGE_RETURN /\ u # <<>> /\ u[1] = Newline)
      PROVE  EndsAreNewlines(t)
  <2> SUFFICES ASSUME NEW i \in 1..(Len(t) - 1), t[i] = CARRIAGE_RETURN PROVE t[i + 1] # Newline
    BY DEF EndsAreNewlines
  <2>1. CASE i = 1
    <3>1. 1 \in 1..n
      BY <1>1, <2>1
    <3> QED
      BY <1>1, <1>3, <2>1, <3>1
  <2>2. CASE i # 1
    <3>1. PICK k \in 1..(n - 1) : i = 1 + k
      <4>1. i - 1 \in 1..(n - 1) /\ i = 1 + (i - 1)
        BY <1>1, <2>2
      <4> QED
        BY <4>1
    <3>2. k \in 1..n /\ k + 1 \in 1..n /\ i + 1 = 1 + (k + 1)
      BY <1>1, <3>1
    <3> QED
      BY <1>1, <1>3, <3>1, <3>2 DEF EndsAreNewlines, n
  <2> QED
    BY <2>1, <2>2
<1> QED
  BY <1>2, <1>3

\* The text that is read of a text is as long as it only if no line ends in a carriage
\* return, and is it then.
ReadOf(text) == Joined[LinesOf[text]]

GoodLines(text) ==
  /\ LinesOf[text] \in LinesSeq
  /\ text # <<>> => LinesOf[text] # <<>> /\ (Head(LinesOf[text]) = <<>> <=> text[1] = Newline)
  /\ Len(ReadOf(text)) <= Len(text)
  /\ EndsAreNewlines(text) => ReadOf(text) = text
  /\ Len(ReadOf(text)) = Len(text) => EndsAreNewlines(text)

LEMMA LinesOfText ==
  ASSUME NEW text \in Seq(Char), Ended(text)
  PROVE  GoodLines(text)
<1> DEFINE P == {t \in Seq(Char) : Ended(t) => GoodLines(t)}
<1>1. <<>> \in P
  <2>1. <<>> \in Seq(Char) /\ <<>> \in LinesSeq
    BY DEF LinesSeq
  <2>2. LinesOf[<<>>] = <<>> /\ ReadOf(<<>>) = <<>>
    BY <2>1, LinesOfIs, JoinedLines DEF ReadOf
  <2>3. EndsAreNewlines(<<>>)
    BY DEF EndsAreNewlines
  <2>4. GoodLines(<<>>)
    BY <2>1, <2>2, <2>3 DEF GoodLines
  <2> QED
    BY <2>1, <2>4
<1>2. ASSUME NEW t \in Seq(Char), t # <<>>, Tail(t) \in P
      PROVE  t \in P
  <2> SUFFICES ASSUME Ended(t) PROVE GoodLines(t)
    OBVIOUS
  <2>1. PICK ch \in Char, u \in Seq(Char) : ch = Head(t) /\ u = Tail(t)
    <3>1. Head(t) \in Char /\ Tail(t) \in Seq(Char)
      BY <1>2, TakenApart
    <3> QED
      BY <3>1
  <2>2. t = <<ch>> \o u /\ t[1] = ch /\ Len(t) = Len(u) + 1 /\ Len(u) \in Nat
    BY <1>2, <2>1, TakenApart
  <2>3. Ended(u) /\ (ch # Newline => u # <<>>)
    <3>1. u # <<>> => u[Len(u)] = t[Len(u) + 1]
      BY <2>2
    <3>2. u = <<>> => Len(u) = 0
      OBVIOUS
    <3> QED
      BY <1>2, <2>2, <3>1, <3>2 DEF Ended
  <2>4. GoodLines(u)
    BY <1>2, <2>1, <2>3
  <2>5. LinesOf[u] \in LinesSeq /\ (ch # Newline => LinesOf[u] # <<>>)
    BY <2>3, <2>4 DEF GoodLines
  <2>6. LinesOf[t] = WithFirst(ch, LinesOf[u])
    BY <1>2, <2>1, LinesOfIs
  <2>7. PICK lines \in LinesSeq : lines = LinesOf[u]
    BY <2>5
  <2> DEFINE lost == ch = CARRIAGE_RETURN /\ u # <<>> /\ u[1] = Newline
  <2>8. /\ LinesOf[t] \in LinesSeq /\ LinesOf[t] # <<>>
        /\ Head(LinesOf[t]) = <<>> <=> t[1] = Newline
        /\ ReadOf(t) = IF lost THEN ReadOf(u) ELSE <<ch>> \o ReadOf(u)
    <3>1. ch = CARRIAGE_RETURN => u # <<>>
      BY <2>3 DEF CARRIAGE_RETURN, Newline
    <3>2. u # <<>> => (Head(lines) = <<>> <=> u[1] = Newline)
      BY <2>4, <2>7 DEF GoodLines
    <3>3. /\ WithFirst(ch, lines) \in LinesSeq /\ WithFirst(ch, lines) # <<>>
          /\ Head(WithFirst(ch, lines)) = <<>> <=> ch = Newline
          /\ Joined[WithFirst(ch, lines)]
               = IF ch = CARRIAGE_RETURN /\ Head(lines) = <<>> THEN Joined[lines]
                 ELSE <<ch>> \o Joined[lines]
      BY <2>5, <2>7, LinesJoined
    <3> QED
      BY <2>2, <2>6, <2>7, <3>1, <3>2, <3>3 DEF ReadOf
  <2>9. /\ ReadOf(u) \in Seq(Char) /\ Len(ReadOf(u)) \in Nat
        /\ Len(<<ch>> \o ReadOf(u)) = Len(ReadOf(u)) + 1
    <3>1. ReadOf(u) \in Seq(Char)
      BY <2>5, JoinedLines DEF ReadOf
    <3> QED
      BY <3>1, FirstAndRest
  <2>10. EndsAreNewlines(t) <=> EndsAreNewlines(u) /\ ~lost
    BY <2>2, EndsOfLines
  <2>11. /\ Len(ReadOf(u)) <= Len(u)
         /\ EndsAreNewlines(u) => ReadOf(u) = u
         /\ Len(ReadOf(u)) = Len(u) => EndsAreNewlines(u)
    BY <2>4 DEF GoodLines
  <2> HIDE DEF lost
  <2>12. CASE lost
    <3>1. Len(ReadOf(t)) < Len(t)
      BY <2>2, <2>8, <2>9, <2>11, <2>12
    <3>2. ~EndsAreNewlines(t)
      BY <2>10, <2>12
    <3>3. Len(ReadOf(t)) <= Len(t) /\ Len(ReadOf(t)) # Len(t)
      BY <2>2, <2>8, <2>9, <2>12, <3>1
    <3> QED
      BY <2>8, <3>2, <3>3 DEF GoodLines
  <2>13. CASE ~lost
    <3>1. ReadOf(t) = <<ch>> \o ReadOf(u) /\ Len(ReadOf(t)) = Len(ReadOf(u)) + 1
      BY <2>8, <2>9, <2>13
    <3>2. Len(ReadOf(t)) <= Len(t) /\ (Len(ReadOf(t)) = Len(t) => Len(ReadOf(u)) = Len(u))
      BY <2>2, <2>9, <2>11, <3>1
    <3>3. EndsAreNewlines(t) => ReadOf(t) = t
      BY <2>2, <2>10, <2>11, <3>1
    <3>4. Len(ReadOf(t)) = Len(t) => EndsAreNewlines(t)
      BY <2>10, <2>11, <2>13, <3>2
    <3> QED
      BY <2>8, <3>2, <3>3, <3>4 DEF GoodLines
  <2> QED
    BY <2>12, <2>13
<1>3. text \in P
  <2> HIDE DEF P
  <2> QED
    BY <1>1, <1>2, InductionOnTails
<1> QED
  BY <1>3

----------------------------------------------------------------------------
\* Which fields delimit themselves.

\* Behind n characters of w the parser is inside quotes.
Inside(w, n) == w[1] \in Quotes /\ Quoting(w, n)

LEMMA QuotesCounted ==
  ASSUME NEW w, NEW n \in Nat
  PROVE  /\ ~Quoting(w, 0)
         /\ w[n + 1] = w[1] => (Quoting(w, n + 1) <=> ~Quoting(w, n))
         /\ w[n + 1] # w[1] => (Quoting(w, n + 1) <=> Quoting(w, n))
<1> DEFINE at(k) == {i \in 1..k : w[i] = w[1]}
<1>1. \A k \in Nat : IsFiniteSet(at(k)) /\ Cardinality(at(k)) \in Nat
  <2> SUFFICES ASSUME NEW k \in Nat PROVE IsFiniteSet(at(k)) /\ Cardinality(at(k)) \in Nat
    OBVIOUS
  <2>1. IsFiniteSet(1..k)
    BY FS_Interval
  <2>2. at(k) \subseteq 1..k
    OBVIOUS
  <2> QED
    BY <2>1, <2>2, FS_Subset, FS_CardinalityType
<1>2. ~Quoting(w, 0)
  <2>1. at(0) = {}
    OBVIOUS
  <2>2. Cardinality(at(0)) = 0
    BY <2>1, FS_EmptySet
  <2> QED
    BY <2>2 DEF Quoting
<1>3. ASSUME w[n + 1] = w[1]
      PROVE  Quoting(w, n + 1) <=> ~Quoting(w, n)
  <2>1. at(n + 1) = at(n) \cup {n + 1} /\ n + 1 \notin at(n)
    BY <1>3
  <2>2. Cardinality(at(n + 1)) = Cardinality(at(n)) + 1
    <3> HIDE DEF at
    <3> QED
      BY <1>1, <2>1, FS_AddElement
  <2>3. PICK m \in Nat : m = Cardinality(at(n))
    BY <1>1
  <2>4. (m + 1) % 2 = 1 <=> m % 2 # 1
    OBVIOUS
  <2> QED
    BY <2>2, <2>3, <2>4 DEF Quoting
<1>4. ASSUME w[n + 1] # w[1]
      PROVE  Quoting(w, n + 1) <=> Quoting(w, n)
  <2>1. at(n + 1) = at(n)
    BY <1>4
  <2> QED
    BY <2>1 DEF Quoting
<1> QED
  BY <1>2, <1>3, <1>4

LEMMA QuotingOfPart ==
  ASSUME NEW w, NEW v, NEW n \in Nat, n # 0 => v[1] = w[1], \A i \in 1..n : v[i] = w[i]
  PROVE  Quoting(v, n) <=> Quoting(w, n)
<1>1. {i \in 1..n : v[i] = v[1]} = {i \in 1..n : w[i] = w[1]}
  OBVIOUS
<1> QED
  BY <1>1 DEF Quoting

\* Fields that the parser takes for one field.
LEMMA Delimited ==
  ASSUME NEW w \in Seq(Char)
  PROVE  SelfDelimiting(w) <=>
           /\ \A i \in 1..Len(w) : w[i] \in {Delimiter, Newline} => Inside(w, i)
           /\ w # <<>> => ~Inside(w, Len(w))
<1>1. DOMAIN w = 1..Len(w) /\ Len(w) \in Nat /\ (w # <<>> => Len(w) \in 1..Len(w))
  OBVIOUS
<1>2. {i \in DOMAIN w : ~(w[1] \in Quotes /\ Quoting(w, i))} = {i \in 1..Len(w) : ~Inside(w, i)}
  BY <1>1 DEF Inside
<1> QED
  BY <1>1, <1>2 DEF SelfDelimiting

LEMMA QuotedField ==
  ASSUME NEW s \in Seq(Char), NEW outer \in Quotes, ~Holds(s, outer),
         NEW w, w = <<outer>> \o s \o <<outer>>
  PROVE  w \in Seq(Char) /\ w # <<>> /\ SelfDelimiting(w)
<1> DEFINE n == Len(s)
<1>1. n \in Nat /\ \A i \in 1..n : s[i] # outer
  BY DEF Holds
<1>2. /\ w \in Seq(Char) /\ Len(w) = n + 2 /\ w[1] = outer /\ w[n + 2] = outer
      /\ \A i \in 1..n : w[i + 1] = s[i]
  <2>1. outer \in Char
    BY Characters
  <2>2. PICK v \in Seq(Char) : v = <<outer>> \o s
    <3>1. <<outer>> \o s \in Seq(Char)
      BY <2>1, FirstAndRest
    <3> QED
      BY <3>1
  <2>3. Len(v) = n + 1 /\ v[1] = outer /\ \A i \in 1..n : v[i + 1] = s[i]
    BY <2>1, <2>2
  <2>4. w = v \o <<outer>> /\ <<outer>> \in Seq(Char) /\ Len(<<outer>>) = 1 /\ <<outer>>[1] = outer
    BY <2>1, <2>2
  <2>5. w \in Seq(Char) /\ Len(w) = (n + 1) + 1 /\ \A i \in 1..(n + 1) : w[i] = v[i]
    BY <1>1, <2>2, <2>3, <2>4, Concatenation
  <2>6. w[n + 2] = outer
    BY <1>1, <2>2, <2>3, <2>4
  <2> HIDE DEF n
  <2> QED
    BY <1>1, <2>3, <2>5, <2>6
<1> HIDE DEF n
<1>3. \A i \in 2..(n + 1) : w[i] # outer
  <2> SUFFICES ASSUME NEW i \in 2..(n + 1) PROVE w[i] # outer
    OBVIOUS
  <2>1. PICK k \in 1..n : i = k + 1
    <3>1. i - 1 \in 1..n /\ i = (i - 1) + 1
      BY <1>1
    <3> QED
      BY <3>1
  <2> QED
    BY <1>1, <1>2, <2>1
<1>4. ASSUME NEW i \in 1..(n + 1)
      PROVE  Quoting(w, i)
  <2>1. {j \in 1..i : w[j] = w[1]} = {1}
    BY <1>1, <1>2, <1>3
  <2>2. Cardinality({1}) = 1
    BY FS_Singleton
  <2>3. 1 % 2 = 1
    OBVIOUS
  <2>4. Cardinality({j \in 1..i : w[j] = w[1]}) % 2 = 1
    BY <2>1, <2>2, <2>3
  <2> QED
    BY <2>4, Zenon DEF Quoting
<1>5. ~Quoting(w, n + 2)
  <2>1. n + 1 \in Nat /\ (n + 1) + 1 = n + 2 /\ n + 1 \in 1..(n + 1)
    BY <1>1
  <2> QED
    BY <1>2, <1>4, <2>1, QuotesCounted
<1>6. w # <<>> /\ ~Inside(w, Len(w))
  BY <1>1, <1>2, <1>5 DEF Inside
<1>7. ASSUME NEW i \in 1..Len(w), w[i] \in {Delimiter, Newline}
      PROVE  Inside(w, i)
  <2>1. outer \notin {Delimiter, Newline}
    BY Characters
  <2>2. i # n + 2
    BY <1>2, <1>7, <2>1
  <2>3. i \in 1..(n + 1)
    BY <1>1, <1>2, <2>2
  <2> QED
    BY <1>2, <1>4, <2>3 DEF Inside
<1> QED
  BY <1>2, <1>6, <1>7, Delimited

\* The fields that are written are read as one field exactly if the strings are
\* or could be quoted.
LEMMA WrittenFields ==
  ASSUME NEW s \in Seq(Char), NEW isName \in BOOLEAN,
         NEW w, w = write_escaped_string(s, IF isName THEN DOUBLE_QUOTE ELSE OuterOfCell(s))
  PROVE  /\ w \in Seq(Char) /\ (w = <<>> <=> s = <<>>)
         /\ SelfDelimiting(w) <=> SelfDelimiting(s) \/ Quotable(s, isName)
<1> DEFINE outer == IF isName THEN DOUBLE_QUOTE ELSE OuterOfCell(s)
<1>1. outer \in Quotes /\ DOUBLE_QUOTE # SINGLE_QUOTE
  BY DEF OuterOfCell, Quotes, DOUBLE_QUOTE, SINGLE_QUOTE
<1>2. NeedsQuotes(s) => s # <<>>
  BY DEF NeedsQuotes, Holds
<1>3. NeedsQuotes(s) /\ (isName \/ s[1] # SINGLE_QUOTE) => outer = DOUBLE_QUOTE
  BY DEF OuterOfCell
<1>4. NeedsQuotes(s) /\ ~(isName \/ s[1] # SINGLE_QUOTE) => Holds(s, outer)
  <2> SUFFICES ASSUME NeedsQuotes(s), ~isName, s[1] = SINGLE_QUOTE PROVE Holds(s, outer)
    OBVIOUS
  <2>1. outer = SINGLE_QUOTE
    BY <1>2 DEF OuterOfCell
  <2>2. 1 \in DOMAIN s
    BY <1>2
  <2> QED
    BY <2>1, <2>2 DEF Holds
<1>5. w = IF ~Holds(s, outer) /\ NeedsQuotes(s) THEN <<outer>> \o s \o <<outer>> ELSE s
  BY DEF write_escaped_string
<1>6. CASE ~Holds(s, outer) /\ NeedsQuotes(s)
  <2>1. isName \/ s[1] # SINGLE_QUOTE
    BY <1>4, <1>6
  <2>2. Quotable(s, isName)
    BY <1>3, <1>6, <2>1 DEF Quotable
  <2> HIDE DEF outer
  <2>3. w \in Seq(Char) /\ w # <<>> /\ SelfDelimiting(w)
    BY <1>1, <1>5, <1>6, QuotedField
  <2> QED
    BY <1>2, <1>6, <2>2, <2>3
<1>7. CASE ~(~Holds(s, outer) /\ NeedsQuotes(s))
  <2>1. ~Quotable(s, isName)
    BY <1>3, <1>7 DEF Quotable
  <2> QED
    BY <1>5, <1>7, <2>1
<1> QED
  BY <1>6, <1>7

----------------------------------------------------------------------------
\* What has been read of a field, the quote it began with, and whether it is open.
Partial(f, q, o) ==
  /\ \A i \in 1..Len(f) : f[i] \in {Delimiter, Newline} => Inside(f, i)
  /\ f # <<>> => (o <=> Inside(f, Len(f))) /\ q = IF f[1] \in Quotes THEN f[1] ELSE NULL_CHAR
  /\ f = <<>> => ~o /\ q = NULL_CHAR

LEMMA NothingRead == ASSUME NEW f, f = <<>> PROVE Partial(f, NULL_CHAR, FALSE)
<1>1. Len(f) = 0
  OBVIOUS
<1>2. \A i \in 1..Len(f) : FALSE
  BY <1>1
<1> QED
  BY <1>2, Zenon DEF Partial

LEMMA FieldComplete ==
  ASSUME NEW f \in Seq(Char), NEW q, Partial(f, q, FALSE)
  PROVE  SelfDelimiting(f)
  BY Delimited DEF Partial

LEMMA AppendedTo ==
  ASSUME NEW S, NEW f \in Seq(S), NEW a \in S
  PROVE  /\ Len(f) \in Nat /\ Append(f, a) \in Seq(S) /\ Append(f, a) # <<>>
         /\ Len(Append(f, a)) = Len(f) + 1 /\ Append(f, a)[Len(f) + 1] = a
         /\ \A i \in 1..Len(f) : Append(f, a)[i] = f[i]
         /\ f = <<>> <=> Len(f) = 0
  OBVIOUS

LEMMA FieldGrown ==
  ASSUME NEW f \in Seq(Char), NEW q, NEW o \in BOOLEAN, Partial(f, q, o),
         NEW ch \in Char, o \/ ch \notin {Delimiter, Newline},
         NEW opens, opens <=> f = <<>> /\ ch \in Quotes,
         NEW p, p = IF opens THEN ch ELSE q,
         NEW now \in BOOLEAN, now <=> IF opens \/ ch = q THEN ~o ELSE o
  PROVE  Partial(Append(f, ch), p, now)
<1> DEFINE n == Len(f)
           g == Append(f, ch)
<1>1. /\ n \in Nat /\ g # <<>> /\ Len(g) = n + 1 /\ g[n + 1] = ch
      /\ \A i \in 1..n : g[i] = f[i]
      /\ (f = <<>> <=> n = 0)
  BY AppendedTo
<1> HIDE DEF n, g
<1>2. ASSUME NEW i \in 1..n
      PROVE  Inside(g, i) <=> Inside(f, i)
  <2>1. 1 \in 1..n /\ i \in Nat /\ \A k \in 1..i : k \in 1..n
    BY <1>1
  <2>2. g[1] = f[1] /\ \A k \in 1..i : g[k] = f[k]
    BY <1>1, <2>1
  <2>3. Quoting(g, i) <=> Quoting(f, i)
    BY <2>1, <2>2, QuotingOfPart
  <2> QED
    BY <2>2, <2>3 DEF Inside
<1>3. p = IF g[1] \in Quotes THEN g[1] ELSE NULL_CHAR
  <2>1. CASE n = 0
    BY <1>1, <2>1 DEF Partial
  <2>2. CASE n # 0
    <3>1. g[1] = f[1] /\ f # <<>>
      BY <1>1, <2>2
    <3> QED
      BY <3>1 DEF Partial
  <2> QED
    BY <2>1, <2>2
<1>4. now <=> Inside(g, n + 1)
  <2>1. CASE n = 0
    <3>1. g[1] = ch /\ ~o /\ (opens <=> ch \in Quotes)
      BY <1>1, <2>1 DEF Partial
    <3>2. Quoting(g, 1)
      <4>1. ~Quoting(g, 0) /\ g[0 + 1] = g[1] /\ 0 + 1 = 1
        BY QuotesCounted
      <4> QED
        BY <4>1, QuotesCounted
    <3>3. ch # NULL_CHAR
      BY Characters
    <3>4. now <=> ch \in Quotes
      BY <1>1, <2>1, <3>1, <3>3 DEF Partial
    <3> QED
      BY <2>1, <3>1, <3>2, <3>4 DEF Inside
  <2>2. CASE n # 0
    <3>1. g[1] = f[1] /\ f # <<>> /\ n \in 1..n /\ ~opens
      BY <1>1, <2>2
    <3>2. o <=> Inside(g, n)
      BY <1>2, <3>1 DEF Partial, n
    <3>3. CASE g[1] \in Quotes
      <4>1. p = g[1]
        BY <1>3, <3>3
      <4>2. o <=> Quoting(g, n)
        BY <3>2, <3>3 DEF Inside
      <4>3. now <=> Quoting(g, n + 1)
        <5>1. CASE ch = g[1]
          <6>1. Quoting(g, n + 1) <=> ~Quoting(g, n)
            BY <1>1, <5>1, QuotesCounted
          <6> QED
            BY <4>1, <4>2, <5>1, <6>1
        <5>2. CASE ch # g[1]
          <6>1. Quoting(g, n + 1) <=> Quoting(g, n)
            BY <1>1, <5>2, QuotesCounted
          <6> QED
            BY <3>1, <4>1, <4>2, <5>2, <6>1
        <5> QED
          BY <5>1, <5>2
      <4> QED
        BY <3>3, <4>3 DEF Inside
    <3>4. CASE g[1] \notin Quotes
      <4>1. ~Inside(g, n) /\ ~Inside(g, n + 1)
        BY <3>4 DEF Inside
      <4>2. p = NULL_CHAR /\ ch # NULL_CHAR
        BY <1>3, <3>4, Characters
      <4> QED
        BY <3>1, <3>2, <4>1, <4>2
    <3> QED
      BY <3>3, <3>4
  <2> QED
    BY <2>1, <2>2
<1>5. ASSUME NEW i \in 1..(n + 1), g[i] \in {Delimiter, Newline}
      PROVE  Inside(g, i)
  <2>1. CASE i \in 1..n
    <3>1. f[i] \in {Delimiter, Newline}
      BY <1>1, <1>5, <2>1
    <3>2. Inside(f, i)
      BY <2>1, <3>1 DEF Partial, n
    <3> QED
      BY <1>2, <2>1, <3>2
  <2>2. CASE i = n + 1
    <3>1. ch \in {Delimiter, Newline} /\ o /\ ch \notin Quotes
      BY <1>1, <1>5, <2>2, Characters
    <3>2. ~opens
      BY <3>1
    <3>3. ch # p
      <4>1. p \in Quotes \cup {NULL_CHAR}
        BY <1>3
      <4> QED
        BY <3>1, <4>1, Characters
    <3>4. now <=> o
      BY <3>2, <3>3
    <3>5. Inside(g, n + 1)
      BY <1>4, <3>1, <3>4, Zenon
    <3> QED
      BY <2>2, <3>5
  <2> QED
    BY <1>1, <2>1, <2>2
<1>6. Partial(g, p, now)
  BY <1>1, <1>3, <1>4, <1>5 DEF Partial
<1> QED
  BY <1>6 DEF g

Complete(rec) == \A j \in 1..Len(rec) : SelfDelimiting(rec[j])

\* Of any text, written or not.
FieldsInv ==
  /\ \A i \in 1..Len(Records) : Records[i] # << <<>> >> /\ Complete(Records[i])
  /\ Complete(Record)
  /\ Partial(FieldSoFar, QuoteOfField, Unclosed)

LEMMA ReadTypes ==
  ASSUME Inv
  PROVE  /\ Remaining \in Seq(Char) /\ Records \in Seq(Seq(Seq(Char)))
         /\ Record \in Seq(Seq(Char)) /\ FieldSoFar \in Seq(Char) /\ Unclosed \in BOOLEAN
         /\ Outcome = "reading" => Remaining # <<>> /\ Head(Remaining) \in Char
         /\ Outcome # "reading" => Record = <<>> /\ FieldSoFar = <<>>
<1>1. Unclosed \in BOOLEAN
  BY Zenon DEF Unclosed
<1>2. <<>> \in Seq(Char) /\ <<>> \in Seq(Seq(Char)) /\ <<>> \in Seq(Seq(Seq(Char)))
  OBVIOUS
<1>3. document \in Seq(Seq(Seq(Char)))
  BY DEF Inv, TypeOK
<1>4. Records \in Seq(Seq(Seq(Char)))
  BY <1>2, <1>3 DEF Records
<1>5. CASE Done
  <2>1. Outcome # "reading"
    BY <1>5 DEF Done, Outcome
  <2> QED
    BY <1>1, <1>2, <1>4, <1>5, <2>1 DEF Remaining, Record, FieldSoFar
<1>6. CASE ~Done
  <2>1. /\ Remaining \in Seq(Char) /\ Remaining # <<>> /\ Head(Remaining) \in Char
    BY <1>6, WhatRemains, Reading
  <2>2. /\ Record \in Seq(Seq(Char)) /\ FieldSoFar \in Seq(Char) /\ Outcome = "reading"
    BY <1>6, WhatIsRead, Reading
  <2> QED
    BY <1>1, <1>4, <2>1, <2>2
<1> QED
  BY <1>5, <1>6

LEMMA NewFieldPartial ==
  ASSUME Text!NewField
  PROVE  Partial(FieldSoFar', QuoteOfField', Unclosed')
<1>1. FieldSoFar' = <<>> /\ QuoteOfField' = NULL_CHAR /\ Unclosed' = FALSE
  BY DEF Text!NewField
<1>2. Partial(FieldSoFar', NULL_CHAR, FALSE)
  BY <1>1, NothingRead
<1> QED
  BY <1>1, <1>2

LEMMA CompleteGrown ==
  ASSUME NEW rec \in Seq(Seq(Char)), NEW f \in Seq(Char), Complete(rec), SelfDelimiting(f)
  PROVE  /\ Append(rec, f) \in Seq(Seq(Char)) /\ Complete(Append(rec, f))
         /\ Append(rec, f) = << <<>> >> => rec = <<>> /\ f = <<>>
<1> DEFINE L == Seq(Char)
           g == Append(rec, f)
           n == Len(rec)
<1>1. /\ n \in Nat /\ g \in Seq(L) /\ Len(g) = n + 1 /\ g[n + 1] = f
      /\ \A i \in 1..n : g[i] = rec[i]
      /\ (rec = <<>> <=> n = 0)
  <2> HIDE DEF L
  <2> QED
    BY AppendedTo DEF L
<1>2. g = << <<>> >> => Len(g) = 1 /\ g[1] = <<>>
  <2> SUFFICES ASSUME NEW h, h = << <<>> >> PROVE Len(h) = 1 /\ h[1] = <<>>
    BY Zenon
  <2> QED
    OBVIOUS
<1> HIDE DEF g, n
<1>3. Complete(g)
  <2> SUFFICES ASSUME NEW j \in 1..Len(g) PROVE SelfDelimiting(g[j])
    BY DEF Complete
  <2>1. j \in 1..n \/ j = n + 1
    BY <1>1
  <2> QED
    BY <1>1, <2>1 DEF Complete, n
<1> QED
  BY <1>1, <1>2, <1>3 DEF g

LEMMA FieldEnds ==
  ASSUME Inv, FieldsInv, ~Unclosed
  PROVE  SelfDelimiting(FieldSoFar)
<1>1. Unclosed = FALSE /\ FieldSoFar \in Seq(Char)
  BY ReadTypes
<1>2. Partial(FieldSoFar, QuoteOfField, FALSE)
  BY <1>1 DEF FieldsInv
<1> QED
  BY <1>1, <1>2, FieldComplete

\* Whatever text is read, what is taken for a field delimits itself.
LEMMA TextKeepsFields ==
  ASSUME Inv, FieldsInv, [Text!Next]_(Text!vars)
  PROVE  FieldsInv'
<1>0. /\ Remaining \in Seq(Char) /\ Records \in Seq(Seq(Seq(Char)))
      /\ Record \in Seq(Seq(Char)) /\ FieldSoFar \in Seq(Char) /\ Unclosed \in BOOLEAN
      /\ Outcome = "reading" => Remaining # <<>> /\ Head(Remaining) \in Char
  BY ReadTypes
<1>1. CASE UNCHANGED Text!vars
  BY <1>1 DEF FieldsInv, Text!vars
<1>2. CASE Outcome = "reading" /\ Text!EndField
  <2>1. /\ ~Unclosed /\ Records' = Records /\ Record' = Append(Record, FieldSoFar)
        /\ Text!NewField
    BY <1>2 DEF Text!EndField
  <2>2. Complete(Record')
    BY <1>0, <2>1, FieldEnds, CompleteGrown DEF FieldsInv
  <2> QED
    BY <2>1, <2>2, NewFieldPartial DEF FieldsInv
<1>3. CASE Outcome = "reading" /\ Text!EndRecord
  <2>1. /\ ~Unclosed /\ Records' = Append(Records, Append(Record, FieldSoFar)) /\ Record' = <<>>
        /\ Text!NewField /\ ~(Record = <<>> /\ FieldSoFar = <<>>)
    BY <1>3 DEF Text!EndRecord, Text!Blank
  <2>2. PICK rec \in Seq(Seq(Char)) : rec = Append(Record, FieldSoFar)
    BY <1>0, <2>1, FieldEnds, CompleteGrown DEF FieldsInv
  <2>3. Complete(rec) /\ rec # << <<>> >>
    BY <1>0, <2>1, <2>2, FieldEnds, CompleteGrown DEF FieldsInv
  <2>4. Complete(Record')
    <3>1. Len(Record') = 0
      BY <2>1
    <3> QED
      BY <3>1 DEF Complete
  <2>5. ASSUME NEW i \in 1..Len(Records')
        PROVE  Records'[i] # << <<>> >> /\ Complete(Records'[i])
    <3> DEFINE L == Seq(Seq(Char))
               n == Len(Records)
    <3>1. /\ n \in Nat /\ Len(Records') = n + 1 /\ Records'[n + 1] = rec
          /\ \A k \in 1..n : Records'[k] = Records[k]
      <4>1. rec \in L /\ Records \in Seq(L) /\ Records' = Append(Records, rec)
        BY <1>0, <2>1, <2>2
      <4> HIDE DEF L
      <4> QED
        BY <4>1, AppendedTo
    <3>2. i \in 1..n \/ i = n + 1
      BY <3>1
    <3> QED
      BY <2>3, <3>1, <3>2 DEF FieldsInv
  <2> QED
    BY <2>1, <2>4, <2>5, NewFieldPartial DEF FieldsInv
<1>4. CASE Outcome = "reading" /\ (Text!BadRecord \/ Text!Unfinished)
  <2>1. Records' = <<>> /\ Record' = <<>> /\ Text!NewField
    BY <1>4 DEF Text!BadRecord, Text!Unfinished, Text!Fail
  <2>2. Len(Records') = 0 /\ Len(Record') = 0
    BY <2>1
  <2> QED
    BY <2>1, <2>2, NewFieldPartial DEF FieldsInv, Complete
<1>5. CASE Outcome = "reading" /\ Text!Character
  <2> DEFINE ch == Head(Remaining)
             opens == FieldSoFar = <<>> /\ ch \in Quotes
  <2>1. /\ Unclosed \/ ch \notin {Delimiter, Newline}
        /\ Records' = Records /\ Record' = Record
        /\ FieldSoFar' = Append(FieldSoFar, ch)
        /\ QuoteOfField' = IF opens THEN ch ELSE QuoteOfField
        /\ Unclosed' = IF opens \/ ch = QuoteOfField THEN ~Unclosed ELSE Unclosed
    BY <1>5 DEF Text!Character, Text!Extend
  <2>2. ch \in Char /\ Partial(FieldSoFar, QuoteOfField, Unclosed)
    BY <1>0, <1>5 DEF FieldsInv
  <2>3. Unclosed' \in BOOLEAN
    BY <1>0, <2>1
  <2>4. Unclosed' <=> IF opens \/ ch = QuoteOfField THEN ~Unclosed ELSE Unclosed
    BY <2>1
  <2> HIDE DEF ch
  <2>5. Partial(Append(FieldSoFar, ch), QuoteOfField', Unclosed')
    BY <1>0, <2>1, <2>2, <2>3, <2>4, FieldGrown
  <2> QED
    BY <2>1, <2>5 DEF FieldsInv
<1> QED
  BY <1>1, <1>2, <1>3, <1>4, <1>5 DEF Text!Next

----------------------------------------------------------------------------
\* The text of a table ends with a newline.
EndsLine(text) == text # <<>> /\ text[Len(text)] = Newline

LEMMA EndOfBoth ==
  ASSUME NEW s \in Seq(Char), NEW t \in Seq(Char), EndsLine(t)
  PROVE  EndsLine(s \o t)
<1>1. Len(t) \in Nat /\ Len(t) # 0 /\ Len(t) \in 1..Len(t)
  BY DEF EndsLine
<1>2. /\ s \o t \in Seq(Char) /\ Len(s \o t) = Len(s) + Len(t) /\ Len(s) \in Nat
      /\ (s \o t)[Len(s) + Len(t)] = t[Len(t)]
  BY <1>1, Concatenation
<1>3. s \o t # <<>>
  <2>1. PICK u \in Seq(Char) : u = s \o t
    BY <1>2
  <2>2. Len(u) # 0
    BY <1>1, <1>2, <2>1
  <2> QED
    BY <2>1, <2>2
<1> QED
  BY <1>2, <1>3 DEF EndsLine

LEMMA RowEndsLine ==
  ASSUME NEW f \in Seq(String), f # <<>>
  PROVE  EndsLine(RowText[f])
<1> DEFINE P == {g \in Seq(String) : g # <<>> => EndsLine(RowText[g])}
<1>1. <<>> \in P
  OBVIOUS
<1>2. ASSUME NEW g \in Seq(String), g # <<>>, Tail(g) \in P
      PROVE  g \in P
  <2>1. /\ RowText[g] = Head(g) \o (<<Separator(g)>> \o RowText[Tail(g)])
        /\ RowText[Tail(g)] \in Seq(Char) /\ Head(g) \in Seq(Char) /\ Tail(g) \in Seq(String)
    <3>1. Tail(g) \in Seq(String) /\ Head(g) \in Seq(Char)
      BY <1>2, TakenApart DEF String
    <3> QED
      BY <1>2, <3>1, RowTextIs DEF FirstOf
  <2>2. <<Separator(g)>> \in Seq(Char)
    <3>1. Separator(g) \in Char
      BY Characters DEF Separator
    <3> QED
      BY <3>1
  <2>3. EndsLine(<<Separator(g)>> \o RowText[Tail(g)])
    <3>1. CASE Tail(g) # <<>>
      BY <1>2, <2>1, <2>2, <3>1, EndOfBoth
    <3>2. CASE Tail(g) = <<>>
      <4>1. Len(g) = 1
        <5>1. Len(g) = Len(Tail(g)) + 1
          BY <1>2, TakenApart
        <5>2. PICK u : u = Tail(g)
          OBVIOUS
        <5>3. u = <<>>
          BY <3>2, <5>2
        <5>4. Len(u) = 0
          BY <5>3
        <5> QED
          BY <5>1, <5>2, <5>4
      <4>2. Separator(g) = Newline /\ RowText[Tail(g)] = <<>>
        BY <3>2, <4>1, RowTextIs DEF Separator
      <4>3. <<Newline>> \o <<>> = <<Newline>>
        BY <2>2, <4>2, WholeAndNothing
      <4>4. EndsLine(<<Newline>>)
        BY DEF EndsLine
      <4> QED
        BY <4>2, <4>3, <4>4
    <3> QED
      BY <3>1, <3>2
  <2>4. <<Separator(g)>> \o RowText[Tail(g)] \in Seq(Char)
    BY <2>1, <2>2, Concatenation
  <2> QED
    BY <2>1, <2>3, <2>4, EndOfBoth
<1>3. f \in P
  <2> HIDE DEF P
  <2> QED
    BY <1>1, <1>2, InductionOnTails
<1> QED
  BY <1>3

LEMMA TableEndsLine ==
  ASSUME NEW t \in Seq(Seq(String)), t # <<>>, \A i \in 1..Len(t) : t[i] # <<>>
  PROVE  EndsLine(RowsText[t])
<1> DEFINE Whole(u) == \A i \in 1..Len(u) : u[i] # <<>>
           P == {u \in Seq(Seq(String)) : u # <<>> /\ Whole(u) => EndsLine(RowsText[u])}
<1>1. <<>> \in P
  OBVIOUS
<1>2. ASSUME NEW u \in Seq(Seq(String)), u # <<>>, Tail(u) \in P
      PROVE  u \in P
  <2> SUFFICES ASSUME Whole(u) PROVE EndsLine(RowsText[u])
    BY <1>2
  <2>1. Head(u) \in Seq(String) /\ Tail(u) \in Seq(Seq(String)) /\ Head(u) # <<>> /\ Whole(Tail(u))
    BY <1>2
  <2>2. /\ RowsText[u] = RowText[Head(u)] \o RowsText[Tail(u)]
        /\ RowText[Head(u)] \in Seq(Char) /\ RowsText[Tail(u)] \in Seq(Char)
        /\ EndsLine(RowText[Head(u)])
    BY <1>2, <2>1, RowsTextIs, RowTextIs, RowEndsLine
  <2>3. CASE Tail(u) # <<>>
    BY <1>2, <2>1, <2>2, <2>3, EndOfBoth
  <2>4. CASE Tail(u) = <<>>
    <3>1. RowsText[Tail(u)] = <<>>
      BY <2>4, RowsTextIs
    <3>2. RowText[Head(u)] \o <<>> = RowText[Head(u)]
      BY <2>2, WholeAndNothing
    <3> QED
      BY <2>2, <3>1, <3>2
  <2> QED
    BY <2>3, <2>4
<1>3. t \in P
  <2> HIDE DEF P
  <2> QED
    BY <1>1, <1>2, InductionOnTails
<1> QED
  BY <1>3

----------------------------------------------------------------------------
\* The rest of a sequence.
LEMMA RestOfSequence ==
  ASSUME NEW S, NEW s \in Seq(S), NEW a \in Nat, a < Len(s),
         NEW u, u = SubSeq(s, a + 1, Len(s))
  PROVE  /\ u \in Seq(S) /\ u # <<>> /\ Len(u) = Len(s) - a
         /\ Head(u) = s[a + 1] /\ s[a + 1] \in S
         /\ Tail(u) = SubSeq(s, (a + 1) + 1, Len(s)) /\ Tail(u) \in Seq(S)
<1> DEFINE n == Len(s)
           v == SubSeq(s, (a + 1) + 1, n)
<1>1. n \in Nat /\ a + 1 \in 1..n
  OBVIOUS
<1>2. /\ u \in Seq(S) /\ Len(u) = n - a /\ \A i \in 1..(n - a) : u[i] = s[a + i]
  OBVIOUS
<1>3. /\ v \in Seq(S) /\ Len(v) = n - (a + 1)
      /\ \A i \in 1..(n - (a + 1)) : v[i] = s[(a + 1) + i]
  OBVIOUS
<1> HIDE DEF n, v
<1>4. u # <<>> /\ Len(u) # 0
  BY <1>1, <1>2
<1>5. /\ Head(u) = u[1] /\ Tail(u) \in Seq(S) /\ Len(Tail(u)) = Len(u) - 1
      /\ \A i \in 1..(Len(u) - 1) : Tail(u)[i] = u[i + 1]
  BY <1>2, <1>4
<1>6. Tail(u) = v
  <2>1. Len(Tail(u)) = Len(v) /\ Len(v) = (n - a) - 1
    BY <1>1, <1>2, <1>3, <1>5
  <2>2. ASSUME NEW i \in 1..Len(v)
        PROVE  Tail(u)[i] = v[i]
    <3>1. i \in 1..(Len(u) - 1) /\ i + 1 \in 1..(n - a) /\ a + (i + 1) = (a + 1) + i
      BY <1>1, <1>2, <2>1
    <3>2. Tail(u)[i] = u[i + 1] /\ u[i + 1] = s[a + (i + 1)]
      BY <1>2, <1>5, <3>1
    <3>3. v[i] = s[(a + 1) + i]
      BY <1>1, <1>3
    <3> QED
      BY <3>1, <3>2, <3>3
  <2>3. PICK x \in Seq(S) : x = Tail(u)
    BY <1>5
  <2>4. PICK y \in Seq(S) : y = v
    BY <1>3
  <2>5. Len(x) = Len(y) /\ \A i \in 1..Len(x) : x[i] = y[i]
    BY <2>1, <2>2, <2>3, <2>4
  <2>6. x = y
    BY <2>5
  <2> QED
    BY <2>3, <2>4, <2>6
<1>7. u[1] = s[a + 1] /\ s[a + 1] \in S
  <2>1. 1 \in 1..(n - a)
    BY <1>1
  <2>2. s[a + 1] \in S
    BY <1>1 DEF n
  <2> QED
    BY <1>2, <2>1, <2>2
<1> QED
  BY <1>2, <1>4, <1>5, <1>6, <1>7 DEF v, n

LEMMA NoRest ==
  ASSUME NEW S, NEW s \in Seq(S)
  PROVE  SubSeq(s, Len(s) + 1, Len(s)) = <<>>
  OBVIOUS

\* What write_dsv() puts behind the first k characters of field j of row i.
SeparatorAt(w, i, j) == IF j = Len(w[i]) THEN Newline ELSE Delimiter
RowsBehind(w, i) == RowsText[SubSeq(w, i + 1, Len(w))]
FieldsBehind(w, i, j) == RowText[SubSeq(w[i], j + 1, Len(w[i]))] \o RowsBehind(w, i)
Behind(w, i, j, k) ==
  SubSeq(w[i][j], k + 1, Len(w[i][j])) \o (<<SeparatorAt(w, i, j)>> \o FieldsBehind(w, i, j))

TextRows == Seq(Seq(String))
Whole(w) == \A i \in 1..Len(w) : w[i] # <<>>

LEMMA RowsBehindType ==
  ASSUME NEW w \in TextRows, NEW i \in 0..Len(w)
  PROVE  RowsBehind(w, i) \in Seq(Char) /\ (i = Len(w) => RowsBehind(w, i) = <<>>)
<1> DEFINE R == Seq(String)
<1>1. Len(w) \in Nat /\ i \in Nat
  BY DEF TextRows
<1>2. CASE i = Len(w)
  <2>1. SubSeq(w, i + 1, Len(w)) = <<>>
    <3>1. w \in Seq(R)
      BY DEF TextRows
    <3> HIDE DEF R
    <3> QED
      BY <1>2, <3>1, NoRest
  <2>2. RowsBehind(w, i) = <<>>
    BY <2>1, RowsTextIs DEF RowsBehind
  <2> QED
    BY <2>2
<1>3. CASE i < Len(w)
  <2>1. SubSeq(w, i + 1, Len(w)) \in Seq(R)
    <3>1. w \in Seq(R)
      BY DEF TextRows
    <3> HIDE DEF R
    <3> QED
      BY <1>1, <1>3, <3>1, RestOfSequence
  <2>2. PICK u \in Seq(R) : u = SubSeq(w, i + 1, Len(w))
    BY <2>1
  <2>3. RowsText[u] \in Seq(Char)
    BY RowsTextIs
  <2> QED
    BY <1>3, <2>2, <2>3 DEF RowsBehind
<1> QED
  BY <1>1, <1>2, <1>3

LEMMA FieldsBehindType ==
  ASSUME NEW w \in TextRows, NEW i \in 1..Len(w), NEW j \in 0..Len(w[i])
  PROVE  /\ FieldsBehind(w, i, j) \in Seq(Char)
         /\ j = Len(w[i]) => FieldsBehind(w, i, j) = RowsBehind(w, i)
         /\ w[i] \in Seq(String) /\ Len(w[i]) \in Nat
<1>1. w[i] \in Seq(String) /\ Len(w[i]) \in Nat /\ j \in Nat
  BY DEF TextRows
<1>2. RowsBehind(w, i) \in Seq(Char)
  BY RowsBehindType DEF TextRows
<1>3. CASE j = Len(w[i])
  <2>1. SubSeq(w[i], j + 1, Len(w[i])) = <<>>
    BY <1>1, <1>3, NoRest
  <2>2. RowText[SubSeq(w[i], j + 1, Len(w[i]))] = <<>>
    BY <2>1, RowTextIs
  <2>3. <<>> \o RowsBehind(w, i) = RowsBehind(w, i)
    BY <1>2, WholeAndNothing
  <2> QED
    BY <1>1, <1>2, <2>2, <2>3 DEF FieldsBehind
<1>4. CASE j < Len(w[i])
  <2>1. PICK v \in Seq(String) : v = SubSeq(w[i], j + 1, Len(w[i]))
    BY <1>1, <1>4, RestOfSequence
  <2>2. RowText[v] \in Seq(Char)
    BY RowTextIs
  <2> QED
    BY <1>1, <1>2, <1>4, <2>1, <2>2, Concatenation DEF FieldsBehind
<1> QED
  BY <1>1, <1>3, <1>4

\* The next field of the row.
LEMMA RestOfRow ==
  ASSUME NEW s \in Seq(String), NEW j \in Nat, j < Len(s)
  PROVE  /\ RowText[SubSeq(s, j + 1, Len(s))]
              = s[j + 1] \o (<<IF j + 1 = Len(s) THEN Newline ELSE Delimiter>>
                              \o RowText[SubSeq(s, (j + 1) + 1, Len(s))])
         /\ s[j + 1] \in String /\ SubSeq(s, (j + 1) + 1, Len(s)) \in Seq(String)
<1>1. PICK v : v = SubSeq(s, j + 1, Len(s))
  OBVIOUS
<1>2. /\ v \in Seq(String) /\ v # <<>> /\ Len(v) = Len(s) - j
      /\ Head(v) = s[j + 1] /\ s[j + 1] \in String
      /\ Tail(v) = SubSeq(s, (j + 1) + 1, Len(s)) /\ Tail(v) \in Seq(String)
  BY <1>1, RestOfSequence
<1>3. RowText[v] = Head(v) \o (<<Separator(v)>> \o RowText[Tail(v)])
  BY <1>2, RowTextIs DEF FirstOf
<1>4. Len(v) = 1 <=> j + 1 = Len(s)
  BY <1>2
<1>5. Separator(v) = IF j + 1 = Len(s) THEN Newline ELSE Delimiter
  BY <1>4 DEF Separator
<1> QED
  BY <1>1, <1>2, <1>3, <1>5

LEMMA NextFieldBehind ==
  ASSUME NEW w \in TextRows, NEW i \in 1..Len(w), NEW j \in Nat, j < Len(w[i])
  PROVE  FieldsBehind(w, i, j) = Behind(w, i, j + 1, 0)
<1> DEFINE f == w[i][j + 1]
           sep == <<SeparatorAt(w, i, j + 1)>>
           v == SubSeq(w[i], j + 1, Len(w[i]))
           left == SubSeq(w[i], (j + 1) + 1, Len(w[i]))
<1>0. \A a, b, d \in Seq(Char) : (a \o b) \o d = a \o (b \o d)
  BY Associative
<1>1. PICK s \in Seq(String) : s = w[i] /\ Len(s) \in Nat
  BY FieldsBehindType
<1>2. f \in String /\ left \in Seq(String)
  BY <1>1, RestOfRow
<1>3. RowText[v] = f \o (sep \o RowText[left])
  BY <1>1, RestOfRow DEF SeparatorAt
<1>4. /\ f \in Seq(Char) /\ sep \in Seq(Char) /\ RowText[left] \in Seq(Char)
      /\ RowsBehind(w, i) \in Seq(Char)
  <2>1. SeparatorAt(w, i, j + 1) \in Char
    BY Characters DEF SeparatorAt
  <2>2. RowText[left] \in Seq(Char)
    BY <1>2, RowTextIs
  <2>3. i \in 0..Len(w)
    BY DEF TextRows
  <2> QED
    BY <1>2, <2>1, <2>2, <2>3, RowsBehindType DEF String
<1>5. FieldsBehind(w, i, j) = RowText[v] \o RowsBehind(w, i)
  BY DEF FieldsBehind
<1>6. FieldsBehind(w, i, j + 1) = RowText[left] \o RowsBehind(w, i)
  BY DEF FieldsBehind
<1>7. Behind(w, i, j + 1, 0) = f \o (sep \o FieldsBehind(w, i, j + 1))
  <2>1. SubSeq(f, 0 + 1, Len(f)) = f
    BY <1>4, WholeAndNothing
  <2> QED
    BY <2>1 DEF Behind
<1> HIDE DEF f, sep, v, left
<1>8. sep \o RowText[left] \in Seq(Char)
  BY <1>4, Concatenation
<1>9. (f \o (sep \o RowText[left])) \o RowsBehind(w, i)
        = f \o ((sep \o RowText[left]) \o RowsBehind(w, i))
  BY <1>0, <1>4, <1>8, ZenonT(30)
<1>10. (sep \o RowText[left]) \o RowsBehind(w, i) = sep \o (RowText[left] \o RowsBehind(w, i))
  BY <1>0, <1>4, ZenonT(30)
<1> QED
  BY <1>3, <1>5, <1>6, <1>7, <1>9, <1>10

\* The next row.
LEMMA NextRowBehind ==
  ASSUME NEW w \in TextRows, NEW i \in Nat, i < Len(w), Whole(w)
  PROVE  RowsBehind(w, i) = Behind(w, i + 1, 1, 0)
<1> DEFINE R == Seq(String)
           v == SubSeq(w, i + 1, Len(w))
           left == SubSeq(w, (i + 1) + 1, Len(w))
<1>1. /\ v \in Seq(R) /\ v # <<>> /\ Head(v) = w[i + 1] /\ w[i + 1] \in R
      /\ Tail(v) = left /\ left \in Seq(R)
  <2>1. w \in Seq(R)
    BY DEF TextRows
  <2>2. v = SubSeq(w, i + 1, Len(w)) /\ left = SubSeq(w, (i + 1) + 1, Len(w))
    OBVIOUS
  <2> HIDE DEF R, v, left
  <2>3. /\ v \in Seq(R) /\ v # <<>> /\ Head(v) = w[i + 1] /\ w[i + 1] \in R
        /\ Tail(v) = SubSeq(w, (i + 1) + 1, Len(w)) /\ Tail(v) \in Seq(R)
    BY <2>1, <2>2, RestOfSequence, SMTT(30)
  <2> QED
    BY <2>2, <2>3
<1>2. RowsBehind(w, i) = RowText[w[i + 1]] \o RowsText[left]
  BY <1>1, RowsTextIs DEF RowsBehind
<1>3. RowsBehind(w, i + 1) = RowsText[left]
  BY DEF RowsBehind
<1>4. SubSeq(w[i + 1], 0 + 1, Len(w[i + 1])) = w[i + 1]
  BY <1>1
<1>5. FieldsBehind(w, i + 1, 0) = RowText[w[i + 1]] \o RowsBehind(w, i + 1)
  BY <1>4 DEF FieldsBehind
<1>6. i + 1 \in 1..Len(w) /\ 0 < Len(w[i + 1])
  <2>1. i + 1 \in 1..Len(w)
    BY DEF TextRows
  <2>2. w[i + 1] # <<>>
    BY <2>1 DEF Whole
  <2> QED
    BY <1>1, <2>1, <2>2
<1>7. FieldsBehind(w, i + 1, 0) = Behind(w, i + 1, 0 + 1, 0)
  BY <1>6, NextFieldBehind
<1>8. 0 + 1 = 1
  OBVIOUS
<1> HIDE DEF v, left
<1> QED
  BY <1>2, <1>3, <1>5, <1>7, <1>8

\* One character less.
LEMMA CharacterTaken ==
  ASSUME NEW f \in Seq(Char), NEW t \in Seq(Char), t # <<>>, NEW ch \in Nat, 0 < ch, ch <= Len(f),
         NEW u, u = SubSeq(f, ch, Len(f)) \o t
  PROVE  /\ u # <<>> /\ Head(u) = f[ch]
         /\ Tail(u) = SubSeq(f, ch + 1, Len(f)) \o t /\ Tail(u) # <<>>
<1>1. u # <<>>
  BY HeadAndTail
<1>2. Head(u) = f[ch]
  BY HeadAndTail
<1>3. Tail(u) = SubSeq(f, ch + 1, Len(f)) \o t
  BY HeadAndTail
<1>4. PICK v \in Seq(Char) : v = SubSeq(f, ch + 1, Len(f))
  <2>1. SubSeq(f, ch + 1, Len(f)) \in Seq(Char)
    BY SubSequence
  <2> QED
    BY <2>1
<1>5. Len(v \o t) = Len(v) + Len(t) /\ Len(v) \in Nat /\ Len(t) \in Nat /\ v \o t \in Seq(Char)
  BY Concatenation
<1>6. Len(t) # 0
  OBVIOUS
<1>7. v \o t # <<>>
  <2>1. PICK z \in Seq(Char) : z = v \o t
    BY <1>5
  <2>2. Len(z) # 0
    BY <1>5, <1>6, <2>1
  <2> QED
    BY <2>1, <2>2
<1> QED
  BY <1>1, <1>2, <1>3, <1>4, <1>7

LEMMA NextCharacterBehind ==
  ASSUME NEW w \in TextRows, NEW i \in 1..Len(w), NEW j \in 1..Len(w[i]), NEW k \in 0..Len(w[i][j])
  PROVE  /\ Behind(w, i, j, k) # <<>>
         /\ k < Len(w[i][j]) =>
              /\ Head(Behind(w, i, j, k)) = w[i][j][k + 1]
              /\ Tail(Behind(w, i, j, k)) = Behind(w, i, j, k + 1)
              /\ Tail(Behind(w, i, j, k)) # <<>>
         /\ k = Len(w[i][j]) =>
              /\ Head(Behind(w, i, j, k)) = SeparatorAt(w, i, j)
              /\ Tail(Behind(w, i, j, k)) = FieldsBehind(w, i, j)
         /\ w[i][j] \in Seq(Char) /\ Len(w[i][j]) \in Nat
<1> DEFINE left == FieldsBehind(w, i, j)
<1>1. PICK f \in Seq(Char) : f = w[i][j]
  <2>1. w[i] \in Seq(String)
    BY DEF TextRows
  <2> QED
    BY <2>1 DEF String
<1>2. Len(f) \in Nat /\ k \in Nat
  BY <1>1
<1>3. PICK sep \in Char : sep = SeparatorAt(w, i, j)
  BY Characters DEF SeparatorAt
<1>4. left \in Seq(Char)
  <2>1. j \in 0..Len(w[i])
    <3>1. w[i] \in Seq(String)
      BY DEF TextRows
    <3> QED
      BY <3>1
  <2> QED
    BY <2>1, FieldsBehindType
<1>5. PICK t \in Seq(Char) : t = <<sep>> \o left /\ t # <<>> /\ Head(t) = sep /\ Tail(t) = left
  <2> HIDE DEF left
  <2> QED
    BY <1>4, FirstAndRest
<1>6. /\ Behind(w, i, j, k) = SubSeq(f, k + 1, Len(f)) \o t
      /\ Behind(w, i, j, k + 1) = SubSeq(f, (k + 1) + 1, Len(f)) \o t
  BY <1>1, <1>3, <1>5 DEF Behind
<1>7. CASE k = Len(f)
  <2>1. SubSeq(f, Len(f) + 1, Len(f)) \o t = t
    BY WholeAndNothing
  <2>2. Behind(w, i, j, k) = t
    BY <1>6, <1>7, <2>1
  <2> HIDE DEF left
  <2> QED
    BY <1>1, <1>2, <1>3, <1>5, <1>7, <2>2 DEF left
<1>8. CASE k < Len(f)
  <2>1. PICK u : u = Behind(w, i, j, k) /\ u = SubSeq(f, k + 1, Len(f)) \o t
    BY <1>6
  <2>2. /\ u # <<>> /\ Head(u) = f[k + 1]
        /\ Tail(u) = SubSeq(f, (k + 1) + 1, Len(f)) \o t /\ Tail(u) # <<>>
    <3> HIDE DEF left
    <3>1. PICK ch \in Nat : ch = k + 1 /\ 0 < ch /\ ch <= Len(f)
      BY <1>2, <1>8
    <3>2. u = SubSeq(f, ch, Len(f)) \o t /\ t # <<>>
      BY <1>5, <2>1, <3>1
    <3>3. u # <<>> /\ Tail(u) # <<>>
      BY <3>1, <3>2, CharacterTaken
    <3>4. Head(u) = f[ch]
      BY <3>1, <3>2, CharacterTaken
    <3>5. Tail(u) = SubSeq(f, ch + 1, Len(f)) \o t
      BY <3>1, <3>2, CharacterTaken
    <3> QED
      BY <3>1, <3>3, <3>4, <3>5
  <2>3. Tail(u) = Behind(w, i, j, k + 1)
    BY <1>6, <2>2
  <2>4. Head(Behind(w, i, j, k)) = w[i][j][k + 1]
    BY <1>1, <2>1, <2>2
  <2>5. k < Len(w[i][j]) /\ k # Len(w[i][j])
    BY <1>1, <1>2, <1>8
  <2> HIDE DEF left
  <2> QED
    BY <1>1, <1>2, <2>1, <2>2, <2>3, <2>4, <2>5
<1> QED
  BY <1>1, <1>2, <1>7, <1>8

----------------------------------------------------------------------------
\* A text whose fields delimit themselves and whose rows are not empty lines is
\* read as it was written.  At the k characters of field j of row i that have been
\* read, the rest is what was written behind them.
Sound(w) ==
  /\ w \in TextRows /\ w # <<>> /\ Whole(w)
  /\ \A i \in 1..Len(w) :
       /\ Len(w[i]) = Len(w[1]) /\ w[i] # << <<>> >>
       /\ \A j \in 1..Len(w[i]) : SelfDelimiting(w[i][j])

ReadUpTo(w, i, j, k, rest, docs, rec, f) ==
  /\ i \in 1..Len(w) /\ j \in 1..Len(w[i]) /\ k \in 0..Len(w[i][j])
  /\ \A n \in 1..(i - 1) : docs[n] = w[n]
  /\ \A n \in 1..(j - 1) : rec[n] = w[i][n]
  /\ \A n \in 1..k : f[n] = w[i][j][n]
  /\ rest = Behind(w, i, j, k)

Onward(w, rest, docs, rec, f, outcome) ==
  IF outcome = "reading"
  THEN ReadUpTo(w, Len(docs) + 1, Len(rec) + 1, Len(f), rest, docs, rec, f)
  ELSE outcome = "complete" /\ docs = w

OnwardInv(w) == Onward(w, Remaining, Records, Record, FieldSoFar, Outcome)

LEMMA SameEntries ==
  ASSUME NEW S, NEW s \in Seq(S), NEW t \in Seq(S), Len(s) = Len(t),
         \A i \in 1..Len(s) : s[i] = t[i]
  PROVE  s = t
  OBVIOUS

\* The next character is the next one of the field, or the separator behind it.
LEMMA AtPosition ==
  ASSUME Inv, FieldsInv, NEW w, Sound(w), NEW i, NEW j, NEW k, k = Len(FieldSoFar),
         ReadUpTo(w, i, j, k, Remaining, Records, Record, FieldSoFar)
  PROVE  /\ k < Len(w[i][j]) =>
              /\ Head(Remaining) = w[i][j][k + 1]
              /\ Tail(Remaining) = Behind(w, i, j, k + 1) /\ Tail(Remaining) # <<>>
              /\ Unclosed \/ Head(Remaining) \notin {Delimiter, Newline}
         /\ k = Len(w[i][j]) =>
              /\ FieldSoFar = w[i][j] /\ ~Unclosed
              /\ Head(Remaining) = SeparatorAt(w, i, j)
              /\ Tail(Remaining) = FieldsBehind(w, i, j)
         /\ w[i][j] \in Seq(Char) /\ Len(w[i][j]) \in Nat /\ k \in Nat
         /\ k < Len(w[i][j]) \/ k = Len(w[i][j])
<1>1. /\ i \in 1..Len(w) /\ j \in 1..Len(w[i]) /\ k \in 0..Len(w[i][j]) /\ w \in TextRows
      /\ \A n \in 1..k : FieldSoFar[n] = w[i][j][n]
      /\ Remaining = Behind(w, i, j, k)
  BY DEF ReadUpTo, Sound
<1>2. PICK f \in Seq(Char) : f = w[i][j] /\ Len(f) \in Nat
  BY <1>1, NextCharacterBehind
<1>3. /\ k < Len(f) =>
           /\ Head(Remaining) = f[k + 1]
           /\ Tail(Remaining) = Behind(w, i, j, k + 1) /\ Tail(Remaining) # <<>>
      /\ k = Len(f) =>
           /\ Head(Remaining) = SeparatorAt(w, i, j)
           /\ Tail(Remaining) = FieldsBehind(w, i, j)
  BY <1>1, <1>2, NextCharacterBehind
<1>4. k \in Nat /\ k <= Len(f) /\ (\A n \in 1..k : FieldSoFar[n] = f[n]) /\ FieldSoFar \in Seq(Char)
  BY <1>1, <1>2, ReadTypes
<1>5. SelfDelimiting(f) /\ Partial(FieldSoFar, QuoteOfField, Unclosed) /\ Unclosed \in BOOLEAN
  BY <1>1, <1>2, ReadTypes DEF Sound, FieldsInv
<1>6. ASSUME k = Len(f)
      PROVE  FieldSoFar = f /\ ~Unclosed
  <2>1. FieldSoFar = f
    BY <1>4, <1>6, SameSequence
  <2>2. CASE f = <<>>
    BY <1>5, <2>1, <2>2 DEF Partial
  <2>3. CASE f # <<>>
    <3>1. ~Inside(f, Len(f))
      BY <1>5, <2>3, Delimited
    <3>2. Unclosed <=> Inside(f, Len(f))
      BY <1>5, <2>1, <2>3 DEF Partial
    <3> QED
      BY <2>1, <3>1, <3>2
  <2> QED
    BY <2>2, <2>3
<1>7. ASSUME k < Len(f), f[k + 1] \in {Delimiter, Newline}
      PROVE  Unclosed
  <2>1. k + 1 \in 1..Len(f)
    BY <1>2, <1>4, <1>7
  <2>2. Inside(f, k + 1)
    BY <1>5, <1>7, <2>1, Delimited
  <2>3. f[k + 1] # f[1]
    BY <1>7, <2>2, Characters DEF Inside
  <2>4. Quoting(f, k)
    BY <1>4, <2>2, <2>3, QuotesCounted DEF Inside
  <2>5. k # 0
    BY <2>4, QuotesCounted
  <2>6. FieldSoFar[1] = f[1] /\ FieldSoFar # <<>>
    BY <1>4, <2>5
  <2>7. Quoting(FieldSoFar, k)
    BY <1>4, <2>4, <2>6, QuotingOfPart
  <2>8. Inside(FieldSoFar, Len(FieldSoFar))
    BY <2>2, <2>6, <2>7 DEF Inside
  <2>9. Unclosed <=> Inside(FieldSoFar, Len(FieldSoFar))
    BY <1>5, <2>6 DEF Partial
  <2> QED
    BY <2>8, <2>9
<1>8. k < Len(f) => Unclosed \/ Head(Remaining) \notin {Delimiter, Newline}
  BY <1>3, <1>7
<1>9. k < Len(f) \/ k = Len(f)
  BY <1>2, <1>4
<1> QED
  BY <1>2, <1>3, <1>4, <1>6, <1>8, <1>9

ReadSoFar(w) ==
  ReadUpTo(w, Len(Records) + 1, Len(Record) + 1, Len(FieldSoFar),
           Remaining, Records, Record, FieldSoFar)

LEMMA EndFieldGoesOn ==
  ASSUME Inv, FieldsInv, NEW w, Sound(w), Outcome = "reading", ReadSoFar(w), Text!EndField
  PROVE  OnwardInv(w)'
<1> DEFINE i == Len(Records) + 1
           j == Len(Record) + 1
           k == Len(FieldSoFar)
           f == w[i][j]
<1>0. ReadUpTo(w, i, j, k, Remaining, Records, Record, FieldSoFar)
  BY DEF ReadSoFar
<1>1. /\ ~Unclosed /\ Head(Remaining) = Delimiter /\ Remaining' = Tail(Remaining)
      /\ Record' = Append(Record, FieldSoFar) /\ FieldSoFar' = <<>>
      /\ Records' = Records /\ Outcome' = "reading"
  BY DEF Text!EndField, Text!NewField
<1>2. /\ Record \in Seq(Seq(Char)) /\ FieldSoFar \in Seq(Char) /\ Len(Record) \in Nat
      /\ Len(Records) \in Nat
  BY ReadTypes
<1> HIDE DEF i, j, k
<1>3. /\ k < Len(f) =>
           Unclosed \/ Head(Remaining) \notin {Delimiter, Newline}
      /\ k = Len(f) =>
           /\ FieldSoFar = f
           /\ Head(Remaining) = SeparatorAt(w, i, j)
           /\ Tail(Remaining) = FieldsBehind(w, i, j)
      /\ k < Len(f) \/ k = Len(f)
      /\ f \in Seq(Char)
  BY <1>0, AtPosition DEF k
<1>4. /\ i \in 1..Len(w) /\ j \in 1..Len(w[i]) /\ w \in TextRows /\ w[i] \in Seq(String)
      /\ Len(w[i]) \in Nat
      /\ \A n \in 1..(i - 1) : Records[n] = w[n]
      /\ \A n \in 1..(j - 1) : Record[n] = w[i][n]
  <2>1. i \in 1..Len(w) /\ j \in 1..Len(w[i]) /\ w \in TextRows
    BY <1>0 DEF ReadUpTo, Sound
  <2> QED
    BY <1>0, <2>1 DEF ReadUpTo, TextRows
<1>5. k = Len(f)
  BY <1>1, <1>3
<1>6. j < Len(w[i])
  <2>1. SeparatorAt(w, i, j) = Delimiter /\ Delimiter # Newline
    BY <1>1, <1>3, <1>5, Characters
  <2>2. j # Len(w[i])
    BY <2>1 DEF SeparatorAt
  <2> QED
    BY <1>4, <2>2
<1>7. Remaining' = Behind(w, i, j + 1, 0)
  <2>1. j \in Nat
    BY <1>4
  <2>2. FieldsBehind(w, i, j) = Behind(w, i, j + 1, 0)
    BY <1>4, <1>6, <2>1, NextFieldBehind
  <2> QED
    BY <1>1, <1>3, <1>5, <2>2
<1>8. /\ Len(Record') = j
      /\ \A n \in 1..j : Record'[n] = w[i][n]
  <2> DEFINE L == Seq(Char)
             rec == Append(Record, FieldSoFar)
  <2>1. /\ Len(rec) = Len(Record) + 1 /\ rec[Len(Record) + 1] = FieldSoFar
        /\ \A n \in 1..Len(Record) : rec[n] = Record[n]
    <3>1. Record \in Seq(L) /\ FieldSoFar \in L
      BY <1>2
    <3> HIDE DEF L
    <3> QED
      BY <3>1, AppendedTo
  <2> HIDE DEF rec
  <2>2. Len(rec) = j /\ rec[j] = f
    BY <1>3, <1>5, <2>1 DEF j
  <2>3. ASSUME NEW n \in 1..j
        PROVE  rec[n] = w[i][n]
    <3>1. n \in 1..(j - 1) \/ n = j
      BY <1>4
    <3>2. Len(Record) = j - 1
      BY <1>2 DEF j
    <3> QED
      BY <1>4, <2>1, <2>2, <3>1, <3>2
  <2> QED
    BY <1>1, <2>2, <2>3 DEF rec
<1>9. Len(Records') + 1 = i /\ \A n \in 1..(i - 1) : Records'[n] = w[n]
  BY <1>1, <1>4 DEF i
<1>10. Len(FieldSoFar') = 0
  BY <1>1
<1>11. j + 1 \in 1..Len(w[i]) /\ 0 \in 0..Len(w[i][j + 1])
  <2>1. j + 1 \in 1..Len(w[i])
    BY <1>4, <1>6
  <2>2. w[i][j + 1] \in Seq(Char)
    BY <1>4, <2>1 DEF String
  <2> QED
    BY <2>1, <2>2
<1>12. ReadUpTo(w, i, j + 1, 0, Remaining', Records', Record', FieldSoFar')
  <2>1. \A n \in 1..((j + 1) - 1) : Record'[n] = w[i][n]
    BY <1>4, <1>8
  <2> HIDE DEF f
  <2> QED
    BY <1>4, <1>7, <1>9, <1>11, <2>1 DEF ReadUpTo
<1>13. Onward(w, Remaining', Records', Record', FieldSoFar', Outcome')
  BY <1>1, <1>8, <1>9, <1>10, <1>12 DEF Onward
<1> QED
  BY <1>13 DEF OnwardInv

LEMMA CharacterGoesOn ==
  ASSUME Inv, FieldsInv, NEW w, Sound(w), Outcome = "reading", ReadSoFar(w), Text!Character
  PROVE  OnwardInv(w)'
<1> DEFINE i == Len(Records) + 1
           j == Len(Record) + 1
           k == Len(FieldSoFar)
           f == w[i][j]
           ch == Head(Remaining)
<1>0. ReadUpTo(w, i, j, k, Remaining, Records, Record, FieldSoFar)
  BY DEF ReadSoFar
<1>1. /\ Unclosed \/ ch \notin {Delimiter, Newline}
      /\ Remaining' = Tail(Remaining)
      /\ FieldSoFar' = Append(FieldSoFar, ch)
      /\ Records' = Records /\ Record' = Record /\ Outcome' = "reading"
  BY DEF Text!Character, Text!Extend
<1>2. ch \in Char /\ FieldSoFar \in Seq(Char)
  BY ReadTypes
<1>3. /\ k < Len(f) =>
           /\ ch = f[k + 1]
           /\ Tail(Remaining) = Behind(w, i, j, k + 1)
      /\ k = Len(f) => ~Unclosed /\ ch = SeparatorAt(w, i, j)
      /\ k < Len(f) \/ k = Len(f)
      /\ f \in Seq(Char) /\ Len(f) \in Nat /\ k \in Nat
  <2> HIDE DEF i, j
  <2> QED
    BY <1>0, AtPosition
<1>4. k < Len(f)
  <2>1. SeparatorAt(w, i, j) \in {Delimiter, Newline}
    BY DEF SeparatorAt
  <2> HIDE DEF ch, i, j, k, f
  <2> QED
    BY <1>1, <1>3, <2>1
<1>5. /\ Len(FieldSoFar') = k + 1 /\ FieldSoFar'[k + 1] = f[k + 1]
      /\ \A n \in 1..k : FieldSoFar'[n] = FieldSoFar[n]
  <2> HIDE DEF ch, f
  <2> QED
    BY <1>1, <1>2, <1>3, <1>4, AppendedTo
<1> HIDE DEF i, j, k, f, ch
<1>6. /\ i \in 1..Len(w) /\ j \in 1..Len(w[i])
      /\ \A n \in 1..(i - 1) : Records[n] = w[n]
      /\ \A n \in 1..(j - 1) : Record[n] = w[i][n]
      /\ \A n \in 1..k : FieldSoFar[n] = f[n]
  BY <1>0 DEF ReadUpTo, f
<1>7. ASSUME NEW n \in 1..(k + 1)
      PROVE  FieldSoFar'[n] = f[n]
  <2>1. n \in 1..k \/ n = k + 1
    BY <1>3
  <2> QED
    BY <1>5, <1>6, <2>1
<1>8. k + 1 \in 0..Len(f)
  BY <1>3, <1>4
<1>9. ReadUpTo(w, i, j, k + 1, Remaining', Records', Record', FieldSoFar')
  BY <1>1, <1>3, <1>4, <1>6, <1>7, <1>8 DEF ReadUpTo, f
<1>10. Onward(w, Remaining', Records', Record', FieldSoFar', Outcome')
  BY <1>1, <1>5, <1>9 DEF Onward, i, j
<1> QED
  BY <1>10 DEF OnwardInv

\* At a newline that ends a record, the field and the record are those written.
LEMMA AtEndOfRow ==
  ASSUME Inv, FieldsInv, NEW w, Sound(w), Outcome = "reading", ReadSoFar(w),
         ~Unclosed, Head(Remaining) = Newline,
         NEW i, i = Len(Records) + 1, NEW rec, rec = Append(Record, FieldSoFar)
  PROVE  /\ i \in 1..Len(w) /\ w \in TextRows /\ Len(w) \in Nat
         /\ \A n \in 1..(i - 1) : Records[n] = w[n]
         /\ rec = w[i] /\ rec \in Seq(Seq(Char)) /\ rec # << <<>> >>
         /\ Len(Record) + 1 = Len(w[1])
         /\ Tail(Remaining) = RowsBehind(w, i)
<1> DEFINE j == Len(Record) + 1
           k == Len(FieldSoFar)
           f == w[i][j]
<1>0. ReadUpTo(w, i, j, k, Remaining, Records, Record, FieldSoFar)
  BY DEF ReadSoFar
<1>1. Record \in Seq(Seq(Char)) /\ FieldSoFar \in Seq(Char)
  BY ReadTypes
<1>2. /\ k < Len(f) => Unclosed \/ Head(Remaining) \notin {Delimiter, Newline}
      /\ k = Len(f) =>
           /\ FieldSoFar = f
           /\ Head(Remaining) = SeparatorAt(w, i, j)
           /\ Tail(Remaining) = FieldsBehind(w, i, j)
      /\ k < Len(f) \/ k = Len(f)
  <2> HIDE DEF j
  <2> QED
    BY <1>0, AtPosition
<1>3. k = Len(f)
  <2> HIDE DEF j, k, f
  <2> QED
    BY <1>2
<1>4. /\ i \in 1..Len(w) /\ j \in 1..Len(w[i]) /\ w \in TextRows /\ w[i] \in Seq(String)
      /\ Len(w[i]) \in Nat /\ Len(w) \in Nat
      /\ \A n \in 1..(i - 1) : Records[n] = w[n]
      /\ \A n \in 1..(j - 1) : Record[n] = w[i][n]
  <2> HIDE DEF j, k, f
  <2>1. i \in 1..Len(w) /\ j \in 1..Len(w[i]) /\ w \in TextRows
    BY <1>0 DEF ReadUpTo, Sound
  <2> QED
    BY <1>0, <2>1 DEF ReadUpTo, TextRows
<1>5. j = Len(w[i])
  <2> HIDE DEF j, k, f
  <2>1. SeparatorAt(w, i, j) = Newline /\ Delimiter # Newline
    BY <1>2, <1>3, Characters
  <2> QED
    BY <2>1 DEF SeparatorAt
<1>6. Tail(Remaining) = RowsBehind(w, i)
  <2>1. j \in 0..Len(w[i])
    BY <1>4
  <2> HIDE DEF j, k, f
  <2> QED
    BY <1>2, <1>3, <1>4, <1>5, <2>1, FieldsBehindType
<1>7. /\ rec \in Seq(Seq(Char)) /\ Len(rec) = j /\ rec[j] = FieldSoFar
      /\ \A n \in 1..(j - 1) : rec[n] = Record[n]
  <2> DEFINE L == Seq(Char)
  <2>1. Record \in Seq(L) /\ FieldSoFar \in L
    BY <1>1
  <2>2. /\ Append(Record, FieldSoFar) \in Seq(L) /\ Len(Append(Record, FieldSoFar)) = Len(Record) + 1
        /\ Append(Record, FieldSoFar)[Len(Record) + 1] = FieldSoFar
        /\ \A n \in 1..Len(Record) : Append(Record, FieldSoFar)[n] = Record[n]
        /\ Len(Record) \in Nat
    <3> HIDE DEF L
    <3> QED
      BY <2>1, AppendedTo
  <2>3. 1..(j - 1) = 1..Len(Record)
    BY <2>2
  <2> QED
    BY <2>2, <2>3
<1>8. rec = w[i]
  <2> HIDE DEF k
  <2>1. w[i] \in Seq(Seq(Char))
    BY <1>4 DEF String
  <2>2. FieldSoFar = w[i][j]
    BY <1>2, <1>3
  <2> HIDE DEF j, f
  <2>3. ASSUME NEW n \in 1..Len(rec)
        PROVE  rec[n] = w[i][n]
    <3>1. n \in 1..(j - 1) \/ n = j
      BY <1>4, <1>7
    <3> QED
      BY <1>4, <1>7, <2>2, <3>1
  <2> QED
    BY <1>5, <1>7, <2>1, <2>3, SameEntries
<1>9. rec # << <<>> >> /\ Len(w[i]) = Len(w[1])
  BY <1>4, <1>8 DEF Sound
<1> QED
  BY <1>4, <1>5, <1>6, <1>7, <1>8, <1>9

LEMMA EndRecordGoesOn ==
  ASSUME Inv, FieldsInv, NEW w, Sound(w), Outcome = "reading", ReadSoFar(w), Text!EndRecord
  PROVE  OnwardInv(w)'
<1> DEFINE i == Len(Records) + 1
           rec == Append(Record, FieldSoFar)
           R == Seq(Seq(Char))
<1>1. /\ ~Unclosed /\ Head(Remaining) = Newline /\ Remaining' = Tail(Remaining)
      /\ Records' = Append(Records, rec) /\ Record' = <<>> /\ FieldSoFar' = <<>>
      /\ Outcome' = IF Remaining' = <<>> THEN "complete" ELSE "reading"
  BY DEF Text!EndRecord, Text!NewField
<1>2. /\ i \in 1..Len(w) /\ w \in TextRows /\ Len(w) \in Nat
      /\ \A n \in 1..(i - 1) : Records[n] = w[n]
      /\ rec = w[i] /\ rec \in R
      /\ Remaining' = RowsBehind(w, i)
  <2> HIDE DEF i, rec
  <2> QED
    BY <1>1, AtEndOfRow DEF i, rec
<1>3. /\ Records' \in Seq(R) /\ Len(Records') = i /\ \A n \in 1..i : Records'[n] = w[n]
  <2>1. Records \in Seq(R)
    BY ReadTypes
  <2> HIDE DEF R, rec
  <2>2. /\ Append(Records, rec) \in Seq(R) /\ Len(Append(Records, rec)) = Len(Records) + 1
        /\ Append(Records, rec)[Len(Records) + 1] = rec
        /\ \A n \in 1..Len(Records) : Append(Records, rec)[n] = Records[n]
        /\ Len(Records) \in Nat
    BY <1>2, <2>1, AppendedTo
  <2>3. ASSUME NEW n \in 1..i
        PROVE  Records'[n] = w[n]
    <3>1. n \in 1..Len(Records) \/ n = Len(Records) + 1
      BY <2>2
    <3>2. i - 1 = Len(Records)
      BY <2>2
    <3> QED
      BY <1>1, <1>2, <2>2, <3>1, <3>2
  <2> QED
    BY <1>1, <2>2, <2>3
<1> HIDE DEF i, rec
<1>4. CASE i = Len(w)
  <2>1. i \in 0..Len(w)
    BY <1>2
  <2>2. Remaining' = <<>>
    BY <1>2, <1>4, <2>1, RowsBehindType
  <2>3. w \in Seq(R)
    BY <1>2 DEF TextRows, String
  <2>4. Records' = w
    <3> HIDE DEF R
    <3> QED
      BY <1>3, <1>4, <2>3, SameEntries
  <2> QED
    BY <1>1, <2>2, <2>4 DEF OnwardInv, Onward
<1>5. CASE i < Len(w)
  <2>1. i \in Nat /\ i + 1 \in 1..Len(w) /\ Whole(w)
    BY <1>2, <1>5 DEF Sound
  <2>2. Remaining' = Behind(w, i + 1, 1, 0)
    BY <1>2, <1>5, <2>1, NextRowBehind
  <2>3. 1 \in 1..Len(w[i + 1]) /\ 0 \in 0..Len(w[i + 1][1])
    <3>1. w[i + 1] \in Seq(String) /\ w[i + 1] # <<>>
      BY <1>2, <2>1 DEF TextRows, Whole
    <3>2. 1 \in 1..Len(w[i + 1])
      BY <3>1
    <3>3. w[i + 1][1] \in Seq(Char)
      BY <3>1, <3>2 DEF String
    <3> QED
      BY <3>2, <3>3
  <2>4. Remaining' # <<>>
    BY <1>2, <2>1, <2>2, <2>3, NextCharacterBehind
  <2>5. Len(Record') = 0 /\ Len(FieldSoFar') = 0
    BY <1>1
  <2>6. ReadUpTo(w, i + 1, 1, 0, Remaining', Records', Record', FieldSoFar')
    <3>1. (i + 1) - 1 = i
      BY <2>1
    <3> QED
      BY <1>3, <2>1, <2>2, <2>3, <3>1 DEF ReadUpTo
  <2>7. Onward(w, Remaining', Records', Record', FieldSoFar', Outcome')
    <3>1. 0 + 1 = 1
      OBVIOUS
    <3> QED
      BY <1>1, <1>3, <2>4, <2>5, <2>6, <3>1 DEF Onward
  <2> QED
    BY <2>7 DEF OnwardInv
<1> QED
  BY <1>2, <1>4, <1>5

\* Nothing makes it fail.
LEMMA NoFailure ==
  ASSUME Inv, FieldsInv, NEW w, Sound(w), Outcome = "reading", ReadSoFar(w)
  PROVE  ~Text!BadRecord /\ ~Text!Unfinished
<1>1. ASSUME Text!BadRecord
      PROVE  FALSE
  <2>1. /\ ~Unclosed /\ Head(Remaining) = Newline
        /\ \/ Record = <<>> /\ FieldSoFar = <<>>
           \/ Records # <<>> /\ Len(Record) + 1 # Len(Records[1])
    BY <1>1 DEF Text!BadRecord, Text!Blank, Text!AsLongAsTheFirst
  <2>2. PICK i, rec : i = Len(Records) + 1 /\ rec = Append(Record, FieldSoFar)
    OBVIOUS
  <2>3. /\ \A n \in 1..(i - 1) : Records[n] = w[n]
        /\ rec # << <<>> >> /\ Len(Record) + 1 = Len(w[1])
    BY <2>1, <2>2, AtEndOfRow
  <2>4. CASE Record = <<>> /\ FieldSoFar = <<>>
    <3>1. Append(<<>>, <<>>) = << <<>> >>
      OBVIOUS
    <3> QED
      BY <2>2, <2>3, <2>4, <3>1
  <2>5. CASE Records # <<>> /\ Len(Record) + 1 # Len(Records[1])
    <3>1. Records \in Seq(Seq(Seq(Char)))
      BY ReadTypes
    <3>2. 1 \in 1..(i - 1)
      BY <2>2, <2>5, <3>1
    <3> QED
      BY <2>3, <2>5, <3>2
  <2> QED
    BY <2>1, <2>4, <2>5
<1>2. ASSUME Text!Unfinished
      PROVE  FALSE
  <2>1. Unclosed /\ Tail(Remaining) = <<>>
    BY <1>2 DEF Text!Unfinished
  <2>2. PICK i, j, k : i = Len(Records) + 1 /\ j = Len(Record) + 1 /\ k = Len(FieldSoFar)
    OBVIOUS
  <2>3. ReadUpTo(w, i, j, k, Remaining, Records, Record, FieldSoFar)
    BY <2>2 DEF ReadSoFar
  <2>4. /\ k < Len(w[i][j]) => Tail(Remaining) # <<>>
        /\ k = Len(w[i][j]) => ~Unclosed
        /\ k < Len(w[i][j]) \/ k = Len(w[i][j])
    BY <2>2, <2>3, AtPosition
  <2> QED
    BY <2>1, <2>4
<1> QED
  BY <1>1, <1>2

LEMMA TextGoesOn ==
  ASSUME Inv, FieldsInv, NEW w, Sound(w), OnwardInv(w), [Text!Next]_(Text!vars)
  PROVE  OnwardInv(w)'
<1>1. CASE UNCHANGED Text!vars
  BY <1>1 DEF Text!vars, OnwardInv
<1>2. CASE Text!Next
  <2>1. Outcome = "reading" /\ ReadSoFar(w)
    BY <1>2 DEF Text!Next, OnwardInv, Onward, ReadSoFar
  <2> QED
    BY <1>2, <2>1, EndFieldGoesOn, CharacterGoesOn, EndRecordGoesOn, NoFailure DEF Text!Next
<1> QED
  BY <1>1, <1>2

----------------------------------------------------------------------------
\* Whatever text is read: as long as what has been read agrees with a table, the rest
\* is as many characters shorter than what was written behind that place as the text
\* was shorter from the beginning.  So a text that is read as the table that was
\* written has lost no carriage return.
Agrees(w, i, j, k, docs, rec, f) ==
  /\ i \in 1..Len(w) /\ j \in 1..Len(w[i]) /\ k \in 0..Len(w[i][j])
  /\ \A n \in 1..(i - 1) : docs[n] = w[n]
  /\ \A n \in 1..(j - 1) : rec[n] = w[i][n]
  /\ \A n \in 1..k : f[n] = w[i][j][n]

Counted(w, lost, rest, docs, rec, f, outcome) ==
  /\ outcome = "reading" /\ Agrees(w, Len(docs) + 1, Len(rec) + 1, Len(f), docs, rec, f) =>
       Len(rest) + lost = Len(Behind(w, Len(docs) + 1, Len(rec) + 1, Len(f)))
  /\ outcome = "complete" /\ docs = w => lost = 0

LEMMA BehindShrinks ==
  ASSUME NEW w \in TextRows, NEW i \in 1..Len(w), NEW j \in 1..Len(w[i]), NEW k \in 0..Len(w[i][j])
  PROVE  /\ Len(Behind(w, i, j, k)) \in Nat
         /\ k < Len(w[i][j]) => Len(Behind(w, i, j, k)) = Len(Behind(w, i, j, k + 1)) + 1
         /\ k = Len(w[i][j]) => Len(Behind(w, i, j, k)) = Len(FieldsBehind(w, i, j)) + 1
<1>1. Behind(w, i, j, k) \in Seq(Char)
  <2>1. PICK f \in Seq(Char) : f = w[i][j] /\ Len(f) \in Nat
    BY NextCharacterBehind
  <2>2. FieldsBehind(w, i, j) \in Seq(Char)
    <3>1. j \in 0..Len(w[i])
      <4>1. w[i] \in Seq(String)
        BY DEF TextRows
      <4> QED
        BY <4>1
    <3> QED
      BY <3>1, FieldsBehindType
  <2>3. PICK t \in Seq(Char) : t = <<SeparatorAt(w, i, j)>> \o FieldsBehind(w, i, j)
    <3>1. SeparatorAt(w, i, j) \in Char
      BY Characters DEF SeparatorAt
    <3> QED
      BY <2>2, <3>1, FirstAndRest
  <2>4. SubSeq(f, k + 1, Len(f)) \in Seq(Char)
    <3>1. k \in Nat /\ k <= Len(f)
      BY <2>1
    <3> QED
      BY <2>1, <3>1, SubSequence
  <2> QED
    BY <2>1, <2>3, <2>4, Concatenation DEF Behind
<1>2. PICK b \in Seq(Char) : b = Behind(w, i, j, k) /\ b # <<>>
  BY <1>1, NextCharacterBehind
<1>3. Len(b) = Len(Tail(b)) + 1 /\ Len(b) \in Nat
  BY <1>2, TakenApart
<1> QED
  BY <1>2, <1>3, NextCharacterBehind

LEMMA CountedField ==
  ASSUME NEW w \in TextRows, NEW lost \in Nat, NEW docs, NEW rec \in Seq(Seq(Char)),
         NEW f \in Seq(Char), NEW rest \in Seq(Char), rest # <<>>,
         Counted(w, lost, rest, docs, rec, f, "reading")
  PROVE  Counted(w, lost, Tail(rest), docs, Append(rec, f), <<>>, "reading")
<1> DEFINE i == Len(docs) + 1
           j == Len(rec) + 1
           k == Len(f)
           more == Append(rec, f)
           L == Seq(Char)
<1>1. /\ Len(more) = j /\ more[j] = f /\ j \in Nat /\ j # 0 /\ Len(rec) = j - 1 /\ k \in Nat
      /\ \A n \in 1..(j - 1) : more[n] = rec[n]
  <2>1. rec \in Seq(L) /\ f \in L
    OBVIOUS
  <2>2. /\ Len(more) = Len(rec) + 1 /\ more[Len(rec) + 1] = f /\ Len(rec) \in Nat
        /\ \A n \in 1..Len(rec) : more[n] = rec[n]
    <3> HIDE DEF L
    <3> QED
      BY <2>1, AppendedTo
  <2> QED
    BY <2>2
<1>2. Len(rest) = Len(Tail(rest)) + 1 /\ Len(Tail(rest)) \in Nat
  BY TakenApart
<1>3. Len(<<>>) = 0
  OBVIOUS
<1> SUFFICES ASSUME Agrees(w, i, j + 1, 0, docs, more, <<>>)
             PROVE  Len(Tail(rest)) + lost = Len(Behind(w, i, j + 1, 0))
  <2>1. Counted(w, lost, Tail(rest), docs, more, <<>>, "reading")
    <3> HIDE DEF more, i, j
    <3> QED
      BY <1>1, <1>3 DEF Counted, i
  <2> QED
    BY <2>1
<1> HIDE DEF more, i, j, k
<1>4. /\ i \in 1..Len(w) /\ j + 1 \in 1..Len(w[i]) /\ \A n \in 1..(i - 1) : docs[n] = w[n]
      /\ \A n \in 1..j : more[n] = w[i][n]
  <2>1. (j + 1) - 1 = j
    BY <1>1
  <2> QED
    BY <2>1 DEF Agrees
<1>5. j \in 1..Len(w[i]) /\ j < Len(w[i]) /\ f = w[i][j] /\ \A n \in 1..(j - 1) : rec[n] = w[i][n]
  <2>1. w[i] \in Seq(String)
    BY <1>4 DEF TextRows
  <2>2. j \in 1..Len(w[i]) /\ j < Len(w[i]) /\ j \in 1..j
    BY <1>1, <1>4, <2>1
  <2>3. ASSUME NEW n \in 1..(j - 1)
        PROVE  rec[n] = w[i][n]
    <3>1. n \in 1..j
      BY <1>1
    <3> QED
      BY <1>1, <1>4, <3>1
  <2> QED
    BY <1>1, <1>4, <2>2, <2>3
<1>6. Agrees(w, i, j, k, docs, rec, f) /\ k = Len(w[i][j]) /\ k \in 0..Len(w[i][j])
  BY <1>1, <1>4, <1>5 DEF Agrees, k
<1>7. Len(rest) + lost = Len(Behind(w, i, j, k))
  BY <1>6 DEF Counted, i, j, k
<1>8. /\ Len(Behind(w, i, j, k)) = Len(FieldsBehind(w, i, j)) + 1
      /\ Len(Behind(w, i, j, k)) \in Nat
  BY <1>4, <1>5, <1>6, BehindShrinks
<1>9. FieldsBehind(w, i, j) = Behind(w, i, j + 1, 0)
  BY <1>1, <1>4, <1>5, NextFieldBehind
<1>10. Len(Behind(w, i, j + 1, 0)) \in Nat
  <2>1. 0 \in 0..Len(w[i][j + 1])
    <3>1. w[i] \in Seq(String)
      BY <1>4 DEF TextRows
    <3>2. w[i][j + 1] \in Seq(Char)
      BY <1>4, <3>1 DEF String
    <3> QED
      BY <3>2
  <2> QED
    BY <1>4, <2>1, BehindShrinks
<1> QED
  BY <1>2, <1>7, <1>8, <1>9, <1>10

LEMMA CountedCharacter ==
  ASSUME NEW w \in TextRows, NEW lost \in Nat, NEW docs, NEW rec,
         NEW f \in Seq(Char), NEW rest \in Seq(Char), rest # <<>>,
         Counted(w, lost, rest, docs, rec, f, "reading")
  PROVE  Counted(w, lost, Tail(rest), docs, rec, Append(f, Head(rest)), "reading")
<1> DEFINE i == Len(docs) + 1
           j == Len(rec) + 1
           k == Len(f)
           more == Append(f, Head(rest))
<1>1. /\ Len(more) = k + 1 /\ k \in Nat /\ \A n \in 1..k : more[n] = f[n]
  <2>1. Head(rest) \in Char
    BY TakenApart
  <2> QED
    BY <2>1, AppendedTo
<1>2. Len(rest) = Len(Tail(rest)) + 1 /\ Len(Tail(rest)) \in Nat
  BY TakenApart
<1> SUFFICES ASSUME Agrees(w, i, j, k + 1, docs, rec, more)
             PROVE  Len(Tail(rest)) + lost = Len(Behind(w, i, j, k + 1))
  <2>1. Counted(w, lost, Tail(rest), docs, rec, more, "reading")
    <3> HIDE DEF more, k
    <3> QED
      BY <1>1 DEF Counted
  <2> QED
    BY <2>1
<1> HIDE DEF more, i, j, k
<1>3. /\ i \in 1..Len(w) /\ j \in 1..Len(w[i]) /\ k + 1 \in 0..Len(w[i][j])
      /\ \A n \in 1..(k + 1) : more[n] = w[i][j][n]
  BY DEF Agrees
<1>4. k \in 0..Len(w[i][j]) /\ k < Len(w[i][j]) /\ \A n \in 1..k : f[n] = w[i][j][n]
  <2>1. Len(w[i][j]) \in Nat
    <3>1. w[i] \in Seq(String)
      BY <1>3 DEF TextRows
    <3>2. w[i][j] \in Seq(Char)
      BY <1>3, <3>1 DEF String
    <3> QED
      BY <3>2
  <2>2. k \in 0..Len(w[i][j]) /\ k < Len(w[i][j])
    BY <1>1, <1>3, <2>1
  <2>3. ASSUME NEW n \in 1..k
        PROVE  f[n] = w[i][j][n]
    <3>1. n \in 1..(k + 1)
      BY <1>1
    <3> QED
      BY <1>1, <1>3, <3>1
  <2> QED
    BY <2>2, <2>3
<1>5. Agrees(w, i, j, k, docs, rec, f)
  BY <1>3, <1>4 DEF Agrees
<1>6. Len(rest) + lost = Len(Behind(w, i, j, k))
  BY <1>5 DEF Counted, i, j, k
<1>7. /\ Len(Behind(w, i, j, k)) = Len(Behind(w, i, j, k + 1)) + 1
      /\ Len(Behind(w, i, j, k + 1)) \in Nat
  BY <1>3, <1>4, BehindShrinks
<1> QED
  BY <1>2, <1>6, <1>7

LEMMA CountedRecord ==
  ASSUME NEW w \in TextRows, Whole(w), NEW lost \in Nat, NEW docs \in Seq(Seq(Seq(Char))),
         NEW rec \in Seq(Seq(Char)), NEW f \in Seq(Char), NEW rest \in Seq(Char), rest # <<>>,
         Counted(w, lost, rest, docs, rec, f, "reading"),
         NEW outcome, outcome = IF Tail(rest) = <<>> THEN "complete" ELSE "reading"
  PROVE  Counted(w, lost, Tail(rest), Append(docs, Append(rec, f)), <<>>, <<>>, outcome)
<1> DEFINE i == Len(docs) + 1
           j == Len(rec) + 1
           k == Len(f)
           full == Append(rec, f)
           more == Append(docs, full)
           L == Seq(Char)
           R == Seq(L)
<1>1. /\ full \in R /\ Len(full) = j /\ full[j] = f /\ j \in Nat /\ j # 0 /\ k \in Nat
      /\ \A n \in 1..(j - 1) : full[n] = rec[n]
  <2>1. rec \in Seq(L) /\ f \in L
    OBVIOUS
  <2>2. /\ full \in Seq(L) /\ Len(full) = Len(rec) + 1 /\ full[Len(rec) + 1] = f /\ Len(rec) \in Nat
        /\ \A n \in 1..Len(rec) : full[n] = rec[n]
    <3> HIDE DEF L
    <3> QED
      BY <2>1, AppendedTo
  <2> QED
    BY <2>2
<1>2. /\ Len(more) = i /\ more[i] = full /\ i \in Nat /\ i # 0
      /\ \A n \in 1..(i - 1) : more[n] = docs[n]
  <2>1. docs \in Seq(R) /\ full \in R
    BY <1>1
  <2>2. /\ Len(more) = Len(docs) + 1 /\ more[Len(docs) + 1] = full /\ Len(docs) \in Nat
        /\ \A n \in 1..Len(docs) : more[n] = docs[n]
    <3> HIDE DEF R, full
    <3> QED
      BY <2>1, AppendedTo
  <2> HIDE DEF more, full
  <2> QED
    BY <2>2
<1>3. /\ Len(rest) = Len(Tail(rest)) + 1
      /\ Len(Tail(rest)) \in Nat
      /\ Tail(rest) = <<>> => Len(Tail(rest)) = 0
  <2>1. Len(rest) = Len(Tail(rest)) + 1 /\ Len(Tail(rest)) \in Nat
    BY TakenApart, Zenon
  <2>2. Len(<<>>) = 0
    OBVIOUS
  <2> QED
    BY <2>1, <2>2, Zenon
<1>4. Len(<<>>) = 0
  OBVIOUS
<1> HIDE DEF more, i, full, R, L
<1>5. ASSUME i \in 1..Len(w), \A n \in 1..i : more[n] = w[n]
      PROVE  Len(Tail(rest)) + lost = Len(RowsBehind(w, i)) /\ Len(RowsBehind(w, i)) \in Nat
  <2>1. i \in 1..i /\ \A n \in 1..(i - 1) : n \in 1..i
    BY <1>2
  <2>2. full = w[i] /\ \A n \in 1..(i - 1) : docs[n] = w[n]
    BY <1>2, <1>5, <2>1
  <2>3. j \in 1..Len(w[i]) /\ j = Len(w[i]) /\ f = w[i][j] /\ \A n \in 1..(j - 1) : rec[n] = w[i][n]
    <3> HIDE DEF j
    <3> QED
      BY <1>1, <2>2
  <2>4. Agrees(w, i, j, k, docs, rec, f) /\ k = Len(w[i][j]) /\ k \in 0..Len(w[i][j])
    <3> HIDE DEF j
    <3> QED
      BY <1>1, <1>5, <2>2, <2>3 DEF Agrees
  <2>5. Len(rest) + lost = Len(Behind(w, i, j, k))
    BY <2>4 DEF Counted, i
  <2> HIDE DEF j, k
  <2>6. Len(Behind(w, i, j, k)) = Len(FieldsBehind(w, i, j)) + 1
    BY <1>5, <2>3, <2>4, BehindShrinks
  <2>7. FieldsBehind(w, i, j) = RowsBehind(w, i)
    <3>1. j \in 0..Len(w[i])
      BY <1>1, <2>3
    <3> QED
      BY <1>5, <2>3, <3>1, FieldsBehindType
  <2>8. Len(RowsBehind(w, i)) \in Nat
    <3>1. i \in 0..Len(w)
      BY <1>5
    <3>2. RowsBehind(w, i) \in Seq(Char)
      BY <3>1, RowsBehindType
    <3> QED
      BY <3>2
  <2> QED
    BY <1>3, <2>5, <2>6, <2>7, <2>8
<1>6. CASE Tail(rest) = <<>>
  <2> SUFFICES ASSUME more = w PROVE lost = 0
    BY <1>6 DEF Counted, more, full
  <2>1. i = Len(w) /\ i \in 1..Len(w) /\ i \in 0..Len(w) /\ \A n \in 1..i : more[n] = w[n]
    BY <1>2
  <2>2. RowsBehind(w, i) = <<>>
    BY <2>1, RowsBehindType
  <2> QED
    BY <1>3, <1>4, <1>5, <1>6, <2>1, <2>2
<1>7. CASE Tail(rest) # <<>>
  <2> SUFFICES ASSUME Agrees(w, i + 1, 1, 0, more, <<>>, <<>>)
               PROVE  Len(Tail(rest)) + lost = Len(Behind(w, i + 1, 1, 0))
    <3>1. 0 + 1 = 1
      OBVIOUS
    <3>2. Counted(w, lost, Tail(rest), more, <<>>, <<>>, outcome)
      BY <1>2, <1>4, <1>7, <3>1 DEF Counted
    <3> QED
      BY <3>2 DEF more, full
  <2>1. i + 1 \in 1..Len(w) /\ \A n \in 1..i : more[n] = w[n]
    <3>1. (i + 1) - 1 = i
      BY <1>2
    <3> QED
      BY <3>1 DEF Agrees
  <2>2. i \in 1..Len(w) /\ i < Len(w)
    BY <1>2, <2>1 DEF TextRows
  <2>3. RowsBehind(w, i) = Behind(w, i + 1, 1, 0)
    BY <1>2, <2>2, NextRowBehind
  <2> QED
    BY <1>5, <2>1, <2>2, <2>3
<1> QED
  BY <1>6, <1>7

CountedInv(w, lost) ==
  Counted(w, lost, Remaining, Records, Record, FieldSoFar, Outcome)

LEMMA TextStaysCounted ==
  ASSUME Inv, NEW w \in TextRows, Whole(w), NEW lost \in Nat, CountedInv(w, lost),
         [Text!Next]_(Text!vars)
  PROVE  CountedInv(w, lost)'
<1>1. /\ Remaining \in Seq(Char) /\ Records \in Seq(Seq(Seq(Char)))
      /\ Record \in Seq(Seq(Char)) /\ FieldSoFar \in Seq(Char)
      /\ Outcome = "reading" => Remaining # <<>>
  BY ReadTypes
<1>2. CASE UNCHANGED Text!vars
  BY <1>2 DEF Text!vars, CountedInv
<1>3. CASE Outcome = "reading" /\ Text!EndField
  <2>1. /\ Remaining' = Tail(Remaining) /\ Records' = Records
        /\ Record' = Append(Record, FieldSoFar) /\ FieldSoFar' = <<>> /\ Outcome' = "reading"
    BY <1>3 DEF Text!EndField, Text!NewField
  <2>2. Counted(w, lost, Tail(Remaining), Records, Append(Record, FieldSoFar), <<>>, "reading")
    BY <1>1, <1>3, CountedField DEF CountedInv
  <2> QED
    BY <2>1, <2>2 DEF CountedInv
<1>4. CASE Outcome = "reading" /\ Text!EndRecord
  <2>1. /\ Remaining' = Tail(Remaining)
        /\ Records' = Append(Records, Append(Record, FieldSoFar)) /\ Record' = <<>>
        /\ FieldSoFar' = <<>>
        /\ Outcome' = IF Tail(Remaining) = <<>> THEN "complete" ELSE "reading"
    BY <1>4 DEF Text!EndRecord, Text!NewField
  <2>2. PICK outcome : outcome = IF Tail(Remaining) = <<>> THEN "complete" ELSE "reading"
    OBVIOUS
  <2>3. Counted(w, lost, Tail(Remaining), Append(Records, Append(Record, FieldSoFar)),
                <<>>, <<>>, outcome)
    BY <1>1, <1>4, <2>2, CountedRecord DEF CountedInv
  <2> QED
    BY <2>1, <2>2, <2>3 DEF CountedInv
<1>5. CASE Outcome = "reading" /\ Text!Character
  <2>1. /\ Remaining' = Tail(Remaining) /\ Records' = Records /\ Record' = Record
        /\ FieldSoFar' = Append(FieldSoFar, Head(Remaining)) /\ Outcome' = "reading"
    BY <1>5 DEF Text!Character, Text!Extend
  <2>2. Counted(w, lost, Tail(Remaining), Records, Record, Append(FieldSoFar, Head(Remaining)),
                "reading")
    BY <1>1, <1>5, CountedCharacter DEF CountedInv
  <2> QED
    BY <2>1, <2>2 DEF CountedInv
<1>6. CASE Outcome = "reading" /\ (Text!BadRecord \/ Text!Unfinished)
  <2>1. Outcome' = "failed"
    BY <1>6 DEF Text!BadRecord, Text!Unfinished, Text!Fail
  <2> QED
    BY <2>1 DEF CountedInv, Counted
<1> QED
  BY <1>2, <1>3, <1>4, <1>5, <1>6 DEF Text!Next

----------------------------------------------------------------------------
\* The text of a table.
LEMMA RowIsWritten ==
  ASSUME NEW t \in TextRows, NEW i \in 1..Len(t)
  PROVE  /\ t[i] \in Seq(String) /\ Written(t)[i] \in Seq(String)
         /\ Len(Written(t)[i]) = Len(t[i]) /\ Len(t[i]) \in Nat
         /\ \A j \in 1..Len(t[i]) :
              /\ Written(t)[i][j] = <<>> <=> t[i][j] = <<>>
              /\ SelfDelimiting(Written(t)[i][j])
                   <=> SelfDelimiting(t[i][j]) \/ Quotable(t[i][j], i = 1)
<1>1. PICK s \in Seq(String) : s = t[i] /\ Len(s) \in Nat
  BY DEF TextRows
<1>2. DOMAIN t = 1..Len(t) /\ DOMAIN s = 1..Len(s)
  BY DEF TextRows
<1>3. Written(t)[i] = [j \in 1..Len(s) |-> WrittenField(t, i, j)]
  BY <1>1, <1>2 DEF Written
<1>4. ASSUME NEW j \in 1..Len(s)
      PROVE  /\ WrittenField(t, i, j) \in String
             /\ WrittenField(t, i, j) = <<>> <=> s[j] = <<>>
             /\ SelfDelimiting(WrittenField(t, i, j))
                   <=> SelfDelimiting(s[j]) \/ Quotable(s[j], i = 1)
  <2>1. PICK u \in Seq(Char) : u = s[j]
    BY DEF String
  <2>2. PICK isName \in BOOLEAN : isName = (i = 1)
    OBVIOUS
  <2>3. WrittenField(t, i, j)
          = write_escaped_string(u, IF isName THEN DOUBLE_QUOTE ELSE OuterOfCell(u))
    BY <1>1, <2>1, <2>2 DEF WrittenField
  <2>4. PICK v : v = WrittenField(t, i, j)
    OBVIOUS
  <2>5. /\ v \in Seq(Char) /\ (v = <<>> <=> u = <<>>)
        /\ SelfDelimiting(v) <=> SelfDelimiting(u) \/ Quotable(u, isName)
    BY <2>3, <2>4, WrittenFields
  <2> QED
    BY <2>1, <2>2, <2>4, <2>5 DEF String
<1>5. Written(t)[i] \in Seq(String) /\ Len(Written(t)[i]) = Len(s)
  <2>1. PICK g : g = [j \in 1..Len(s) |-> WrittenField(t, i, j)]
    OBVIOUS
  <2>2. g \in [1..Len(s) -> String]
    BY <1>4, <2>1
  <2>3. g \in Seq(String) /\ Len(g) = Len(s)
    BY <1>1, <2>2
  <2> QED
    BY <1>3, <2>1, <2>3
<1>6. \A j \in 1..Len(s) : Written(t)[i][j] = WrittenField(t, i, j)
  BY <1>3
<1> QED
  BY <1>1, <1>4, <1>5, <1>6

LEMMA TableIsWritten ==
  ASSUME NEW t \in Tables
  PROVE  /\ Written(t) \in TextRows /\ Written(t) # <<>> /\ Whole(Written(t))
         /\ \A i \in 1..Len(Written(t)) : Len(Written(t)[i]) = Len(Written(t)[1])
         /\ Readable(t) <=> /\ \A i \in 1..Len(Written(t)) :
                                  Written(t)[i] # << <<>> >> /\ Complete(Written(t)[i])
                            /\ EndsAreNewlines(write_dsv(t))
<1> DEFINE w == Written(t)
           R == Seq(String)
<1>1. /\ t \in TextRows /\ t # <<>> /\ Len(t) \in Nat /\ DOMAIN t = 1..Len(t) /\ Len(t) # 0
      /\ \A i \in 1..Len(t) : t[i] # <<>> /\ Len(t[i]) = Len(t[1])
  BY TablesAssumption DEF TextRows
<1>2. w \in Seq(R) /\ Len(w) = Len(t)
  <2>1. w \in [1..Len(t) -> R]
    <3>1. w = [i \in 1..Len(t) |-> w[i]]
      BY <1>1 DEF Written
    <3>2. \A i \in 1..Len(t) : w[i] \in R
      BY <1>1, RowIsWritten
    <3> HIDE DEF w, R
    <3> QED
      BY <3>1, <3>2
  <2> HIDE DEF w, R
  <2> QED
    BY <1>1, <2>1
<1>3. \A i \in 1..Len(t) :
        /\ t[i] \in R /\ w[i] \in R /\ Len(w[i]) = Len(t[i]) /\ Len(t[i]) \in Nat /\ Len(t[i]) # 0
        /\ \A j \in 1..Len(t[i]) :
             /\ w[i][j] = <<>> <=> t[i][j] = <<>>
             /\ SelfDelimiting(w[i][j]) <=> SelfDelimiting(t[i][j]) \/ Quotable(t[i][j], i = 1)
  <2> SUFFICES ASSUME NEW i \in 1..Len(t)
               PROVE  Len(t[i]) # 0
    BY <1>1, RowIsWritten
  <2>1. t[i] \in Seq(String) /\ t[i] # <<>>
    BY <1>1, RowIsWritten
  <2> QED
    BY <2>1
<1> HIDE DEF w
<1>4. w # <<>> /\ 1 \in 1..Len(t)
  BY <1>1, <1>2
<1>5. ASSUME NEW i \in 1..Len(t)
      PROVE  /\ w[i] # <<>> /\ Len(w[i]) = Len(w[1])
             /\ (w[i] = << <<>> >> <=> t[i] = << <<>> >>)
  <2>1. PICK u \in R, v \in R : u = t[i] /\ v = w[i] /\ Len(u) = Len(v) /\ Len(u) # 0
    BY <1>3
  <2>2. w[i] # <<>> /\ Len(w[i]) = Len(w[1])
    BY <1>1, <1>3, <1>4, <2>1
  <2>3. \A x \in R : x = << <<>> >> <=> Len(x) = 1 /\ x[1] = <<>>
    OBVIOUS
  <2>4. Len(u) = 1 => (v[1] = <<>> <=> u[1] = <<>>)
    BY <1>3, <2>1
  <2> QED
    BY <2>1, <2>2, <2>3, <2>4
<1>6. Whole(w)
  BY <1>2, <1>5 DEF Whole
<1>7. Readable(t) <=> /\ \A i \in 1..Len(t) : w[i] # << <<>> >> /\ Complete(w[i])
                      /\ EndsAreNewlines(write_dsv(t))
  <2>1. Readable(t) <=>
          /\ \A i \in 1..Len(t) :
               /\ t[i] # << <<>> >>
               /\ \A j \in 1..Len(t[i]) : SelfDelimiting(t[i][j]) \/ Quotable(t[i][j], i = 1)
          /\ EndsAreNewlines(write_dsv(t))
    <3>1. \A i \in 1..Len(t) : DOMAIN t[i] = 1..Len(t[i])
      BY <1>3
    <3> QED
      BY <1>1, <3>1 DEF Readable
  <2>2. \A i \in 1..Len(t) :
          Complete(w[i]) <=>
            \A j \in 1..Len(t[i]) : SelfDelimiting(t[i][j]) \/ Quotable(t[i][j], i = 1)
    BY <1>3 DEF Complete
  <2> QED
    BY <1>5, <2>1, <2>2
<1> QED
  BY <1>2, <1>4, <1>5, <1>6, <1>7 DEF w, TextRows

LEMMA ReadableIsSound ==
  ASSUME NEW t \in Tables, Readable(t)
  PROVE  Sound(Written(t))
  BY TableIsWritten DEF Sound, Complete

\* The stream of a table, and how many characters of its text are not read.
Lost(t) == Len(write_dsv(t)) - Len(ReadOf(write_dsv(t)))

LEMMA LostReturns ==
  ASSUME NEW t \in Tables
  PROVE  /\ write_dsv(t) \in Seq(Char) /\ EndsLine(write_dsv(t)) /\ GoodLines(write_dsv(t))
         /\ Lost(t) \in Nat /\ Len(ReadOf(write_dsv(t))) \in Nat
         /\ EndsAreNewlines(write_dsv(t)) => ReadOf(write_dsv(t)) = write_dsv(t)
         /\ Lost(t) = 0 => EndsAreNewlines(write_dsv(t))
<1>1. PICK w : w = Written(t)
  OBVIOUS
<1>2. w \in TextRows /\ w # <<>> /\ Whole(w)
  BY <1>1, TableIsWritten
<1>3. PICK text \in Seq(Char) : text = write_dsv(t) /\ text = RowsText[w]
  BY <1>1, <1>2, RowsTextIs DEF write_dsv, TextRows
<1>4. EndsLine(text)
  BY <1>2, <1>3, TableEndsLine DEF TextRows, Whole
<1>5. GoodLines(text)
  BY <1>4, LinesOfText DEF EndsLine, Ended
<1>6. ReadOf(text) \in Seq(Char)
  BY <1>5, JoinedLines DEF GoodLines, ReadOf
<1>7. Len(text) \in Nat /\ Len(ReadOf(text)) \in Nat
  BY <1>6
<1>8. Len(ReadOf(text)) <= Len(text) /\ (Len(ReadOf(text)) = Len(text) => EndsAreNewlines(text))
  BY <1>5 DEF GoodLines
<1>9. Lost(t) \in Nat /\ (Lost(t) = 0 => EndsAreNewlines(text))
  BY <1>3, <1>7, <1>8 DEF Lost
<1> QED
  BY <1>3, <1>4, <1>5, <1>7, <1>9 DEF GoodLines

LEMMA WrittenBegins ==
  ASSUME WrittenInit
  PROVE  /\ Inv /\ ~Done /\ Remaining = ReadOf(write_dsv(table))
         /\ Records = <<>> /\ Record = <<>> /\ FieldSoFar = <<>> /\ QuoteOfField = NULL_CHAR
         /\ Unclosed = FALSE /\ Outcome = "reading"
<1>3. PICK text \in Seq(Char) : text = write_dsv(table) /\ EndsLine(text) /\ GoodLines(text)
  BY LostReturns DEF WrittenInit
<1>5. PICK s \in LinesSeq : s = LinesOf[text] /\ Joined[s] = ReadOf(text) /\ s # <<>>
  BY <1>3 DEF EndsLine, GoodLines, ReadOf
<1>6. /\ idx = 0 /\ field_beg = 0 /\ field_end = 0 /\ elem = <<>> /\ outer_quote_char = NULL_CHAR
      /\ row = <<>> /\ col_count = 0 /\ document = <<>>
      /\ state = "LineEnd" /\ row_str = LineOf(s) /\ dsv_stream = Tail(s)
  BY <1>3, <1>5 DEF WrittenInit
<1>7. /\ row_str \in Seq(Char) /\ 0 < Len(row_str) /\ dsv_stream \in LinesSeq
      /\ \A i \in (0 + 1)..Len(row_str) : row_str[i] = Newline <=> i = Len(row_str)
  BY <1>5, <1>6, NewBuffer
<1>8. state = "LineEnd" /\ At = 0 /\ Opening /\ ~Done /\ Fields = <<>> /\ ~InQuotes
  BY <1>6 DEF At, Opening, Done, Fields, InQuotes
<1>9. Inv
  <2>1. TypeOK
    BY <1>6, <1>7, <1>8 DEF TypeOK, LinesSeq
  <2>2. BufferInv
    BY <1>6, <1>7, <1>8 DEF BufferInv
  <2> QED
    BY <2>1, <2>2 DEF Inv
<1>10. Remaining = ReadOf(text)
  <2>1. SubSeq(row_str, 0 + 1, Len(row_str)) = row_str
    BY <1>7, WholeAndNothing
  <2>2. Remaining = row_str \o Joined[dsv_stream]
    BY <1>8, <2>1 DEF Remaining
  <2>3. Joined[s] = LineOf(s) \o Joined[Tail(s)]
    BY <1>5, JoinedLines
  <2> QED
    BY <1>5, <1>6, <2>2, <2>3
<1>11. /\ Record = <<>> /\ FieldSoFar = <<>> /\ QuoteOfField = NULL_CHAR
       /\ Records = <<>> /\ Outcome = "reading"
  BY <1>6, <1>8, <1>9, WhatIsRead
<1>12. Unclosed = FALSE
  BY <1>8 DEF Unclosed
<1> QED
  BY <1>3, <1>8, <1>9, <1>10, <1>11, <1>12

LEMMA NoFieldsRead ==
  ASSUME Records = <<>>, Record = <<>>, FieldSoFar = <<>>, QuoteOfField = NULL_CHAR,
         Unclosed = FALSE
  PROVE  FieldsInv
<1>1. Len(Records) = 0 /\ Len(Record) = 0
  OBVIOUS
<1>2. Partial(FieldSoFar, QuoteOfField, Unclosed)
  <2>1. Partial(FieldSoFar, NULL_CHAR, FALSE)
    BY NothingRead
  <2> QED
    BY <2>1
<1>3. Complete(Record)
  <2>1. \A j \in 1..Len(Record) : FALSE
    BY <1>1
  <2> QED
    BY <2>1, Zenon DEF Complete
<1>4. \A i \in 1..Len(Records) : FALSE
  BY <1>1
<1> QED
  BY <1>2, <1>3, <1>4, Zenon DEF FieldsInv

\* The invariant of the round trip.
RoundTripInv ==
  /\ Inv /\ FieldsInv
  /\ table # NoTable =>
       /\ table \in Tables
       /\ Readable(table) => OnwardInv(Written(table))
       /\ CountedInv(Written(table), Lost(table))

LEMMA RoundTripBegins == RoundTripInit => RoundTripInv
<1>1. ASSUME Init, table = NoTable
      PROVE  RoundTripInv
  <2>1. Inv
    BY <1>1, InitInv
  <2>2. /\ Records = <<>> /\ Record = <<>> /\ FieldSoFar = <<>> /\ QuoteOfField = NULL_CHAR
        /\ Unclosed = FALSE
    BY <1>1, InitImplements DEF Text!Init
  <2> QED
    BY <1>1, <2>1, <2>2, NoFieldsRead DEF RoundTripInv
<1>2. ASSUME WrittenInit
      PROVE  RoundTripInv
  <2>1. table \in Tables
    BY <1>2 DEF WrittenInit
  <2>2. PICK w : w = Written(table)
    OBVIOUS
  <2>3. Inv /\ FieldsInv
    BY <1>2, WrittenBegins, NoFieldsRead
  <2>4. w \in TextRows /\ w # <<>> /\ Whole(w)
    BY <2>1, <2>2, TableIsWritten
  <2>5. write_dsv(table) = Behind(w, 1, 1, 0)
    <3>1. SubSeq(w, 0 + 1, Len(w)) = w /\ Len(w) \in Nat /\ 0 < Len(w)
      BY <2>4 DEF TextRows
    <3>2. RowsBehind(w, 0) = RowsText[w]
      BY <3>1 DEF RowsBehind
    <3>3. RowsBehind(w, 0) = Behind(w, 0 + 1, 1, 0)
      BY <2>4, <3>1, NextRowBehind
    <3>4. 0 + 1 = 1
      OBVIOUS
    <3> QED
      BY <2>2, <3>2, <3>3, <3>4 DEF write_dsv
  <2>6. /\ 1 \in 1..Len(w) /\ 1 \in 1..Len(w[1]) /\ 0 \in 0..Len(w[1][1])
    <3>1. 1 \in 1..Len(w)
      BY <2>4 DEF TextRows
    <3>2. w[1] \in Seq(String) /\ w[1] # <<>>
      BY <2>4, <3>1 DEF TextRows, Whole
    <3>3. 1 \in 1..Len(w[1])
      BY <3>2
    <3>4. w[1][1] \in Seq(Char)
      BY <3>2, <3>3 DEF String
    <3> QED
      BY <3>1, <3>3, <3>4
  <2>7. /\ Records = <<>> /\ Record = <<>> /\ FieldSoFar = <<>> /\ Outcome = "reading"
        /\ Len(Records) = 0 /\ Len(Record) = 0 /\ Len(FieldSoFar) = 0
    BY <1>2, WrittenBegins
  <2>8. Remaining = ReadOf(write_dsv(table))
    BY <1>2, WrittenBegins
  <2>9. ASSUME Readable(table)
        PROVE  OnwardInv(w)
    <3>1. 0 + 1 = 1
      OBVIOUS
    <3>2. Remaining = write_dsv(table)
      BY <2>1, <2>8, <2>9, LostReturns DEF Readable
    <3>3. ReadUpTo(w, 1, 1, 0, Remaining, Records, Record, FieldSoFar)
      BY <2>5, <2>6, <3>2 DEF ReadUpTo
    <3> QED
      BY <2>7, <3>1, <3>3 DEF OnwardInv, Onward
  <2>10. CountedInv(w, Lost(table))
    <3>1. 0 + 1 = 1
      OBVIOUS
    <3>2. Len(Remaining) + Lost(table) = Len(write_dsv(table))
      <4>1. Len(write_dsv(table)) \in Nat
        <5>1. write_dsv(table) \in Seq(Char)
          BY <2>1, LostReturns
        <5> QED
          BY <5>1
      <4> QED
        BY <2>1, <2>8, <4>1, LostReturns DEF Lost
    <3> QED
      BY <2>5, <2>7, <3>1, <3>2 DEF CountedInv, Counted
  <2> QED
    BY <2>1, <2>2, <2>3, <2>9, <2>10 DEF RoundTripInv
<1> QED
  BY <1>1, <1>2 DEF RoundTripInit

LEMMA RoundTripGoesOn == RoundTripInv /\ [RoundTripNext]_<<vars, table>> => RoundTripInv'
<1> SUFFICES ASSUME RoundTripInv, [RoundTripNext]_<<vars, table>> PROVE RoundTripInv'
  OBVIOUS
<1>1. [Next]_vars /\ table' = table
  BY DEF RoundTripNext
<1>2. Inv /\ FieldsInv
  BY DEF RoundTripInv
<1>3. [Text!Next]_(Text!vars)
  BY <1>1, <1>2, NextImplements
<1>4. Inv' /\ FieldsInv'
  BY <1>1, <1>2, <1>3, NextInv, TextKeepsFields
<1>5. ASSUME table # NoTable, Readable(table)
      PROVE  OnwardInv(Written(table))'
  <2>1. PICK t : t = table
    OBVIOUS
  <2>2. PICK w : w = Written(t)
    OBVIOUS
  <2>3. Sound(w) /\ OnwardInv(w)
    BY <1>5, <2>1, <2>2, ReadableIsSound DEF RoundTripInv
  <2>4. OnwardInv(w)'
    BY <1>2, <1>3, <2>3, TextGoesOn
  <2>5. w = Written(table)'
    BY <1>1, <2>1, <2>2
  <2> QED
    BY <2>4, <2>5 DEF OnwardInv
<1>6. ASSUME table # NoTable
      PROVE  CountedInv(Written(table), Lost(table))'
  <2>1. PICK t \in Tables : t = table
    BY <1>6 DEF RoundTripInv
  <2>2. PICK w : w = Written(t)
    OBVIOUS
  <2>3. PICK lost \in Nat : lost = Lost(t)
    BY LostReturns
  <2>4. w \in TextRows /\ Whole(w)
    BY <2>2, TableIsWritten
  <2>5. CountedInv(w, lost)
    BY <1>6, <2>1, <2>2, <2>3 DEF RoundTripInv
  <2>6. CountedInv(w, lost)'
    BY <1>2, <1>3, <2>4, <2>5, TextStaysCounted
  <2>7. w = Written(table)' /\ lost = Lost(table)'
    BY <1>1, <2>1, <2>2, <2>3
  <2> QED
    BY <2>6, <2>7 DEF CountedInv
<1>7. table' # NoTable => table' \in Tables
  BY <1>1 DEF RoundTripInv
<1> QED
  BY <1>1, <1>4, <1>5, <1>6, <1>7 DEF RoundTripInv

LEMMA ReadBackIfRoundTripInv == RoundTripInv => ReadBackExactlyIfReadable
<1> SUFFICES ASSUME RoundTripInv, Done, table # NoTable
             PROVE  state = "ParseCompleted" /\ document = Written(table) <=> Readable(table)
  BY DEF ReadBackExactlyIfReadable
<1>1. table \in Tables /\ FieldsInv
  BY DEF RoundTripInv
<1>2. ASSUME state = "ParseCompleted", document = Written(table)
      PROVE  Readable(table)
  <2>1. Records = Written(table)
    BY <1>2 DEF Records
  <2>2. \A i \in 1..Len(Written(table)) :
          Written(table)[i] # << <<>> >> /\ Complete(Written(table)[i])
    BY <1>1, <2>1 DEF FieldsInv
  <2>3. Lost(table) = 0
    <3>1. Outcome = "complete"
      BY <1>2 DEF Outcome
    <3> QED
      BY <2>1, <3>1 DEF RoundTripInv, CountedInv, Counted
  <2> QED
    BY <1>1, <2>2, <2>3, TableIsWritten, LostReturns
<1>3. ASSUME Readable(table)
      PROVE  state = "ParseCompleted" /\ document = Written(table)
  <2>1. Outcome = "complete" /\ Records = Written(table)
    <3>1. Outcome # "reading"
      BY DEF Outcome, Done
    <3> QED
      BY <1>3, <3>1 DEF RoundTripInv, OnwardInv, Onward
  <2>2. state = "ParseCompleted"
    BY <2>1 DEF Outcome
  <2> QED
    BY <2>1, <2>2 DEF Records
<1> QED
  BY <1>2, <1>3

\* What write_dsv() writes of a table, DSV_Parser reads as the table that was written
\* exactly if every string in it delimits itself or is quoted by the writer, no row is
\* an empty line and no line ends in a carriage return: for every table.
THEOREM RoundTrip == RoundTripSpec => []ReadBackExactlyIfReadable
<1>1. RoundTripSpec => []RoundTripInv
  BY RoundTripBegins, RoundTripGoesOn, PTL DEF RoundTripSpec
<1> QED
  BY <1>1, ReadBackIfRoundTripInv, PTL

-----------------------------------------------------------------------------
(* The reader, which has the records of a document. *)

Ranks == 1..6
W == Len(doc[1])

StoredCells == {StoredAs(t, e, w) : t \in Ranks, e \in Element, w \in Nat}

TypesInv ==
  /\ doc \in Documents
  /\ phase \in {"inferring", "inserting", "read", "failed"}
  /\ r \in DOMAIN doc /\ c \in Columns
  /\ types \in [Columns -> Ranks] /\ sizes \in [Columns -> Nat]
  /\ rows \in Seq(Seq(StoredCells))

\* Before the element at work.
Before(i, k) == i < r \/ (i = r /\ k < c)

\* What the first pass knows of an element it has seen.
Covered(i, k) ==
  /\ doc[i][k].len <= sizes[k]
  /\ IsNull(doc[i][k]) \/ \E t \in 1..types[k] : Accepts(t, doc[i][k])

CoveredInv ==
  \A i \in DOMAIN doc : \A k \in Columns :
    phase # "inferring" \/ Before(i, k) => Covered(i, k)

\* The rows and cells there are.
ShapeInv ==
  /\ phase = "inferring" => rows = <<>>
  /\ phase \in {"inserting", "failed"} =>
       /\ Len(rows) = IF c = 1 THEN r - 1 ELSE r
       /\ \A i \in DOMAIN rows : Len(rows[i]) = IF i < r THEN W ELSE c - 1
  /\ phase = "read" => Len(rows) = Len(doc) /\ \A i \in DOMAIN rows : Len(rows[i]) = W
  /\ phase = "failed" => ~IsNull(Current) /\ ~Converts(types[c], Current)

\* What was inserted was convertible, and is stored as it says.
InsertedInv ==
  \A i \in DOMAIN rows : \A k \in DOMAIN rows[i] :
    /\ IsNull(doc[i][k]) \/ Converts(types[k], doc[i][k])
    /\ rows[i][k] = StoredAs(types[k], doc[i][k], sizes[k])

ReaderInv == TypesInv /\ CoveredInv /\ ShapeInv /\ InsertedInv

----------------------------------------------------------------------------
LEMMA ElementType ==
  ASSUME NEW e \in Element
  PROVE  e.form \in Forms /\ e.decimal \in Int /\ e.stoi \in Int /\ e.len \in Nat
<1>1. e \in [form : Forms, decimal : Int, stoi : Int, len : Nat]
  BY ElementAssumption
<1> QED
  BY <1>1

\* The types, rank by rank.
LEMMA TypeOfRank ==
  /\ Types[1] = "INT8_LE" /\ Types[2] = "UINT8_LE" /\ Types[3] = "INT64_LE"
  /\ Types[4] = "UINT64_LE" /\ Types[5] = "FLOAT64_LE" /\ Types[6] = "CHAR"
  /\ Len(Types) = 6
BY DEF Types

LEMMA AcceptsByRank ==
  ASSUME NEW e
  PROVE  /\ Accepts(1, e) <=> Bit(e) \/ e.form = "truth"
         /\ Accepts(2, e) <=> FitsByte(e)
         /\ Accepts(3, e) <=> FitsInt64(e)
         /\ Accepts(4, e) <=> FitsUInt64(e)
         /\ Accepts(5, e) <=> IsInteger(e) \/ e.form = "real"
         /\ Accepts(6, e)
BY TypeOfRank DEF Accepts

LEMMA ConvertsByRank ==
  ASSUME NEW e
  PROVE  /\ Converts(1, e) <=> Bit(e) \/ e.form = "truth"
         /\ Converts(2, e) <=> e.form \notin {"truth", "word"} /\ e.stoi \in 0..ByteMax
         /\ Converts(3, e) <=> FitsInt64(e)
         /\ Converts(4, e) <=> FitsUInt64(e)
         /\ Converts(5, e) <=> IsInteger(e) \/ e.form = "real"
         /\ Converts(6, e)
BY TypeOfRank, AcceptsByRank DEF Converts

\* The conversion to a type stays possible when the type is promoted, but for the
\* texts that are no numbers in decimal notation.
LEMMA KeptWhenPromoted ==
  ASSUME NEW e \in Element, NEW t \in Ranks, NEW u \in Ranks, t <= u, Accepts(t, e),
         e.form = "truth" => u \in {1, 6},
         e.form = "hex" => u \in {2, 6}
  PROVE  Converts(u, e)
<1> USE AcceptsByRank, ConvertsByRank, RangesAssumption
<1>1. e.form \in Forms /\ e.decimal \in Int /\ e.stoi \in Int
  BY ElementType
<1>2. /\ e.form = "decimal" /\ (e.stoi \in 0..ByteMax \/ e.decimal \in {0, 1}) => e.stoi = e.decimal
      /\ e.form = "octal" /\ e.stoi \in 0..ByteMax => e.decimal \in 0..Int64Max
  BY ReadingsAssumption
<1>3. \A n \in Int : /\ n \in 0..ByteMax => n \in 0..Int64Max
                     /\ n \in 0..Int64Max => n \in Int64Min..Int64Max
                     /\ n \in Int64Min..Int64Max => n \in (-UInt64Max)..UInt64Max
  OBVIOUS
<1>4. CASE u = 1
  <2>1. t = 1
    BY <1>4 DEF Ranks
  <2> QED
    BY <1>4, <2>1
<1>5. CASE u = 2
  <2>1. t = 1 \/ t = 2
    BY <1>5 DEF Ranks
  <2>2. CASE t = 1
    <3>1. e.form = "decimal" /\ e.decimal \in {0, 1}
      BY <1>5, <2>2 DEF Bit
    <3>2. e.stoi = e.decimal
      BY <1>2, <3>1
    <3> QED
      BY <1>5, <3>1, <3>2
  <2>3. CASE t = 2
    BY <1>1, <1>5, <2>3 DEF FitsByte, IsInteger
  <2> QED
    BY <2>1, <2>2, <2>3
<1>6. CASE u \in {3, 4, 5}
  <2>1. e.form \notin {"truth", "hex"}
    BY <1>6
  <2>2. t \in {1, 2} => FitsInt64(e)
    <3>1. CASE t = 1
      <4>1. e.form = "decimal" /\ e.decimal \in {0, 1}
        BY <2>1, <3>1 DEF Bit
      <4> QED
        BY <1>3, <4>1 DEF FitsInt64, IsInteger
    <3>2. CASE t = 2
      <4>1. IsInteger(e) /\ e.stoi \in 0..ByteMax
        BY <2>1, <3>2 DEF FitsByte
      <4>2. e.decimal \in 0..Int64Max
        BY <1>1, <1>2, <1>3, <4>1 DEF IsInteger
      <4> QED
        BY <1>1, <1>3, <4>1, <4>2 DEF FitsInt64
    <3> QED
      BY <3>1, <3>2
  <2>3. t \in {1, 2, 3} => FitsInt64(e)
    BY <2>2
  <2>4. t \in {1, 2, 3, 4} => FitsUInt64(e)
    BY <1>1, <1>3, <2>3 DEF FitsInt64, FitsUInt64
  <2>5. t \in {1, 2, 3, 4, 5} => IsInteger(e) \/ e.form = "real"
    BY <2>4 DEF FitsUInt64
  <2>6. CASE u = 3
    <3>1. t \in {1, 2, 3}
      BY <2>6 DEF Ranks
    <3> QED
      BY <2>3, <2>6, <3>1
  <2>7. CASE u = 4
    <3>1. t \in {1, 2, 3, 4}
      BY <2>7 DEF Ranks
    <3> QED
      BY <2>4, <2>7, <3>1
  <2>8. CASE u = 5
    <3>1. t \in {1, 2, 3, 4, 5}
      BY <2>8 DEF Ranks
    <3> QED
      BY <2>5, <2>8, <3>1
  <2> QED
    BY <1>6, <2>6, <2>7, <2>8
<1>7. CASE u = 6
  BY <1>7
<1> QED
  BY <1>4, <1>5, <1>6, <1>7 DEF Ranks

\* And of those that are no numbers in decimal notation it is not possible.
LEMMA NotConverted ==
  ASSUME NEW e, NEW u \in Ranks, u # 6,
         (e.form = "truth" /\ u # 1) \/ (e.form = "hex" /\ u # 2)
  PROVE  ~Converts(u, e)
<1> USE ConvertsByRank
<1>1. CASE u = 1
  BY <1>1 DEF Bit
<1>2. CASE u = 2
  BY <1>2
<1>3. CASE u = 3
  BY <1>3 DEF FitsInt64, IsInteger
<1>4. CASE u = 4
  BY <1>4 DEF FitsUInt64, IsInteger
<1>5. CASE u = 5
  BY <1>5 DEF IsInteger
<1> QED
  BY <1>1, <1>2, <1>3, <1>4, <1>5 DEF Ranks

\* The type that is found is the first one from the old one on that accepts the element.
LEMMA BestType ==
  ASSUME NEW e, NEW t \in Ranks
  PROVE  /\ get_best_data_type(t, e) \in t..6
         /\ IsNull(e) \/ Accepts(get_best_data_type(t, e), e)
<1>1. CASE IsNull(e)
  BY <1>1 DEF get_best_data_type, Ranks
<1>2. CASE ~IsNull(e)
  <2> DEFINE First(u) == Accepts(u, e) /\ \A v \in t..(u - 1) : ~Accepts(v, e)
  <2>1. \E u \in t..6 : First(u)
    <3>1. Accepts(6, e)
      BY AcceptsByRank
    <3>2. CASE \A v \in t..5 : ~Accepts(v, e)
      <4>1. 6 \in t..6 /\ 6 - 1 = 5
        BY DEF Ranks
      <4> QED
        BY <3>1, <3>2, <4>1
    <3>3. CASE \E v \in t..5 : Accepts(v, e)
      <4>1. t \in 1..6
        BY DEF Ranks
      <4>2. CASE Accepts(t, e)
        <5>1. t..(t - 1) = {} /\ t \in t..6
          BY <4>1
        <5> QED
          BY <4>2, <5>1
      <4>3. CASE ~Accepts(t, e) /\ Accepts(t + 1, e) /\ t + 1 <= 5
        <5>1. t..((t + 1) - 1) = {t} /\ t + 1 \in t..6
          BY <4>1, <4>3
        <5> QED
          BY <4>3, <5>1
      <4>4. CASE ~Accepts(t, e) /\ ~Accepts(t + 1, e) /\ Accepts(t + 2, e) /\ t + 2 <= 5
        <5>1. t..((t + 2) - 1) = {t, t + 1} /\ t + 2 \in t..6
          BY <4>1, <4>4
        <5> QED
          BY <4>4, <5>1
      <4>5. CASE ~Accepts(t, e) /\ ~Accepts(t + 1, e) /\ ~Accepts(t + 2, e) /\ Accepts(t + 3, e) /\ t + 3 <= 5
        <5>1. t..((t + 3) - 1) = {t, t + 1, t + 2} /\ t + 3 \in t..6
          BY <4>1, <4>5
        <5> QED
          BY <4>5, <5>1
      <4>6. CASE ~Accepts(t, e) /\ ~Accepts(t + 1, e) /\ ~Accepts(t + 2, e) /\ ~Accepts(t + 3, e)
                 /\ Accepts(t + 4, e) /\ t + 4 <= 5
        <5>1. t..((t + 4) - 1) = {t, t + 1, t + 2, t + 3} /\ t + 4 \in t..6
          BY <4>1, <4>6
        <5> QED
          BY <4>6, <5>1
      <4>7. PICK v \in t..5 : Accepts(v, e)
        BY <3>3
      <4>8. v \in {t, t + 1, t + 2, t + 3, t + 4}
        BY <4>1
      <4> QED
        BY <4>2, <4>3, <4>4, <4>5, <4>6, <4>7, <4>8, <4>1
    <3> QED
      BY <3>2, <3>3
  <2>2. get_best_data_type(t, e) = CHOOSE u \in t..6 : First(u)
    BY <1>2, TypeOfRank DEF get_best_data_type
  <2> HIDE DEF First
  <2>3. get_best_data_type(t, e) \in t..6 /\ First(get_best_data_type(t, e))
    BY <2>1, <2>2
  <2> QED
    BY <2>3 DEF First
<1> QED
  BY <1>1, <1>2

----------------------------------------------------------------------------
\* A document is a table of elements.
LEMMA Shape ==
  ASSUME TypesInv
  PROVE  /\ Len(doc) \in Nat /\ Len(doc) >= 1 /\ DOMAIN doc = 1..Len(doc)
         /\ W \in Nat /\ W >= 1 /\ Columns = 1..W
         /\ \A i \in DOMAIN doc : \A k \in Columns : doc[i][k] \in Element
         /\ r \in Int /\ 1 <= r /\ r <= Len(doc)
         /\ c \in Int /\ 1 <= c /\ c <= W
         /\ Current \in Element
<1>1. doc \in Seq(Seq(Element)) /\ doc # <<>>
  BY DocumentsAssumption DEF TypesInv
<1>2. \A i \in DOMAIN doc : doc[i] # <<>> /\ Len(doc[i]) = Len(doc[1])
  BY DocumentsAssumption DEF TypesInv
<1>3. Len(doc) \in Nat /\ Len(doc) >= 1 /\ DOMAIN doc = 1..Len(doc)
  BY <1>1
<1>4. \A i \in DOMAIN doc : doc[i] \in Seq(Element)
  BY <1>1
<1>5. 1 \in DOMAIN doc
  BY <1>3
<1>6. doc[1] \in Seq(Element) /\ doc[1] # <<>>
  BY <1>2, <1>4, <1>5
<1>7. W \in Nat /\ W >= 1 /\ Columns = 1..W
  BY <1>6 DEF W, Columns
<1>8. ASSUME NEW i \in DOMAIN doc, NEW k \in Columns
      PROVE  doc[i][k] \in Element
  <2>1. doc[i] \in Seq(Element) /\ Len(doc[i]) = W
    BY <1>2, <1>4 DEF W
  <2>2. k \in 1..Len(doc[i])
    BY <1>7, <2>1
  <2> QED
    BY <2>1, <2>2
<1>9. r \in DOMAIN doc /\ c \in Columns
  BY DEF TypesInv
<1> QED
  BY <1>3, <1>7, <1>8, <1>9 DEF Current

\* A step goes to the next element, or to the next pass behind the last one.
LEMMA StepOrder ==
  ASSUME TypesInv, NEW next, Step(next),
         NEW i \in DOMAIN doc, NEW k \in Columns
  PROVE  /\ r' \in DOMAIN doc /\ c' \in Columns
         /\ phase' \in {phase, next}
         /\ (~(LastColumn /\ LastRow) /\ (i < r' \/ (i = r' /\ k < c'))) => Before(i, k) \/ (i = r /\ k = c)
         /\ (LastColumn /\ LastRow) => Before(i, k) \/ (i = r /\ k = c)
<1>1. /\ Len(doc) \in Nat /\ DOMAIN doc = 1..Len(doc) /\ Len(doc) >= 1
      /\ W \in Nat /\ W >= 1 /\ Columns = 1..W
      /\ r \in Int /\ 1 <= r /\ r <= Len(doc) /\ c \in Int /\ 1 <= c /\ c <= W
  BY Shape
<1>2. LastColumn <=> c = W
  BY DEF LastColumn, W
<1>3. LastRow <=> r = Len(doc)
  BY DEF LastRow
<1>4. i \in 1..Len(doc) /\ k \in 1..W
  BY <1>1
<1>5. /\ c' = IF LastColumn THEN 1 ELSE c + 1
      /\ r' = IF ~LastColumn THEN r ELSE IF LastRow THEN 1 ELSE r + 1
      /\ phase' = IF LastColumn /\ LastRow THEN next ELSE phase
  BY DEF Step
<1>6. r' \in DOMAIN doc /\ c' \in Columns
  <2>1. c' \in 1..W
    BY <1>1, <1>2, <1>5
  <2>2. r' \in 1..Len(doc)
    <3>1. CASE LastColumn /\ ~LastRow
      <4>1. r' = r + 1 /\ r # Len(doc)
        BY <1>3, <1>5, <3>1
      <4>2. \A m, n \in Int : 1 <= m /\ m <= n /\ m # n => m + 1 \in 1..n
        OBVIOUS
      <4>3. Len(doc) \in Int /\ r \in Int /\ 1 <= r /\ r <= Len(doc)
        BY <1>1
      <4>4. r + 1 \in 1..Len(doc)
        BY <4>1, <4>2, <4>3
      <4> QED
        BY <4>1, <4>4
    <3>2. CASE ~LastColumn
      <4>1. r' = r
        BY <1>5, <3>2
      <4> QED
        BY <1>1, <4>1
    <3>3. CASE LastColumn /\ LastRow
      <4>1. r' = 1
        BY <1>5, <3>3
      <4> QED
        BY <1>1, <4>1
    <3> QED
      BY <3>1, <3>2, <3>3
  <2> QED
    BY <1>1, <2>1, <2>2
<1>7. phase' \in {phase, next}
  BY <1>5
<1>8. ASSUME ~(LastColumn /\ LastRow), i < r' \/ (i = r' /\ k < c')
      PROVE  Before(i, k) \/ (i = r /\ k = c)
  <2>1. CASE LastColumn
    <3>1. c' = 1 /\ r' = r + 1
      BY <1>5, <1>8, <2>1
    <3>2. i <= r
      BY <1>1, <1>4, <1>8, <3>1
    <3> QED
      BY <1>1, <1>2, <1>4, <2>1, <3>2 DEF Before
  <2>2. CASE ~LastColumn
    <3>1. c' = c + 1 /\ r' = r
      BY <1>5, <2>2
    <3> QED
      BY <1>1, <1>4, <1>8, <3>1 DEF Before
  <2> QED
    BY <2>1, <2>2
<1>9. ASSUME LastColumn, LastRow
      PROVE  Before(i, k) \/ (i = r /\ k = c)
  BY <1>1, <1>2, <1>3, <1>4, <1>9 DEF Before
<1> QED
  BY <1>6, <1>7, <1>8, <1>9

\* The initial states.
LEMMA Initially ==
  ASSUME ReaderInit
  PROVE  ReaderInv
<1>1. doc \in Seq(Seq(Element)) /\ doc # <<>>
  BY DocumentsAssumption DEF ReaderInit
<1>2. 1 \in DOMAIN doc
  BY <1>1
<1>3. doc[1] \in Seq(Element) /\ doc[1] # <<>>
  BY <1>1, <1>2, DocumentsAssumption DEF ReaderInit
<1>4. 1 \in Columns /\ Columns = 1..Len(doc[1])
  BY <1>3 DEF Columns
<1>5. TypesInv
  BY <1>2, <1>4 DEF ReaderInit, TypesInv, Ranks
<1>6. CoveredInv
  BY <1>1, <1>4 DEF ReaderInit, CoveredInv, Before
<1>7. ShapeInv
  BY DEF ReaderInit, ShapeInv
<1>8. InsertedInv
  BY DEF ReaderInit, InsertedInv
<1> QED
  BY <1>5, <1>6, <1>7, <1>8 DEF ReaderInv

\* The first pass keeps the invariant.
LEMMA InferKeeps ==
  ASSUME ReaderInv, Infer
  PROVE  ReaderInv'
<1> USE DEF ReaderInv
<1>1. /\ TypesInv /\ CoveredInv /\ ShapeInv /\ InsertedInv
      /\ phase = "inferring" /\ Step("inserting") /\ doc' = doc /\ rows' = rows
  BY DEF Infer
<1>2. /\ r \in DOMAIN doc /\ c \in Columns /\ Current = doc[r][c] /\ Current \in Element
      /\ types \in [Columns -> Ranks] /\ sizes \in [Columns -> Nat]
  BY <1>1, Shape DEF TypesInv, Current
<1> DEFINE best == get_best_data_type(types[c], Current)
           width == Width(Current.len)
<1>3. types' = [types EXCEPT ![c] = best] /\ sizes' = [sizes EXCEPT ![c] = width]
  BY DEF Infer
<1>4. types[c] \in Ranks /\ sizes[c] \in Nat /\ Current.len \in Nat
  BY <1>2, ElementType
<1>5. best \in types[c]..6 /\ (IsNull(Current) \/ Accepts(best, Current))
  BY <1>4, BestType
<1>6. width \in Nat /\ width >= sizes[c] /\ width >= Current.len
  BY <1>4 DEF Width
<1> HIDE DEF best, width
<1>7. best \in Ranks /\ best >= types[c]
  BY <1>4, <1>5 DEF Ranks
<1>8. types' \in [Columns -> Ranks] /\ sizes' \in [Columns -> Nat]
  BY <1>2, <1>3, <1>6, <1>7
<1>9. Columns' = Columns
  BY <1>1 DEF Columns
<1>10. r' \in DOMAIN doc /\ c' \in Columns /\ phase' \in {"inferring", "inserting"}
  BY <1>1, <1>2, StepOrder
<1>11. rows = <<>>
  BY <1>1 DEF ShapeInv
<1>12. TypesInv'
  <2>1. rows' \in Seq(Seq(StoredCells'))
    BY <1>1, <1>11
  <2> QED
    BY <1>1, <1>8, <1>9, <1>10, <2>1 DEF TypesInv
<1>13. CoveredInv'
  <2> SUFFICES ASSUME NEW i \in DOMAIN doc, NEW k \in Columns,
                      phase' # "inferring" \/ (i < r' \/ (i = r' /\ k < c'))
               PROVE  /\ doc[i][k].len <= sizes'[k]
                      /\ IsNull(doc[i][k]) \/ \E t \in 1..types'[k] : Accepts(t, doc[i][k])
    BY <1>1, <1>9 DEF CoveredInv, Before, Covered
  <2>1. Before(i, k) \/ (i = r /\ k = c)
    <3>1. /\ (~(LastColumn /\ LastRow) /\ (i < r' \/ (i = r' /\ k < c'))) => Before(i, k) \/ (i = r /\ k = c)
          /\ (LastColumn /\ LastRow) => Before(i, k) \/ (i = r /\ k = c)
      BY <1>1, StepOrder
    <3>2. ~(LastColumn /\ LastRow) => phase' = "inferring"
      BY <1>1 DEF Step
    <3> QED
      BY <3>1, <3>2
  <2>2. /\ types[k] \in Ranks /\ types'[k] \in Ranks /\ sizes[k] \in Nat /\ sizes'[k] \in Nat
        /\ types'[k] >= types[k] /\ sizes'[k] >= sizes[k]
    <3>1. CASE k = c
      BY <1>2, <1>3, <1>4, <1>6, <1>7, <3>1
    <3>2. CASE k # c
      <4>1. types'[k] = types[k] /\ sizes'[k] = sizes[k]
        BY <1>2, <1>3, <3>2
      <4>2. types[k] \in Ranks /\ sizes[k] \in Nat
        BY <1>2
      <4> QED
        BY <4>1, <4>2 DEF Ranks
    <3> QED
      BY <3>1, <3>2
  <2>3. doc[i][k].len \in Nat
    BY <1>1, Shape, ElementType
  <2>4. CASE Before(i, k)
    <3>1. Covered(i, k)
      BY <1>1, <2>4 DEF CoveredInv
    <3>2. doc[i][k].len <= sizes[k]
      BY <3>1 DEF Covered
    <3>3. doc[i][k].len <= sizes'[k]
      BY <2>2, <2>3, <3>2
    <3>4. CASE ~IsNull(doc[i][k])
      <4>1. PICK t \in 1..types[k] : Accepts(t, doc[i][k])
        BY <3>1, <3>4 DEF Covered
      <4>2. t \in 1..types'[k]
        BY <2>2, <4>1 DEF Ranks
      <4> QED
        BY <3>3, <4>1, <4>2
    <3> QED
      BY <3>3, <3>4
  <2>5. CASE i = r /\ k = c
    <3>1. doc[i][k] = Current /\ types'[k] = best /\ sizes'[k] = width
      BY <1>2, <1>3, <2>5
    <3>2. best \in 1..best
      BY <1>7 DEF Ranks
    <3> QED
      BY <1>5, <1>6, <3>1, <3>2
  <2> QED
    BY <2>1, <2>4, <2>5
<1>14. ShapeInv'
  <2>1. phase' = "inserting" => r' = 1 /\ c' = 1
    BY <1>1 DEF Step
  <2> QED
    BY <1>1, <1>10, <1>11, <2>1 DEF ShapeInv
<1>15. InsertedInv'
  BY <1>1, <1>11 DEF InsertedInv
<1> QED
  BY <1>12, <1>13, <1>14, <1>15

\* The rows with one more cell.
LEMMA CellAdded ==
  ASSUME ReaderInv, phase = "inserting", NEW cell \in StoredCells
  PROVE  /\ WithCell(cell) \in Seq(Seq(StoredCells))
         /\ Len(WithCell(cell)) = r
         /\ \A i \in 1..(r - 1) : i \in DOMAIN rows /\ WithCell(cell)[i] = rows[i]
         /\ Len(WithCell(cell)[r]) = c /\ WithCell(cell)[r][c] = cell
         /\ \A k \in 1..(c - 1) : /\ r \in DOMAIN rows /\ k \in DOMAIN rows[r]
                                  /\ WithCell(cell)[r][k] = rows[r][k]
<1> USE DEF ReaderInv
<1>1. r \in Nat /\ r >= 1 /\ c \in Nat /\ c >= 1
  BY Shape
<1>2. rows \in Seq(Seq(StoredCells))
  BY DEF TypesInv
<1>3. CASE c = 1
  <2>1. WithCell(cell) = Append(rows, <<cell>>)
    BY <1>3 DEF WithCell
  <2>2. Len(rows) = r - 1
    BY <1>3 DEF ShapeInv
  <2>3. <<cell>> \in Seq(StoredCells) /\ Len(<<cell>>) = c /\ <<cell>>[c] = cell
    BY <1>3
  <2>4. 1..(c - 1) = {}
    BY <1>3
  <2> DEFINE new == <<cell>>
  <2>5. new \in Seq(StoredCells) /\ Len(new) = c /\ new[c] = cell /\ WithCell(cell) = Append(rows, new)
    BY <2>1, <2>3
  <2> HIDE DEF new
  <2>6. /\ Append(rows, new) \in Seq(Seq(StoredCells)) /\ Len(Append(rows, new)) = r
        /\ Append(rows, new)[r] = new
        /\ \A i \in 1..(r - 1) : i \in DOMAIN rows /\ Append(rows, new)[i] = rows[i]
    BY <1>1, <1>2, <2>2, <2>5
  <2> QED
    BY <2>4, <2>5, <2>6
<1>4. CASE c # 1
  <2>1. Len(rows) = r /\ r \in DOMAIN rows
    BY <1>1, <1>2, <1>4 DEF ShapeInv
  <2>2. Len(rows[r]) = c - 1
    BY <1>1, <1>4, <2>1 DEF ShapeInv
  <2>3. rows[r] \in Seq(StoredCells)
    BY <1>2, <2>1
  <2> DEFINE new == Append(rows[r], cell)
  <2>4. new \in Seq(StoredCells) /\ Len(new) = c /\ new[c] = cell
    BY <1>1, <2>2, <2>3
  <2>5. \A k \in 1..(c - 1) : k \in DOMAIN rows[r] /\ new[k] = rows[r][k]
    BY <1>1, <2>2, <2>3
  <2>6. WithCell(cell) = [rows EXCEPT ![r] = new]
    BY <1>4 DEF WithCell
  <2> HIDE DEF new
  <2>7. /\ [rows EXCEPT ![r] = new] \in Seq(Seq(StoredCells)) /\ Len([rows EXCEPT ![r] = new]) = r
        /\ [rows EXCEPT ![r] = new][r] = new
        /\ \A i \in 1..(r - 1) : i \in DOMAIN rows /\ [rows EXCEPT ![r] = new][i] = rows[i]
    BY <1>1, <1>2, <2>1, <2>4
  <2> QED
    BY <2>1, <2>4, <2>5, <2>6, <2>7
<1> QED
  BY <1>3, <1>4

\* The second pass keeps it.
LEMMA InsertKeeps ==
  ASSUME ReaderInv, Insert
  PROVE  ReaderInv'
<1> USE DEF ReaderInv
<1> DEFINE cell == StoredAs(types[c], Current, sizes[c])
<1>1. /\ TypesInv /\ CoveredInv /\ ShapeInv /\ InsertedInv
      /\ phase = "inserting" /\ Step("read") /\ doc' = doc /\ types' = types /\ sizes' = sizes
      /\ rows' = WithCell(cell)
      /\ IsNull(Current) \/ Converts(types[c], Current)
  BY DEF Insert
<1>2. /\ r \in DOMAIN doc /\ c \in Columns /\ Current = doc[r][c] /\ Current \in Element
      /\ types \in [Columns -> Ranks] /\ sizes \in [Columns -> Nat]
  BY <1>1, Shape DEF TypesInv, Current
<1>3. cell \in StoredCells
  BY <1>2 DEF StoredCells
<1>4. Columns' = Columns
  BY <1>1 DEF Columns
<1>5. r' \in DOMAIN doc /\ c' \in Columns /\ phase' \in {"inserting", "read"}
  BY <1>1, <1>2, StepOrder
<1>6. /\ Len(doc) \in Nat /\ DOMAIN doc = 1..Len(doc) /\ Len(doc) >= 1
      /\ W \in Nat /\ W >= 1 /\ Columns = 1..W
      /\ r \in Int /\ 1 <= r /\ r <= Len(doc) /\ c \in Int /\ 1 <= c /\ c <= W
  BY <1>1, Shape
<1>7. W' = W
  BY <1>1 DEF W
<1> HIDE DEF cell
<1>8. /\ rows' \in Seq(Seq(StoredCells))
      /\ Len(rows') = r
      /\ \A i \in 1..(r - 1) : i \in DOMAIN rows /\ rows'[i] = rows[i]
      /\ Len(rows'[r]) = c /\ rows'[r][c] = cell
      /\ \A k \in 1..(c - 1) : /\ r \in DOMAIN rows /\ k \in DOMAIN rows[r]
                               /\ rows'[r][k] = rows[r][k]
  <2>1. rows' = WithCell(cell)
    BY <1>1
  <2> QED
    BY <1>1, <1>3, <2>1, CellAdded
<1>9. TypesInv'
  <2>1. StoredCells' = StoredCells
    OBVIOUS
  <2> QED
    BY <1>1, <1>2, <1>4, <1>5, <1>8, <2>1 DEF TypesInv
<1>10. CoveredInv'
  <2>1. phase' # "inferring" /\ phase # "inferring"
    BY <1>1, <1>5
  <2>2. \A i \in DOMAIN doc : \A k \in Columns : Covered(i, k)
    BY <1>1, <2>1 DEF CoveredInv
  <2> QED
    BY <1>1, <1>4, <2>2 DEF CoveredInv, Covered
<1>11. DOMAIN rows' = 1..r /\ \A i \in 1..(r - 1) : Len(rows[i]) = W
  <2>1. DOMAIN rows' = 1..r
    BY <1>8
  <2>2. ASSUME NEW i \in 1..(r - 1) PROVE Len(rows[i]) = W
    BY <1>1, <1>6, <1>8 DEF ShapeInv
  <2> QED
    BY <2>1, <2>2
<1>12. ShapeInv'
  <2>1. \A i \in 1..(r - 1) : Len(rows'[i]) = W
    BY <1>8, <1>11
  <2>2. LastColumn <=> c = W
    BY DEF LastColumn, W
  <2>3. /\ c' = IF c = W THEN 1 ELSE c + 1
        /\ r' = IF c # W THEN r ELSE IF LastRow THEN 1 ELSE r + 1
        /\ phase' = IF c = W /\ LastRow THEN "read" ELSE phase
    BY <1>1, <2>2 DEF Step
  <2>4. CASE c # W
    <3>1. c' = c + 1 /\ r' = r /\ phase' = "inserting"
      BY <1>1, <2>3, <2>4
    <3>2. Len(rows') = IF c' = 1 THEN r' - 1 ELSE r'
      BY <1>6, <1>8, <3>1
    <3>3. ASSUME NEW i \in DOMAIN rows'
          PROVE  Len(rows'[i]) = IF i < r' THEN W ELSE c' - 1
      BY <1>6, <1>8, <1>11, <2>1, <3>1
    <3> QED
      BY <1>7, <3>1, <3>2, <3>3 DEF ShapeInv
  <2>5. CASE c = W /\ ~LastRow
    <3>1. c' = 1 /\ r' = r + 1 /\ phase' = "inserting"
      BY <1>1, <2>3, <2>5
    <3>2. Len(rows') = IF c' = 1 THEN r' - 1 ELSE r'
      BY <1>6, <1>8, <3>1
    <3>3. ASSUME NEW i \in DOMAIN rows'
          PROVE  Len(rows'[i]) = IF i < r' THEN W ELSE c' - 1
      BY <1>6, <1>8, <1>11, <2>1, <2>5, <3>1
    <3> QED
      BY <1>7, <3>1, <3>2, <3>3 DEF ShapeInv
  <2>6. CASE c = W /\ LastRow
    <3>1. phase' = "read" /\ r = Len(doc)
      BY <2>3, <2>6 DEF LastRow
    <3>2. Len(rows') = Len(doc')
      BY <1>1, <1>8, <3>1
    <3>3. ASSUME NEW i \in DOMAIN rows'
          PROVE  Len(rows'[i]) = W
      BY <1>6, <1>8, <1>11, <2>1, <2>6
    <3> QED
      BY <1>7, <3>1, <3>2, <3>3 DEF ShapeInv
  <2> QED
    BY <2>4, <2>5, <2>6
<1>13. InsertedInv'
  <2> SUFFICES ASSUME NEW i \in DOMAIN rows', NEW k \in DOMAIN rows'[i]
               PROVE  /\ IsNull(doc[i][k]) \/ Converts(types[k], doc[i][k])
                      /\ rows'[i][k] = StoredAs(types[k], doc[i][k], sizes[k])
    BY <1>1 DEF InsertedInv
  <2>1. i \in 1..r
    BY <1>11
  <2>2. CASE i < r
    <3>1. i \in DOMAIN rows /\ rows'[i] = rows[i]
      BY <1>6, <1>8, <2>1, <2>2
    <3> QED
      BY <1>1, <3>1 DEF InsertedInv
  <2>3. CASE i = r
    <3>1. rows'[r] \in Seq(StoredCells)
      BY <1>6, <1>8, <1>11
    <3>2. k \in 1..c
      BY <1>8, <2>3, <3>1
    <3>3. CASE k = c
      BY <1>1, <1>2, <1>8, <2>3, <3>3 DEF cell
    <3>4. CASE k # c
      <4>1. k \in 1..(c - 1)
        BY <1>6, <3>2, <3>4
      <4>2. r \in DOMAIN rows /\ k \in DOMAIN rows[r] /\ rows'[r][k] = rows[r][k]
        BY <1>8, <4>1
      <4> QED
        BY <1>1, <2>3, <4>2 DEF InsertedInv
    <3> QED
      BY <3>3, <3>4
  <2> QED
    BY <1>6, <2>1, <2>2, <2>3
<1> QED
  BY <1>9, <1>10, <1>12, <1>13

\* A conversion that fails keeps it.
LEMMA ThrowKeeps ==
  ASSUME ReaderInv, InsertThrows
  PROVE  ReaderInv'
<1> USE DEF ReaderInv
<1>1. /\ TypesInv /\ CoveredInv /\ ShapeInv /\ InsertedInv
      /\ phase = "inserting" /\ phase' = "failed"
      /\ ~IsNull(Current) /\ ~Converts(types[c], Current)
      /\ doc' = doc /\ r' = r /\ c' = c /\ types' = types /\ sizes' = sizes /\ rows' = rows
  BY DEF InsertThrows
<1>2. TypesInv'
  BY <1>1 DEF TypesInv, Columns
<1>3. CoveredInv'
  <2>1. \A i \in DOMAIN doc : \A k \in Columns : Covered(i, k)
    BY <1>1 DEF CoveredInv
  <2> QED
    BY <1>1, <2>1 DEF CoveredInv, Covered, Columns
<1>4. ShapeInv'
  BY <1>1 DEF ShapeInv, W, Current
<1>5. InsertedInv'
  BY <1>1 DEF InsertedInv
<1> QED
  BY <1>2, <1>3, <1>4, <1>5

----------------------------------------------------------------------------
\* The first pass leaves for every element a type that accepts it and a width that
\* holds it, and what the second pass has inserted was converted to the type and the
\* width of its column.
THEOREM Invariance == ReaderSpec => []ReaderInv
<1>1. ReaderInit => ReaderInv
  BY Initially
<1>2. ReaderInv /\ [ReaderNext]_reader_vars => ReaderInv'
  <2> SUFFICES ASSUME ReaderInv, [ReaderNext]_reader_vars PROVE ReaderInv'
    OBVIOUS
  <2>1. CASE Infer
    BY <2>1, InferKeeps
  <2>2. CASE Insert
    BY <2>2, InsertKeeps
  <2>3. CASE InsertThrows
    BY <2>3, ThrowKeeps
  <2>4. CASE UNCHANGED reader_vars
    <3>1. /\ doc' = doc /\ phase' = phase /\ r' = r /\ c' = c
          /\ types' = types /\ sizes' = sizes /\ rows' = rows
      BY <2>4 DEF reader_vars
    <3>2. TypesInv'
      BY <3>1 DEF ReaderInv, TypesInv, Columns
    <3>3. CoveredInv'
      BY <3>1 DEF ReaderInv, CoveredInv, Covered, Columns, Before
    <3>4. ShapeInv'
      BY <3>1 DEF ReaderInv, ShapeInv, W, Current
    <3>5. InsertedInv'
      BY <3>1 DEF ReaderInv, InsertedInv
    <3> QED
      BY <3>2, <3>3, <3>4, <3>5 DEF ReaderInv
  <2> QED
    BY <2>1, <2>2, <2>3, <2>4 DEF ReaderNext
<1> QED
  BY <1>1, <1>2, PTL DEF ReaderSpec

LEMMA NamesOfRanks ==
  ASSUME NEW u \in Ranks
  PROVE  /\ Types[u] = "INT8_LE" <=> u = 1
         /\ Types[u] = "UINT8_LE" <=> u = 2
         /\ Types[u] = "UINT64_LE" <=> u = 4
         /\ Types[u] = "FLOAT64_LE" <=> u = 5
         /\ IsChar(u) <=> u = 6
<1>1. CASE u = 1
  BY <1>1, TypeOfRank DEF IsChar
<1>2. CASE u = 2
  BY <1>2, TypeOfRank DEF IsChar
<1>3. CASE u = 3
  BY <1>3, TypeOfRank DEF IsChar
<1>4. CASE u = 4
  BY <1>4, TypeOfRank DEF IsChar
<1>5. CASE u = 5
  BY <1>5, TypeOfRank DEF IsChar
<1>6. CASE u = 6
  BY <1>6, TypeOfRank DEF IsChar
<1> QED
  BY <1>1, <1>2, <1>3, <1>4, <1>5, <1>6 DEF Ranks

LEMMA FailuresOutgrow == ReaderInv => FailsExactlyIfOutgrown
<1> SUFFICES ASSUME ReaderInv PROVE FailsExactlyIfOutgrown
  OBVIOUS
<1>1. TypesInv /\ CoveredInv /\ ShapeInv /\ InsertedInv
  BY DEF ReaderInv
<1>2. /\ DOMAIN doc = 1..Len(doc) /\ Columns = 1..W
      /\ \A i \in DOMAIN doc : \A k \in Columns : doc[i][k] \in Element
      /\ r \in DOMAIN doc /\ c \in Columns /\ Current \in Element /\ Current = doc[r][c]
      /\ types \in [Columns -> Ranks]
  BY <1>1, Shape DEF TypesInv, Current
<1>3. ASSUME phase = "failed"
      PROVE  Outgrown(c)
  <2>1. ~IsNull(Current) /\ ~Converts(types[c], Current)
    BY <1>1, <1>3 DEF ShapeInv
  <2>2. Covered(r, c)
    BY <1>1, <1>2, <1>3 DEF CoveredInv
  <2>3. PICK t \in 1..types[c] : Accepts(t, Current)
    BY <1>2, <2>1, <2>2 DEF Covered
  <2>4. types[c] \in Ranks
    BY <1>2
  <2>5. t \in Ranks /\ t <= types[c]
    BY <2>3, <2>4 DEF Ranks
  <2>6. \/ Current.form = "truth" /\ types[c] \notin {1, 6}
        \/ Current.form = "hex" /\ types[c] \notin {2, 6}
    BY <1>2, <2>1, <2>3, <2>4, <2>5, KeptWhenPromoted
  <2>7. Current \in Elements(c)
    BY <1>2 DEF Elements
  <2> QED
    BY <2>4, <2>6, <2>7, NamesOfRanks DEF Outgrown, Numeric
<1>4. ASSUME phase = "read", NEW k \in Columns, Outgrown(k)
      PROVE  FALSE
  <2>1. types[k] \in Ranks /\ types[k] # 6
    BY <1>2, <1>4, NamesOfRanks DEF Outgrown, Numeric
  <2>2. PICK i \in DOMAIN doc :
          \/ doc[i][k].form = "truth" /\ types[k] # 1
          \/ doc[i][k].form = "hex" /\ types[k] # 2
    BY <1>4, <2>1, NamesOfRanks DEF Outgrown, Elements
  <2>3. ~Converts(types[k], doc[i][k]) /\ ~IsNull(doc[i][k])
    BY <2>1, <2>2, NotConverted DEF IsNull
  <2>4. i \in DOMAIN rows /\ k \in DOMAIN rows[i]
    <3>1. rows \in Seq(Seq(StoredCells)) /\ Len(rows) = Len(doc)
      BY <1>1, <1>4 DEF TypesInv, ShapeInv
    <3>2. i \in DOMAIN rows
      BY <1>2, <3>1
    <3>3. rows[i] \in Seq(StoredCells) /\ Len(rows[i]) = W
      BY <1>1, <1>4, <3>1, <3>2 DEF ShapeInv
    <3> QED
      BY <1>2, <3>2, <3>3
  <2> QED
    BY <1>1, <2>3, <2>4 DEF InsertedInv
<1> QED
  BY <1>2, <1>3, <1>4 DEF FailsExactlyIfOutgrown

\* Promotion never goes back to the elements that have been read; for documents of
\* any size and of any texts the second pass fails exactly for the columns that
\* outgrew a truth value or a hexadecimal number.
THEOREM FailuresAreOutgrown == ReaderSpec => []FailsExactlyIfOutgrown
BY Invariance, FailuresOutgrow, PTL

\* An integer that a double holds is the one next to itself, and every integer has a
\* double next to it.
LEMMA RoundedIs ==
  ASSUME NEW n \in Int
  PROVE  Rounded(n) \in Float64 /\ (n \in Float64 => Rounded(n) = n)
<1>1. Float64 \subseteq Int /\ Float64 # {}
  BY RangesAssumption
<1> DEFINE Nearest(m) == \A other \in Float64 : Distance(m, n) <= Distance(other, n)
<1>2. \A m \in Int : Distance(m, n) \in Nat /\ (Distance(m, n) = 0 <=> m = n)
  BY DEF Distance
<1>3. \E m \in Float64 : Nearest(m)
  <2> DEFINE T == {Distance(m, n) : m \in Float64}
  <2>1. T \subseteq Nat /\ T # {}
    BY <1>1, <1>2
  <2>2. PICK x \in T : \A y \in T : x <= y
    BY <2>1, LeastElement
  <2> QED
    BY <2>2
<1>4. Rounded(n) \in Float64 /\ Nearest(Rounded(n))
  <2>1. Rounded(n) = CHOOSE m \in Float64 : Nearest(m)
    BY DEF Rounded
  <2> HIDE DEF Nearest
  <2> QED
    BY <1>3, <2>1
<1>5. ASSUME n \in Float64
      PROVE  Rounded(n) = n
  <2>1. Distance(Rounded(n), n) <= Distance(n, n)
    BY <1>4, <1>5
  <2>2. Distance(Rounded(n), n) \in Nat /\ Distance(n, n) = 0
    BY <1>1, <1>2, <1>4
  <2>3. Distance(Rounded(n), n) = 0
    BY <2>1, <2>2
  <2> QED
    BY <1>1, <1>2, <1>4, <2>3
<1> QED
  BY <1>4, <1>5

\* What an integer is stored as in a column of numbers.
LEMMA ValueOfInteger ==
  ASSUME NEW e \in Element, IsInteger(e), NEW u \in Ranks, u # 6, Converts(u, e)
  PROVE  ValueAs(u, e) = e.decimal <=> ~Misread(u, e)
<1>1. e.decimal \in Int /\ e.stoi \in Int
  BY ElementType
<1>2. CASE u = 2
  <2>1. e.stoi \in 0..ByteMax
    BY <1>2, ConvertsByRank
  <2>2. e.form = "decimal" => e.stoi = e.decimal
    BY <2>1, ReadingsAssumption
  <2>3. ValueAs(u, e) = e.stoi
    BY <1>2, NamesOfRanks DEF ValueAs
  <2>4. Misread(u, e) <=> e.form = "octal" /\ e.stoi # e.decimal
    BY <1>2, NamesOfRanks DEF Misread
  <2> QED
    BY <2>2, <2>3, <2>4 DEF IsInteger
<1>3. CASE u = 4
  <2>1. e.decimal \in (-UInt64Max)..UInt64Max
    BY <1>3, ConvertsByRank DEF FitsUInt64
  <2>2. ValueAs(u, e) = e.decimal % (UInt64Max + 1)
    BY <1>3, NamesOfRanks DEF ValueAs, ModUInt64
  <2>3. Misread(u, e) <=> e.decimal < 0
    BY <1>3, NamesOfRanks DEF Misread
  <2>4. UInt64Max \in Nat
    BY RangesAssumption
  <2>5. e.decimal % (UInt64Max + 1) \in 0..UInt64Max
    BY <1>1, <2>4
  <2>6. e.decimal >= 0 => e.decimal % (UInt64Max + 1) = e.decimal
    BY <1>1, <2>1, <2>4
  <2> QED
    BY <1>1, <2>2, <2>3, <2>5, <2>6
<1>4. CASE u = 5
  <2>1. ValueAs(u, e) = Rounded(e.decimal)
    BY <1>4, NamesOfRanks DEF ValueAs
  <2>2. Misread(u, e) <=> e.decimal \notin Float64
    BY <1>4, NamesOfRanks DEF Misread
  <2> QED
    BY <1>1, <2>1, <2>2, RoundedIs
<1>5. CASE u \notin {2, 4, 5}
  BY <1>5, NamesOfRanks DEF ValueAs, Misread
<1> QED
  BY <1>2, <1>3, <1>4, <1>5

LEMMA StoredAsWritten == ReaderInv => StoredAsWrittenUnlessMisread
<1> SUFFICES ASSUME ReaderInv, NEW i \in DOMAIN rows, NEW k \in DOMAIN rows[i]
             PROVE  /\ rows[i][k].chars = doc[i][k].len
                    /\ IsInteger(doc[i][k]) /\ Numeric(k) =>
                         (rows[i][k].value = doc[i][k].decimal <=> ~Misread(types[k], doc[i][k]))
  BY DEF StoredAsWrittenUnlessMisread
<1>1. TypesInv /\ CoveredInv /\ ShapeInv /\ InsertedInv
  BY DEF ReaderInv
<1>2. /\ Len(doc) \in Nat /\ DOMAIN doc = 1..Len(doc) /\ Columns = 1..W /\ W \in Nat
      /\ r \in Int /\ 1 <= r /\ r <= Len(doc) /\ c \in Int /\ 1 <= c /\ c <= W
  BY <1>1, Shape
<1>3. rows \in Seq(Seq(StoredCells))
  BY <1>1 DEF TypesInv
<1>4. phase # "inferring"
  <2>1. rows # <<>>
    BY <1>3
  <2> QED
    BY <1>1, <2>1 DEF ShapeInv
<1>5. phase \in {"inserting", "failed", "read"}
  BY <1>1, <1>4 DEF TypesInv
<1>6. Len(rows) <= Len(doc) /\ Len(rows[i]) <= W
  BY <1>1, <1>2, <1>5 DEF ShapeInv
<1>7. i \in DOMAIN doc
  BY <1>2, <1>3, <1>6
<1>8. k \in Columns
  <2>1. rows[i] \in Seq(StoredCells)
    BY <1>3
  <2> QED
    BY <1>2, <1>6, <2>1
<1> DEFINE e == doc[i][k]
<1>9. e \in Element /\ e.len \in Nat /\ types[k] \in Ranks /\ sizes[k] \in Nat
  BY <1>1, <1>7, <1>8, Shape, ElementType DEF TypesInv
<1>10. e.len <= sizes[k]
  BY <1>1, <1>4, <1>7, <1>8 DEF CoveredInv, Covered
<1>11. /\ rows[i][k] = StoredAs(types[k], e, sizes[k])
       /\ IsNull(e) \/ Converts(types[k], e)
  BY <1>1 DEF InsertedInv
<1> HIDE DEF e
<1>12. rows[i][k].chars = e.len
  BY <1>9, <1>10, <1>11 DEF StoredAs
<1>13. ASSUME IsInteger(e), Numeric(k)
       PROVE  rows[i][k].value = e.decimal <=> ~Misread(types[k], e)
  <2>1. ~IsNull(e) /\ ~IsChar(types[k])
    BY <1>13 DEF IsInteger, IsNull, Numeric
  <2>2. types[k] # 6
    BY <1>9, <2>1, NamesOfRanks
  <2>3. rows[i][k].value = ValueAs(types[k], e)
    BY <1>11, <2>1 DEF StoredAs
  <2> QED
    BY <1>9, <1>11, <1>13, <2>1, <2>2, <2>3, ValueOfInteger
<1> QED
  BY <1>12, <1>13 DEF e

\* No string is cut short, and no number is stored as another than its digits are
\* but the octal bytes, the negative ones in columns of unsigned numbers and those
\* that a double does not hold in columns of doubles.
THEOREM Stored == ReaderSpec => []StoredAsWrittenUnlessMisread
BY Invariance, StoredAsWritten, PTL

=============================================================================
