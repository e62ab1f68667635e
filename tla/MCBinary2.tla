----------------------------- MODULE MCBinary2 -----------------------------
(***************************************************************************)
(* Instances of Binary2: tables with one column of every kind, with two, and   *)
(* with eight, for which one byte of null flags is enough and two are one too  *)
(* many; and streams put together from whole rows, pieces of rows and bytes.  *)
(***************************************************************************)
EXTENDS Binary2

CONSTANTS
  MaxRows,    \* bound on the rows of a table with one column
  MaxPieces   \* bound on the pieces of a stream

Fixed(type, width) == [type |-> type, dyn |-> FALSE, width |-> width]
Dyn(type, width) == [type |-> type, dyn |-> TRUE, width |-> width]

Null == [null |-> TRUE, bytes |-> <<>>]
Value(bytes) == [null |-> FALSE, bytes |-> bytes]

WithRows(columns, flagBytes, choices, max) ==
  {[cols |-> columns, flagBytes |-> flagBytes, rows |-> rs] :
     rs \in SeqOf({row \in [DOMAIN columns -> UNION ToSet(choices)] :
                     \A k \in DOMAIN columns : row[k] \in choices[k]}, max)}

Single(column, values) ==
  WithRows(<<column>>, 1, <<{Null} \cup {Value(v) : v \in values}>>, MaxRows)

Eights(flagBytes) ==
  LET Row(v, k) == [i \in 1..8 |-> IF i = k THEN Null ELSE Value(<<IF i = 8 THEN v ELSE 0>>)]
      choices == {Row(v, k) : v \in {1, 255}, k \in {0, 1, 8}}
  IN  {[cols |-> [i \in 1..8 |-> Fixed("byte", 1)], flagBytes |-> flagBytes, rows |-> rs] :
         rs \in SeqOf(choices, 2)}

MCTables ==
  UNION {Single(Fixed("bool", 1), {<<0>>, <<1>>, <<84>>, <<2>>}),
         Single(Fixed("byte", 1), {<<0>>, <<255>>}),
         Single(Fixed("char", 2), {<<65, 0>>}),
         Single(Fixed("short", 1), {<<1, 2>>}),
         Single(Dyn("char", 2), {<<>>, <<65>>, <<65, 66>>}),
         Single(Dyn("short", 1), {<<>>, <<1, 2>>}),
         WithRows(<<Dyn("short", 1), Fixed("byte", 1)>>, 1,
                  <<{Null, Value(<<>>), Value(<<1, 2>>)}, {Null, Value(<<7>>)}>>, 2),
         Eights(1), Eights(2)}

Concat(pieces) == FoldLeft(LAMBDA bytes, piece : bytes \o piece, <<>>, pieces)

\* Rows of a byte and a string: with a null byte, with one and two characters,
\* with a null string and one that claims more than there is.
RowPieces == {<<128, 7>> \o Word(0), <<0, 7>> \o Word(1) \o <<65>>,
              <<0, 7>> \o Word(2) \o <<65, 66>>, <<64, 7>> \o Word(9)}
SmallPieces == {<<0>>, <<64>>, Word(0), Word(1)}

Pieced(pieces, max) == {Concat(ps) : ps \in SeqOf(pieces, max)}

MCForeign ==
  [cols : {<<Fixed("byte", 1), Dyn("char", 1)>>},
   streams : {<<a>> : a \in Pieced(SmallPieces, MaxPieces)}
             \cup {<<a, b>> : a, b \in Pieced(RowPieces \cup {<<0, 7, 0>>}, 2)}]
  \cup
  [cols : {<<Fixed("bool", 1)>>},
   streams : {<<a>> : a \in SeqOf({0, 1, 48, 116, 128}, 4)} \cup {<<>>}]
=============================================================================
