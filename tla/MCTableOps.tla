----------------------------- MODULE MCTableOps -----------------------------
(***************************************************************************)
(* Instances of TableOps: tables of two rows, the second one with nulls, of  *)
(* 1, 7 and 8 columns, so that operands end at and beside a byte of flags.   *)
(***************************************************************************)
EXTENDS TableOps

Names7 == <<"c1", "c2", "c3", "c4", "c5", "c6", "c7">>
Names8 == <<"e1", "e2", "e3", "e4", "e5", "e6", "e7", "e8">>

Plain(name) == [name |-> name, dyn |-> FALSE]
One(null) == [null |-> null, len |-> 1]

\* A table with columns cols and a row for each set of null columns.
TableOf(cols, bytes, nulls) ==
  [cols      |-> cols,
   flagBytes |-> bytes,
   rows      |-> [r \in 1..Len(nulls) |->
                    [bits  |-> {c - 1 : c \in nulls[r]},
                     cells |-> [c \in 1..Len(cols) |-> One(c \in nulls[r])],
                     sizes |-> [d \in 1..NumDynamic(cols) |-> 1]]]]

PlainColumns(names) == [c \in 1..Len(names) |-> Plain(names[c])]

Narrow   == TableOf(PlainColumns(<<"a">>), 1, <<{}, {1}>>)
Seven    == TableOf(PlainColumns(Names7), 1, <<{7}, {1, 7}>>)
Eight    == TableOf(PlainColumns(Names8), 1, <<{}, {1, 8}>>)
\* A table with a string column, as every reader of text makes them.
Strings  == TableOf(<<[name |-> "s", dyn |-> TRUE], Plain("t")>>, 1, <<{}, {2}>>)

MCCounterCell == One(FALSE)

MCSources == {Narrow, Seven, Eight, Strings}
=============================================================================
