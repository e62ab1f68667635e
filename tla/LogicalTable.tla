---------------------------- MODULE LogicalTable ----------------------------
(***************************************************************************)
(* What the rows of a tablator table promise to their users: a table is a   *)
(* sequence of rows, each of them a cell content together with the current  *)
(* lengths of its variable-length arrays, filled once and then extended by  *)
(* the rows of another table or narrowed to a selection of its own rows.    *)
(* Row indices are 0-based, as everywhere in the code.                      *)
(***************************************************************************)
EXTENDS Naturals, Sequences

CONSTANTS
  Row,        \* the rows a reader can produce
  Whole,      \* the row sequences a reader can produce in one stroke
  Operands,   \* the row sequences of the tables that are appended
  Selections  \* the sets of row indices a client asks to retain

VARIABLES
  rows,       \* the rows of the table, in order
  filled      \* TRUE once the reader has handed the table over

vars == <<rows, filled>>

Init == rows = <<>> /\ filled = FALSE

\* A reader adds the next row of its input.
Insert(r) == ~filled /\ rows' = Append(rows, r) /\ UNCHANGED filled

\* A reader hands over a table it loads in one stroke.
Load(rs) == ~filled /\ rows = <<>> /\ rows' = rs /\ filled' = TRUE

HandOver == ~filled /\ filled' = TRUE /\ UNCHANGED rows

Extend(rs) == filled /\ rows' = rows \o rs /\ UNCHANGED filled

\* e lists every member of S, in increasing order.
Enumerates(e, S) ==
  /\ \A i, j \in DOMAIN e : i < j => e[i] < e[j]
  /\ \A r \in S : \E i \in DOMAIN e : e[i] = r

Retain(S) ==
  /\ filled
  /\ \A r \in S : r < Len(rows)
  /\ \E n \in 0..Len(rows) : \E kept \in [1..n -> S] :
       /\ Enumerates(kept, S)
       /\ rows' = [k \in 1..n |-> rows[kept[k] + 1]]
  /\ UNCHANGED filled

Next ==
  \/ \E r \in Row : Insert(r)
  \/ \E rs \in Whole : Load(rs)
  \/ HandOver
  \/ \E rs \in Operands : Extend(rs)
  \/ \E S \in Selections : Retain(S)

Spec == Init /\ [][Next]_vars
=============================================================================
