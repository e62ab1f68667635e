--------------------------- MODULE MCDataDetails ----------------------------
(***************************************************************************)
(* Instances of DataDetails for TLC.  Three contents of a row with          *)
(* different lengths, so that every mix-up of bytes and lengths shows.      *)
(***************************************************************************)
EXTENDS DataDetails

\* One dynamic column; "z" is the row of zero bytes.
MCData == {"z", "a", "b"}
MCSizesOf == [d \in MCData |-> CASE d = "z" -> <<0>> [] d = "a" -> <<1>> [] OTHER -> <<2>>]

\* Tables to append: loaded row by row, so that every row has its lengths.
OperandOf(rs) == [data |-> rs, sizes |-> SizesOfRows(rs)]
MCOperands == {OperandOf(<<"a">>), OperandOf(<<"b", "z">>)}

MCAllSelections == SUBSET (0..3) \ {{}}

MCSafeSelections == {S \in MCAllSelections : SafeSelection(S)}
=============================================================================
