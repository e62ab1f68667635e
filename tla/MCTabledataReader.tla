------------------------- MODULE MCTabledataReader --------------------------
(***************************************************************************)
(* Instances of TabledataReader: a column of every kind alone, and two        *)
(* columns of variable length beside each other.                            *)
(***************************************************************************)
EXTENDS TabledataReader

Of(type, size) ==
  [char |-> type = "char", byte |-> type = "byte", single |-> size = "1", dyn |-> size = "*"]

MCTables ==
  {<<Of(type, size)>> : type \in {"char", "byte", "int"}, size \in {"1", "n", "*"}}
  \cup {<<Of("char", "*"), Of("int", "*")>>}
=============================================================================
