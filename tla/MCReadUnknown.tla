--------------------------- MODULE MCReadUnknown ----------------------------
(***************************************************************************)
(* Instances of ReadUnknown: all texts of up to three lines.                 *)
(***************************************************************************)
EXTENDS ReadUnknown

MCComment == [kind |-> "comment", commas |-> 1, tabs |-> 0]
MCBlank == [kind |-> "blank", commas |-> 0, tabs |-> 0]
MCRecord(c, t) == [kind |-> "record", commas |-> c, tabs |-> t]
MCLines == {MCComment, MCBlank} \cup {MCRecord(c, t) : c, t \in 0..1}

MCLineSeqs == UNION {[1..n -> MCLines] : n \in 0..3}

\* An attempt may fail to convert elements that are not column names; and without
\* separators both formats find the same elements.
Consistent(t) ==
  LET recs == {i \in DOMAIN t.lines : t.lines[i].kind = "record"}
  IN  /\ Cardinality(recs) < 2 => t.bad = {}
      /\ (\A i \in recs : t.lines[i].commas + t.lines[i].tabs = 0) => t.bad \in {{}, Formats}

MCTexts ==
  {t \in [magic : {"none"}, lines : MCLineSeqs, terminated : BOOLEAN, bad : SUBSET Formats] :
     Consistent(t)}
  \cup
  [magic : {"hdf5", "fits", "json5", "votable", "ipac"}, lines : {<< >>, <<MCRecord(1, 1)>>},
   terminated : {TRUE}, bad : {{}}]
=============================================================================
