-------------------------------- MODULE MCDsv --------------------------------
(***************************************************************************)
(* The parts of reading and writing CSV and TSV side by side, each on its own  *)
(* instances: the parser on streams and written tables, the conversion of      *)
(* documents, the guessing of the format.  One of them is at work; the others   *)
(* stay in an initial state.                                                *)
(***************************************************************************)
EXTENDS MCDsvRoundTrip, MCDsvReader, MCReadUnknown

VARIABLE machine

parser_vars == <<vars, table>>

ParserRests == Init /\ state = "ParseCompleted" /\ table = NoTable
ReaderRests == doc = << <<Null>> >> /\ ReaderInit
UnknownRests == text = [magic |-> "none", lines |-> <<>>, terminated |-> TRUE, bad |-> {}]
                /\ source = "path" /\ UnknownInit

DsvInit ==
  \/ machine = "parser" /\ ReaderRests /\ UnknownRests /\ RoundTripInit
  \/ machine = "reader" /\ ParserRests /\ UnknownRests /\ ReaderInit
  \/ machine = "unknown" /\ ParserRests /\ ReaderRests /\ UnknownInit

DsvNext ==
  /\ UNCHANGED machine
  /\ \/ machine = "parser" /\ RoundTripNext /\ UNCHANGED <<reader_vars, unknown_vars>>
     \/ machine = "reader" /\ ReaderNext /\ UNCHANGED <<parser_vars, unknown_vars>>
     \/ machine = "unknown" /\ UnknownNext /\ UNCHANGED <<parser_vars, reader_vars>>

DsvSpec == DsvInit /\ [][DsvNext]_<<machine, parser_vars, reader_vars, unknown_vars>>
=============================================================================
