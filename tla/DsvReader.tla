----------------------------- MODULE DsvReader ------------------------------
(***************************************************************************)
(* Table::set_column_info() and Table::read_dsv_rows(): the types of the     *)
(* columns are inferred in one pass over the elements of a parsed document,   *)
(* which are then converted to those types in a second one.                  *)
(*                                                                         *)
(* An element is abstracted to what the conversions make of its text: its     *)
(* form, the number it is in decimal notation (what boost::lexical_cast      *)
(* reads), the number std::stoi reads from it, and its length.  The ranges of *)
(* the integer types are constants.                                         *)
(***************************************************************************)
EXTENDS Integers, Sequences

CONSTANTS
  ByteMax,             \* the greatest uint8_t
  Int64Min, Int64Max,
  UInt64Max,
  Float64,             \* the integers that a double holds
  Element,             \* the elements, whitespace trimmed
  Documents            \* the rows behind the header line

Forms == {"null", "truth", "decimal", "octal", "hex", "real", "word"}

ASSUME ElementAssumption ==
  Element \subseteq [form : Forms, decimal : Int, stoi : Int, len : Nat]

\* parse_dsv() has checked that all records have as many elements.
ASSUME DocumentsAssumption ==
  /\ Documents \subseteq Seq(Seq(Element))
  /\ \A d \in Documents : d # <<>> /\ \A r \in DOMAIN d : d[r] # <<>> /\ Len(d[r]) = Len(d[1])

ASSUME RangesAssumption ==
  /\ ByteMax \in Nat /\ Int64Min \in Int /\ Int64Max \in Nat /\ UInt64Max \in Nat
  /\ 1 <= ByteMax /\ ByteMax <= Int64Max /\ Int64Max < UInt64Max
  /\ -UInt64Max <= Int64Min /\ Int64Min < 0
  /\ Float64 \subseteq Int /\ Float64 # {}

\* Of a byte, std::stoi reads the number that decimal digits are; as decimal digits,
\* those of an octal byte are a number of three digits.
ASSUME ReadingsAssumption ==
  \A e \in Element :
    /\ e.form = "decimal" /\ (e.stoi \in 0..ByteMax \/ e.decimal \in {0, 1}) => e.stoi = e.decimal
    /\ e.form = "octal" /\ e.stoi \in 0..ByteMax => e.decimal \in 0..Int64Max

\* The types in the order of promotion.
Types == <<"INT8_LE", "UINT8_LE", "INT64_LE", "UINT64_LE", "FLOAT64_LE", "CHAR">>

VARIABLES
  doc,
  phase,    \* "inferring", "inserting", "read", "failed"
  r, c,     \* the element at work
  types,    \* the rank in Types of the type of each column
  sizes,    \* the length of the longest element of each column
  rows      \* what the elements inserted so far are stored as

reader_vars == <<doc, phase, r, c, types, sizes, rows>>

Columns == DOMAIN doc[1]

ReaderInit ==
  /\ doc \in Documents
  /\ phase = "inferring" /\ r = 1 /\ c = 1
  /\ types = [k \in Columns |-> 1] /\ sizes = [k \in Columns |-> 1]
  /\ rows = <<>>

Current == doc[r][c]
IsNull(e) == e.form = "null"

----------------------------------------------------------------------------
\* The texts that are written 0 and 1.
Bit(e) == e.form = "decimal" /\ e.decimal \in {0, 1}

\* What boost::lexical_cast reads: digits, octal or not; a minus is allowed for
\* unsigned types too.
IsInteger(e) == e.form \in {"decimal", "octal"}
FitsByte(e) == (IsInteger(e) \/ e.form = "hex") /\ e.stoi \in 0..ByteMax
FitsInt64(e) == IsInteger(e) /\ e.decimal \in Int64Min..Int64Max
FitsUInt64(e) == IsInteger(e) /\ e.decimal \in (-UInt64Max)..UInt64Max

\* The conversion that get_best_data_type() tries succeeds.
Accepts(t, e) ==
  CASE Types[t] = "INT8_LE"    -> Bit(e) \/ e.form = "truth"
    [] Types[t] = "UINT8_LE"   -> FitsByte(e)
    [] Types[t] = "INT64_LE"   -> FitsInt64(e)
    [] Types[t] = "UINT64_LE"  -> FitsUInt64(e)
    [] Types[t] = "FLOAT64_LE" -> IsInteger(e) \/ e.form = "real"
    [] OTHER                   -> TRUE

\* get_best_data_type(): the fallthrough.
PromotedOnce(t, e) == IF IsNull(e) \/ Accepts(t, e) THEN t ELSE t + 1
get_best_data_type(t, e) ==
  IF IsNull(e) THEN t
  ELSE CHOOSE u \in t..Len(Types) :
         Accepts(u, e) /\ \A v \in t..(u - 1) : ~Accepts(v, e)

LastColumn == c = Len(doc[1])
LastRow == r = Len(doc)

\* The element behind the current one; behind the last one, the next pass.
Step(next) ==
  /\ c' = IF LastColumn THEN 1 ELSE c + 1
  /\ r' = IF ~LastColumn THEN r ELSE IF LastRow THEN 1 ELSE r + 1
  /\ phase' = IF LastColumn /\ LastRow THEN next ELSE phase

Width(n) == IF n > sizes[c] THEN n ELSE sizes[c]

\* The sizes follow every element, whatever the type of its column is by then.
Infer ==
  /\ phase = "inferring"
  /\ types' = [types EXCEPT ![c] = get_best_data_type(types[c], Current)]
  /\ sizes' = [sizes EXCEPT ![c] = Width(Current.len)]
  /\ Step("inserting")
  /\ UNCHANGED <<doc, rows>>

----------------------------------------------------------------------------
\* insert_from_ascii(): the conversion to the column's type succeeds, and what
\* is stored then.  std::stoi() need not read all of the text here.
Converts(t, e) ==
  CASE Types[t] = "INT8_LE"  -> Bit(e) \/ e.form = "truth"
    [] Types[t] = "UINT8_LE" -> e.form \notin {"truth", "word"} /\ e.stoi \in 0..ByteMax
    [] OTHER                 -> Accepts(t, e)

ModUInt64(n) == n % (UInt64Max + 1)

\* The double next to an integer; which one, of two that are equally near, makes no
\* difference here.
Distance(m, n) == IF m < n THEN n - m ELSE m - n
Rounded(n) ==
  CHOOSE m \in Float64 : \A other \in Float64 : Distance(m, n) <= Distance(other, n)

ValueOfTheDigits(t, e) == e.decimal

ValueAs(t, e) ==
  CASE Types[t] = "UINT8_LE"  -> e.stoi
    [] Types[t] = "UINT64_LE" -> ModUInt64(e.decimal)
    [] Types[t] = "FLOAT64_LE" -> Rounded(e.decimal)
    [] OTHER                  -> e.decimal

IsChar(t) == Types[t] = "CHAR"

\* Of a string as many characters as the column is wide are stored, and that is
\* the length recorded for it.
StoredAs(t, e, width) ==
  [null  |-> IsNull(e),
   value |-> IF IsNull(e) \/ IsChar(t) THEN 0 ELSE ValueAs(t, e),
   chars |-> IF ~IsChar(t) \/ e.len < width THEN e.len ELSE width,
   size  |-> IF IsNull(e) \/ ~IsChar(t) THEN 0 ELSE width]

WithCell(cell) ==
  IF c = 1 THEN Append(rows, <<cell>>) ELSE [rows EXCEPT ![r] = Append(@, cell)]

Insert ==
  /\ phase = "inserting"
  /\ IsNull(Current) \/ Converts(types[c], Current)
  /\ rows' = WithCell(StoredAs(types[c], Current, sizes[c]))
  /\ Step("read")
  /\ UNCHANGED <<doc, types, sizes>>

InsertThrows ==
  /\ phase = "inserting"
  /\ ~IsNull(Current) /\ ~Converts(types[c], Current)
  /\ phase' = "failed"
  /\ UNCHANGED <<doc, r, c, types, sizes, rows>>

ReaderNext == Infer \/ Insert \/ InsertThrows

ReaderSpec == ReaderInit /\ [][ReaderNext]_reader_vars

----------------------------------------------------------------------------
Elements(k) == {doc[i][k] : i \in DOMAIN doc}
Numeric(k) == ~IsChar(types[k])

\* Elements that were read while the column's type was lower, and that the type
\* it has been promoted to does not hold: a truth value in a column of numbers,
\* a hexadecimal number in a column of other numbers than bytes.
Outgrown(k) ==
  /\ Numeric(k)
  /\ \E e \in Elements(k) :
       \/ e.form = "truth" /\ Types[types[k]] # "INT8_LE"
       \/ e.form = "hex" /\ Types[types[k]] # "UINT8_LE"

\* Promotion never goes back to the elements that have been read, so the second
\* pass can fail; it fails exactly for these documents.
FailsExactlyIfOutgrown ==
  /\ phase = "failed" => \E k \in Columns : Outgrown(k)
  /\ phase = "read" => \A k \in Columns : ~Outgrown(k)

\* Octal bytes, negative numbers in a column of unsigned ones, and integers that a
\* double does not hold in a column of doubles.
Misread(t, e) ==
  \/ Types[t] = "UINT8_LE" /\ e.form = "octal" /\ e.stoi # e.decimal
  \/ Types[t] = "UINT64_LE" /\ e.decimal < 0
  \/ Types[t] = "FLOAT64_LE" /\ e.decimal \notin Float64

\* No string is cut short: the width of a column covers the elements that were read
\* while its type was still numeric.  A number is stored as the number that its
\* digits are, unless it is written in octal in a column of bytes, or negative in
\* a column of unsigned numbers, or none that a double holds in a column of doubles:
\* a single fraction makes doubles of all the integers of its column.
StoredAsWrittenUnlessMisread ==
  \A i \in DOMAIN rows : \A k \in DOMAIN rows[i] :
    LET e == doc[i][k]
    IN  /\ rows[i][k].chars = e.len
        /\ IsInteger(e) /\ Numeric(k) => (rows[i][k].value = e.decimal <=> ~Misread(types[k], e))
=============================================================================
