---------------------------- MODULE MCDsvReader -----------------------------
(***************************************************************************)
(* Instances of DsvReader: bytes up to 8, integers from -16 to 15 and        *)
(* unsigned integers up to 31, doubles with mantissas up to 8, and one       *)
(* element for every way a text fares under the conversions.                *)
(***************************************************************************)
EXTENDS DsvReader

MCInt64Min == -16

\* Exact up to 8, and less dense behind it than the integers.
MCFloat64 == {m * 2^k : m \in -8..8, k \in 0..3}

TextOf(form, decimal, stoi, len) == [form |-> form, decimal |-> decimal, stoi |-> stoi, len |-> len]
Decimal(n, len) == TextOf("decimal", n, n, len)

Empty    == TextOf("null", 0, 0, 0)
Null     == TextOf("null", 0, 0, 4)      \* "null"
Yes      == TextOf("truth", 1, 0, 4)     \* "true"
Octal    == TextOf("octal", 10, 8, 3)    \* "010"
Hex      == TextOf("hex", 5, 5, 3)       \* "0x5"
HexLong  == TextOf("hex", 10, 10, 3)     \* no byte
Real     == TextOf("real", 2, 2, 3)      \* "2.5"
Word     == TextOf("word", 0, 0, 2)

Decimals == {Decimal(1, 1), Decimal(7, 1), Decimal(12, 2), Decimal(13, 2), Decimal(20, 2), Decimal(-3, 2), Decimal(40, 2)}

MCElements == {Empty, Null, Yes, Octal, Hex, HexLong, Real, Word} \cup Decimals

\* One column of up to four elements, and two columns of two.
Columned(n, w, elements) == [1..n -> [1..w -> elements]]
MCDocuments ==
  UNION {Columned(n, 1, MCElements) : n \in 1..4}
  \cup Columned(2, 2, {Null, Yes, Hex, Word, Octal, Decimal(7, 1), Decimal(12, 2)})
=============================================================================
