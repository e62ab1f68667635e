--------------------------- MODULE MCDsvRoundTrip ---------------------------
(***************************************************************************)
(* Instances of DsvRoundTrip: all short streams of one to three lines, and    *)
(* the streams of all tables of a few short strings.                         *)
(***************************************************************************)
EXTENDS DsvRoundTrip

StringsUpTo(chars, n) == UNION {[1..k -> chars] : k \in 0..n}

MCPlain == {"x"}
LineChars == {"x", "comma", DOUBLE_QUOTE, SINGLE_QUOTE, CARRIAGE_RETURN}
OneQuoteChars == {"x", "comma", DOUBLE_QUOTE}
QuotedLineChars == {"x", DOUBLE_QUOTE, CARRIAGE_RETURN}

\* One line of up to five characters, two of up to four and three, three of up to two.
MCStreams ==
  {<<>>}
  \cup {<<a>> : a \in StringsUpTo(LineChars, 5)}
  \cup {<<a, b>> : a \in StringsUpTo(OneQuoteChars, 4), b \in StringsUpTo(OneQuoteChars, 3)}
  \cup {<<a, b>> : a, b \in StringsUpTo(QuotedLineChars, 3)}
  \cup {<<a, b, c>> : a \in StringsUpTo(OneQuoteChars, 2), b \in StringsUpTo(OneQuoteChars, 2),
                      c \in StringsUpTo(OneQuoteChars, 2)}

CellChars == LineChars \cup {Newline}
x == <<"x">>

\* Tables of one column with two cells, and of two columns with one row or with
\* any pair of column names.
MCTables ==
  {<< <<x>>, <<a>>, <<b>> >> : a, b \in StringsUpTo(CellChars, 2)}
  \cup {<< <<x, x>>, <<a, b>> >> : a \in StringsUpTo(CellChars, 3), b \in StringsUpTo(CellChars, 2)}
  \cup {<< <<a, b>>, <<x, x>> >> : a, b \in StringsUpTo(CellChars, 2)}
=============================================================================
