--------------------------- MODULE MCIpacRoundTrip ---------------------------
(***************************************************************************)
(* Instances of IpacRoundTrip: the headers of files that nobody wrote, with a *)
(* string column with a null value beside a column of numbers, two string     *)
(* columns, and numbers alone; Tables with every kind of column, cell,        *)
(* keyword and comment; and every way to ask for a part of them.              *)
(***************************************************************************)
EXTENDS IpacRoundTrip

Col(char, width, marked) == [char |-> char, width |-> width, marked |-> marked]

MCHeaders ==
  { <<Col(TRUE, 3, TRUE)>>,
    <<Col(TRUE, 2, TRUE), Col(FALSE, 1, FALSE)>>,
    <<Col(TRUE, 2, FALSE), Col(TRUE, 1, FALSE)>>,
    <<Col(FALSE, 1, TRUE), Col(FALSE, 1, FALSE)>> }

----------------------------------------------------------------------------
Txt(n)         == [len |-> n, core |-> n, word |-> "", large |-> FALSE]
Padded(n, m)   == [len |-> n, core |-> m, word |-> "", large |-> FALSE]
Marker(n)      == [len |-> n, core |-> n, word |-> "marker", large |-> FALSE]
TheWordNull    == [len |-> 4, core |-> 4, word |-> "null", large |-> FALSE]
Big            == [len |-> 20, core |-> 20, word |-> "", large |-> TRUE]
Null           == [null |-> TRUE, texts |-> <<>>]
Cell(t)        == [null |-> FALSE, texts |-> <<t>>]
Cells(ts)      == [null |-> FALSE, texts |-> ts]

Field(name, type, size) ==
  [name |-> name, type |-> type, size |-> size, unit |-> "", attrs |-> FALSE, desc |-> <<>>,
   null_text |-> 0, null_blank |-> FALSE, bar |-> ""]
WithUnit(f, unit)   == [f EXCEPT !.unit = unit, !.attrs = TRUE]
Described(f, words) == [f EXCEPT !.desc = words]
WithNull(f, n)      == [f EXCEPT !.null_text = n]
WithBlankNull(f, n) == [f EXCEPT !.null_text = n, !.null_blank = TRUE]
Barred(f, where)    == [f EXCEPT !.bar = where]

Prop(label, attrs, value) == [label |-> label, attrs |-> attrs, value |-> value]
Keyword(name, value) == Prop("INFO", <<<<"name", name>>, <<"value", value>>>>, <<>>)

NoMeta == [attributes |-> <<>>, resource_props |-> <<>>, props |-> <<>>,
           description |-> <<>>, comments |-> <<>>, table_description |-> <<>>]

\* Strings: null, empty, padded, the null value, the default null value.
StringCells(f) ==
  {Null, Cell(Txt(0)), Cell(Txt(5)), Cell(Padded(3, 2)), Cell(Padded(2, 0)), Cell(TheWordNull)}
  \cup IF f.null_text = 2 /\ ~f.null_blank THEN {Cell(Marker(2))} ELSE {}
StringFields == {Field("s", "char", 5), WithNull(Field("s", "char", 5), 2),
                 WithBlankNull(Field("s", "char", 5), 2)}

Strings1 == UNION {{[meta |-> NoMeta, fields |-> <<f>>, rows |-> <<<<c>>, <<Cell(Txt(5))>>>>] :
                      c \in StringCells(f)} : f \in StringFields}

\* Numbers beside strings.
NumberCells == {Null, Cell(Txt(1)), Cell(Marker(2))}
Mixed == {[meta |-> NoMeta, fields |-> <<f, WithNull(Field("n", "int16", 1), 2)>>,
           rows |-> <<<<c, n>>, <<Cell(Txt(1)), Cell(Txt(3))>>>>] :
               f \in StringFields, c \in {Null, Cell(Txt(0))}, n \in NumberCells}

\* Arrays, some of them shorter than their column; numbers of 64 bits.
Arrays == {[meta |-> NoMeta, fields |-> <<WithUnit(Field("coord", "float64", 2), "m"), Field("u", "uint64", size)>>,
            rows |-> <<<<a, u>>>>] :
              a \in {Null, Cells(<<Txt(9), Txt(1)>>), Cells(<<Txt(2)>>)},
              size \in {1, 2}, u \in {Null, Cell(Big), Cells(<<Txt(3), Txt(4)>>)}}

ArraysInRange == {t \in Arrays : Len(t.rows[1][2].texts) <= t.fields[2].size /\
                                 (t.fields[2].size = 1 => Len(t.rows[1][2].texts) < 2)}

\* A table that was made elsewhere, with keywords, comments and descriptions.
Catalog(meta) ==
  [meta |-> meta,
   fields |-> <<Described(WithUnit(Field("ra", "float64", 1), "deg"), <<"right", "ascension">>),
                Described(Field("err", "float64", 1), <<"error", "of", "ra">>),
                WithUnit(Field("flux", "int64", 1), "Jy")>>,
   rows |-> <<<<Cell(Txt(6)), Cell(Txt(3)), Null>>, <<Cell(Txt(7)), Cell(Txt(3)), Cell(Txt(2))>>>>]

Metas ==
  { NoMeta,
    [NoMeta EXCEPT !.attributes = <<<<"type", <<"results">>>>>>,
                   !.resource_props = <<Keyword(<<"CATALOG">>, <<"x">>),
                                        Prop("ORIGIN", <<<<"comment", <<"c">>>>, <<"value", <<"v">>>>>>, <<>>)>>,
                   !.comments = <<<<<<"ra", "is", "large">>>>, <<<<"a", "ra">>, <<"b">>>>>>],
    [NoMeta EXCEPT !.resource_props = <<Keyword(<<"FIXLEN">>, <<"T">>)>>,
                   !.description = <<<<"about">>>>],
    [NoMeta EXCEPT !.resource_props = <<Keyword(<<"a", EQUAL, "b">>, <<"x">>)>>],
    [NoMeta EXCEPT !.resource_props = <<Keyword(<<"Q">>, <<QUOTE, "x", QUOTE, "y">>)>>],
    [NoMeta EXCEPT !.resource_props = <<Keyword(<<>>, <<"x">>)>>],
    [NoMeta EXCEPT !.props = <<Keyword(<<>>, <<"x">>)>>],
    [NoMeta EXCEPT !.props = <<Keyword(<<"RowsRetrieved">>, <<"9">>), Prop("LINK", <<<<"href", <<"h">>>>>>, <<"text">>)>>,
                   !.table_description = <<<<"flux", "(Jy)">>, <<>>>>],
    [NoMeta EXCEPT !.props = <<Prop(JSON_DESC_LABEL, <<>>, <<"ra", "(deg)">>)>>,
                   !.resource_props = <<Prop("LINK", <<<<"href", <<"h">>>>, <<"id", <<"i">>>>>>, <<"text">>),
                                        Prop("INFO", <<<<"comment", <<"c">>>>, <<"name", <<"K">>>>, <<"value", <<>>>>>>, <<>>)>>] }

Catalogs == {Catalog(meta) : meta \in Metas}

Bars == {[meta |-> NoMeta, fields |-> <<Barred(Field("a", "int32", 1), where), Field("b", "int32", 1)>>,
          rows |-> <<>>] : where \in {"name", "unit", "null"}}

MCTables == Strings1 \cup Mixed \cup ArraysInRange \cup Catalogs \cup Bars

----------------------------------------------------------------------------
MCEverything == [column_list |-> <<>>, row_list |-> <<>>, row_id |-> Unspecified,
                 start_row |-> Unspecified, row_count |-> Unspecified, skip_comments |-> FALSE]

MCRequests ==
  { [MCEverything EXCEPT !.skip_comments = TRUE],
    [MCEverything EXCEPT !.column_list = <<2>>],
    [MCEverything EXCEPT !.column_list = <<3, 1>>, !.row_list = <<1, 0>>],
    [MCEverything EXCEPT !.column_list = <<9>>],
    [MCEverything EXCEPT !.column_list = <<9, 1, 1>>, !.row_list = <<0, 0>>],
    [MCEverything EXCEPT !.row_list = <<0, 5>>],
    [MCEverything EXCEPT !.row_id = 1],
    [MCEverything EXCEPT !.row_id = 7],
    [MCEverything EXCEPT !.start_row = 1, !.row_count = 5],
    [MCEverything EXCEPT !.start_row = 0, !.row_count = 1],
    [MCEverything EXCEPT !.start_row = 7] }
=============================================================================
