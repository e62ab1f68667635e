------------------------------- MODULE MCFits -------------------------------
(* Small tables for Fits: two slices of metadata, one of labelled properties   *)
(* in every order and one of everything else, with a column or two of no rows, *)
(* and a slice of columns and cells.                                         *)
EXTENDS Fits

\* In the order of ASCII.
MCAlphabet == <<"", "<xmlattr>", "COOSYS", "DATE", "END_INFO_MARKER", "ID", "IMAGE", "INFO",
                "LINK", "LONGSTRN", "PRIMARY_EXTNAME", "RESOURCE", "TABLE", "TABLE_EXTNAME",
                "VOKW0", "VOKW1", "VOKW2", "VOKW3", "VOKW4", "VOKW5", "VOKW6", "VOKW7", "VOKW8",
                "VOKW9", "VOKW10", "VOKW11", "VOKW12", "VOKW13", "VOKW14", "VOKW15", "VOKW16",
                "VOKW17", "VOTABLE", "ZP", "a", "arraysize", "b", "comment", "datatype", "name",
                "type", "ucd", "unit", "value", "version">>
MCUcdOf == [DATE |-> "time.creation"]

MCCharacters == {"x", " "} \cup {ToString(n) : n \in 0..MaxU64}

AnInfo(name) == Property([name |-> name, value |-> "1"], "")
Plain(key) == Labeled(<<key>>, Property([value |-> "1"], ""))

MCLabeled == {<<>>, <<Labeled(<<"INFO">>, AnInfo("a"))>>,
              <<Labeled(<<"COOSYS">>, Property([ID |-> "1"], "")),
                Labeled(<<"COOSYS">>, Property([ID |-> "2", ucd |-> "3"], ""))>>}
MCResource ==
  {Plain("ZP"), Plain("IMAGE"), Plain("DATE"), Plain("LINK"),
   Labeled(<<"IMAGE">>, Property([value |-> "1", comment |-> "2", ucd |-> "3"], "")),
   Labeled(<<"INFO">>, AnInfo("b")),
   Labeled(<<"INFO">>, Property([value |-> "1"], "")),
   Labeled(<<"IMAGE">>, Property(NoAttributes, "1")),
   Labeled(<<"COOSYS">>, Property([ID |-> "1", ucd |-> ""], ""))}

Params(names) == {[name |-> n, datatype |-> "INT32_LE", arraysize |-> "2",
                   attrs |-> NoAttributes] : n \in names}
Fields(names) == {[name |-> n, attrs |-> a] :
                    n \in names, a \in {NoAttributes, [ucd |-> "1"], [ID |-> "1", ucd |-> "2"]}}
EmptyUnit == {<<[name |-> "a", attrs |-> [ID |-> "1", unit |-> ""]]>>}
Pairs(A, B) == {<<>>} \cup {<<x>> : x \in A} \cup {<<x, y>> : x \in A, y \in B}

Metadata ==
     {[NoMetadata EXCEPT !.labeled = l, !.resource = r, !.attrs.resource = a] :
        l \in MCLabeled, r \in SeqOf(MCResource, 2), a \in {NoAttributes, [type |-> "results"]}}
  \cup
     {[NoMetadata EXCEPT !.resource = r, !.infos.votable = v, !.infos.resource = s,
                         !.attrs.votable = a, !.attrs.table = b, !.params = p, !.fields = f] :
        r \in {<<>>, <<Plain("ZP")>>},
        v \in {<<>>, <<AnInfo("a")>>}, s \in {<<>>, <<AnInfo("a"), AnInfo("b")>>},
        a \in {NoAttributes, [version |-> "1"]}, b \in {NoAttributes, [name |-> "1"]},
        p \in Pairs(Params({"a"}), Params({"b"})),
        f \in Pairs(Fields({"a"}), Fields({"b"})) \cup EmptyUnit}

Col(name, type, size, null, attrs) ==
  [name |-> name, type |-> type, size |-> size, null |-> null, attrs |-> attrs]
Start(m, cols, rs) == [meta |-> m, columns |-> cols, rows |-> rs]

\* A table without rows: the columns are those of its FIELDs if it has any.
CharColumn(name, attrs) == Col(name, "CHAR", 1, DEFAULT_NULL_VALUE, attrs)
Unfilled(m) ==
  Start(m, IF m.fields = <<>> THEN <<CharColumn("z", NoAttributes)>>
           ELSE [i \in DOMAIN m.fields |-> CharColumn(m.fields[i].name, m.fields[i].attrs)],
        <<>>)

Elements(type) == CASE type \in Integers6 -> 0..Max64
                    [] type = "UINT64_LE" -> 0..MaxU64
                    [] type = "INT8_LE" -> {0, 1}
                    [] type \in Floats -> {0, NaN}
                    [] OTHER -> {"x", " "}
CellsOfColumn(col) ==
  {NullCell(col.type, col.size)}
  \cup {Cell(FALSE, e) : e \in IF col.type = "CHAR" THEN SeqOf({"x", " "}, col.size)
                               ELSE [1..col.size -> Elements(col.type)]}

MCColumns ==
     {Col("a", t, n, d, NoAttributes) : t \in {"UINT8_LE", "INT64_LE", "UINT64_LE"}, n \in 1..2,
                                        d \in {DEFAULT_NULL_VALUE, <<0>>, <<1>>}}
  \cup {Col("a", "UINT16_LE", n, d, NoAttributes) : n \in 1..2, d \in {DEFAULT_NULL_VALUE, <<1>>}}
  \cup {Col("a", t, 2, DEFAULT_NULL_VALUE, NoAttributes) : t \in {"INT8_LE", "FLOAT64_LE", "CHAR"}}
Second == Col("b", "UINT8_LE", 1, <<1>>, [unit |-> "1"])

\* A column of any type in front of one with a declared null value and a unit,
\* from a VOTable or from a format without FIELDs, with no row to two.
Filled ==
     UNION {{Start(NoMetadata, <<col, Second>>, rs) :
                 rs \in {<<>>} \cup {<<<<x, Cell(FALSE, <<0>>)>>>> : x \in CellsOfColumn(col)}
                       \cup {<<<<x, NullCell("UINT8_LE", 1)>>, <<y, Cell(FALSE, <<1>>)>>>> :
                               x, y \in {z \in CellsOfColumn(col) : col.size = 1}}} : col \in MCColumns}
  \cup {Start([NoMetadata EXCEPT !.fields = <<[name |-> "b", attrs |-> Second.attrs @@ [ID |-> "1"]]>>],
              <<[Second EXCEPT !.attrs = @ @@ [ID |-> "1"]]>>, rs) : rs \in {<<>>, <<<<Cell(FALSE, <<0>>)>>>>}}

\* Two columns of one name, with different units and with the same.
Namesakes == UNION {LET attrs == <<[unit |-> "1"], [unit |-> u]>> IN
  {Start([NoMetadata EXCEPT !.fields = [i \in 1..2 |-> [name |-> "b", attrs |-> attrs[i]]]],
         [i \in 1..2 |-> Col("b", "UINT8_LE", 1, DEFAULT_NULL_VALUE, attrs[i])], rs) :
     rs \in {<<>>, <<<<Cell(FALSE, <<0>>), Cell(FALSE, <<1>>)>>>>}} : u \in {"1", "2"}}

MCStarts == {Unfilled(m) : m \in Metadata} \cup Filled \cup Namesakes

PlainKeyword1(key) == Keyword(<<key>>, <<>>, "1", "")
FitsCol(type, size, width, unit, tnull) ==
  [name |-> "a", type |-> type, size |-> size, width |-> width, unit |-> unit, tnull |-> tnull]
File(keys, cols, rs) == [hdus |-> keys, columns |-> cols, rows |-> rs]
Keys(name1, keys1, name2, keys2) ==
  <<[name |-> name1, keys |-> keys1], [name |-> name2, keys |-> keys2]>>
NoKeys == Keys("", <<>>, "Table", <<>>)

MCFitsFiles ==
     {File(Keys(x, p, y, t), <<FitsCol("INT8_LE", 1, 1, "", <<>>)>>, <<>>) :
        x \in {"", "IMG"}, y \in {"Table", "CAT"},
        p \in {<<>>, <<PlainKeyword1("DATE")>>},
        t \in {<<>>, <<PlainKeyword1("ZP"), Keyword(<<"DATE">>, <<>>, "1", "2")>>,
               <<PlainKeyword1("LINK"), PlainKeyword1("LONGSTRN"), PlainKeyword1("ZP")>>}}
  \cup
     {File(NoKeys, <<FitsCol("CHAR", 6, 2, "", <<>>)>>, <<<<x>>>>) :
        x \in [1..3 -> {NUL, <<>>, <<"x">>, <<"x", "x">>}]}
  \cup {File(NoKeys, <<FitsCol("CHAR", 5, 2, "", <<>>)>>, <<<<x>>>>) : x \in {<<NUL, NUL>>}}
  \cup {File(NoKeys, <<FitsCol("INT64_LE", 1, 1, "1", t), FitsCol("COMPLEX", 1, 1, "", <<>>)>>, <<>>) :
           t \in {<<>>, <<0>>}}
  \cup {File(NoKeys, <<FitsCol(type, 2, 2, "1", t)>>, <<<<x>>>>) :
           type \in {"INT64_LE", "UINT32_LE"}, t \in {<<>>, <<0>>, <<Max64>>}, x \in [1..2 -> 0..Max64]}
=============================================================================
