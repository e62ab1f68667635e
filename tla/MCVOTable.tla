----------------------------- MODULE MCVOTable ------------------------------
(* Small files and tables for VOTable.                                       *)
EXTENDS VOTable

Attrs(attrs) == IF attrs = NoAttributes THEN <<>>
                ELSE <<Tree(XMLATTR, [i \in 1..Cardinality(DOMAIN attrs) |->
                        LET name == SetToSeq(DOMAIN attrs)[i] IN Leaf(name, attrs[name])])>>

Info(name)  == Tree("INFO", Attrs([name |-> name, value |-> "v"]))
Type(value) == Tree("INFO", Attrs([name |-> "type", value |-> value]))
Remark      == [Info("remark") EXCEPT !.text = "text"]
Link        == Tree("LINK", Attrs([href |-> "h"]))
Coosys      == Tree("COOSYS", Attrs([system |-> "s"]))

Field(label, name, type, attrs, kids) ==
    Tree(label, Attrs([name |-> name, datatype |-> type] @@ attrs) \o kids)

Sized    == [arraysize |-> "3", ucd |-> "u"]
Nulls    == Tree("VALUES", Attrs([null |-> "-9"]))
Ranged   == Tree("VALUES", <<Tree("MIN", Attrs([value |-> "1"])),
                             Tree("OPTION", Attrs([name |-> "o"]))>>)
Chosen   == Tree("VALUES", Attrs([ID |-> "i"]) \o
                 <<Tree("OPTION", Attrs([name |-> "o"]) \o
                        <<Tree("OPTION", Attrs([value |-> "p"]))>>)>>)
Hdf5Link == Tree("LINK", Attrs(Hdf5Name :> "l"))

Plain1   == Field("FIELD", "a", "int", NoAttributes, <<>>)
Group    == Tree("GROUP", Attrs([name |-> "g"]) \o
                 <<Leaf("DESCRIPTION", "d"),
                   Field("PARAM", "p", "double", NoAttributes, <<>>),
                   Tree("PARAMref", Attrs([ref |-> "p"])),
                   Tree("FIELDref", Attrs([ref |-> "a"]))>>)
Param    == Field("PARAM", "q", "uint", [value |-> "1"], <<Leaf("DESCRIPTION", "d")>>)

Fieldss == {<<Plain1>>,
            <<Field("FIELD", "b", "ulong", Sized, <<Nulls>>),
              Field("FIELD", "c", "ushort", NoAttributes, <<Nulls, Link>>)>>,
            <<Field("FIELD", "d", "char", [arraysize |-> "*"], <<Chosen, Hdf5Link, Link>>)>>,
            <<Plain1, Field("FIELD", "e", "short", NoAttributes, <<Ranged>>)>>,
            <<Field("FIELD", "f", "int", [arraysize |-> "2x3"], <<>>)>>}

Table(fields, rows, infos) ==
    Tree("TABLE", <<Group>> \o fields \o <<Tree("DATA", <<Leaf("TABLEDATA", rows)>>)>> \o infos)

Resource(attrs, kids) == Tree("RESOURCE", Attrs(attrs) \o kids)
Doc(kids) == [format |-> "votable",
              tree   |-> Tree("VOTABLE", Attrs([version |-> "1.3"]) \o kids)]

Simple == Table(<<Plain1>>, "rows", <<>>)
Meta   == Resource([type |-> "meta"], <<Info("m"), Param>>)
Results1 == Resource([type |-> "results"], <<Simple>>)

\* Files that vary in the columns.
FieldDocuments ==
    {Doc(<<Resource(NoAttributes, <<Table(fields, rows, <<>>)>>)>>) :
        fields \in Fieldss, rows \in {"rows", "large"}}

\* Files that vary in the sections of the results resource and in trailing infos.
SectionDocuments ==
    {Doc(<<Resource(attrs, desc \o top \o pre \o links \o
                    <<Table(<<Plain1>>, "rows", inTable)>> \o after)>>) :
        attrs \in {NoAttributes, [name |-> "n"]},
        desc \in {<<>>, <<Leaf("DESCRIPTION", "d")>>},
        top \in {<<>>, <<Info("i")>>, <<Info("ID"), Info("i")>>, <<Type("meta")>>},
        pre \in {<<>>, <<Param, Group>>, <<Coosys>>},
        links \in {<<>>, <<Link>>},
        inTable \in {<<>>, <<Info("name")>>},
        after \in {<<>>, <<Info("t")>>, <<Info("utype")>>}}

\* Files that vary in what stands before and after the resources.
OuterDocuments ==
    {Doc(pre \o resources \o after) :
        pre \in {<<>>, <<Leaf("DESCRIPTION", "d"), Info("i")>>, <<Remark>>, <<Coosys, Param, Group>>,
                 <<Link>>},
        resources \in {<<>>, <<Meta>>, <<Results1>>, <<Results1, Meta>>, <<Meta, Results1>>,
                       <<Results1, Results1>>,
                       <<Resource(NoAttributes, <<Info("n")>>), Results1>>,
                       <<Resource(NoAttributes, <<Type("meta")>>), Results1>>,
                       <<Resource([type |-> "meta"], <<Simple>>)>>},
        after \in {<<>>, <<Info("t")>>, <<Info("name")>>}}

\* JSON files with arrays of resources.
Arrays == {<<>>, <<Meta>>, <<Meta, Meta>>}
Untagged(trees) == Tree("RESOURCE_ARRAY", [i \in DOMAIN trees |-> [trees[i] EXCEPT !.tag = ""]])
ArrayDocuments ==
    {[format |-> "json", tree |-> Doc(kids).tree] :
        kids \in {<<Untagged(a), Untagged(b), Results1>> : a, b \in Arrays}
                 \cup {<<Untagged(a), Untagged(b \o <<Results1>> \o b), Meta>> : a, b \in Arrays}
                 \cup {<<Meta, Untagged(a), Meta, Results1, Untagged(b)>> : a, b \in Arrays}}

MCDocuments == FieldDocuments \cup SectionDocuments \cup OuterDocuments \cup ArrayDocuments

\* Tables read from IPAC files with keywords.
IpacField(name, type) ==
    [name |-> name, type |-> type, size |-> "1", attrs |-> NoAttributes, desc |-> "",
     values |-> EmptyValues, links |-> <<>>, hdf5_links |-> <<>>]

IpacTable(keywords, comments) ==
    LET prop(k) == [label |-> k, prop |-> Property("v", NoAttributes)]
        te == [attrs |-> NoAttributes, desc |-> "", groups |-> <<>>, params |-> <<>>,
               fields |-> <<IpacField("a", "ulong"), IpacField("b", "double")>>,
               rows |-> "rows", large |-> FALSE, trailing |-> <<>>]
        all == Map(prop, keywords)
        r  == [type |-> "results", attrs |-> NoAttributes, desc |-> "",
               props |-> SelectSeq(all, LAMBDA p : p.label \notin PROPERTY_STYLE_LABELS),
               params |-> <<>>, groups |-> <<>>, tables |-> <<te>>, trailing |-> <<>>]
    IN  [EmptyTable EXCEPT !.comments = comments, !.resources = <<r>>,
             !.props = SelectSeq(all, LAMBDA p : p.label \in PROPERTY_STYLE_LABELS)]

MCOtherTables == {IpacTable(ks, comments) : ks \in {<<>>, <<"k">>, <<"k", "type">>, <<"INFO">>,
                                                    <<"COOSYS", "k">>, <<"LINK">>},
                                            comments \in {"", "c"}}
=============================================================================
