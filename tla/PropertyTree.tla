---------------------------- MODULE PropertyTree ----------------------------
(* The property tree in which tablator holds the structure of a VOTable or   *)
(* JSON file: the in-memory Table on one side, the tree on the other, the    *)
(* writer's functions that build the one from the other, and what a tree     *)
(* becomes once written to a file and parsed again (the parsers are          *)
(* Boost's).                                                                 *)
(*                                                                           *)
(* A tree is [tag, text, kids].  Attributes are the kids of a kid tagged     *)
(* XMLATTR.  In JSON, like elements are gathered under one kid, whose tag    *)
(* ends in _ARRAY and whose own kids are untagged.                           *)
EXTENDS Integers, FiniteSets, Sequences, SequencesExt, Functions

XMLATTR == "<xmlattr>"

ARRAY_OF == [INFO |-> "INFO_ARRAY", FIELD |-> "FIELD_ARRAY", PARAM |-> "PARAM_ARRAY",
             GROUP |-> "GROUP_ARRAY", LINK |-> "LINK_ARRAY", OPTION |-> "OPTION_ARRAY",
             RESOURCE |-> "RESOURCE_ARRAY", COOSYS |-> "COOSYS_ARRAY",
             TIMESYS |-> "TIMESYS_ARRAY", FIELDref |-> "FIELDref_ARRAY"]

PROPERTY_STYLE_LABELS == {"COOSYS", "INFO", "TIMESYS", "LINK"}

\* The resource attributes an INFO element may stand for, whatever the case of
\* their letters; "id" is one other spelling.
AttributeNames == {"type", "utype", "name", "ID", "id"}

\* An attribute name with the prefix HDF5_LINK, and the rest of it.  It stands for
\* every name with a dot.
Hdf5Name == "hdf5.link.path"
Hdf5Key  == "path"

Leaf(tag, text) == [tag |-> tag, text |-> text, kids |-> <<>>]
Tree(tag, kids) == [tag |-> tag, text |-> "", kids |-> kids]

NoAttributes == [n \in {} |-> ""]

-----------------------------------------------------------------------------
(* The elements of a Table.                                                  *)

Property(value, attrs) == [value |-> value, attrs |-> attrs]

NoMinMax    == [value |-> "", inclusive |-> TRUE]
EmptyValues == [ID |-> "", type |-> "", null |-> "", ref |-> "",
                min |-> NoMinMax, max |-> NoMinMax, options |-> <<>>]

EmptyExceptNull(v) == /\ v.min.value = "" /\ v.max.value = ""
                      /\ v.ID = "" /\ v.type = "" /\ v.ref = ""
                      /\ v.options = <<>>

Option(name, value, options) == [name |-> name, value |-> value, options |-> options]

EmptyOption(o) == o.name = "" /\ o.value = "" /\ o.options = <<>>

\* tablator's own null value of an integer type is written "default" here; any other
\* number is a null value that a file may declare.
IntegerTypes == {"unsignedByte", "short", "ushort", "int", "uint", "long"}
is_non_default_integer_null_str(null, type) ==
    type \in IntegerTypes /\ null \notin {"", "default", "not a number"}

-----------------------------------------------------------------------------
(* Building a tree: its kids are listed in the order in which the writer     *)
(* adds them.  An entry is a kid, or goes into the kid of a tag, which the   *)
(* first such entry creates: attributes into XMLATTR and, in JSON, like      *)
(* elements into their array.                                                *)

IndexOfKid(tree, tag) == SelectInSeq(tree.kids, LAMBDA kid : kid.tag = tag)

AddKid(tree, kid) == [tree EXCEPT !.kids = Append(@, kid)]

KidEntry(kid)       == [into |-> "", kid |-> kid]
IntoEntry(tag, kid) == [into |-> tag, kid |-> kid]

AddEntry(tree, entry) ==
    LET at == IndexOfKid(tree, entry.into)
    IN  IF entry.into = "" THEN AddKid(tree, entry.kid)
        ELSE IF at = 0 THEN AddKid(tree, Tree(entry.into, <<entry.kid>>))
        ELSE [tree EXCEPT !.kids[at] = AddKid(@, entry.kid)]

Build(tag, text, entries) == FoldLeft(AddEntry, Leaf(tag, text), entries)

\* Mutant of find_or_add_tree: an element is never in an array.
add_tree_always(label, trees, json_prep) ==
    [i \in DOMAIN trees |-> KidEntry([trees[i] EXCEPT !.tag = label])]

\* Elements of one kind.
find_or_add_tree(label, trees, json_prep) ==
    [i \in DOMAIN trees |->
       IF json_prep THEN IntoEntry(ARRAY_OF[label], [trees[i] EXCEPT !.tag = ""])
                    ELSE KidEntry([trees[i] EXCEPT !.tag = label])]

\* A dot in the name of an attribute separates the steps of a path in the tree.
AttributeEntry(name, value) ==
    <<IntoEntry(XMLATTR,
                IF name = Hdf5Name
                THEN Tree("hdf5", <<Tree("link", <<Leaf(Hdf5Key, value)>>)>>)
                ELSE Leaf(name, value))>>

UnlessEmpty(name, value) == IF value = "" THEN <<>> ELSE AttributeEntry(name, value)

Attributes(attrs) ==
    LET names == SetToSeq(DOMAIN attrs)
    IN  [i \in DOMAIN names |-> AttributeEntry(names[i], attrs[names[i]])[1]]

Description(text) == IF text = "" THEN <<>> ELSE <<KidEntry(Leaf("DESCRIPTION", text))>>

MinMax(tag, m) ==
    IF m.value = "" THEN <<>>
    ELSE <<KidEntry(Build(tag, "", Attributes([value |-> m.value,
                                               inclusive |-> IF m.inclusive THEN "yes" ELSE "no"])))>>

RECURSIVE OptionTree(_, _)
OptionTree(o, json_prep) ==
    LET kids == SelectSeq(o.options, LAMBDA sub : ~EmptyOption(sub))
    IN  Build("", "", UnlessEmpty("name", o.name) \o UnlessEmpty("value", o.value)
                      \o find_or_add_tree("OPTION",
                                          [i \in DOMAIN kids |-> OptionTree(kids[i], json_prep)],
                                          json_prep))

\* An INFO of just a name and a value whose name is that of an attribute stands for the
\* attribute: that is how the IPAC writer encodes it.
StandsForAttribute(label, prop) ==
    /\ label = "INFO"
    /\ DOMAIN prop.attrs = {"name", "value"}
    /\ prop.attrs["name"] \in AttributeNames

PropertyEntry(label, prop, json_prep) ==
    IF StandsForAttribute(label, prop)
    THEN AttributeEntry(prop.attrs["name"], prop.attrs["value"])
    ELSE IF label \in PROPERTY_STYLE_LABELS
    THEN find_or_add_tree(
            label,
            <<Build("", IF json_prep THEN "" ELSE prop.value,
                    (IF json_prep /\ prop.value # "" THEN <<KidEntry(Leaf("VALUE", prop.value))>>
                                                     ELSE <<>>)
                    \o Attributes(prop.attrs))>>,
            json_prep)
    ELSE <<KidEntry(Build("INFO", "", AttributeEntry("name", label) \o UnlessEmpty("value", prop.value)
                                      \o Attributes(prop.attrs)))>>

Properties(props, json_prep) ==
    FlattenSeq([i \in DOMAIN props |-> PropertyEntry(props[i].label, props[i].prop, json_prep)])

Infos(infos, json_prep) ==
    FlattenSeq([i \in DOMAIN infos |-> PropertyEntry("INFO", infos[i], json_prep)])

\* The arraysize that is written: none for a single value.
ArraySize(field, type) ==
    IF (type = "char" /\ field.type # "char") \/ field.size = "*" THEN "*"
    ELSE IF field.size = "1" THEN "" ELSE field.size

DeclaresNull(field, type, json_prep) ==
    ~json_prep /\ is_non_default_integer_null_str(field.values.null, type)

ValuesEntry(v, null, json_prep) ==
    LET options == SelectSeq(v.options, LAMBDA o : ~EmptyOption(o))
    IN  IF EmptyExceptNull(v) /\ ~null THEN <<>>
        ELSE <<KidEntry(Build("VALUES", "",
                 UnlessEmpty("ID", v.ID) \o UnlessEmpty("type", v.type)
                 \o (IF null THEN AttributeEntry("null", v.null) ELSE <<>>) \o UnlessEmpty("ref", v.ref)
                 \o MinMax("MIN", v.min) \o MinMax("MAX", v.max)
                 \o find_or_add_tree("OPTION", [i \in DOMAIN options |->
                                                  OptionTree(options[i], json_prep)],
                                     json_prep)))>>

Hdf5LinkEntry(links, json_prep) ==
    IF links = <<>> THEN <<>>
    ELSE find_or_add_tree("LINK", <<Build("", "", [i \in DOMAIN links |->
                                                     AttributeEntry(Hdf5Name, links[i])[1]])>>,
                          json_prep)

FieldTree(field, type, json_prep) ==
    Build("", "",
          AttributeEntry("name", field.name) \o AttributeEntry("datatype", type)
          \o UnlessEmpty("arraysize", ArraySize(field, type))
          \o Attributes(field.attrs) \o Description(field.desc)
          \o ValuesEntry(field.values, DeclaresNull(field, type, json_prep), json_prep)
          \o Hdf5LinkEntry(field.hdf5_links, json_prep) \o Properties(field.links, json_prep))

\* Mutant of Params: params get the datatypes of fields.
ParamsAdjusted(params, json_prep) ==
    find_or_add_tree("PARAM",
                     [i \in DOMAIN params |->
                        FieldTree(params[i], IF params[i].type = "uint" /\ ~json_prep
                                             THEN "long" ELSE params[i].type, json_prep)],
                     json_prep)

Params(params, json_prep) ==
    find_or_add_tree("PARAM", [i \in DOMAIN params |->
                                 FieldTree(params[i], params[i].type, json_prep)], json_prep)

GroupTree(group, json_prep) ==
    Build("", "", Attributes(group.attrs) \o Description(group.desc)
                  \o Params(group.params, json_prep)
                  \o [i \in DOMAIN group.refs |->
                        KidEntry(Build("FIELDref", "", Attributes(group.refs[i])))])

Groups(groups, json_prep) ==
    find_or_add_tree("GROUP", [i \in DOMAIN groups |-> GroupTree(groups[i], json_prep)], json_prep)

\* Mutant of DatatypeForWriting: only the next wider type.
DatatypeNextWider(type, large, format) ==
    IF format # "votable" THEN type
    ELSE CASE type = "ulong"  -> IF large THEN "char" ELSE "long"
           [] type = "uint"   -> "long"
           [] type = "ushort" -> "uint"
           [] OTHER           -> type

\* Data_Type_Adjuster: the VOTable standard has no unsigned types but bytes; a column of
\* 64 bits becomes text if it holds a value too large for a signed one.
DatatypeForWriting(type, large, format) ==
    IF format # "votable" THEN type
    ELSE CASE type = "ulong"  -> IF large THEN "char" ELSE "long"
           [] type = "uint"   -> "long"
           [] type = "ushort" -> "int"
           [] OTHER           -> type

\* The comments of a Table (an IPAC table has them) join the description.
TableElement(te, comments, format) ==
    LET json_prep == format = "json"
        text   == IF comments = "" THEN te.desc
                  ELSE IF te.desc = "" THEN comments ELSE te.desc \o "/" \o comments
        fields == [i \in DOMAIN te.fields |->
                     FieldTree(te.fields[i],
                               DatatypeForWriting(te.fields[i].type, te.large, format),
                               json_prep)]
        data   == IF format = "votable_binary2" THEN Leaf("BINARY2", te.rows)
                                                ELSE Leaf("TABLEDATA", te.rows)
    IN  Build("TABLE", "",
              Attributes(te.attrs) \o Description(text)
              \o Groups(te.groups, json_prep) \o Params(te.params, json_prep)
              \o find_or_add_tree("FIELD", fields, json_prep)
              \o <<KidEntry(Tree("DATA", <<data>>))>> \o Infos(te.trailing, json_prep))

ResourceTree(r, comments, format) ==
    LET json_prep == format = "json"
    IN  Build("", "",
              Attributes(r.attrs) \o Description(r.desc) \o Properties(r.props, json_prep)
              \o Groups(r.groups, json_prep) \o Params(r.params, json_prep)
              \o (IF r.type = "results"
                  THEN <<KidEntry(TableElement(r.tables[1], comments, format))>> ELSE <<>>)
              \o Infos(r.trailing, json_prep))

\* The properties of the table itself are added one by one, in JSON too.
TableProperties(props) ==
    LET kept == SelectSeq(props, LAMBDA p : p.label \in PROPERTY_STYLE_LABELS)
    IN  [i \in DOMAIN kept |->
           KidEntry(Build(kept[i].label, kept[i].prop.value, Attributes(kept[i].prop.attrs)))]

generate_property_tree(table, format) ==
    LET json_prep == format = "json"
        resources == [i \in DOMAIN table.resources |->
                        ResourceTree(table.resources[i], table.comments, format)]
    IN  Build("VOTABLE", "",
              AttributeEntry("version", "1.3") \o Description(table.desc)
              \o TableProperties(table.props)
              \o Params(table.params, json_prep) \o Groups(table.groups, json_prep)
              \o find_or_add_tree("RESOURCE", resources, json_prep)
              \o Infos(table.trailing, json_prep))

-----------------------------------------------------------------------------
(* A tree written to a file and parsed again.                                *)

\* JSON has no place for the text of a node that also has kids: the write throws.
RECURSIVE FitsJson(_)
FitsJson(tree) == /\ tree.text = "" \/ tree.kids = <<>>
                  /\ \A i \in DOMAIN tree.kids : FitsJson(tree.kids[i])

\* XML puts the attributes first, and of the kids of an attribute it writes nothing.
RECURSIVE ThroughXml(_)
ThroughXml(tree) ==
    LET at    == IndexOfKid(tree, XMLATTR)
        attrs == IF at = 0 THEN <<>>
                 ELSE <<Tree(XMLATTR, [i \in DOMAIN tree.kids[at].kids |->
                                         Leaf(tree.kids[at].kids[i].tag,
                                              tree.kids[at].kids[i].text)])>>
        rest  == SelectSeq(tree.kids, LAMBDA kid : kid.tag # XMLATTR)
    IN  [tree EXCEPT !.kids = attrs \o [i \in DOMAIN rest |-> ThroughXml(rest[i])]]

ThroughFile(tree, format) == IF format = "json" THEN tree ELSE ThroughXml(tree)
=============================================================================
