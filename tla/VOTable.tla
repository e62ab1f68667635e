------------------------------ MODULE VOTable -------------------------------
(* Reading a VOTable or JSON file into a Table, and writing the Table again. *)
(* The reader walks over the kids of the VOTABLE element in one pass and     *)
(* expects each kind of element in its place; the writer (PropertyTree)      *)
(* knows nothing of those places.                                            *)
EXTENDS PropertyTree, FiniteSetsExt, TLC

CONSTANTS
    Documents,      \* the files there may be at first: [format, tree]
    OtherTables,    \* Tables as the reader of another format leaves them
    MaxWrites       \* how often the Table is written and read again

VARIABLES
    pc,        \* where the reader is; "read", "failed" and "unwritable" are ends
    file,      \* the file that is being read: [format, tree]
    child,     \* the reader's place among the kids of VOTABLE
    table,     \* the Table under construction
    found,     \* found_results_resource
    currIdx,   \* curr_resource_idx
    source,    \* history: the Table that was written into the file, or <<>>
    writes     \* history: the formats written so far

vars == <<pc, file, child, table, found, currIdx, source, writes>>

EmptyTable == [desc |-> "", comments |-> "", props |-> <<>>, params |-> <<>>,
               groups |-> <<>>, resources |-> <<>>, trailing |-> <<>>, idx |-> 0]

-----------------------------------------------------------------------------
(* Taking a tree apart.                                                      *)

\* Past a kid that may be there or not, past all kids of some tags.
After(kids, i, tag) == IF i \in DOMAIN kids /\ kids[i].tag = tag THEN i + 1 ELSE i

AfterAll(kids, i, tags) ==
    Min({j \in i..Len(kids) : kids[j].tag \notin tags} \cup {Len(kids) + 1})

Slice(kids, i, j) == SubSeq(kids, i, j - 1)

\* The elements with a label, single ones and those of arrays, in their order.
Elements(kids, label) ==
    FlattenSeq([i \in DOMAIN kids |-> IF kids[i].tag = label THEN <<kids[i]>>
                                      ELSE IF kids[i].tag = ARRAY_OF[label] THEN kids[i].kids
                                      ELSE <<>>])

SingleAndArray(labels) == labels \cup {ARRAY_OF[label] : label \in labels}

Map(Op(_), s) == [i \in DOMAIN s |-> Op(s[i])]

AllTags(kids) == {kids[i].tag : i \in DOMAIN kids}

\* Of two attributes of one name the first is kept.
extract_attributes(tree) ==
    LET nodes == FlattenSeq([i \in DOMAIN tree.kids |->
                               IF tree.kids[i].tag = XMLATTR THEN tree.kids[i].kids ELSE <<>>])
    IN  [name \in AllTags(nodes) |->
            nodes[SelectInSeq(nodes, LAMBDA n : n.tag = name)].text]

read_property(tree) ==
    LET at == IndexOfKid(tree, "VALUE")
    IN  Property(IF at = 0 THEN tree.text ELSE tree.kids[at].text, extract_attributes(tree))

Labeled(label, trees) ==
    Map(LAMBDA tree : [label |-> label, prop |-> read_property(tree)], trees)

ReadInfos(kids) == Map(read_property, Elements(kids, "INFO"))
OnlyInfos(kids) == AllTags(kids) \subseteq SingleAndArray({"INFO"})

\* Where the attributes are expected: in the first kid only.
FirstAttributes(tree) ==
    IF tree.kids # <<>> /\ Head(tree.kids).tag = XMLATTR
    THEN extract_attributes([tree EXCEPT !.kids = <<Head(@)>>]) ELSE NoAttributes

Attribute(attrs, name, default) == IF name \in DOMAIN attrs THEN attrs[name] ELSE default

Without(attrs, names) == Restrict(attrs, DOMAIN attrs \ names)

RECURSIVE read_option(_)
read_option(tree) ==
    LET attrs == FirstAttributes(tree)
    IN  Option(Attribute(attrs, "name", ""), Attribute(attrs, "value", ""),
               Map(read_option, Elements(tree.kids, "OPTION")))

\* Boost reads a bool from a digit or from true and false, nothing else.
BoolTexts == {"0", "1", "false", "true"}

MinMaxReadable(tree) == Attribute(FirstAttributes(tree), "inclusive", "1") \in BoolTexts

read_min_max(tree) ==
    LET attrs == FirstAttributes(tree)
    IN  [value     |-> Attribute(attrs, "value", ""),
         inclusive |-> Attribute(attrs, "inclusive", "1") \in {"1", "true"}]

\* The places of MIN and MAX in VALUES: they are taken in that order only.
MinAt(tree) == After(tree.kids, 1, XMLATTR)
MaxAt(tree) == After(tree.kids, MinAt(tree), "MIN")

ValuesReadable(tree) ==
    /\ After(tree.kids, MinAt(tree), "MIN") > MinAt(tree) => MinMaxReadable(tree.kids[MinAt(tree)])
    /\ After(tree.kids, MaxAt(tree), "MAX") > MaxAt(tree) => MinMaxReadable(tree.kids[MaxAt(tree)])

read_values(tree) ==
    LET attrs == FirstAttributes(tree)
        opts  == After(tree.kids, MaxAt(tree), "MAX")
    IN  [ID   |-> Attribute(attrs, "ID", ""),   type |-> Attribute(attrs, "type", ""),
         null |-> Attribute(attrs, "null", ""), ref  |-> Attribute(attrs, "ref", ""),
         min  |-> IF MaxAt(tree) > MinAt(tree) THEN read_min_max(tree.kids[MinAt(tree)])
                                               ELSE NoMinMax,
         max  |-> IF opts > MaxAt(tree) THEN read_min_max(tree.kids[MaxAt(tree)]) ELSE NoMinMax,
         options |-> Map(read_option,
                         Elements(Slice(tree.kids, opts, Len(tree.kids) + 1), "OPTION"))]

Datatypes == {"boolean", "unsignedByte", "short", "ushort", "int", "uint", "long", "ulong",
              "float", "double", "char"}

\* The parts of a FIELD: attributes, description, values, links, each in its place.
ValuesAt(tree) == After(tree.kids, After(tree.kids, 1, XMLATTR), "DESCRIPTION")
LinksAt(tree)  == After(tree.kids, ValuesAt(tree), "VALUES")

\* An arraysize is a number, here of one digit; those of several dimensions are refused.
IsArraySize(text) == text = "*" \/ \E n \in 0..9 : text = ToString(n)

FieldReadable(tree) ==
    /\ IsArraySize(Attribute(FirstAttributes(tree), "arraysize", "1"))
    /\ Attribute(FirstAttributes(tree), "datatype", "unsignedByte") \in Datatypes
    /\ LinksAt(tree) > ValuesAt(tree) => ValuesReadable(tree.kids[ValuesAt(tree)])
    /\ LET links == AfterAll(tree.kids, LinksAt(tree), SingleAndArray({"LINK"}))
       IN  links \in DOMAIN tree.kids => tree.kids[links].tag = "TABLE"

\* A LINK whose only attribute has the HDF5 prefix is a link of HDF5's.
IsHdf5Link(tree) == DOMAIN extract_attributes(tree) = {Hdf5Name}

read_field(tree) ==
    LET attrs == FirstAttributes(tree)
        descAt == After(tree.kids, 1, XMLATTR)
        end   == AfterAll(tree.kids, LinksAt(tree), SingleAndArray({"LINK"}))
        links == Elements(Slice(tree.kids, LinksAt(tree), end), "LINK")
    IN  [name   |-> Attribute(attrs, "name", ""),
         type   |-> Attribute(attrs, "datatype", "unsignedByte"),
         size   |-> Attribute(attrs, "arraysize", "1"),
         attrs  |-> Without(attrs, {"name", "datatype", "arraysize"}),
         desc   |-> IF ValuesAt(tree) > descAt THEN tree.kids[descAt].text ELSE "",
         values |-> IF LinksAt(tree) > ValuesAt(tree) THEN read_values(tree.kids[ValuesAt(tree)])
                                                     ELSE EmptyValues,
         links  |-> Map(LAMBDA t : [label |-> "LINK",
                                    prop  |-> Property("", extract_attributes(t))],
                        SelectSeq(links, LAMBDA t : ~IsHdf5Link(t))),
         hdf5_links |-> Map(LAMBDA t : extract_attributes(t)[Hdf5Name],
                            SelectSeq(links, IsHdf5Link))]

FieldsReadable(kids, label) ==
    LET fs == Elements(kids, label) IN \A i \in DOMAIN fs : FieldReadable(fs[i])

\* The kids that follow the attributes and the description, and the description.
BodyAt(tree) == After(tree.kids, AfterAll(tree.kids, 1, {XMLATTR}), "DESCRIPTION")
Body(tree)   == Slice(tree.kids, BodyAt(tree), Len(tree.kids) + 1)
DescriptionOf(tree) ==
    IF BodyAt(tree) > AfterAll(tree.kids, 1, {XMLATTR}) THEN tree.kids[BodyAt(tree) - 1].text
                                                       ELSE ""

\* What a GROUP holds, up to the first kid it does not know.  PARAMrefs and groups
\* within a group are passed over.
GroupTags == SingleAndArray({"FIELDref", "PARAM"})
                 \cup {"PARAMref", "PARAMref_ARRAY", "GROUP"}
GroupBody(tree) == LET body == Body(tree) IN Slice(body, 1, AfterAll(body, 1, GroupTags))

read_group_element(tree) ==
    [attrs  |-> extract_attributes(tree),
     desc   |-> DescriptionOf(tree),
     params |-> Map(read_field, Elements(GroupBody(tree), "PARAM")),
     refs   |-> Map(extract_attributes, Elements(GroupBody(tree), "FIELDref"))]

GroupsReadable(kids) ==
    LET gs == Elements(kids, "GROUP")
    IN  \A i \in DOMAIN gs : FieldsReadable(GroupBody(gs[i]), "PARAM")

\* A TABLE: fields, params and groups in any order, the data, trailing infos.
DataAt(body) == AfterAll(body, 1, SingleAndArray({"FIELD", "PARAM", "GROUP"}))

TableReadable(tree) ==
    LET body == Body(tree)
        at   == DataAt(body)
    IN  /\ at \in DOMAIN body => body[at].tag \in {"DATA"} \cup SingleAndArray({"INFO"})
        /\ FieldsReadable(body, "FIELD") /\ FieldsReadable(body, "PARAM")
        /\ GroupsReadable(body)
        /\ Elements(Slice(body, 1, at), "FIELD") # <<>>
        \* a Table_Element without data is refused
        /\ at \in DOMAIN body /\ body[at].tag = "DATA"
        /\ Len(body[at].kids) = 1 /\ body[at].kids[1].tag \in {"TABLEDATA", "BINARY2"}
        /\ OnlyInfos(Slice(body, at + 1, Len(body) + 1))

\* Whether a column of 64 bits holds large values is a matter of the rows.
read_table_element(tree) ==
    LET body == Body(tree)
        at   == DataAt(body)
    IN  [attrs    |-> extract_attributes(tree),
         desc     |-> DescriptionOf(tree),
         groups   |-> Map(read_group_element, Elements(body, "GROUP")),
         params   |-> Map(read_field, Elements(body, "PARAM")),
         fields   |-> Map(read_field, Elements(body, "FIELD")),
         rows     |-> body[at].kids[1].text,
         large    |-> body[at].kids[1].text = "large",
         trailing |-> ReadInfos(Slice(body, at + 1, Len(body) + 1))]

\* The sections of a RESOURCE: infos; coordinate systems, params and groups; links;
\* the table; trailing infos.
PreLinkTags == {"COOSYS", "TIMESYS"} \cup SingleAndArray({"PARAM", "GROUP"})
InfosEnd(body) == AfterAll(body, 1, SingleAndArray({"INFO"}))
LinksBegin(body) == AfterAll(body, InfosEnd(body), PreLinkTags)
LinksEnd(body) == AfterAll(body, LinksBegin(body), SingleAndArray({"LINK"}))
TablesEnd(body) == AfterAll(body, LinksEnd(body), {"TABLE"})

\* Resource_Element's enum, in its order, from the attribute.
Types == <<"meta", "results", "other", "none">>
get_type_enum(attrs) ==
    LET text == Attribute(attrs, "type", "none")
    IN  IF text \in {"results", "meta", "none"} THEN text ELSE "other"

determine_resource_type(tables, attrs) ==
    IF tables = <<>> THEN get_type_enum(attrs) ELSE "results"

\* The type attribute says results of a resource with a table, and of no other.
TypeFits(tables, attrs) ==
    IF tables = <<>> THEN get_type_enum(attrs) # "results"
                     ELSE get_type_enum(attrs) \in {"results", "none"}

TablesOf(body) == Slice(body, LinksEnd(body), TablesEnd(body))

ResourceReadable(tree) ==
    LET body == Body(tree)
    IN  \* the links section ends at a TABLE or with the resource
        /\ LinksEnd(body) \in DOMAIN body => body[LinksEnd(body)].tag = "TABLE"
        /\ FieldsReadable(body, "PARAM") /\ GroupsReadable(body)
        /\ Len(TablesOf(body)) <= 1
        /\ \A i \in DOMAIN TablesOf(body) : TableReadable(TablesOf(body)[i])
        /\ TablesEnd(body) \in DOMAIN body => body[TablesEnd(body)].tag = "INFO"
        /\ OnlyInfos(Slice(body, TablesEnd(body), Len(body) + 1))
        /\ TypeFits(TablesOf(body), extract_attributes(tree))

read_resource_element(tree) ==
    LET body   == Body(tree)
        tables == Map(read_table_element, TablesOf(body))
        infos  == Elements(Slice(body, 1, InfosEnd(body)), "INFO")
        pre    == Slice(body, InfosEnd(body), LinksBegin(body))
        systems == SelectSeq(pre, LAMBDA kid : kid.tag \in {"COOSYS", "TIMESYS"})
        links  == Elements(Slice(body, LinksBegin(body), LinksEnd(body)), "LINK")
    IN  [type   |-> determine_resource_type(tables, extract_attributes(tree)),
         attrs  |-> extract_attributes(tree),
         desc   |-> DescriptionOf(tree),
         props  |-> Labeled("INFO", infos)
                    \o Map(LAMBDA t : [label |-> t.tag, prop |-> read_property(t)], systems)
                    \o Map(LAMBDA t : [label |-> "LINK",
                                       prop |-> Property("", extract_attributes(t))], links),
         params   |-> Map(read_field, Elements(pre, "PARAM")),
         groups   |-> Map(read_group_element, Elements(pre, "GROUP")),
         tables   |-> tables,
         trailing |-> ReadInfos(Slice(body, TablesEnd(body), Len(body) + 1))]

-----------------------------------------------------------------------------
(* The walk over the kids of VOTABLE.                                        *)

Kids   == file.tree.kids
AtEnd  == child > Len(Kids)
Kid    == Kids[child]
Tag    == IF AtEnd THEN "end" ELSE Kid.tag
ResourceTags == SingleAndArray({"RESOURCE"})

\* The attributes that the reader drops because the writer writes them anew.
KnownAttributes == {"version", "xmlns"}

Reads(where) == pc = where /\ UNCHANGED <<file, source, writes>>

\* What throws leaves nothing behind that anyone uses.
Throws == pc' = "failed" /\ UNCHANGED <<child, table, found, currIdx>>

\* Any other attribute makes a property labelled VOTABLE, and a table without resources
\* refuses that.
ReadAttributes ==
    LET body == Body(file.tree)
        attrs == extract_attributes(file.tree)
    IN  /\ Reads("attributes")
        /\ IF DOMAIN attrs \subseteq KnownAttributes
           THEN /\ pc' = "pre"
                /\ child' = After(Kids, BodyAt(file.tree), "DEFINITIONS")
                /\ table' = [table EXCEPT !.desc = DescriptionOf(file.tree)]
                /\ UNCHANGED <<found, currIdx>>
           ELSE Throws

\* Before the resources: whatever the element, its label is INFO.
ReadPreResource ==
    /\ Reads("pre") /\ Tag \notin {"end"} \cup ResourceTags
    /\ IF /\ Kid.tag \in {"COOSYS", "TIMESYS"} \cup SingleAndArray({"INFO", "PARAM", "GROUP"})
          /\ FieldsReadable(<<Kid>>, "PARAM") /\ GroupsReadable(<<Kid>>)
       THEN /\ table' = [table EXCEPT
                  !.props  = @ \o Labeled("INFO", IF Kid.tag \in {"COOSYS", "TIMESYS"} THEN <<Kid>>
                                                  ELSE Elements(<<Kid>>, "INFO")),
                  !.params = @ \o Map(read_field, Elements(<<Kid>>, "PARAM")),
                  !.groups = @ \o Map(read_group_element, Elements(<<Kid>>, "GROUP"))]
            /\ child' = child + 1
            /\ UNCHANGED <<pc, found, currIdx>>
       ELSE Throws

BeginResources ==
    /\ Reads("pre") /\ Tag \in {"end"} \cup ResourceTags
    /\ IF AtEnd THEN Throws
       ELSE pc' = "resources" /\ UNCHANGED <<child, table, found, currIdx>>

\* Resources are read one by one, single or in an array; only one may hold a table.
Results(resources) == {i \in DOMAIN resources : resources[i].tables # <<>>}

\* Mutant of AddResources: an array counts as the resources it holds.
AddResourcesCounted(resources, idx) ==
    /\ table' = [table EXCEPT !.resources = @ \o resources, !.idx = idx]
    /\ found' = (found \/ Results(resources) # {})
    /\ child' = child + 1
    /\ currIdx' = currIdx + Len(resources)
    /\ UNCHANGED pc

AddResources(resources, idx) ==
    /\ table' = [table EXCEPT !.resources = @ \o resources, !.idx = idx]
    /\ found' = (found \/ Results(resources) # {})
    /\ child' = child + 1
    /\ currIdx' = currIdx + 1
    /\ UNCHANGED pc

ReadableResources(trees) ==
    /\ \A i \in DOMAIN trees : ResourceReadable(trees[i])
    /\ Cardinality({i \in DOMAIN trees : TablesOf(Body(trees[i])) # <<>>})
           + (IF found THEN 1 ELSE 0) <= 1

ReadResource ==
    /\ Reads("resources") /\ Tag = "RESOURCE"
    /\ IF ReadableResources(<<Kid>>)
       THEN LET r == read_resource_element(Kid)
            IN  AddResources(<<r>>, IF r.tables # <<>> THEN currIdx ELSE table.idx)
       ELSE Throws

ReadResourceArray ==
    /\ Reads("resources") /\ Tag = "RESOURCE_ARRAY"
    /\ IF ReadableResources(Kid.kids)
       THEN LET rs == Map(read_resource_element, Kid.kids)
            IN  AddResources(rs, IF Results(rs) # {} THEN currIdx + Min(Results(rs)) - 1
                                                     ELSE table.idx)
       ELSE Throws

EndResources ==
    /\ Reads("resources") /\ Tag \notin ResourceTags
    /\ IF found THEN pc' = "trailing" /\ UNCHANGED <<child, table, found, currIdx>>
                ELSE Throws

ReadTrailingInfo ==
    /\ Reads("trailing") /\ Tag # "end"
    /\ IF OnlyInfos(<<Kid>>)
       THEN /\ table' = [table EXCEPT !.trailing = @ \o ReadInfos(<<Kid>>)]
            /\ child' = child + 1
            /\ UNCHANGED <<pc, found, currIdx>>
       ELSE Throws

\* The Table constructor asks for the columns first and arranges the resources after:
\* meta before results before others, the resources of a type in their order.
Arranged(resources) ==
    FlattenSeq([k \in DOMAIN Types |->
                  SelectSeq(resources, LAMBDA r : r.type = Types[k])])

IndexOfResults(resources) ==
    SelectInSeq(resources, LAMBDA r : r.type = "results") - 1

\* Mutant of arrange_resources: the index is not looked up again.
arrange_without_lookup(t) == [t EXCEPT !.resources = Arranged(@)]

arrange_resources(t) ==
    IF Len(t.resources) = 1 THEN [t EXCEPT !.idx = 0]
    ELSE [t EXCEPT !.resources = Arranged(@), !.idx = IndexOfResults(Arranged(t.resources))]

ColumnsReachable ==
    /\ table.idx + 1 \in DOMAIN table.resources
    /\ table.resources[table.idx + 1].tables # <<>>

Construct ==
    /\ Reads("trailing") /\ Tag = "end"
    /\ IF ColumnsReachable
       THEN /\ table' = arrange_resources(table)
            /\ pc' = "read"
            /\ UNCHANGED <<child, found, currIdx>>
       ELSE Throws

Reader == \/ ReadAttributes \/ ReadPreResource \/ BeginResources \/ ReadResource
          \/ ReadResourceArray \/ EndResources \/ ReadTrailingInfo \/ Construct

\* Writing the Table, and starting to read what was written.  A JSON file that cannot
\* be written is left as it was when it was opened: empty.
Write(format) ==
    LET tree == generate_property_tree(table, format)
    IN  /\ pc = "read" /\ Len(writes) < MaxWrites
        /\ writes' = Append(writes, format)
        /\ source' = table
        /\ table' = EmptyTable
        /\ child' = 1 /\ found' = FALSE /\ currIdx' = 0
        /\ IF format = "json" /\ ~FitsJson(tree)
           THEN pc' = "unwritable" /\ UNCHANGED file
           ELSE /\ pc' = "attributes"
                /\ file' = [format |-> format, tree |-> ThroughFile(tree, format)]

Formats == {"votable", "votable_binary2", "json"}

Init ==
    /\ child = 1 /\ found = FALSE /\ currIdx = 0
    /\ source = <<>> /\ writes = <<>>
    /\ \/ pc = "attributes" /\ file \in Documents /\ table = EmptyTable
       \/ pc = "read" /\ table \in OtherTables
          /\ file = [format |-> "other", tree |-> Tree("VOTABLE", <<>>)]

Ends == {"read", "failed", "unwritable"}

\* A Table that has been read may be left alone.
Finished == pc \in Ends /\ UNCHANGED vars

Next == Reader \/ (\E format \in Formats : Write(format)) \/ Finished

Spec == Init /\ [][Next]_vars

-----------------------------------------------------------------------------
(* What a file keeps of the Table that was written into it, told from the    *)
(* Table alone.                                                              *)

Format == Last(writes)

Fields(t) ==
    LET OfGroups(gs) == FlattenSeq([i \in DOMAIN gs |-> gs[i].params])
        OfTable(te)  == te.params \o OfGroups(te.groups) \o te.fields
        OfResource(r) == r.params \o OfGroups(r.groups)
                         \o FlattenSeq([i \in DOMAIN r.tables |-> OfTable(r.tables[i])])
    IN  Range(t.params \o OfGroups(t.groups)
              \o FlattenSeq([i \in DOMAIN t.resources |-> OfResource(t.resources[i])]))

\* The infos that turn into attributes, and the attributes with them: earlier ones win.
Standing(infos) == SelectSeq(infos, LAMBDA p : StandsForAttribute("INFO", p))
Plain(infos)    == SelectSeq(infos, LAMBDA p : ~StandsForAttribute("INFO", p))

Undotted(attrs) == IF Hdf5Name \in DOMAIN attrs
                   THEN Without(attrs, {Hdf5Name}) @@ [hdf5 |-> ""] ELSE attrs

AttrsBack(attrs, infos) ==
    FoldLeft(LAMBDA as, p : as @@ (p.attrs["name"] :> p.attrs["value"]),
             Undotted(attrs), Standing(infos))

PropBack(p) == Property(p.value, Undotted(p.attrs))

LabeledInfos(props) ==
    Map(LAMBDA p : p.prop, SelectSeq(props, LAMBDA p : p.label = "INFO"))
HasLabel(props, labels) == \E i \in DOMAIN props : props[i].label \in labels

\* The Table can be written in the format and what is written can be read.
ReadableAgain(t, format) ==
    LET json == format = "json"
    IN  /\ \A i \in DOMAIN t.props :
              /\ t.props[i].label # "LINK"
              /\ json => t.props[i].prop.value = "" \/ t.props[i].prop.attrs = NoAttributes
        \* VOTABLE's attributes must be known
        /\ Standing(t.trailing) = <<>>
        \* "yes" and "no" are not read as bools
        /\ \A f \in Fields(t) : f.values.min.value = "" /\ f.values.max.value = ""
        /\ \A i \in DOMAIN t.resources :
              LET r     == t.resources[i]
                  infos == LabeledInfos(r.props)
              IN  \* links are written before params and groups, and read after them
                  /\ HasLabel(r.props, {"LINK"}) => r.params = <<>> /\ r.groups = <<>>
                  /\ TypeFits(r.tables, AttrsBack(r.attrs, infos \o r.trailing))
                  /\ json =>
                       \* no array of them is expected
                       /\ ~HasLabel(r.props, {"COOSYS", "TIMESYS"})
                       \* an array of infos after the table is expected nowhere
                       /\ Plain(r.trailing) # <<>> => Plain(infos) # <<>>
                       \* attributes come first or not at all
                       /\ (r.attrs = NoAttributes /\ Standing(infos \o r.trailing) # <<>>)
                             => /\ r.desc = "" /\ r.props # <<>>
                                /\ StandsForAttribute(r.props[1].label, r.props[1].prop)
                       /\ \A k \in DOMAIN r.tables :
                             r.tables[k].attrs = NoAttributes
                                => Standing(r.tables[k].trailing) = <<>>

FieldBack(f, type, json) ==
    [f EXCEPT !.type = type,
              !.size = IF ArraySize(f, type) = "" THEN "1" ELSE ArraySize(f, type),
              !.attrs = Undotted(@),
              !.values.null = IF DeclaresNull(f, type, json) THEN @ ELSE "",
              !.links = (IF f.hdf5_links = <<>> THEN <<>>
                         ELSE <<[label |-> "LINK", prop |-> Property("", [hdf5 |-> ""])]>>)
                        \o Map(LAMBDA p : [p EXCEPT !.prop = PropBack(@)], @),
              !.hdf5_links = <<>>]

ParamsBack(params, json) == Map(LAMBDA f : FieldBack(f, f.type, json), params)

GroupsBack(groups, json) ==
    Map(LAMBDA g : [g EXCEPT !.attrs = Undotted(@), !.params = ParamsBack(@, json)], groups)

TableElementBack(te, comments, format) ==
    LET json == format = "json"
    IN  [te EXCEPT !.attrs    = AttrsBack(@, te.trailing),
                   !.desc     = IF comments = "" THEN @
                                ELSE IF @ = "" THEN comments ELSE @ \o "/" \o comments,
                   !.groups   = GroupsBack(@, json),
                   !.params   = ParamsBack(@, json),
                   !.fields   = Map(LAMBDA f : FieldBack(f, DatatypeForWriting(f.type, te.large,
                                                                              format), json), @),
                   !.trailing = Map(PropBack, Plain(@))]

\* In JSON the trailing infos of a resource join those at its top.
ResourceBack(r, comments, format) ==
    LET json  == format = "json"
        infos == LabeledInfos(r.props)
        own   == Map(LAMBDA p : IF p.label \in PROPERTY_STYLE_LABELS
                                THEN [p EXCEPT !.prop = PropBack(@)]
                                ELSE [label |-> "INFO",
                                      prop  |-> Property("", [name |-> p.label]
                                                    @@ (IF p.prop.value = "" THEN NoAttributes
                                                        ELSE [value |-> p.prop.value])
                                                    @@ Undotted(p.prop.attrs))],
                     SelectSeq(r.props, LAMBDA p : ~StandsForAttribute(p.label, p.prop)))
        late  == Map(PropBack, Plain(r.trailing))
        attrs == AttrsBack(r.attrs, infos \o r.trailing)
        tables == Map(LAMBDA te : TableElementBack(te, comments, format), r.tables)
    IN  [r EXCEPT !.attrs    = attrs,
                  !.type     = determine_resource_type(tables, attrs),
                  !.props    = IF json /\ late # <<>>
                               THEN SelectSeq(own, LAMBDA p : p.label = "INFO")
                                    \o Map(LAMBDA p : [label |-> "INFO", prop |-> p], late)
                                    \o SelectSeq(own, LAMBDA p : p.label # "INFO")
                               ELSE own,
                  !.groups   = GroupsBack(@, json),
                  !.params   = ParamsBack(@, json),
                  !.tables   = tables,
                  !.trailing = IF json THEN <<>> ELSE late]

ComesBack(t, format) ==
    LET json == format = "json"
        kept == SelectSeq(t.props, LAMBDA p : p.label \in PROPERTY_STYLE_LABELS)
    IN  arrange_resources(
          [t EXCEPT !.comments  = "",
                    !.props     = Map(LAMBDA p : [label |-> "INFO", prop |-> PropBack(p.prop)],
                                      kept),
                    !.params    = ParamsBack(@, json),
                    !.groups    = GroupsBack(@, json),
                    !.resources = Map(LAMBDA r : ResourceBack(r, t.comments, format), @),
                    !.trailing  = Map(PropBack, @)])

-----------------------------------------------------------------------------
(* Properties.                                                               *)

\* The constructor of a Table (Table.cxx:128) asks for the columns of the results resource
\* before it has arranged the resources.  The reader found that resource by counting the
\* kids of VOTABLE, an array of resources as one (read_property_tree_as_votable.cxx:159):
\* the columns are there exactly if the arrays before it hold, together, as many
\* resources as they are.
ArraysBefore == LET ofResults == {i \in DOMAIN Kids :
                                    LET rs == Elements(<<Kids[i]>>, "RESOURCE")
                                    IN  \E k \in DOMAIN rs : TablesOf(Body(rs[k])) # <<>>}
                IN  {i \in DOMAIN Kids : Kids[i].tag = "RESOURCE_ARRAY" /\ i < Min(ofResults)}
ColumnsFoundExactlyIfCountsAgree ==
    pc = "trailing" =>
        (ColumnsReachable
          <=> MapThenSumSet(LAMBDA i : Len(Kids[i].kids), ArraysBefore)
                = Cardinality(ArraysBefore))

\* A Table that has been read shows its one table: the index designates the one resource
\* that holds a table, metadata resources come before it and others after it.
ResultsInPlace ==
    pc = "read" =>
        /\ Results(table.resources) = {table.idx + 1}
        /\ table.resources[table.idx + 1].type = "results"
        /\ \A i, j \in DOMAIN table.resources :
              i < j => SelectInSeq(Types, LAMBDA x : x = table.resources[i].type)
                         <= SelectInSeq(Types, LAMBDA x : x = table.resources[j].type)

\* What this program has written it can read again exactly if the Table has nothing of
\* the few things that the writer puts where the reader does not expect them.
ReadAgainExactlyIfReadable ==
    (pc \in Ends /\ source # <<>>) => (pc = "read" <=> ReadableAgain(source, Format))

\* The Table that is read back is the one that was written but for the named changes.
WhatComesBack ==
    (pc = "read" /\ source # <<>>) => table = ComesBack(source, Format)

\* The changes happen once: a Table that came out of a file of this program, written in
\* the same format again, comes back unchanged.
SecondTripChangesNothing ==
    (pc = "read" /\ Len(writes) >= 2 /\ writes[Len(writes) - 1] = Format)
        => table = source
=============================================================================
