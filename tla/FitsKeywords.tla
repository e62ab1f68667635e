---------------------------- MODULE FitsKeywords ----------------------------
(***************************************************************************)
(* What a table knows of itself apart from its columns and rows, as          *)
(* write_fits() turns it into FITS keywords and Keyword_Reader and            *)
(* distribute_metadata() turn keywords back into it.  The writer takes one    *)
(* labelled property per step, the reader one keyword.                       *)
(*                                                                         *)
(* A label is the sequence of its parts: "VOTABLE.RESOURCE.INFO" is            *)
(* <<"VOTABLE", "RESOURCE", "INFO">>.  The name of an element is one part,     *)
(* dots or not, as the readers' regular expressions have it.  Names of         *)
(* attributes are in lower case, which is how they are read, except "ID".      *)
(***************************************************************************)
EXTENDS Naturals, SequencesExt, FiniteSetsExt

CONSTANTS
  Alphabet,    \* the parts of keys and the names of attributes, in the order of
               \* strings, but the keys VOKWn in the order of their numbers
  UcdOf,       \* fits_keyword_ucd_mapping: from some keys to UCDs
  MaxTrips     \* bound of the model on how often a table is written

VOTABLE == <<"VOTABLE">>
VOTABLE_RESOURCE == <<"VOTABLE", "RESOURCE">>
VOTABLE_RESOURCE_TABLE == <<"VOTABLE", "RESOURCE", "TABLE">>
XMLATTR == "<xmlattr>"
END_INFO_MARKER == "END_INFO_MARKER"
PROPERTY_STYLE_LABELS == {"COOSYS", "INFO", "TIMESYS", "LINK"}
NoAttributes == <<>>

VARIABLES
  phase,      \* "writing", "undefined", "entering", "reading",
              \* "distributing", "read"
  meta,       \* the metadata of the table
  original,   \* history: the metadata the file was written from
  trips,      \* history: how many files have been written
  todo,       \* labelled properties to be written, or to be distributed
  got_fits_keyword,
  kwd_idx,    \* the number of the next VOKW keyword
  file,       \* its two HDUs, with their keywords in the order of writing
  hdu,        \* the HDU that is being read
  rest,       \* its keywords that are not read yet, sorted
  krp,        \* Keyword_Reader_Packet
  combined, params, fields  \* what Keyword_Reader has collected

writer == <<got_fits_keyword, kwd_idx, file>>
written == <<meta, original, trips, writer>>
collected == <<combined, params, fields>>
vars == <<phase, written, todo, hdu, rest, krp, collected>>

Property(attrs, value) == [attrs |-> attrs, value |-> value]
Labeled(label, prop) == [label |-> label, prop |-> prop]
IsEmpty(prop) == prop.attrs = NoAttributes /\ prop.value = ""

\* std::map::emplace() and insert() keep what is there.
Emplace(attrs, name, text) == IF name \in DOMAIN attrs THEN attrs
                              ELSE [a \in DOMAIN attrs \cup {name} |->
                                      IF a = name THEN text ELSE attrs[a]]
Insert(attrs, more) == [a \in DOMAIN attrs \cup DOMAIN more |->
                          IF a \in DOMAIN attrs THEN attrs[a] ELSE more[a]]

Rank == [s \in ToSet(Alphabet) |-> CHOOSE i \in DOMAIN Alphabet : Alphabet[i] = s]
PartLess(a, b) == Rank[a] < Rank[b]
InOrder(S, Less(_, _)) ==
  [n \in 1..Cardinality(S) |-> CHOOSE x \in S : Cardinality({y \in S : Less(y, x)}) = n - 1]

Everywhere(x) == [votable |-> x, resource |-> x, table |-> x]
NoMetadata == [labeled |-> <<>>, resource |-> <<>>, infos |-> Everywhere(<<>>),
               attrs |-> Everywhere(NoAttributes), params |-> <<>>, fields |-> <<>>]

IsSequence(s) == Len(s) \in Nat /\ s = [i \in 1..Len(s) |-> s[i]]
IsMetadata(m) ==
  /\ DOMAIN m = DOMAIN NoMetadata /\ DOMAIN m.infos = DOMAIN NoMetadata.infos
  /\ \A part \in {"labeled", "resource", "params", "fields"} : IsSequence(m[part])
  /\ \A level \in DOMAIN m.infos : IsSequence(m.infos[level])

-----------------------------------------------------------------------------
(* The list of everything to be written. *)

Each(props, Label(_)) == [i \in DOMAIN props |-> Labeled(Label(props[i]), props[i])]
InfosAt(level, props) == Each(props, LAMBDA p : Append(level, END_INFO_MARKER))
AttributesAt(level, attrs) ==
  IF attrs = NoAttributes THEN <<>>
  ELSE <<Labeled(Append(level, XMLATTR), Property(attrs, ""))>>

OfParam(p) == Insert(p.attrs, [datatype |-> p.datatype, arraysize |-> p.arraysize])
OfColumns(tag, columns, Attrs(_)) ==
  LET some == InOrder({i \in DOMAIN columns : Attrs(columns[i]) # NoAttributes}, <)
  IN [n \in DOMAIN some |-> Labeled(VOTABLE_RESOURCE_TABLE \o <<tag, columns[some[n]].name>>,
                                    Property(Attrs(columns[some[n]]), ""))]

combine_labeled_properties_all_levels(m) ==
  m.labeled \o [i \in DOMAIN m.resource |->
                  Labeled(VOTABLE_RESOURCE \o m.resource[i].label, m.resource[i].prop)]
combine_trailing_info_lists_all_levels(m) ==
     InfosAt(VOTABLE, m.infos.votable) \o InfosAt(VOTABLE_RESOURCE, m.infos.resource)
  \o InfosAt(VOTABLE_RESOURCE_TABLE, m.infos.table)
combine_attributes_all_levels(m) ==
     AttributesAt(VOTABLE, m.attrs.votable) \o AttributesAt(VOTABLE_RESOURCE, m.attrs.resource)
  \o AttributesAt(VOTABLE_RESOURCE_TABLE, m.attrs.table)
  \o OfColumns("PARAM", m.params, OfParam)
  \o OfColumns("FIELD", m.fields, LAMBDA f : f.attrs)

Combined(m) == combine_labeled_properties_all_levels(m)
               \o combine_trailing_info_lists_all_levels(m)
               \o combine_attributes_all_levels(m)

-----------------------------------------------------------------------------
(* write_tablator_elements_as_keywords() *)

\* name_iter == end() or an empty name.
Unnamed(lp) == "name" \in DOMAIN lp.prop.attrs => lp.prop.attrs["name"] = ""
IsInfo(lp) == Last(lp.label) = "INFO"

\* It will be written the way FITS has it, not as part of a VOTable.
IsPlain(lp) ==
  /\ ~IsInfo(lp) /\ Last(lp.label) # XMLATTR
  /\ IsPrefix(VOTABLE_RESOURCE, lp.label)
  /\ ~IsPrefix(VOTABLE_RESOURCE_TABLE, lp.label)
  /\ "value" \in DOMAIN lp.prop.attrs
  /\ DOMAIN lp.prop.attrs \subseteq {"value", "comment", "ucd"}

\* prop_label_base, without the dot it ends in.
Base(lp) ==
  CASE IsInfo(lp) -> lp.label \o <<lp.prop.attrs["name"], XMLATTR>>
    [] Last(lp.label) = XMLATTR -> lp.label
    [] IsPlain(lp) -> SubSeq(lp.label, 3, Len(lp.label))
    [] OTHER -> Append(lp.label, XMLATTR)

Keyword(key, label, text, comment) ==
  [key |-> key, label |-> label, text |-> text, comment |-> comment]
NumberFrom(n, labels_and_texts) ==
  [i \in DOMAIN labels_and_texts |->
     Keyword(<<"VOKW" \o ToString(n + i - 1)>>, labels_and_texts[i][1], labels_and_texts[i][2], "")]

\* Behind the base of a plain keyword there is no dot.
ValueLabel(lp) == IF IsPlain(lp)
                  THEN Append(Front(Base(lp)), Last(Base(lp)) \o "irsa_value")
                  ELSE Append(Base(lp), "irsa_value")
ValueText(lp) == IF lp.prop.value = "" THEN <<>> ELSE <<<<ValueLabel(lp), lp.prop.value>>>>
AttributeTexts(lp) ==
  LET names == InOrder(DOMAIN lp.prop.attrs, PartLess)
  IN [i \in DOMAIN names |-> <<Append(Base(lp), names[i]), lp.prop.attrs[names[i]]>>]

\* A key of a property that is not plain ends in a dot.
PlainKeyword(lp, text) ==
  Keyword(IF IsPlain(lp) THEN Base(lp) ELSE Append(Base(lp), ""), <<>>, text,
          IF "comment" \in DOMAIN lp.prop.attrs THEN lp.prop.attrs["comment"] ELSE "")

GotFitsKeywordOf(lp) == IsPlain(lp)  \* mutant: reset for every property
\* got_fits_keyword is set by a plain property and never again reset.
GotFitsKeyword(lp) == got_fits_keyword \/ IsPlain(lp)

\* Neither the plain keyword nor what follows has a value to write.
ValueMissing(lp) == GotFitsKeyword(lp) /\ "value" \notin DOMAIN lp.prop.attrs

WithoutName == /\ phase = "writing" /\ todo # <<>>
               /\ IsInfo(Head(todo)) /\ Unnamed(Head(todo))
               /\ todo' = Tail(todo)
               /\ UNCHANGED <<phase, written, hdu, rest, krp, collected>>

WriteProperty ==
  /\ phase = "writing" /\ todo # <<>>
  /\ LET lp == Head(todo)
     IN /\ ~(IsInfo(lp) /\ Unnamed(lp)) /\ ~ValueMissing(lp)
        /\ todo' = Tail(todo)
        /\ got_fits_keyword' = GotFitsKeyword(lp)
        /\ LET numbered == IF GotFitsKeyword(lp) THEN ValueText(lp)
                           ELSE ValueText(lp) \o AttributeTexts(lp)
               plain == IF GotFitsKeyword(lp)
                        THEN <<PlainKeyword(lp, lp.prop.attrs["value"])>> ELSE <<>>
           IN /\ file' = [file EXCEPT ![2].keys = @ \o NumberFrom(kwd_idx, numbered) \o plain]
              /\ kwd_idx' = kwd_idx + Len(numbered)
  /\ UNCHANGED <<phase, meta, original, trips, hdu, rest, krp, collected>>

\* value_iter->second is read although value_iter is end(): the program may
\* end there or write any text.  What it does next is not followed.
WriteUndefined ==
  /\ phase = "writing" /\ todo # <<>>
  /\ LET lp == Head(todo) IN ~(IsInfo(lp) /\ Unnamed(lp)) /\ ValueMissing(lp)
  /\ phase' = "undefined"
  /\ UNCHANGED <<written, todo, hdu, rest, krp, collected>>

-----------------------------------------------------------------------------
(* Keyword_Reader *)

\* std::map has one keyword of a key, here the first one.
KeyLess(a, b) ==
  \E i \in DOMAIN b : /\ \A j \in 1..(i - 1) : j \in DOMAIN a /\ a[j] = b[j]
                      /\ i \in DOMAIN a => PartLess(a[i], b[i])
Sorted(ks) ==
  LET sorted == InOrder({ks[i].key : i \in DOMAIN ks}, KeyLess)
  IN [n \in DOMAIN sorted |-> ks[Min({i \in DOMAIN ks : ks[i].key = sorted[n]})]]

\* What decode_fits_keyword() makes of a keyword.
Decoding(type, identifier, label, helper, attr, plain) ==
  [type |-> type, identifier |-> identifier, label |-> label, helper |-> helper,
   attr |-> attr, plain |-> plain]

NewPacket ==
  Decoding("LABELED_PROPERTY", <<>>, <<>>, "", "", FALSE) @@
  [prev_type |-> "LABELED_PROPERTY", prev_helper |-> "", prev_identifier |-> <<>>,
   prev_label |-> <<>>, prop |-> Property(NoAttributes, ""), attributes |-> NoAttributes,
   datatype |-> "STRING", arraysize |-> "1", found_ucd |-> FALSE]

Ignored(k) == k.key = <<"LONGSTRN">>
\* label_expr asks for a text of at least one character.
IsEncoded(k) == k.label # <<>> /\ k.text # ""

\* tag is a part of the identifier, but not the last one.
Within(identifier, tag) == {i \in 1..(Len(identifier) - 1) : identifier[i] = tag}
UpTo(identifier, tag) == SubSeq(identifier, 1, Max(Within(identifier, tag)))

DecodedElement(identifier, attr) ==
  CASE Within(identifier, "INFO") # {} ->
         Decoding("LABELED_PROPERTY", identifier, UpTo(identifier, "INFO"), "", attr, FALSE)
    [] Within(identifier, "INFO") = {} /\ Within(identifier, "PARAM") # {} ->
         Decoding("PARAM", identifier, UpTo(identifier, "PARAM"), Last(identifier), attr, FALSE)
    [] Within(identifier, "INFO") \cup Within(identifier, "PARAM") = {}
       /\ Within(identifier, "FIELD") # {} ->
         Decoding("FIELD", identifier, UpTo(identifier, "FIELD"), Last(identifier), attr, FALSE)
    [] OTHER ->
         Decoding("LABELED_PROPERTY", identifier,
                  IF identifier \in {VOTABLE_RESOURCE, VOTABLE_RESOURCE_TABLE}
                  THEN Append(identifier, XMLATTR) ELSE identifier, "", attr, FALSE)

Decoded(k) ==
  CASE ~IsEncoded(k) ->
         Decoding("LABELED_PROPERTY", k.key, k.key, "",
                  IF Len(k.key) = 1 THEN k.key[1] ELSE "", TRUE)
    [] IsEncoded(k) /\ Len(k.label) > 2 /\ k.label[Len(k.label) - 1] = XMLATTR ->
         DecodedElement(SubSeq(k.label, 1, Len(k.label) - 2), Last(k.label))
    [] OTHER -> Decoding("LABELED_PROPERTY", k.label, k.label, "", Last(k.label), FALSE)

\* decode_fits_keyword() on a packet.
Decode(p, k) == Decoded(k) @@ [p EXCEPT !.prev_type = p.type, !.prev_helper = p.helper]

\* The previous element is complete.
IsWrap(p, is_final) ==
  CASE p.prev_type = "LABELED_PROPERTY" -> is_final \/ p.identifier # p.prev_identifier
    [] p.prev_type = "PARAM" -> is_final \/ p.type # "PARAM" \/ p.helper # p.prev_helper
    [] p.prev_type = "FIELD" -> /\ p.attributes # NoAttributes
                                /\ is_final \/ p.type # "FIELD" \/ p.helper # p.prev_helper

Wraps(p, type, is_final) == p.prev_type = type /\ IsWrap(p, is_final)

WithElement(p, is_final) ==
  /\ combined' = IF /\ Wraps(p, "LABELED_PROPERTY", is_final)
                    /\ p.prev_label # <<>> /\ ~IsEmpty(p.prop)
                 THEN Append(combined, Labeled(p.prev_label, p.prop)) ELSE combined
  /\ params' = IF Wraps(p, "PARAM", is_final)
               THEN Append(params, [name |-> p.prev_helper, datatype |-> p.datatype,
                                    arraysize |-> p.arraysize, attrs |-> p.attributes])
               ELSE params
  /\ fields' = IF Wraps(p, "FIELD", is_final)
               THEN Emplace(fields, p.prev_helper, p.attributes) ELSE fields

BehindStale(p) ==  \* mutant: the identifier of the element begun is not kept
  CASE Wraps(p, "LABELED_PROPERTY", FALSE) ->
         [p EXCEPT !.prop = IF p.prev_label # <<>> THEN Property(NoAttributes, "") ELSE @,
                   !.prev_label = p.label]
    [] Wraps(p, "PARAM", FALSE) ->
         [p EXCEPT !.attributes = NoAttributes, !.datatype = "STRING", !.arraysize = "1"]
    [] Wraps(p, "FIELD", FALSE) -> [p EXCEPT !.attributes = NoAttributes]
    [] OTHER -> p
\* An element of the table leaves the previous identifier and label alone.
Behind(p) ==
  CASE Wraps(p, "LABELED_PROPERTY", FALSE) ->
         [p EXCEPT !.prop = IF p.prev_label # <<>> THEN Property(NoAttributes, "") ELSE @,
                   !.prev_identifier = p.identifier, !.prev_label = p.label]
    [] Wraps(p, "PARAM", FALSE) ->
         [p EXCEPT !.attributes = NoAttributes, !.datatype = "STRING", !.arraysize = "1"]
    [] Wraps(p, "FIELD", FALSE) -> [p EXCEPT !.attributes = NoAttributes]
    [] OTHER -> p

\* construct_tablator_element_if_moving_on(), the packet's part.
MovedOn(p) ==
  LET found == IF IsWrap(p, FALSE) \/ ~p.found_ucd THEN p.attr = "ucd" ELSE TRUE
      maps == IsWrap(p, FALSE) /\ ~found /\ p.attr \in DOMAIN UcdOf
  IN [Behind(p) EXCEPT !.found_ucd = found,
        !.prop.attrs = IF maps THEN Emplace(@, "ucd", UcdOf[p.attr]) ELSE @]

\* unpack_decoded_keyword()
AsProperty(prop, p, k) ==
  LET named == CASE p.plain -> [prop EXCEPT !.attrs = Emplace(@, "value", k.text)]
                 [] ~p.plain /\ p.attr = "irsa_value" -> [prop EXCEPT !.value = k.text]
                 [] OTHER -> [prop EXCEPT !.attrs = Emplace(@, p.attr, k.text)]
  IN IF k.comment = "" THEN named
     ELSE [named EXCEPT !.attrs = Emplace(@, "comment", k.comment)]
Unpacked(p, k) ==
  CASE p.type = "PARAM" /\ p.attr \in {"datatype", "arraysize"} -> [p EXCEPT ![p.attr] = k.text]
    [] p.type = "LABELED_PROPERTY" -> [p EXCEPT !.prop = AsProperty(@, p, k)]
    [] OTHER -> [p EXCEPT !.attributes = Emplace(@, p.attr, k.text)]

\* A name of the extension other than the default is a property.
ExtensionName(i) ==
  IF file[i].name \in {"", "Table"} THEN <<>>
  ELSE <<Labeled(<<IF i = 1 THEN "PRIMARY_EXTNAME" ELSE "TABLE_EXTNAME">>,
                 Property([value |-> file[i].name], ""))>>

ReadFile == /\ phase = "writing" /\ todo = <<>>
            /\ phase' = "entering" /\ hdu' = 1
            /\ combined' = <<>> /\ params' = <<>> /\ fields' = NoAttributes
            /\ UNCHANGED <<written, todo, rest, krp>>

\* read_keywords_as_tablator_elements() begins, with a packet of its own.
EnterHdu == /\ phase = "entering"
            /\ phase' = "reading"
            /\ combined' = combined \o ExtensionName(hdu)
            /\ rest' = Sorted(file[hdu].keys)
            /\ krp' = NewPacket
            /\ UNCHANGED <<written, todo, hdu, params, fields>>

IgnoreForever ==  \* mutant: the loop goes on with the same keyword
  /\ phase = "reading" /\ rest # <<>> /\ Ignored(Head(rest))
  /\ krp' = Decode(krp, Head(rest))
  /\ UNCHANGED <<phase, written, todo, hdu, rest, collected>>
IgnoreKeyword == /\ phase = "reading" /\ rest # <<>> /\ Ignored(Head(rest))
                 /\ krp' = Decode(krp, Head(rest))
                 /\ rest' = Tail(rest)
                 /\ UNCHANGED <<phase, written, todo, hdu, collected>>

ReadKeyword == /\ phase = "reading" /\ rest # <<>> /\ ~Ignored(Head(rest))
               /\ LET p == Decode(krp, Head(rest))
                  IN /\ WithElement(p, FALSE)
                     /\ krp' = Unpacked(MovedOn(p), Head(rest))
               /\ rest' = Tail(rest)
               /\ UNCHANGED <<phase, written, todo, hdu>>

\* The final element is constructed by the type and the name of the keyword
\* before the last one.
LeaveHdu == /\ phase = "reading" /\ rest = <<>>
            /\ WithElement(krp, TRUE)
            /\ IF hdu = 1 THEN phase' = "entering" /\ hdu' = 2
                          ELSE phase' = "distributing" /\ hdu' = 0
            /\ todo' = IF hdu = 1 THEN todo ELSE combined'
            /\ meta' = IF hdu = 1 THEN meta ELSE NoMetadata
            /\ UNCHANGED <<original, trips, writer, rest, krp>>

-----------------------------------------------------------------------------
(* distribute_metadata(), one labelled property per step.  meta is the table   *)
(* under construction.                                                       *)

Trailing(label) == Last(label) = END_INFO_MARKER
Level(label) == CASE IsPrefix(VOTABLE_RESOURCE_TABLE, label) /\ Len(label) = 4 -> "table"
                  [] IsPrefix(VOTABLE_RESOURCE, label) /\ Len(label) = 3 -> "resource"
                  [] OTHER -> "votable"
IsAttributes(label) ==
  /\ Last(label) = XMLATTR
  /\ IsPrefix(VOTABLE_RESOURCE, label) => Level(label) # "votable"

\* stash_resource_element_labeled_property()
Stashed(m, lp) ==
  CASE Len(lp.label) = 1 /\ lp.label[1] \in PROPERTY_STYLE_LABELS ->
         [m EXCEPT !.labeled = Append(@, lp)]
    [] IsPrefix(VOTABLE_RESOURCE, lp.label) /\ Len(lp.label) > 2 ->
         [m EXCEPT !.resource = Append(@, Labeled(SubSeq(lp.label, 3, Len(lp.label)), lp.prop))]
    [] OTHER -> [m EXCEPT !.resource = Append(@, lp)]

Distributed(m, lp) ==
  CASE IsEmpty(lp.prop) -> m
    [] ~IsEmpty(lp.prop) /\ Trailing(lp.label) ->
         [m EXCEPT !.infos[Level(lp.label)] = Append(@, lp.prop)]
    [] ~IsEmpty(lp.prop) /\ IsAttributes(lp.label) ->
         [m EXCEPT !.attrs[Level(lp.label)] = Insert(@, lp.prop.attrs)]
    [] OTHER -> Stashed(m, lp)

Distribute == /\ phase = "distributing" /\ todo # <<>>
              /\ meta' = Distributed(meta, Head(todo))
              /\ todo' = Tail(todo)
              /\ UNCHANGED <<phase, original, trips, writer, hdu, rest, krp, collected>>

\* The FIELD attributes go to the columns, not to the list that is written.
Assemble == /\ phase = "distributing" /\ todo = <<>>
            /\ phase' = "read"
            /\ meta' = [meta EXCEPT !.params = params]
            /\ UNCHANGED <<original, trips, todo, writer, hdu, rest, krp, collected>>

-----------------------------------------------------------------------------
\* fits_write_key_longwarn() has written the first keyword.
NewFile == <<[name |-> "", keys |-> <<>>],
             [name |-> "Table", keys |-> <<Keyword(<<"LONGSTRN">>, <<>>, "OGIP 1.0", "")>>]>>

BeginWriting(m) == /\ meta' = m /\ original' = m
                   /\ todo' = Combined(m) /\ file' = NewFile
                   /\ got_fits_keyword' = FALSE /\ kwd_idx' = 0 /\ phase' = "writing"

WriteAgain == /\ phase = "read" /\ trips < MaxTrips
              /\ BeginWriting(meta)
              /\ trips' = trips + 1
              /\ UNCHANGED <<hdu, rest, krp, collected>>

InitKeywords == /\ rest = <<>> /\ krp = NewPacket /\ got_fits_keyword = FALSE /\ kwd_idx = 0
                /\ combined = <<>> /\ params = <<>> /\ fields = NoAttributes

\* write_fits() is called with a table, or read_fits() with a file.
InitFromTable(m) == /\ meta = m /\ original = m /\ todo = Combined(m)
                    /\ phase = "writing" /\ trips = 1 /\ file = NewFile /\ hdu = 0
                    /\ InitKeywords
InitFromFile(hdus) == /\ meta = NoMetadata /\ original = meta /\ todo = <<>>
                      /\ phase = "entering" /\ trips = 0 /\ file = hdus /\ hdu = 1
                      /\ InitKeywords

KeywordStep == \/ WithoutName \/ WriteProperty \/ WriteUndefined
               \/ EnterHdu \/ IgnoreKeyword \/ ReadKeyword \/ LeaveHdu
               \/ Distribute

-----------------------------------------------------------------------------
(* Properties. *)

FieldAttributes(m) ==
  {<<m.fields[i].name, m.fields[i].attrs>> :
     i \in {j \in DOMAIN m.fields : m.fields[j].attrs # NoAttributes}}

Recovered == /\ [meta EXCEPT !.fields = <<>>] = [original EXCEPT !.fields = <<>>]
             /\ {<<n, fields[n]>> : n \in DOMAIN fields} = FieldAttributes(original)

\* By what Keyword_Reader tells elements apart.
Identifier(lp) == IF IsInfo(lp) THEN Front(Base(lp)) ELSE lp.label
Writes(lp) == ~(IsInfo(lp) /\ Unnamed(lp)) /\ ~IsEmpty(lp.prop)
\* Its attributes come back from one keyword.
PlainSurvives(lp) ==
  LET key == IF Len(Base(lp)) = 1 THEN Base(lp)[1] ELSE "" attrs == lp.prop.attrs
  IN /\ key \notin PROPERTY_STYLE_LABELS /\ lp.prop.value = ""
     /\ "comment" \in DOMAIN attrs => attrs["comment"] # ""
     /\ IF key \in DOMAIN UcdOf THEN "ucd" \in DOMAIN attrs /\ attrs["ucd"] = UcdOf[key]
                                ELSE "ucd" \notin DOMAIN attrs
\* A text of no characters does not survive behind <VOEND>.
ElementSurvives(lp) == \A a \in DOMAIN lp.prop.attrs : lp.prop.attrs[a] # ""

IsField(lp) == Len(lp.label) = 5 /\ lp.label[4] = "FIELD"
\* The last FIELD has one attribute: no keyword behind it or beside it.
LastFieldAlone(m) == LET L == Combined(m) IN
  L # <<>> /\ LET lp == Last(L) IN IsField(lp) /\ Cardinality(DOMAIN lp.prop.attrs) = 1
                                   /\ lp \notin ToSet(Front(L))

Survives(m) ==
  LET L == Combined(m)
      PlainAt == {i \in DOMAIN L : IsPlain(L[i])}
  IN /\ \A i \in DOMAIN L : Writes(L[i])
     /\ \A i \in PlainAt : PlainSurvives(L[i])
     /\ \A i \in DOMAIN L \ PlainAt : ElementSurvives(L[i])
     \* Behind a plain property there are plain ones only, in the order of their
     \* keys, and none sorts before an element of the resource that precedes it.
     /\ \A i \in PlainAt : \A j \in DOMAIN L :
          j > i => j \in PlainAt /\ KeyLess(Base(L[i]), Base(L[j]))
     /\ \A i \in PlainAt : \A j \in (Len(m.labeled) + 1)..(i - 1) :
          j \notin PlainAt => KeyLess(<<"VOKW0">>, Base(L[i]))
     \* A key of the writer's own kind is not taken.
     /\ \A i \in PlainAt : Base(L[i]) \notin {<<"VOKW" \o ToString(n)>> : n \in 0..(kwd_idx - 1)}
     /\ \A i \in DOMAIN L : i > 1 => \/ Identifier(L[i]) # Identifier(L[i - 1])
                                     \/ IsField(L[i])
     /\ \A f, g \in FieldAttributes(m) : f[1] = g[1] => f = g
     /\ m.attrs.votable = NoAttributes
     /\ ~LastFieldAlone(m)

\* A FITS file gives back the metadata it was written from exactly if nothing in
\* it is of the kinds the code loses: INFOs without a name, empty texts, UCDs of
\* plain keywords, attributes of VOTABLE, elements side by side with one
\* identifier, FIELDs of one name that differ, plain keywords in front of
\* elements, a last FIELD with one attribute.
RecoveredExactlyIfSurvives ==
  phase = "read" /\ trips > 0 => (Recovered <=> Survives(original))

\* The writer reads through an end iterator exactly if a property that has no
\* value attribute comes behind a plain one, whatever is between them.
UndefinedExactlyIfValueMissing ==
  phase \in {"undefined", "entering"} /\ trips > 0 =>
    LET L == Combined(original) IN
    phase = "undefined" <=>
      \E i, j \in DOMAIN L : /\ i < j /\ IsPlain(L[i])
                             /\ "value" \notin DOMAIN L[j].prop.attrs
                             /\ ~(IsInfo(L[j]) /\ Unnamed(L[j]))

=============================================================================
