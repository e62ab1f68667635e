----------------------------- MODULE IpacHeader -----------------------------
(***************************************************************************)
(* The lines at the top of an IPAC table that start with a backslash:        *)
(* write_keywords_and_comments() of the writer, and what the first loop of    *)
(* read_ipac_header() makes of them.                                         *)
(*                                                                           *)
(* A text is a sequence of lines, as getline() cuts it, and a line a          *)
(* sequence of words; "=" and "'" are words of their own where they occur     *)
(* in a keyword.  Keywords are on one line: the writer replaces newlines.     *)
(***************************************************************************)
EXTENDS Naturals, Sequences, SequencesExt, FiniteSetsExt

EQUAL == "="
QUOTE == "'"

FIXLEN_KEYWORD == "fixlen"
ROWS_RETRIEVED_KEYWORD == "RowsRetrieved"

\* What is read of the names of these two, whatever the case of their letters.
GeneratedKeywords == {<<FIXLEN_KEYWORD>>, <<"FIXLEN">>, <<ROWS_RETRIEVED_KEYWORD>>}

\* comment: there is a blank behind the backslash.
CommentLine(words) == [comment |-> TRUE, words |-> words]
KeywordLine(name, value) ==
  [comment |-> FALSE, words |-> name \o <<EQUAL, QUOTE>> \o value \o <<QUOTE>>]

----------------------------------------------------------------------------
\* Properties: a label, attributes in the order of their names, and a value.
\* Attributes are pairs of a name and of the words of a value.

Has(attrs, name) == \E i \in DOMAIN attrs : attrs[i][1] = name
Get(attrs, name) == attrs[SelectInSeq(attrs, LAMBDA a : a[1] = name)][2]

WithComment(name, attrs) ==
  <<KeywordLine(name, Get(attrs, "value"))>>
  \o IF Has(attrs, "comment")
     THEN <<KeywordLine(Append(name, "_COMMENT"), Get(attrs, "comment"))>> ELSE <<>>

\* An INFO that is a name and a value, with or without a comment.
IsKeyword(p) ==
  /\ p.label = "INFO" /\ Has(p.attrs, "name") /\ Has(p.attrs, "value")
  /\ Len(p.attrs) = 2 \/ (Len(p.attrs) = 3 /\ Has(p.attrs, "comment"))

ValueLine(p) == IF p.value = <<>> THEN <<>> ELSE <<KeywordLine(<<p.label>>, p.value)>>

ResourceLines(p) ==
  (IF IsKeyword(p) THEN WithComment(Get(p.attrs, "name"), p.attrs)
   ELSE IF Has(p.attrs, "value") THEN WithComment(<<p.label>>, p.attrs)
   ELSE [i \in DOMAIN p.attrs |-> KeywordLine(<<p.attrs[i][1]>>, p.attrs[i][2])])
  \o ValueLine(p)

JSON_DESC_LABEL == "RESOURCE.TABLE.DESCRIPTION"

IsPair(p) == Len(p.attrs) = 2 /\ Has(p.attrs, "name") /\ Has(p.attrs, "value")

TableLines(p) ==
  (IF p.label = JSON_DESC_LABEL THEN <<>> ELSE ValueLine(p))
  \o IF IsPair(p)
     THEN IF Get(p.attrs, "name") \in {<<FIXLEN_KEYWORD>>, <<ROWS_RETRIEVED_KEYWORD>>} THEN <<>>
          ELSE <<KeywordLine(Get(p.attrs, "name"), Get(p.attrs, "value"))>>
     ELSE [i \in DOMAIN p.attrs |-> KeywordLine(<<p.label \o "." \o p.attrs[i][1]>>, p.attrs[i][2])]

Flattened(Lines(_), s) == FlattenSeq([i \in DOMAIN s |-> Lines(s[i])])

----------------------------------------------------------------------------
\* Comments.

CommentLines(text) == [i \in DOMAIN text |-> CommentLine(text[i])]

\* Mutant of LooksLike: any comment that has the word.
Mentions(text, name) == \E i \in DOMAIN text : \E k \in DOMAIN text[i] : text[i][k] = name

\* The comment is the name, or goes on with a blank.
LooksLike(text, name) ==
  /\ text # <<>> /\ text[1] # <<>> /\ text[1][1] = name
  /\ Len(text[1]) > 1 \/ Len(text) = 1

\* Comments that look like omitted columns' are left out.
KeptComments(comments, omitted) ==
  SelectSeq(comments, LAMBDA text : \A name \in omitted : ~LooksLike(text, name))

ColumnComment(f) == <<f.name>> \o IF f.unit = "" THEN <<>> ELSE <<"(" \o f.unit \o ")">>

DESCRIPTION_MARK == "___"

\* Mutant of HasComment: comments are not looked at.
HasDescription(meta, f) ==
  \E i \in DOMAIN meta.table_description : meta.table_description[i] = ColumnComment(f)

\* The comment is there, alone, or as a line of the table's description or of one in JSON
\* (which is kept from being written).
HasComment(meta, f) ==
  \/ \E i \in DOMAIN meta.props :
        meta.props[i].label = JSON_DESC_LABEL /\ meta.props[i].value = ColumnComment(f)
  \/ \E i \in DOMAIN meta.comments : meta.comments[i] = <<ColumnComment(f)>>
  \/ \E i \in DOMAIN meta.table_description : meta.table_description[i] = ColumnComment(f)

\* A column's default comment, and its description.
DefaultComment(meta, f) ==
  IF (f.unit = "" /\ ~f.attrs /\ f.desc = <<>>) \/ HasComment(meta, f) THEN <<>>
  ELSE <<CommentLine(ColumnComment(f))>>
       \o IF f.desc = <<>> THEN <<>> ELSE <<CommentLine(<<DESCRIPTION_MARK>> \o f.desc)>>

\* The line of a property without a name is refused, the lines before it are written.
KeywordsWritable(meta) ==
  /\ \A p \in ToSet(meta.resource_props) : IsKeyword(p) => Get(p.attrs, "name") # <<>>
  /\ \A p \in ToSet(meta.props) : IsPair(p) => Get(p.attrs, "name") # <<>>

\* Fields are those that are written, omitted the names of all others.
write_keywords_and_comments(meta, fields, omitted, row_count) ==
  <<[comment |-> FALSE, words |-> <<FIXLEN_KEYWORD, EQUAL, "T">>],
    [comment |-> FALSE, words |-> <<ROWS_RETRIEVED_KEYWORD, EQUAL, ToString(row_count)>>]>>
  \o [i \in DOMAIN meta.attributes |->
        KeywordLine(<<meta.attributes[i][1]>>, meta.attributes[i][2])]
  \o Flattened(ResourceLines, meta.resource_props)
  \o Flattened(TableLines, meta.props)
  \o CommentLines(meta.description)
  \o Flattened(CommentLines, KeptComments(meta.comments, omitted))
  \o CommentLines(meta.table_description)
  \o Flattened(LAMBDA f : DefaultComment(meta, f), fields)

----------------------------------------------------------------------------
\* Reading the lines again.

KeyOf(line)   == SubSeq(line.words, 1, SelectInSeq(line.words, LAMBDA w : w = EQUAL) - 1)
Behind(line)  == SubSeq(line.words, SelectInSeq(line.words, LAMBDA w : w = EQUAL) + 1, Len(line.words))

\* From the first to the last word that is no quote.
Unquoted(words) ==
  LET others == {i \in DOMAIN words : words[i] # QUOTE}
  IN  IF others = {} THEN <<>> ELSE SubSeq(words, Min(others), Max(others))

\* Without an equal sign it is a comment whose blank is missing.
IsComment(line) == line.comment \/ EQUAL \notin ToSet(line.words)

Info(line) == [label |-> "INFO", value |-> <<>>,
               attrs |-> <<<<"name", KeyOf(line)>>, <<"value", Unquoted(Behind(line))>>>>]

ReadKeywords(lines) ==
  LET kept == SelectSeq(lines, LAMBDA l : ~IsComment(l) /\ KeyOf(l) \notin GeneratedKeywords)
  IN  [i \in DOMAIN kept |-> Info(kept[i])]

\* An empty comment is a text without lines.
ReadComments(lines) ==
  LET kept == SelectSeq(lines, IsComment)
  IN  [i \in DOMAIN kept |-> IF kept[i].words = <<>> THEN <<>> ELSE <<kept[i].words>>]

read_header(lines) ==
  [attributes |-> <<>>, resource_props |-> ReadKeywords(lines), props |-> <<>>,
   description |-> <<>>, comments |-> ReadComments(lines), table_description |-> <<>>]
=============================================================================
