--------------------------- MODULE IpacRoundTrip ---------------------------
(***************************************************************************)
(* IPAC tables from end to end: the command line asks for columns and rows    *)
(* of a Table, Ipac_Table_Writer writes them, and read_ipac_table() reads the  *)
(* file, line by line as in IpacReader; the Table that is read can be written  *)
(* again.  Beside these files there are those that nobody wrote: IpacReader    *)
(* alone, with any lines.                                                    *)
(***************************************************************************)
EXTENDS IpacReader, IpacWriter

CONSTANTS
  Tables,    \* the Tables that are written first
  Requests,  \* what is asked of the first two that are written
  Everything, \* the request that has no list, of the third
  MaxTrips   \* bound of the model on how often a Table is written

VARIABLES
  stage,     \* "free": a file that nobody wrote; "table", "file": what is at hand;
             \* "refused": nothing was written; "cut": the file ends before its records
  tab,       \* the Table
  file,      \* what was last written
  written    \* history: the Tables, requests and files so far

trip == <<stage, tab, file, written>>
allvars == <<vars, trip>>

----------------------------------------------------------------------------
\* What a Table is.  Columns and rows are told by their lengths; the name of the last
\* element of an array is the longest.
IsList(s) == Len(s) \in Nat /\ s = [i \in 1..Len(s) |-> s[i]]

IsField(f) ==
  /\ f.type \in DOMAIN TYPE_NAME /\ f.size \in Nat \ {0}
  /\ f.null_text \in Nat /\ f.null_blank \in BOOLEAN
  /\ Len(f.unit) \in Nat
  /\ \A j \in 0..(f.size - 1) :
       Len(NameOf(f, j)) \in Nat /\ Len(NameOf(f, j)) <= Len(NameOf(f, f.size - 1))

\* What is trimmed is no longer; only of a null value that has characters can another
\* text be told, and numbers have no blanks.
IsTextOf(f, t) ==
  /\ t \in [len : Nat, core : Nat, word : {"", "marker", "null"}, large : BOOLEAN]
  /\ t.core <= t.len
  /\ t.word = "marker" => f.null_text > 0 /\ ~f.null_blank
  /\ f.type # "char" => t.core = t.len /\ t.core > 0

\* A string or a number is one text, an array at most as many as its column holds.
IsCell(f, cell) ==
  /\ cell.null \in BOOLEAN
  /\ ~cell.null =>
       /\ IsList(cell.texts) /\ \A j \in DOMAIN cell.texts : IsTextOf(f, cell.texts[j])
       /\ IF f.type = "char" \/ f.size = 1 THEN Len(cell.texts) = 1
                                           ELSE Len(cell.texts) <= f.size

IsTable(t) ==
  /\ IsList(t.fields) /\ \A c \in DOMAIN t.fields : IsField(t.fields[c])
  /\ IsList(t.rows)
  /\ \A i \in DOMAIN t.rows : \A c \in DOMAIN t.fields : IsCell(t.fields[c], t.rows[i][c])

IsRequest(request) ==
  /\ request.column_list \in Seq(Nat) /\ request.row_list \in Seq(Nat)
  /\ request.row_id \in Nat /\ request.start_row \in Nat /\ request.row_count \in Nat

ASSUME TablesAssumption == \A t \in Tables : IsTable(t)
ASSUME RequestsAssumption == \A request \in Requests \cup {Everything} : IsRequest(request)

\* How long the words of a header are, of which the provers know nothing: none is empty,
\* and "char", as which unsigned numbers are written, fits where "long" does.
ASSUME WordsAssumption ==
  /\ \A word \in {"int", "long", "float", "double", "char", DEFAULT_NULL_VALUE} :
       Len(word) \in Nat \ {0}
  /\ Len("char") <= Len("long")

----------------------------------------------------------------------------
NoFile == [lines |-> <<>>, headings |-> <<>>, records |-> <<>>]

\* The reader before it has seen a header.
Idle ==
  /\ columns = <<>> /\ state = "reading" /\ lines = 0 /\ row_idx = 0
  /\ widths = <<>> /\ minimum_column_widths = <<>>
  /\ rows = <<>> /\ recorded = <<>> /\ own = <<>> /\ text = <<>>

TripInit ==
  \/ /\ stage = "free" /\ tab = "none" /\ Init
     /\ file = NoFile /\ written = <<>>
  \/ /\ stage = "table" /\ tab \in Tables /\ Idle
     /\ file = NoFile /\ written = <<>>

----------------------------------------------------------------------------
\* handle_write_ipac_subtable(): what fails before the first line leaves an empty file.
Fails(request) ==
  \/ RowTooLarge(tab, request)
  \/ ~RowIdsValid(tab, RowIds(tab, request))
  \/ Unsupported(tab)

IsCut(request) ==
  \/ ~request.skip_comments /\ ~KeywordsWritable(tab.meta)
  \/ ~HeadingsWritable(tab, ValidIds(tab, ColumnIds(tab, request)))

AskedFor(request) == Len(written) < 2 \/ request = Everything

Refuse(request) ==
  /\ Fails(request)
  /\ stage' = "refused"
  /\ UNCHANGED <<tab, file, written>>

Cut(request) ==
  /\ ~Fails(request) /\ IsCut(request)
  /\ stage' = "cut"
  /\ UNCHANGED <<tab, file, written>>

WriteAll(request) ==
  /\ ~Fails(request) /\ ~IsCut(request)
  /\ stage' = "file"
  /\ file' = write_subtable(tab, request)
  /\ written' = Append(written, [table |-> tab, request |-> request, file |-> file'])
  /\ UNCHANGED tab

Write ==
  /\ stage = "table" /\ Len(written) < MaxTrips
  /\ \E request \in Requests \cup {Everything} :
       /\ AskedFor(request)
       /\ Refuse(request) \/ Cut(request) \/ WriteAll(request)
  /\ UNCHANGED vars

----------------------------------------------------------------------------
\* read_ipac_header(), create_types_from_ipac_headers(): bars stand where those of the
\* names stand, and there are no others.
Fits(h) == \A t \in {Len(h.name), Len(to_ipac_string(h.type)), Len(h.unit), h.null.len} : t <= h.width

HeaderReadable(f) ==
  /\ f.headings # <<>>
  /\ \A h \in ToSet(f.headings) : Fits(h) /\ ~h.barred

\* A null value of blanks is none.
Marked(h) == h.null.core > 0

append_ipac_data_member(h) ==
  [char |-> to_ipac_string(h.type) = "char", width |-> h.width, marked |-> Marked(h)]

ReadHeader ==
  /\ stage = "file" /\ columns = <<>> /\ state = "reading"
  /\ IF HeaderReadable(file)
     THEN /\ columns' = [c \in DOMAIN file.headings |-> append_ipac_data_member(file.headings[c])]
          /\ widths' = [c \in DOMAIN file.headings |-> file.headings[c].width]
          /\ minimum_column_widths' = [c \in DOMAIN file.headings |-> 1]
          /\ UNCHANGED state
     ELSE /\ state' = "failed"
          /\ UNCHANGED <<columns, widths, minimum_column_widths>>
  /\ UNCHANGED <<lines, row_idx, rows, recorded, own, text, trip>>

\* The trimmed element that is found where a text was written.
ElementOf(h, t) ==
  [len |-> t.core, ok |-> TRUE, mark |-> t.word # "" /\ t.word = h.null.word,
   word |-> IF t.core = 0 THEN "" ELSE t.word]

ElementsOf(f, i) ==
  [c \in DOMAIN f.headings |-> ElementOf(f.headings[c], f.records[i][c])]

IsMisaligned(f, i) == \E c \in DOMAIN f.headings : f.records[i][c].len > f.headings[c].width
IsBlank(es) == \A c \in DOMAIN es : es[c].len = 0

ReadRecord ==
  /\ stage = "file" /\ columns # <<>> /\ state = "reading" /\ lines < Len(file.records)
  /\ lines' = lines + 1
  /\ LET es == ElementsOf(file, lines + 1)
     IN  \/ IsMisaligned(file, lines + 1) /\ Misaligned
         \/ ~IsMisaligned(file, lines + 1) /\ IsBlank(es) /\ BlankLine
         \/ /\ ~IsMisaligned(file, lines + 1) /\ ~IsBlank(es)
            /\ ReadLine(es) \/ CannotInsert(es)
  /\ UNCHANGED trip

EndOfWritten ==
  /\ stage = "file" /\ columns # <<>> /\ lines = Len(file.records)
  /\ EndOfFile
  /\ UNCHANGED trip

----------------------------------------------------------------------------
\* The Table that was read.
TYPE_READ == [int |-> "int32", long |-> "int64", float |-> "float32", double |-> "float64",
              char |-> "char"]

FieldRead(c) ==
  LET h == file.headings[c]
  IN  [name |-> h.name, unit |-> h.unit, attrs |-> h.unit # "", desc |-> <<>>, bar |-> "",
       type |-> TYPE_READ[to_ipac_string(h.type)],
       size |-> IF columns[c].char THEN widths[c] ELSE 1,
       null_text |-> IF Marked(h) /\ h.null.word = "marker" THEN h.null.core ELSE 0,
       null_blank |-> FALSE]

CellRead(i, c) ==
  [null |-> rows[i][c].null,
   texts |-> IF rows[i][c].null THEN <<>>
             ELSE <<[len |-> rows[i][c].chars, core |-> rows[i][c].chars,
                     word |-> text[i][c].word, large |-> FALSE]>>]

TableRead ==
  [meta   |-> read_header(file.lines),
   fields |-> [c \in DOMAIN columns |-> FieldRead(c)],
   rows   |-> [i \in DOMAIN rows |-> [c \in DOMAIN columns |-> CellRead(i, c)]]]

TakeTable ==
  /\ stage = "file" /\ state = "read"
  /\ stage' = "table" /\ tab' = TableRead
  /\ columns' = <<>> /\ state' = "reading" /\ lines' = 0 /\ row_idx' = 0
  /\ widths' = <<>> /\ minimum_column_widths' = <<>>
  /\ rows' = <<>> /\ recorded' = <<>> /\ own' = <<>> /\ text' = <<>>
  /\ UNCHANGED <<file, written>>

ReadFree == stage = "free" /\ Next /\ UNCHANGED trip

TripNext == ReadFree \/ Write \/ ReadHeader \/ ReadRecord \/ EndOfWritten \/ TakeTable

TripSpec == TripInit /\ [][TripNext]_allvars

----------------------------------------------------------------------------
\* What was asked for, and what comes of it.
Latest == written[Len(written)]
Ids == ValidIds(Latest.table, ColumnIds(Latest.table, Latest.request))
Asked == LET ids == RowIds(Latest.table, Latest.request)
         IN  [i \in DOMAIN ids |-> Latest.table.rows[ids[i] + 1]]

\* An element of the Table: of a column, the number of the element in the array.
Heads == FlattenSeq([i \in DOMAIN Ids |->
           [j \in 1..(IF Latest.table.fields[Ids[i]].type = "char" THEN 1
                      ELSE Latest.table.fields[Ids[i]].size) |-> <<Ids[i], j>>]])
AskedCell(i, c) ==
  LET cell == Asked[i][Heads[c][1]]
  IN  [null |-> cell.null,
       chars |-> IF cell.null THEN 0
                 ELSE IF Heads[c][2] \in DOMAIN cell.texts THEN cell.texts[Heads[c][2]].len ELSE 99]

SameRows ==
  /\ Len(rows) = Len(Asked)
  /\ \A i \in DOMAIN rows : \A c \in DOMAIN Heads :
       /\ rows[i][c].null = AskedCell(i, c).null
       /\ ~rows[i][c].null => rows[i][c].chars = AskedCell(i, c).chars

\* As text a cell survives if it is null and its column has a null value that is not
\* blank, or if it has no blanks at its ends and is not the null value itself.
IsText(id) == ActiveType(Latest.table, id) = "char"

TextSurvives(f, cell) ==
  IF cell.null THEN NullText(f).core > 0
  ELSE /\ cell.texts[1].len = cell.texts[1].core
       /\ cell.texts[1].word = "" \/ cell.texts[1].word # NullText(f).word

\* An array survives if it is as long as its column.
NumbersSurvive(f, cell) ==
  cell.null \/ /\ Len(cell.texts) = f.size
               /\ \A t \in ToSet(cell.texts) : t.word = "" \/ t.word # NullText(f).word

\* A row with nothing but blanks is a blank line.
IsSeen(row) ==
  \E id \in ToSet(Ids) :
    IF row[id].null THEN NullText(Latest.table.fields[id]).core > 0
    ELSE \E t \in ToSet(row[id].texts) : t.core > 0

RowSurvives(row) ==
  /\ IsSeen(row)
  /\ \A id \in ToSet(Ids) :
       IF IsText(id) THEN TextSurvives(Latest.table.fields[id], row[id])
                     ELSE NumbersSurvive(Latest.table.fields[id], row[id])

HeaderSurvives == Ids # <<>> /\ \A id \in ToSet(Ids) : Latest.table.fields[id].bar # "null"

\* Every width leaves room for its column: a file that was written is read, and it has
\* the rows that were asked for, exactly if its columns can be told apart and every row
\* of them survives as text.
RowsComeBackExactlyIfTheySurvive ==
  stage = "file" /\ state \in {"read", "failed"} =>
    ((state = "read" /\ SameRows)
       <=> (HeaderSurvives /\ \A i \in DOMAIN Asked : RowSurvives(Asked[i])))

\* Keywords and comments settle: the third file starts with the lines of the second; the
\* second with those of the first, unless some are for the reader to drop, to trim or to
\* cut, or a column with a unit lacks its comment (one of an array, or of a JSON table).
IsStable(line) ==
  IF line.comment THEN line.words # <<>>
  ELSE \/ KeyOf(line) \in {<<FIXLEN_KEYWORD>>, <<ROWS_RETRIEVED_KEYWORD>>} /\ QUOTE \notin ToSet(line.words)
       \/ /\ KeyOf(line) \notin GeneratedKeywords
          /\ Len(Unquoted(Behind(line))) = Len(Behind(line)) - 2

LacksComments(f) ==
  \E h \in ToSet(f.headings) : h.unit # "" /\ CommentLine(ColumnComment(h)) \notin ToSet(f.lines)

HeaderSettles ==
  /\ Len(written) = 3 /\ written[2].request = Everything =>
       written[3].file.lines = written[2].file.lines
  /\ Len(written) = 2 /\ written[1].request = Everything /\ written[2].request = Everything =>
       (written[2].file.lines = written[1].file.lines
          <=> /\ \A l \in ToSet(written[1].file.lines) : IsStable(l)
              /\ ~LacksComments(written[1].file)
              /\ Len(written[2].file.records) = Len(written[1].file.records))

\* A description that the first file has behind the comment of its column is in the second
\* one too, whatever columns are asked for; it is still behind that comment exactly if
\* its column is among them.
DescriptionLine(f) == CommentLine(<<DESCRIPTION_MARK>> \o f.desc)
StandsBehind(all, line, comment) ==
  \E k \in 2..Len(all) : all[k] = line /\ all[k - 1] = comment

DescriptionsOutliveTheirColumns ==
  Len(written) = 2 /\ ~written[2].request.skip_comments =>
    \A f \in ToSet(written[1].table.fields) :
      StandsBehind(written[1].file.lines, DescriptionLine(f), CommentLine(ColumnComment(f))) =>
        /\ DescriptionLine(f) \in ToSet(written[2].file.lines)
        /\ StandsBehind(written[2].file.lines, DescriptionLine(f), CommentLine(ColumnComment(f)))
             <=> ~(f.name \in Omitted(written[2].table, ColumnIds(written[2].table, written[2].request)))
=============================================================================
