# A verification project for tablator

tablator reads a table in one of a dozen formats into memory, applies a few
operations to it and writes it in another format. Everything in it is sequential
and synchronous: there are no threads, callbacks, timers or persistent state. What
makes it hard is different: the same fact is kept in several places that separate
pieces of code move by hand (bytes, array lengths and null flags of a row; a row
count and a row index; a width inferred in one pass and used in the next), texts are
cut up by positions in buffers that change under them, and some operations fail half
way and are followed by another attempt. The models concentrate on that.

Paths in this document are relative to `src/`.

## The system

| Part | State | Operations | Where |
|---|---|---|---|
| Row store | `data_`, `dynamic_array_sizes_by_row_`, `num_rows_inserted_` of `Data_Details` | `append_row`, `append_rows`, `adjust_num_rows`, `winnow_rows`, the readers' swaps | `src/Data_Details.hxx`, `src/Data_Details/Data_Details.cxx` |
| Row | bytes and array lengths of the row being built | `fill_with_zeros`, `insert`, `set_dynamic_array_sizes`, conversions from text, big-endian bytes and FITS | `src/Row*`, `src/Row/` |
| Columns and null flags | columns, offsets, width of column 0 | `Field_Framework`, `bits_to_bytes` | `src/Field_Framework.hxx`, `src/Utils/Null_Utils.hxx` |
| Table operations | a new table made from others | `combine_tables`, `add_counter_column` | `src/Table_Ops.*`, `src/Data_Details/Data_Details.cxx` |
| IPAC table reader | row index, string lengths, column widths | `read_ipac_header`, `read_ipac_table`, `shrink_ipac_string_columns_to_fit` | `src/Table/read_ipac_table/` |
| IPAC table writer | widths of columns, the comments and keywords still to be written | `get_column_widths`, `write_keywords_and_comments`, `write_subtable_by_column_and_row` and its kin | `src/Ipac_Table_Writer*` |
| DSV parser, reader, writer | buffer positions and parse state; inferred types; quoting | `DSV_Parser`, `set_column_info`, `read_dsv_rows`, `write_dsv` | `src/Table/read_dsv/` (the parser in `parse_dsv/`), `src/Table/write_dsv.cxx` |
| Format guessing | position and failure bits of a stream, the table under construction | `read_unknown` | `src/Table/read_unknown/read_unknown.cxx` |
| TABLEDATA reader | texts of cells, column widths, lists of lengths | `read_tabledata` | `src/ptree_readers/.../read_tabledata/` |
| BINARY2 reader and writer | positions in byte streams, rows per stream, column widths | `read_binary2`, `write_binary2` | `src/ptree_readers/.../read_binary2/`, `src/Table/write_binary2/` |
| VOTable and JSON readers | the list of resources, the index of the results resource, attributes and properties of every element | `read_property_tree_as_votable` and below, `arrange_resources` | `src/ptree_readers/`, `src/Table.hxx` |
| VOTable and JSON writers | the property tree | `generate_property_tree`, `add_to_property_tree` | `src/Table/generate_property_tree/`, `src/Table/write.cxx` |
| FITS writer and reader | the running number of keywords, `got_fits_keyword`; the element being put together from keywords; null values of columns | `write_fits`, `read_fits` | `src/Table/write_fits.cxx`, `src/Table/read_fits.cxx` |
| Types for a format | | `get_datatypes_for_writing` | `src/Data_Type_Adjuster.cxx` |
| HDF5, SQL, HTML writers and the HDF5 reader | mostly calls of libraries and formatting | `Table::read_hdf5`, `Table::write_*` | `src/Table/` |
| Metadata | resource, table and field elements with labelled properties | `combine_*`, `distribute_metadata` | `src/Table/Table.cxx`, `src/*_Element.hxx` |
| Program | options | load, append, winnow, combine, count, write | `src/tablator/main.cxx` |

The program reads its input with the reader its options or `read_unknown()` call
for. A reader builds a `Row` at a time and adds it to the row store (HDF5 fills the
store at once; IPAC swaps a second store in when it narrows string columns). The
program then applies `append_rows()` and `winnow_rows()` to the table, or makes a new
table of one or two with `combine_tables()` or `add_counter_column()`, and writes it.
Calls are direct; the only failures are exceptions, which leave what has been done
done.

### Hard behaviours and the properties they call for

* **Three counts of the same rows** (`src/Data_Details/Data_Details.cxx:14-52`). Bytes, lists of
  lengths and a counter agree only along some sequences of calls. Every row must keep
  its own lengths, and it must be known which calls break that.
* **A loop with three cursors** (`src/Data_Details/Data_Details.cxx:56-103`). `winnow_rows()` must
  retain the selected rows in order, and stay inside the table.
* **Null flags packed in bits** (`src/Data_Details/Data_Details.cxx:181-264`). Flags joined from
  two tables must stay the flags of their columns on both sides of a byte boundary.
* **A quoted field over several lines** (`src/Table/read_dsv/parse_dsv/DSV_Parser.cxx`). Three positions
  point into a buffer that is cut and extended. The result must be what quoting means.
* **Writing what is read back** (`src/Table/write_dsv.cxx`). Quotes are not escaped.
* **Two passes with different rules** (`src/Table/read_dsv/`). Types inferred in one
  pass are used to convert in the next; failures, values and lengths depend on it.
* **A second attempt after a failed one** (`src/Table/read_unknown/read_unknown.cxx:49-60`). What
  the first attempt left in the stream and in the table meets the second.
* **Lengths recorded twice** (`src/Table/read_ipac_table/`). The index of the second
  record counts lines, not rows, and an early return chooses which record survives.
* **Metadata in another shape** (`src/Table/Table.cxx`, `src/Table/read_fits.cxx`).
  Properties of three levels become one list of numbered FITS keywords, and elements
  are put together again from neighbours in that list: what stays behind from the one
  before decides what the next one is.
* **Order of elements** (`src/ptree_readers/`, `src/Table/generate_property_tree/`).
  The reader takes an element section by section, the writer has an order of its own,
  and XML and JSON differ in what joins an array. Which tables survive?
* **Types that widen on the way** (`src/Data_Type_Adjuster.cxx`). A second trip starts
  from the types, null values, comments and lengths that the first one has made.
* **One width per column** (`src/Ipac_Table_Writer/Ipac_Table_Writer.cxx:191`). It has
  to do for names, types, units, null values and numbers of all columns of an array;
  the reader finds fields by nothing but their places.
* **An index of rows into a list of children** (`read_tabledata.cxx:69-72`). Children of
  TABLEDATA that are no rows get lists of lengths, and the lists are read by row.
* **Two passes over one stream of bytes** (`compute_column_array_sizes.cxx`,
  `append_data_from_stream.cxx`). The second relies on the first for all its bounds,
  on truncated streams, too, and base64 leaves padding that looks like data.

`PROJECT.json` lists them at their lines with the properties that cover them.

## The modules

| Module | Models | State and actions |
|---|---|---|
| `LogicalTable` | what a row store promises | rows; insert, load, hand over, extend, retain |
| `DataDetails` | `Data_Details`, and how readers and the program use it | `data`, `sizes`, `inserted`, `initial` are its members; the loop of `winnow_rows()` takes a step per iteration, with its locals `read`, `write`, `prev`. `CliNext` is the program's protocol (read, hand over, append, winnow), `ApiNext` any public call at any time |
| `DataDetails_proofs` | | theorems about the former |
| `TableOps` | `combine_tables()`, `add_counter_column()` | tables of columns and rows; a step per row of the new table; `sizes` are the lengths in the one `Row` all rows are built in. `CliNext` uses tables from readers, `ApiNext` also those it has made |
| `TableOps_proofs` | | theorems about the former |
| `DsvText` | what a delimiter-separated text means | a character at a time, no buffer |
| `DsvParser` | `DSV_Parser` | a step per iteration of its loop, with the positions `idx`, `field_beg`, `field_end` in `row_str`, and `elem`, the part of a field that has left the buffer |
| `DsvRoundTrip` | `write_dsv()`, and the parser on what it writes | the text of a table as the parser's stream |
| `DsvReader` | `set_column_info()`, `read_dsv_rows()` | a step per element of each pass |
| `Dsv_proofs` | | theorems about the parser (positions, and the refinement of `DsvText`), the round trip and the reader |
| `ReadUnknown` | `read_unknown()`, comments and records of both attempts | position, `eofbit` and `failbit` of the stream; a step per line |
| `ReadUnknown_proofs` | | theorems about the former |
| `IpacReader` | `read_ipac_table()` behind the header, `shrink_ipac_string_columns_to_fit()` | a step per line; both records of string lengths |
| `IpacHeader` | `write_keywords_and_comments()`; the first loop of `read_ipac_header()` | operators on lines, which are sequences of words |
| `IpacWriter` | `Ipac_Table_Writer`: types, widths, headers, records; which columns and rows `main()` asks for | operators on Tables |
| `IpacRoundTrip` | a Table written, read and written again | extends `IpacReader` and the writer: `Write`, `ReadHeader`, a step per record with the actions of `IpacReader`, `TakeTable` |
| `Ipac_proofs` | | theorems about the reader alone and about the round trip |
| `TabledataReader` | `read_tabledata()` | a step per child, then a step per row; `element_lists_by_row`, `minimum_column_widths`, `dynamic_array_sizes_by_row` and the table's own list, with which it changes places |
| `TabledataReader_proofs` | | theorems about the former |
| `Binary2` | `write_binary2()`, base64, both passes of `read_binary2()` | bytes; a step per cell written and per cell read, column 0 with the null flags being the first of a row; positions from 0 as in the code |
| `Binary2_proofs` | | theorems about the former |
| `FitsKeywords` | keywords out and in: `combine_labeled_properties()`, the keyword loops of `write_fits()` and `read_fits()`, `distribute_metadata()` | a step per property and per keyword; `kwd_idx`, `got_fits_keyword`, and `krp`, the element that is being put together |
| `Fits` | `write_fits()`, `read_fits()`: columns, null values, cells, units, strings made of substrings | extends `FitsKeywords`; a step per cell out and in; a table makes up to `MaxTrips` trips |
| `Fits_proofs` | | theorems about both |
| `PropertyTree` | `generate_property_tree()` and what it calls | operators on trees whose children are entries of a label and a tree |
| `VOTable` | the readers of a property tree, `arrange_resources()`, `write()` | a step per element of VOTABLE, then `Finish`, `Write`, and reading what was written, as XML or JSON |

`MC*` modules give the constants of one of these their values; each cfg is one
instance. `MCDsv` puts the parser, the conversion of documents and the guessing of formats
side by side: one of the three is at work in each behaviour, the others rest. Names are those of the source where TLA+ allows. The code's indices start at
0, sequences at 1: row `r` is `data[r + 1]`. An exception that leaves nothing behind
is a stuttering step; one that leaves something (`WinnowThrows`, a failed attempt of
`read_unknown()`, a row stored before `at()` throws) is a step of its own.

What is abstracted: the bytes of a row are one value (`DataDetails`) or cells that
know whether they are null and how long they are (`TableOps`, `IpacReader`); a
cell of TABLEDATA is its number of elements, whether there is whitespace around it,
whether it is null and whether its elements, or the first of them, can be converted: bytes
are read by `std::stoi()`, which skips leading blanks and stops behind the number, other
numbers by `boost::lexical_cast`, which does neither; in `Binary2` bytes are
bytes, and four types stand for all: booleans, which are converted, bytes, strings,
which have no null of their own, and numbers of two bytes for all wider ones; an
element of a DSV document is its form, the two numbers the two conversions find in
it, and its length, and a double is the nearest member of `Float64`; a number in a FITS
file of unsigned integers is stored less `Zero`; a line in `ReadUnknown` is how many fields it has when cut at
commas and at tabs; a text of an IPAC table is its length, its length without the
blanks around it, and whether it says what stands for null. Metadata is labels, names
and words, of which only those are told apart that the code compares. cfitsio, CCfits and
Boost's parsers of XML and JSON are external: `FitsKeywords`, `Fits` and `VOTable` hold
what the code relies on (the order of keywords, TNULL values, that JSON keeps no text
beside attributes). Characters are model values except where they decide
(quotes, delimiter, newline and the carriage return, which the parser drops at
the end of a line).

## The runs

| Run | Shows |
|---|---|
| `data_details_cli` | Loading, appending and winnowing as the program does implements `LogicalTable`: every row keeps its lengths, winnowing keeps the selection. For selections that are *safe* (below) and readers that count rows |
| `data_details_api` | In any order of public calls: `append_row()` keeps an aligned table aligned exactly if `num_rows_inserted_` still is the number of rows; `append_rows()` exactly if there is no list of lengths without a row |
| `data_details_winnow` (violation) | With every selection, `winnow_rows()` retains wrong rows |
| `table_ops` | Tables from readers and the operations' own results as operands: every table made is well formed; and exactly when flags are wrong (nulls behind a padded first table, and flags that were left behind its columns) |
| `table_ops_lengths` (violation) | With tables from readers as operands, the rows appended to a new table have more lengths than the assertion in `append_row()` allows |
| `dsv` | The parser implements `DsvText`, its positions stay in the buffer; exactly which tables survive writing and reading; exactly which documents fail in the second pass, which numbers change their value, and that strings are whole; exactly which files are read by guessing and as what, and how often each comment ends up in a table, from files and from streams |
| `read_unknown_formats` (violation) | A text that is a table in TSV is not read from a stream when CSV was tried up to its end |
| `ipac` | Of any file: no string is cut, which of the two records of lengths the table ends up with, and that a row behind a blank line is read only if its strings are null. Of Tables that are written: exactly which rows come back, from which trip on the lines at the top stay as they are, and where the descriptions of omitted columns go |
| `tabledata` | With lists of lengths looked up by row and recorded by child: rows before the first comment have the lengths of the file, and exactly which rows cannot be inserted; a string or an array of bytes is cut exactly if its column is declared to hold one |
| `binary2` | Exactly which tables are read back from their own stream; on any streams, the second pass stays inside them and fills all rows it has made room for; columns are as wide as the longest array |
| `fits` | Exactly which metadata, and exactly which cells, come back from a FITS file; when the writer looks behind the last attribute; from which trip on nothing changes any more, and what does before; that units need rows; that substrings are joined in place; that every trip ends |
| `votable` | When the columns of the results resource are found while its index is still a count; that `arrange_resources()` puts the results first; exactly which tables are read again from the XML or JSON written of them, and what they have become; that a second trip changes nothing more. Deadlock is checked |

Where the code does not do what one would wish, the passing runs state exactly when
it does: a property of the form "if and only if" fails if the code gets better as well
as if it gets worse.

### Bounds

* `DataDetails`: up to 4 rows of 3 contents with different lengths, so that any mix-up
  of bytes and lengths shows, and every subset of rows as a selection: 4 rows are the
  fewest with two rows in place, a gap and a row behind it. Initial row counts below,
  at and above the rows read. `winnow_rows()` meets a row without a list of lengths, and throws,
  in `data_details_api` only: the program's own calls leave lists without rows, never the
  other way round.
* `TableOps`: tables of 1, 2, 7 and 8 columns with different names, so that flags end
  before, at and behind a byte boundary and span two bytes; rows with and without nulls; up
  to three tables made one from another, of up to 18 columns, which is enough to pad a table
  of 8 or 16 columns, to misplace a flag and to put a column where it lies.
* `DsvParser`: all single lines of up to 5 characters of 5 kinds, carriage returns among
  them, pairs and triples of shorter lines. A field that crosses two line breaks with an
  escaped quote in it fits, and so does one with a carriage return at a break. Tables of two
  cells of up to 3 characters of 6 kinds for the round trip.
* `DsvReader`: 14 kinds of elements, one per way a text fares under the conversions,
  with integer ranges scaled down (bytes to 8, int64 to -16..15, uint64 to 31) such that
  each type has members the previous one lacks, and doubles of four bits, so that they leave
  integers out; columns of up to 4 elements, which is
  longer than the chain of promotions an element can miss, and two columns.
* `ReadUnknown`: up to 3 lines, each a comment, blank, or with 0 or 1 of each
  separator, with and without a last newline, on a stream and in a file.
* `TabledataReader`: up to 3 children, each a row with cells of up to 2 elements or
  no row, for one column of each kind (strings, bytes, other numbers) and for a string and an array of variable length
  beside each other: 3 children put one that is no row before, between and behind.
* `Binary2`: up to 3 rows, one more than the padding needs to look like a row, for
  columns of every kind alone, two together, and eight with one and with two bytes of
  flags; streams of up to 5 pieces (flags, lengths), pairs of streams of up to 2 whole
  or truncated rows each, and all streams of up to 4 bytes read as booleans.
* `IpacReader`: up to 3 lines over four headers, any of them can be blank.
* `IpacRoundTrip`: 64 Tables of one to three columns and up to two rows, with every kind
  of cell (null, empty, padded, equal to one of two null values, longer and shorter
  arrays, large numbers) under each declaration of null values; metadata with one
  peculiarity each; 12 requests, good and bad, for the first two trips; three trips,
  since the second adds the comments that the first one's numbered columns lack.
* `Fits`: tables with every kind of property, group, param and info alone and as
  neighbours; columns of each family of types with values at and beside their null
  values, unsigned ones with their `Zero` included, with integers scaled down (`Max64` = 3,
  `MaxU64` = 4, `Zero` = 2); three trips (`MaxTrips`), since a null cell of an unsigned column
  may be read as a number on one trip and be written as such on the next.
* `VOTable`: trees with up to two resources and arrays of them, and each optional
  element by itself and beside those it is confused with, and tables as IPAC files leave them;
  both formats on both of two trips (`MaxWrites`).

Bounds in the modules are constants (`MaxRows`, `MaxColumns`, `MaxTables`, `MaxLines`) in
the guards of the actions.

### Fairness

A single thread runs every call to its end, so a step that can be taken is taken
sometime: `FitsSpec` has `WF_allvars(FitsNext)` and nothing stronger, and `Settles`
(every trip comes to `done` or `failed`) is checked under it. There it is worth a property:
one loop over two headers skips, collects and emits keywords, and an iteration that
does not consume one would never leave. In `VOTable` the same question is asked as the
absence of deadlock in the states that are not final. In the other modules loops end because
their input gets shorter; their graphs are finite without cycles, and deadlock checking
is off where a run simply ends (parsers, readers, table operations up to `MaxTables`).

## What is proved

Theorems hold for every value of the constants that satisfies the module's ASSUMEs.

`DataDetails_proofs`

* `ApiTypeOK`, `CliTypeOK`: types, and that `winnow_rows()` neither reads nor writes
  outside its rows. `TypeOK` says too little about the loop to be inductive:
  `CursorInv` adds that rows still to come are behind the last one read and not yet
  written over.
* `CliRowsKeepTheirSizes`, `CliWinnowRetainsSelection`: under `OrdinaryCalls` (operands
  have their lengths, the reader counts rows, selections are safe). `RowsInv` says for
  each stage what is true of bytes and lengths: while loading, which slots of the list
  are filled, depending on `num_initial_rows_`; while winnowing, that the rows before
  `write` are the selected ones, that those from `read` on are untouched, and how far
  `read` lags behind `prev`.
* `CliImplementsLogicalTable`: every step of `CliSpec` is a step of `LogicalTable` or
  changes nothing it shows, from `RowsInv` and what it says of the visible rows.

* `ApiAppendRow`, `ApiAppendRows`: in any order of public calls. A table is aligned if there
  is a list of lengths for each row and it is the row's own; `SlotsOfAligned` says that then the
  lists are as many as the rows, or more by those that were resized and never filled, which
  is what each of the two calls trips over.

A selection is *safe* (`SafeSelection`) if it does not start with rows 0 and 1, or has no
gap. That this is needed is what `data_details_winnow` shows.

`TableOps_proofs`

* `CliTypeOK`, `CliFlagsFollowColumns`: for any number of columns, if the operands are
  sound and no operand has a byte of flags to spare (`ReaderTables`). `CliInv` says of
  the table being built that its columns are those of its sources and that the rows it
  has so far are sound. `PlaceBehindColumns` and `FlagsFit` are the arithmetic of
  joining flags at and beside byte boundaries.
* `ApiTypeOK`: the same with any well-formed tables, and with tables made of tables, as
  operands. `BuildInv` says of the table being built what its operation is about to make of
  its operands; that no flag is behind the bytes of flags holds because the cells are copied
  over whatever is (`Within`).
* `ApiFlags`: `FlagComesFrom` says for each bit of a new row which bit of which operand it is.
  Behind a padded table the bits are a byte or more away from the columns they belong to, so
  the first null that was added (`LeastElement`) has no flag, unless one was left there by an
  earlier operation.
* `ApiLengths`, of `LengthsOfNewRowsAreZero`, which says what becomes of the rows that break
  the assertion of the run `table_ops_lengths` when it is compiled out: the `Row` has at least a zero for each column of variable length before
  anything is inserted behind them, at every row of every table.

`Ipac_proofs`, the reader

* `ReaderKeepsStringsWhole`, `ReaderChoosesOneRecord`, `BlankLinesLeaveNulls`: for every
  header whose string columns are at least one character wide and any number of lines.
  None of the three properties is inductive. `TypesInv` says what a row and a line
  consist of. `NarrowEnough` adds that no string is longer than the smallest width found
  so far for its column, and that no such width exceeds that of the header: that is why
  the copy of `minimum_column_widths[c]` characters cuts nothing, and why the widths differ
  exactly if a column became narrower. `RecordsWhileReading` says what both records of
  lengths hold while lines are read, which decides what the swap leaves behind, and bounds
  the reader's own lists, in which `at()` throws. `ReaderInv` is the three together.
* `TripKeepsStringsWhole`, `TripChoosesOneRecord`, `TripLeavesNulls`: the same formulas of
  `TripSpec`, which is what the run `ipac` checks, with files that were written as well as
  files nobody wrote. The proofs about the reader are about any `ReaderStep`: what it relies on
  is that the header has columns as wide as their strings need (`IsHeader`) and that no element
  is longer than its column is wide (`IsLine`). Headings that were written are such a header
  (`HeadingsAreHeader`), and what the bars cut out of a record is such a line
  (`ElementsAreLines`), by `TripInv` of the next section; so each step of a trip is a
  `ReaderStep` or puts a reader in place that has read nothing (`StartsAnew`), and `ReaderInv`
  survives every trip (`TripReaderInv`).

`Ipac_proofs`, the round trip

* `RowsComeBack`: for any Tables, any choices of columns and rows, and any number of trips.
  `TripInv` is the inductive invariant: the Table at hand is one that can be written, and while a
  file is read, what has been read of it is always a part of what was written. The columns are
  its headings (`HeaderRead`); every row stored is that of some record, no longer than its
  column's smallest width, which is why narrowing changes neither nulls nor lengths
  (`StoredSoFar`); and there are as many rows as lines unless a line was blank
  (`LinesSoFar`), which a failure or an end too early cannot hide. TLC agrees on the states of
  `ipac`. The property by itself says nothing of files half read and is far from inductive.
* The way there is one of places. A file has a column for each place `<<column, element>>`
  asked for, in an order that `FlattenSeq()` makes of lists of each column's own
  (`HeadingsAre`, `RecordIs`); by `AskedWidth` a column's width is at least that of everything
  that is ever written between its bars, so that no bar is moved (`NotMisaligned`) and the
  header reads unless a null value has a bar in it (`ReadableIs`). `PlaceComesBack` says what
  the reader makes of one text, by type and null value; `ColumnComesBack` and `RowComesBack`
  add texts to cells and cells to rows, where a row of blanks is no row at all.
  `FieldReadIs` and `CellReadIs` close the circle: a Table that was read is one that can be
  written again.

Its assumptions, which TLC evaluates on the Tables of the run: `TablesAssumption`, that rows
have a cell for each column, arrays at most as many elements as their column holds (as
`Field_Properties` and the row store keep it), that trimming a text makes it no longer, that
numbers have no blanks, and that of the names of numbered columns the last is the longest;
`RequestsAssumption`, that the numbers asked for are unsigned; `WordsAssumption`, the lengths of
the words of a header.

`Dsv_proofs`, the parser

* `PositionsInBuffer`: on a stream of any number of lines of any length, `idx`, `field_beg`
  and `field_end` stay in `row_str` while it is cut at the front and extended at the end.
  `BufferInv` is what `TypeOK` lacks: the only newline from the position on is the last
  character, a field that has begun is not empty, there is a quote to compare with in every
  state that compares, and the number of columns is that of the first record.
* `Refinement`: every step of the automaton is a step of `DsvText` or a stutter. The
  mapping says what the buffer means: the rest of the text is what is behind the position in
  `row_str` and the lines still to be read, joined; the field so far is what left the buffer
  and what is between `field_beg` and the position. Cutting the buffer moves text from one
  to the other and changes neither. `Joined` is a recursive function; that it exists is
  proved by least elements (`LeastElement`, `Iteration`, `JoinedExists`), not assumed.

`Dsv_proofs`, the round trip

* `RoundTrip`: for tables with any number of rows and columns of strings of any length.
  `RoundTripInv` has a part for either direction of `ReadBackExactlyIfReadable`, and all are
  about `DsvText`, one character a step, to which `Refinement` reduces the buffer.
  `FieldsInv` holds on every text: what the parser has taken for a field delimits itself
  (`SelfDelimiting`), what it is taking has its separators inside quotes, with the quote it
  began with remembered, and no record is an empty line. So a table that comes back was
  readable. `OnwardInv` holds on the text of a readable table: at character k of field j of
  row i, the records are the first i - 1 rows, the record is the first j - 1 fields of the
  next, and what remains is what `write_dsv()` put behind that character (`Behind`).
  `WrittenFields` joins the two: a field that is written delimits itself exactly if its
  string does or is quoted by the writer.
* A carriage return in front of a line break is the one thing quotes do not protect
  (`EndsAreNewlines`). Without one, the stream is the text that was written, taken apart at
  its newlines: `Joined` undoes `LinesOf` (`LinesOfText`). With one, the text that is read
  is shorter (`Lost`), and `CountedInv` shows that the cells read must then be shorter, all
  together, than the cells written: whatever they are, they are not the table. What these recursive functions compute is proved
  from `RecursionOnTails` and `InductionOnTails`, both by least elements. The assumption is
  `TablesAssumption`: a table has rows of equal length, which are not empty, as the columns
  of a `Table` give them.

`Dsv_proofs`, the reader

* `FailuresAreOutgrown`, `Stored`: for documents of any size. Neither property says
  anything before the second pass has run. `CoveredInv` says what the first pass leaves
  behind it, element by element: a type that accepts the element, not above that of its
  column, and a width it does not exceed. Types only rise and widths only grow, so this
  survives every later element. `ShapeInv` says which rows and cells there are, and
  `InsertedInv` that each was converted as its column says. `KeptWhenPromoted` is
  the heart of it: conversion to a higher type still succeeds, unless the text is a truth
  value or hexadecimal. It needs `ReadingsAssumption`, how the two readings of a text go
  together: `std::stoi` reads decimal digits as what they are if they fit a byte, and an
  octal byte read as decimal digits is a small number that is not negative. That there is a
  nearest double (`Rounded`) to every integer, itself if it is one, is proved of any set of
  them, again by a least element.

`ReadUnknown_proofs`

* `FormatReadIsDetermined`: of texts of any number of lines: `FilesReadExactlyIf` of files,
  and `ReadExactlyIf`, which adds what the run `read_unknown_formats` shows of streams, that TSV
  is found only if the attempt at CSV threw before the end.
  `PositionInv` says what the lines consumed look like to the attempt at work (comments or
  blank, then a header, then records of its length); `AttemptInv` what is known of the text
  once CSV has failed and how the second attempt finds the stream: a stream that was read to its
  end is not rewound, and CSV can only have failed before the end at a record of another
  length.
* `CommentsOfEveryAttempt`: `CommentsInv` counts, for each line, how often it was stored by
  the attempt at work and by the one before.

`TabledataReader_proofs`

* `LengthsOfRowsInPlace`, `RowsInsertedIfReadable`, `StringsCut`: for any number of children and
  columns. Lengths are recorded by child and looked up by row; `ChildrenInv` says that there
  is one list per child, empty for a child that is no row, and that lists and rows agree up
  to the first such child. `WidthsInv` says that a width is 1 or that of the longest cell,
  `RowsInv` that every row inserted is what its texts, widths and lists make it. A byte
  that stands alone is inserted if `stoi()` finds one at the front of its text.

`Binary2_proofs`

* `PassesAgree`: of any table written and of any streams from elsewhere, whole or truncated.
  The second pass checks no bounds; the property says it needs none. The first pass has only
  a count and widths to show for what it verified, so `SizingInv` says that there *is* a path
  of that many rows, a sequence of positions each a row apart, inside the stream and with
  arrays no longer than the widths. `FillingInv` says the second pass is on it with the rest
  of the path before it. Columns get wider while other streams are measured: a path stays one
  (the widening lemmas). `CountsInv` counts the rows still to be filled over all streams.
  `Word`, `big_dword` and the flags are written out as sums of bytes and bits: that is what
  the code does, and an SMT solver can compute with it.
* `ReadBack` and `WidthsFound`: of any table, its rows, columns, flags and arrays being any in
  number and length. `WrittenInv` and `SentInv` say that there are positions, `at[r][k]`, such
  that what is written of each cell stands at its own and the next one begins behind it, up
  to zeroes that fill the last group of three. If column 0 is as wide as the null flags are
  (`Exact`), both passes are at these positions at every cell (`ExactSizingInv`,
  `ExactFillingInv`), so the widths are those of the longest arrays written so far
  (`WidthsOf`) and each cell read is the one written. Behind the last row at most two bytes
  are left; a row has at least two, and the only one of two is a row of one byte behind one
  byte of flags (`InPadding`, `PaddingIsARow`). If column 0 is wider (`Spare`), the second pass
  may find anything; `SpareFillingInv` says that as long as every cell it found was the one
  written, it is behind that cell's position and everything up to there is zero. What is
  equal to an earlier part of the stream is zero if that part is (`ZeroesRead`, by a least
  element), the flags of every row but the first are then found among zeroes and are zero
  (`NoNullsFound`), and so in the end is the whole table, which the property excludes.

Their assumption is `TablesAssumption`: rows with the cells of their columns, no longer than
the columns are wide, column 0 wide enough for the flags, and lengths that fit into a
`uint32_t` (`IsUInt32`), the type they have in `write_binary2()`.

`Fits_proofs`

* `RowsComeInOrder`: of tables of any number of columns and rows and any length of strings,
  over any number of trips, and of files made elsewhere. `Inv` says at each stage which part
  of the file is what `StoredOf` makes of the table's cells, and which part of the table is
  what `ReadOf` makes of the file's, cell by cell; that `column_infos` leads each column to
  its own null value in lists that are kept by type (`InfoInv`); that a unit is among a
  column's attributes once a cell of the column has been read (`AttrsInv`); and that a table
  that was read is one that can be written again.
* `RoundTripOfCells`, `RereadingChangesNothing`, `UnitsComeBackWithRows`,
  `SubstringsStayInPlace`: from `Inv` a property of the table is one of a single cell. The
  round trip is `ReadOf` of `StoredOf`: a null value that is not recognized because it was
  stored as it is and read with `Zero` added (`ScaledFacts`, `NullsAreLost`), an array of
  nothing but the null value, a string without its trailing blanks. For rereading, `Reread`
  says what a table looks like that has been read before: no unsigned 64-bit columns, a
  declared null value only where it is not tablator's own, from the second trip on no cell
  that will be taken for null, and from the third on none that was null in an unsigned column. For substrings, `Joined` is a fold over sequences
  of one width, and where it puts each of them follows by a least element.
* `WriterUndefinedIfValueMissing`: for any metadata. `KeywordsInv` says which properties have
  been written, that `got_fits_keyword` tells whether one of them is plain, and that none behind
  it lacked a value, or the writer would have stopped.

Its assumptions are those of `Fits`, and TLC evaluates them on the tables of the run:
`LimitsAssumption`, that digits are characters and neither a blank nor NUL;
`StartsAssumption`, that a table has the rows of its columns, as a `Table` has by
construction; `FitsFilesAssumption`, that cfitsio returns as many elements as a column has,
strings without their trailing blanks, and substrings no longer than their width.

Model-checked only: of the round trip of IPAC, the keywords and comments (`HeaderSettles`,
`DescriptionsOutliveTheirColumns`), which compare the lines of three files; of FITS, `RecoveredExactlyIfSurvives`, about keywords that are put in order
before they are joined to elements; property trees. `Settles` is
liveness under fairness and stays with TLC. `PropertyTree`, on which `VOTable` is built, is
recursive throughout, and about recursive operators nothing can be proved here. The
induction theorems of the library take an operator, which the provers cannot instantiate;
the proofs above go by least elements and by invariants of steps instead.

## Where code and documentation disagree

* `winnow_rows()` (`src/Data_Details/Data_Details.cxx:82`): `read_ptr` advances by
  `row_idx - prev_row_idx`, but only in iterations that copy, while `prev_row_idx` is set in
  all of them. Retaining rows {0, 1, 3} yields rows 0, 1 and 2.

* `set_dynamic_array_sizes()` inserts behind the zeroed lengths of the reused `Row`, so rows
  of combined and counted tables have too many lengths
  (`src/Data_Details/Data_Details.cxx:245`). The assertion at
  `src/Data_Details/Data_Details.cxx:16`,
  `row.get_dynamic_array_sizes().size() == get_num_dynamic_columns()`, fails for each of them
  in builds without `NDEBUG`. In the others such rows read as empty arrays
  (`LengthsOfNewRowsAreZero`, a theorem).
* `read_unknown()` on a stream (`src/Table/read_unknown/read_unknown.cxx:54`): `seekg(0)` does
  not rewind once reading to the end has set the failbit, so that tab-separated values may
  not be recognized, although the manual (`doc/tablator.1:14-16`) says all formats are tried.
  Every option of the program but plain conversion reads its input file as a stream
  (`src/tablator/main.cxx:581-676`); plain conversion opens the file again and reads it
  (`FilesReadExactlyIf`).

These are the violation runs `data_details_winnow`, `table_ops_lengths` and
`read_unknown_formats`. The others are stated by passing runs, as what the code does:

* lines may end in a carriage return (`test/dos_ending.csv`), which the parser drops with the
  line break, inside quotes, too (`src/Table/read_dsv/parse_dsv/DSV_Parser.cxx:157-159`): a
  string that has one in front of a line break, or as the last character of a last cell that
  is not quoted, comes back without it (`ReadBackExactlyIfReadable`);
* a comment of `read_fits()` says that null elements keep their TNULL value so that writers
  can still represent them as null (`src/Table/read_fits.cxx:784-788`). Of unsigned 16 and 32
  bits, TNULL is stored raw (`src/Table/write_fits.cxx:140-156`) and cells are scaled when
  they are read (`src/Table/read_fits.cxx:772-783`): null cells come back as numbers
  (`CellsRecoveredExactlyIfTheySurvive`);
* `src/Table/write_fits.cxx:15-16` and `test/convert.sh:720` say that attributes of FIELDs get
  lost on the way through FITS. They come back, as the test below the remark shows
  (`test/back_and_forth_tables/desc_attrs_no_info_via_fits.xml`), with the exceptions below
  (`RecoveredExactlyIfSurvives`);
* bytes in TABLEDATA may have blanks in front of them and anything behind (`17 foo`), where all
  other numbers may not: `std::stoi()` is not asked where it stopped
  (`src/Row/insert_from_ascii.cxx:68`; `RowsInsertedExactlyIfReadable`);
* `row_idx` of `read_ipac_table()` counts blank lines, against its comment (`:129`); a row
  behind a blank line that has a string fails (`OnlyNullsBehindBlankLines`);
* a comment between the rows of TABLEDATA shifts the lengths of the rows behind it, and
  a string or array at its place cannot be read (`RowsInPlaceHaveTheirLengths`,
  `RowsInsertedExactlyIfReadable`); a number with whitespace around it is read only if
  some row of its column has two;
* the padding of base64 is read as a row if a table has one column of bytes and 2, 5,
  8... rows; if they are booleans the table is not read at all; a table with a byte of
  null flags to spare comes back shifted by one column; a null string of fixed length
  cannot be written as BINARY2 (`ReadBackExactlyIfReadable`);
* a failed CSV attempt leaves its comments in the table (`CommentsOncePerAttempt`);
* `true` followed by a number makes an integer column that cannot hold `true`
  (`FailsExactlyIfOutgrown`); negative numbers in a column promoted to unsigned are
  stored modulo 2^64, octal bytes change their value, and so do integers beyond 2^53 in a
  column that a fraction made a column of doubles (`StoredAsWrittenUnlessMisread`);
* `read_dsv()` counts the header line as a row, so that rows appended to such a table get
  the lengths of their neighbours (`AppendRowsNeedsExactSizes`; `HeaderCounted`);
* a table made with 8k visible columns has a byte of flags to spare, and joining
  another to it misplaces flags. Those that land behind the last column are taken up by the
  columns of the next operation, the counter included (`PaddingMisplacesFlags`): that its
  flag "is never set" (`src/Data_Details/Data_Details.cxx:130-131`) is true of what
  `add_cntr_column()` itself sets, not of the bytes it copies;
* strings with quotes are written as they are (`ReadBackExactlyIfReadable`);
* whether the lengths of strings in an IPAC table are those in the file or those of the
  column depends on whether any column was narrowed (`LengthsDependOnShrinking`);
* IPAC: arrays are written as long as their column, with zeros behind their own elements;
  null cells of unsigned 64-bit columns count as large values, so that a table with such a
  column of arrays cannot be written; a null value with a bar is written and makes the
  header unreadable; a row of empty strings is a blank line; a blank null value of a
  string column comes back as an empty string (`RowsComeBackExactlyIfTheySurvive`);
* comments made of the description of an omitted column: the line with its name is
  dropped, the one with its text stays (`DescriptionsOutliveTheirColumns`); `json_comments`
  are collected and not written, although `src/Ipac_Table_Writer/Ipac_Table_Writer.cxx:876`
  says they are streamed first; numbered columns get their comments only on the second
  trip (`HeaderSettles`);
* `write_fits()` does not reset `got_fits_keyword`, so that every property behind a plain
  keyword is written as one, and for the last of them the writer looks behind its last
  attribute (`src/Table/write_fits.cxx:279`, `:388`);
* `read_fits()` builds the last element with the type of the keyword before the last, which
  loses a last FIELD of one attribute (`src/Table/read_fits.cxx:170`); labels and ids of a
  PARAM stay for the next one; empty texts become plain keywords; plain links move from
  the resource to the table. Logical nulls come back as false. A cell of tablator's own null value in a
  file that declares none is lost on the next trip (`RereadIsIdentity`). Units are added only
  if there are rows, and never against the unit of a FIELD of the same name
  (`src/Table/read_fits.cxx:1204`);
* `write()` puts LINK before GROUP and PARAM, where the reader does not look for it; a
  trailing INFO in JSON joins an earlier array or is put behind TABLE, where it cannot be
  read; MIN and MAX that are inclusive cannot be read, since "yes" is no bool; attributes
  whose names have dots are lost; JSON is refused after the file was opened when an INFO has
  a text beside its attributes;
* the index of the results resource counts an array of resources as one
  (`src/ptree_readers/read_property_tree_as_votable.cxx:159`).

## Plan

Done: row store, table operations, DSV, format guessing, the IPAC reader and writer with
their round trip, TABLEDATA, BINARY2, FITS with its metadata, VOTable and JSON in both
directions, and the proofs above. What is left, in order of what it would show:

1. Proofs: the metadata of FITS, for which the order of keywords in a file
   would have to be stated element by element.
2. `main()`: the order in which options are applied, as a composition of the row store with
   the table operations (append, then winnow, then combine or count).
3. IPAC headers with abbreviated types and broken lines; HDF5 metadata, which share
   `combine_labeled_properties()` with FITS.
4. `Decimal_String_Trimmer` against a reference definition on short numerals.

## Not modelled

* What libraries do: cfitsio, CCfits, HDF5, SQLite, Boost's parsers. `FitsKeywords`, `Fits`
  and `VOTable` hold only what the code relies on.
* The writers of HTML, SQL and TABLEDATA: one pass over a table in memory, no state that
  another call depends on.
* Digits of numbers, and the formatting of values: cells are told apart by what decides on
  nulls, lengths and widths.
* Options and entry points of the program: parsing of options is Boost's; which rows and
  columns they ask for is in `IpacWriter`.
* Types that headers of IPAC files may abbreviate, and header lines that are broken.
* `get_original_datatypes()` (`src/Table.hxx:1053`) runs one column past the end: one line,
  no state.
