\* Every stream of a few short lines, the text write_dsv() makes of every small
\* table, every small document, and files and streams of every small text.  A parse
\* ends, so deadlock is not checked.
SPECIFICATION DsvSpec
CONSTANTS
  Delimiter = "comma"
  Plain <- MCPlain
  Streams <- MCStreams
  Tables <- MCTables
  ByteMax = 8
  Int64Min <- MCInt64Min
  Int64Max = 15
  UInt64Max = 31
  Float64 <- MCFloat64
  Element <- MCElements
  Documents <- MCDocuments
  Texts <- MCTexts
INVARIANTS
  TypeOK
  ReadBackExactlyIfReadable
  FailsExactlyIfOutgrown
  StoredAsWrittenUnlessMisread
  FilesReadExactlyIf
  CommentsOncePerAttempt
PROPERTY
  ImplementsText
CHECK_DEADLOCK FALSE
