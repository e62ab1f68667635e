\* Streams and files of every small text.
SPECIFICATION UnknownSpec
CONSTANT
  Texts <- MCTexts
INVARIANT
  AllFormatsTried
CHECK_DEADLOCK FALSE
