\* Every operand a client of the library can make: tables read from files and the
\* tables made of them.
SPECIFICATION ApiSpec
CONSTANTS
  Sources <- MCSources
  CounterName = "cntr"
  CounterCell <- MCCounterCell
  MaxColumns = 18
  MaxTables = 3
INVARIANT
  TypeOK
PROPERTY
  PaddingMisplacesFlags
CHECK_DEADLOCK FALSE
