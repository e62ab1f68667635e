\* What the program makes of tables read from files.
SPECIFICATION CliSpec
CONSTANTS
  Sources <- MCSources
  CounterName = "cntr"
  CounterCell <- MCCounterCell
  MaxColumns = 18
  MaxTables = 3
INVARIANT
  RowsHaveALengthPerArray
CHECK_DEADLOCK FALSE
