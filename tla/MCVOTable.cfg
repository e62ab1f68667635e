\* Files and tables, written and read up to twice.
CONSTANTS
    Documents <- MCDocuments
    OtherTables <- MCOtherTables
    MaxWrites = 2

SPECIFICATION Spec

INVARIANTS
    ColumnsFoundExactlyIfCountsAgree
    ResultsInPlace
    ReadAgainExactlyIfReadable
    WhatComesBack
    SecondTripChangesNothing
