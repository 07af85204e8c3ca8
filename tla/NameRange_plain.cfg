SPECIFICATION FairSpec
CONSTANTS
    Kinds <- KindsOfThree
    Ranges <- PlainRanges
    MaxNames = 30
INVARIANT NamesOfRange
PROPERTY Ends
CHECK_DEADLOCK FALSE
