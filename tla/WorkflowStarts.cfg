\* Two starts of one key, padded or not, with two inputs; two attempts each, under fairness.
CONSTANTS
    Calls = {c1, c2}
    Keys = {k1}
    Inputs = {i1, i2}
    i1 = i1
    Requests <- SomeRequests
    START_TRANSACTION_MAX_ATTEMPTS = 2
    None = None
SPECIFICATION FairSpec
INVARIANT
    TypeOK
PROPERTIES
    
    ImplementsStartOnce
    UnpaddedWinnerIsResolved
    EveryStartEnds
\* Every call is answered.
CHECK_DEADLOCK FALSE
