\* Two starts of one key, one of which may spell it with blanks.
CONSTANTS
    Calls = {c1, c2}
    Keys = {k1}
    Inputs = {i1}
    i1 = i1
    Requests <- Request
    START_TRANSACTION_MAX_ATTEMPTS = 8
    None = None
SPECIFICATION Spec
PROPERTIES
    WinnerIsResolved
\* Every call is answered.
CHECK_DEADLOCK FALSE
