\* Two assessments of one deal.
CONSTANTS
    Opps = {o1, o2}
    o1 = o1
    o2 = o2
    Sessions = {s1, s2}
    Keys = {k1}
    Tokens = {u1, u2}
    Titles = {"t1", "t2"}
    DealTypes = {"NEW_BUILD"}
    Pocs = {p1}
    Changes <- SomeChanges
    Verdicts = {"NOT_SUBMITTED", "APPROVED"}
    Early = {o1}
    Seeds <- Waiting
    Asked <- SomeCommands
    MaxRecords = 2
    None = None
SPECIFICATION Spec
SYMMETRY Interchangeable
INVARIANT
    OneWinnerPerRevision
\* The chain is full.
CHECK_DEADLOCK FALSE
