\* One run of two steps, two sessions, up to four transitions.
CONSTANTS
    Steps = {s1, s2}
    RunRow = RunRow
    EventLock = EventLock
    Txs = {t1, t2}
    MaxEvents = 4
    None = None
SPECIFICATION FairSpec
INVARIANTS
    TypeOK
    AggregateStatus
    EventsExplainRows
PROPERTIES
    QuietAfterEnd
    EveryTransitionEnds
    ImplementsWorkflow
\* The run ends.
CHECK_DEADLOCK FALSE
