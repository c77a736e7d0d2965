\* One request, two sessions, three people: the requester and a quorum of up to two others.
CONSTANTS
    Requests = {r1}
    Assignments = {a1, a2, a3}
    Bindings = {b1}
    Txs = {t1, t2}
    MaxQuorum = 2
    Nobody = Nobody
SPECIFICATION Spec
SYMMETRY Interchangeable
INVARIANTS
    TypeOK
    ProjectionAgreesWithHistory
    QuorumOfDistinctApprovers
PROPERTIES
    NoResurrection
    StaleRequestNeverCloses
    ImplementsApproval
\* Every request may end and every role may lapse.
CHECK_DEADLOCK FALSE
