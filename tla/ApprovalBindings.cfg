\* Two requests that compete for one binding, one session, two people.
CONSTANTS
    Requests = {r1, r2}
    Assignments = {a1, a2}
    Bindings = {b1}
    Txs = {t1}
    MaxQuorum = 2
    Nobody = Nobody
SPECIFICATION Spec
SYMMETRY Interchangeable
INVARIANT OpenRequestsAreUndecided
CHECK_DEADLOCK FALSE
