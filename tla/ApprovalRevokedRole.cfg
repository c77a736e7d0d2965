CONSTANTS
    Requests = {r1}
    Assignments = {a1, a2, a3}
    Bindings = {b1}
    Txs = {t1, t2}
    MaxQuorum = 2
    Nobody = Nobody
SPECIFICATION Spec
PROPERTY RevokedRoleNeverDecides
CHECK_DEADLOCK FALSE
