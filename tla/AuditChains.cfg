\* One chain, two sessions, up to four rows.
CONSTANTS
    jti = jti
    nonce = nonce
    otherJti = otherJti
    Chains = {c1}
    Handles = {jti, nonce, otherJti}
    Keys = {k1}
    Claims <- ReplayedClaims
    Txs = {t1, t2}
    MaxRows = 4
    None = None
SPECIFICATION FairSpec
INVARIANTS
    TypeOK
    ChainsVerify
    ReadCommittedNeverCollides
PROPERTIES
    ImplementsAuditLedger
    EveryCallEnds
CHECK_DEADLOCK FALSE
