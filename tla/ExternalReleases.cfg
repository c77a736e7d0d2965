\* Two sessions, one key, one approval for each of the artifact's two versions, and enough jti
\* values for a fresh one whenever a receipt is signed.
CONSTANTS
    Keys = {k1}
    a1 = a1
    a2 = a2
    Approvals = {a1, a2}
    VersionOf <- TwoVersions
    Receipts = {j1, j2}
    Txs = {t1, t2}
    MaxVersion = 2
    None = None
SPECIFICATION FairSpec
INVARIANTS
    TypeOK
    HandedReceiptsAreOnRecord
    ActsAtMostOnce
PROPERTIES
    DeadKeysStayDead
    EveryCallEnds
    ImplementsReleaseOnce
