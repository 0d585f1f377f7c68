SPECIFICATION Spec
CONSTANTS
    Tenants = {t1, t2}
    OneClient = {t2}
    Requests = {r1, r2, r3}
    Fields <- MCFields
    JsonFields <- MCJsonFields
    Payloads <- MCPayloads
    Null = Null
    MaxNow = 2
SYMMETRY RequestSymmetry
CHECK_DEADLOCK FALSE
INVARIANTS
    LinksBackInTime
    NoPhantomEntry
    TransactionAtomic
    VerifiesFaithfulRows
PROPERTY ImplementsChain
