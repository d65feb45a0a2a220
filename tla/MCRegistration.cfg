CONSTANTS
    p1 = p1
    p2 = p2
    p3 = p3
    e = e
    n = n
    m = m
    idE = idE
    idN = idN
    None = None
    Run = {p1, p2, p3}
    Account = {e, n, m}
    NodeId = {idE, idN}
    UserName = {}
    MinAsk = {1, 2}
    Accounts <- MCAccounts
    Eth = {e}
    Id <- MCId
    Ask <- MCAsk
    Old = {e, n}
    OldAsk = 1
SPECIFICATION Spec
CHECK_DEADLOCK FALSE
INVARIANTS
    TypeOK
    NodeIdsOfRegistered
    ServingIsRegistered
PROPERTIES
    UnregisteredIsGone
