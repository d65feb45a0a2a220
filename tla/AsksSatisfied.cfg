CONSTANTS
    r1 = r1
    r2 = r2
    u = u
    s1 = s1
    s2 = s2
    n1 = n1
    n2 = n2
    None = None
    Account = {u, s1, s2}
    NodeId = {n1, n2}
    UserName = {"ann", "bob"}
    MinAsk = {1, 2}
    Run = {r1, r2}
    Spread <- MCSpread
    Typed <- MCTyped
    FirstAsk <- MCFirstAsk
    Of <- MCOf
    Provider = {s1, s2}
    Id <- MCId
    MBytes = {0, 2}
    Mint = {8}
    Wealth = 4
    MaxChanges = 2
SPECIFICATION FairSpec
CHECK_DEADLOCK FALSE
PROPERTY AsksSatisfied
