SPECIFICATION FairSpec
CONSTANTS
    None = None
    Client = {c1, c2}
    SP = {1, 2, 3}
    Price = {1, 2, 3, 4, 5}
    NumSeeds = 3
    Wanted = {1, 2}
    Granularity = 2
    Mega = 2
    HalfInt64 = 16
    MaxFailures = 1
    ShardSize = {1, 3}
CONSTRAINT TiePatterns
INVARIANTS
    TypeOK
    PartialOnlyByFailure
    PriceSuffices
PROPERTIES
    RefusedOnlyAfterAsking
    CheapestChosen
    CacheRecovers
