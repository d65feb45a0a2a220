SPECIFICATION FairSpec
CONSTANTS
    None = None
    SP = {p1, p2, p3}
    NumShards = 4
    MaxAtOnce = 3
    Schemes <- BothSchemes
    PreferHttp = TRUE
INVARIANTS
    TypeOK
    SuccessMeansStored
    AnswersCounted
    ShardsAccounted
PROPERTIES
    UploadEnds
CHECK_DEADLOCK FALSE
