SPECIFICATION Spec
CONSTANTS
    None = None
    SP = {p1, p2}
    NumShards = 3
    MaxAtOnce = 2
    Schemes <- BothSchemes
    PreferHttp = TRUE
PROPERTY ProposedIsUploaded
CHECK_DEADLOCK FALSE
