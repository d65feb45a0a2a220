SPECIFICATION FairSpec
CONSTANTS
    None = None
    Uploads = {u1, u2}
    ShardPath = {s}
    WholePath = {}
    HashPath = {}
    QueueCap = 1
    RpcFails = TRUE
    WritesFail = FALSE
    MaxRestarts = 1
CONSTRAINT OneFlag
PROPERTIES
    HandlersReturn
    EveryUploadSettled

CHECK_DEADLOCK FALSE
