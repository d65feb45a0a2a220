SPECIFICATION Spec
CONSTANTS
    None = None
    Uploads = {u1, u2}
    ShardPath = {s}
    WholePath = {}
    HashPath = {}
    QueueCap = 1
    RpcFails = FALSE
    WritesFail = FALSE
    MaxRestarts = 0
INVARIANT
    AnnouncedIsStored
CHECK_DEADLOCK FALSE
