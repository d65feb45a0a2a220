SPECIFICATION Spec
CONSTANTS
    None = None
    Uploads = {u1, u2}
    ShardPath = {s}
    WholePath = {w}
    HashPath = {w}
    QueueCap = 1
    RpcFails = TRUE
    WritesFail = TRUE
    MaxRestarts = 1
CONSTRAINT OneFailedWrite
SYMMETRY UploadSymmetry
INVARIANTS
    TypeOK
    AnnouncedOnlyVerified
    NothingForgotten
    OneEntryPerFile
    SettledFilesComplete
    UncontestedStaysStored
PROPERTY ImplementsLifecycle
CHECK_DEADLOCK FALSE
