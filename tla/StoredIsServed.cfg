CONSTANTS
    p = p
    q = q
    mx = mx
    fx = fx
    rs = rs
    NoUser = NoUser
    User = {"ann"}
    Plain = {"photo"}
    Nothing = Nothing
    Partial = Partial
    Garbage = Garbage
    Provider = {p, q}
    Upload <- MCUpload
    Url <- MCUrl
    Version = {mx, fx, rs}
    Enc <- MCEnc
    Body <- MCBody
    MaxAttempts = 2
SPECIFICATION Spec
CHECK_DEADLOCK FALSE
INVARIANT StoredIsServed
