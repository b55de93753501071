SPECIFICATION Spec
CONSTANTS
    u1 = u1
    u2 = u2
    n1 = n1
    n2 = n2
    n3 = n3
    m1 = m1
    m2 = m2
    p1 = p1
    p2 = p2
    p3 = p3
    NoRow = NoRow
    NoUser = NoUser
    NoProc = NoProc
    NoRequest = NoRequest
    Nil = Nil
    User = {u1}
    ApiaryId = {1, 2, 3}
    Name = {n1, n2, n3}
    Media = {m1, m2}
    Proc = {p1, p2}
    LockKey = {"k"}
    hashtext <- SameKey
    MaxConns = 2
    FreeMaxApiaries = 1
    MaxMediaAttachments = 1
    MaxClock = 2
    Request <- Edits
    Seed <- ExProSeed
    Events <- SubscriptionEvents
PROPERTIES EditsWritable
