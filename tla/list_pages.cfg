SPECIFICATION ListSpec
CONSTANTS
    u1 = u1
    n1 = n1
    n2 = n2
    n3 = n3
    p1 = p1
    NoRow = NoRow
    NoRequest = NoRequest
    Nil = Nil
    User = {u1}
    ApiaryId = {1, 2, 3}
    Name = {n1, n2, n3}
    Media = {}
    Proc = {p1}
    FreeMaxApiaries = 1
    MaxMediaAttachments = 1
    Stamp = {2}
    Initial <- TwoRows
    Request <- Writes
    Query <- Walks
    Changes <- AllChanges
INVARIANTS ListTypeOK QuietWalk NoneSkipped
PROPERTIES HivesHidden
