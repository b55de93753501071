SPECIFICATION ReqSpec
CONSTANTS
    m1 = m1
    m2 = m2
    m3 = m3
    m4 = m4
    Garbage = Garbage
    NilID = NilID
    Nil = Nil
    Null = Null
    Malformed = Malformed
    Media = {m1, m2, m3, m4}
    Input <- AllInputs
    maxNameLength = 4
    maxLocationLength = 4
    maxDescriptionLength = 4
    MaxMediaAttachments = 3
INVARIANTS AcceptedFits ImagesAsSent SearchApplied
CHECK_DEADLOCK FALSE
