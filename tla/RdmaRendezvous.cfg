CONSTANTS
    s1 = s1
    s2 = s2
    s3 = s3
    None = None
    Sessions <- ThreeSessions
    LowLatency <- SessionLowLatency
    BufferSize <- SessionBufferSize
    Mortal = {s1}
    SocketsPort = 50060
    Prompt = TRUE

SPECIFICATION Spec

INVARIANTS
    TypeOK
    FieldsNotRaced
    NewIdUnregistered
    JoinsOneSession

PROPERTIES
    PairsSessions
    AllServed

\* A session ends, and a failed client may leave every thread blocked.
CHECK_DEADLOCK FALSE
