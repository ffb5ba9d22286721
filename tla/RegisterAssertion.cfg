CONSTANTS
    s1 = s1
    s2 = s2
    s3 = s3
    None = None
    Sessions <- TwoSessions
    LowLatency <- SessionLowLatency
    BufferSize <- SessionBufferSize
    Mortal = {s1, s2}
    GarbageIds <- OneGarbageId
    AcceptMayExit = FALSE

SPECIFICATION Safety

INVARIANTS
    NewIdUnregistered

CHECK_DEADLOCK FALSE
