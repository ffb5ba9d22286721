CONSTANTS
    s1 = s1
    s2 = s2
    s3 = s3
    None = None
    Sessions <- ThreeSessions
    LowLatency <- SessionLowLatency
    BufferSize <- SessionBufferSize
    Mortal = {}
    SocketsPort = 50060
    Prompt = FALSE

SPECIFICATION Safety

INVARIANTS
    NewIdUnregistered

CHECK_DEADLOCK FALSE
