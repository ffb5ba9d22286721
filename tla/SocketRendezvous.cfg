CONSTANTS
    s1 = s1
    s2 = s2
    s3 = s3
    None = None
    Sessions <- ThreeSessions
    LowLatency <- SessionLowLatency
    BufferSize <- SessionBufferSize
    Mortal = {s1, s2}
    GarbageIds <- OneGarbageId
    AcceptMayExit = TRUE

SPECIFICATION Spec

INVARIANTS
    TypeOK
    OneOutstanding
    FieldsNotRaced
    ParamsMatch
    ServedObjectLive
    NoLostRegistration
    DrawnIdUnregistered

PROPERTIES
    PairsSessions
    IdentifiedIsServed
    AllServed

\* A session ends, and a failed client may leave every thread blocked.
CHECK_DEADLOCK FALSE
