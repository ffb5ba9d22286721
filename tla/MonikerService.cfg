CONSTANTS
    Sources = {"device", "other"}
    Endpoints = {"device"}
    MaxReaders = 1
    MaxWriters = 2
    Room = 1
    Window = 5
    MaxRequests = 6
    MaxAnswers = 6

SPECIFICATION Spec

INVARIANTS
    TypeOK
    NothingUndefined
    HandedInOrder
    AnswerForItsRequest

PROPERTIES
    EveryRequestServed
    EndedCallEnds

\* A call ends, and a client need not send.
CHECK_DEADLOCK FALSE
