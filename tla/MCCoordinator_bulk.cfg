\* Two workers and two peers, one of which lies and lacks the last piece.
SPECIFICATION Spec
CONSTANTS
    PieceCount = 3
    w1 = w1
    w2 = w2
    w3 = w3
    pA = pA
    pB = pB
    Workers = {w1, w2}
    Peers = {pA, pB}
    NoPeer = NoPeer
    NoWorker = NoWorker
    Has <- LacksLast
    Answers <- OneLiar
    Fluctuates = {}
    Streaming = FALSE
    MaxRetries = 1
    EndgameThreshold = 1
    MaxPeerFailures = 1
    StorageFails = TRUE
    SavesFail = TRUE
    MayCancel = TRUE
SYMMETRY Symmetry
INVARIANTS
    OneHolder
    DoneIsWritten
    SuccessIsComplete
    LimitsAreKept
PROPERTIES
    LifecycleSpec
