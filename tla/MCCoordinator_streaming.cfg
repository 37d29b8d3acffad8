\* Streaming claims: one peer refuses, the other chokes now and then.  Writes
\* may fail, saves do not.  Does run return?
SPECIFICATION FairSpec
CONSTANTS
    PieceCount = 2
    w1 = w1
    w2 = w2
    w3 = w3
    pA = pA
    pB = pB
    Workers = {w1, w2}
    Peers = {pA, pB}
    NoPeer = NoPeer
    NoWorker = NoWorker
    Has <- LacksLast
    Answers <- Refusing
    Fluctuates = {pA}
    Streaming = TRUE
    MaxRetries = 1
    EndgameThreshold = 1
    MaxPeerFailures = 1
    StorageFails = TRUE
    SavesFail = FALSE
    MayCancel = TRUE
PROPERTIES
    RecordKeepsUp
    Returns
