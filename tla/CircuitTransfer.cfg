SPECIFICATION FairSpec
CONSTANTS
    bbs = bbs
    neighbour = neighbour
    main = main
    feed = feed
    other = other
    Ends <- MCEnds
    Tasks <- MCTasks
    EndOf <- MCEndOf
    Modulus = 3
    Window = 2
    MaxReassembly = 1
    Writes <- MCWrites
    Retransmitters <- MCRetransmitters
    MaxRetransmits = 1
INVARIANTS TypeOK WindowRespected NothingAfterDiscReq
PROPERTIES ImplementsStream DrainReturns
CHECK_DEADLOCK FALSE
