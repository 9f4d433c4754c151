SPECIFICATION FairSpec
CONSTANTS
    Callers = {b1}
    Terminals = {w1, w2}
    Guests = {g1, g2}
    NodeUsers = {n1}
    MaxUsers = 1
    MaxSessions = 1
    IdleTimeout = TRUE
    MaxArrivals = 2
    MaxCancels = 1
INVARIANTS TablesTrue GuestsTornDown
PROPERTIES EveryoneLeaves
CHECK_DEADLOCK FALSE
