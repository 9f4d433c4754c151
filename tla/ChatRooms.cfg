SPECIFICATION Spec
CONSTANTS
    A = A
    B = B
    s1 = s1
    s2 = s2
    main = main
    side = side
    Nobody = Nobody
    Sessions = {s1, s2}
    Calls = {A, B}
    Identities <- OneOrTwo
    Sysops = {s1}
    Names = {main, side}
    Configured <- TheRooms
    Main = main
    QueueMax = 2
    MaxWhispers = 1
    MaxJoins = 2
    MaxDeletes = 1
    MaxRestarts = 1
INVARIANTS MembershipTrue DeletionTold
PROPERTIES HeldShown
CHECK_DEADLOCK FALSE
