------------------------- MODULE MCCircuitTransfer -------------------------
\* CircuitTransfer between a BBS whose session writes from two tasks and a
\* neighbour of another make, with sequence numbers that wrap early.
EXTENDS CircuitTransfer

CONSTANTS bbs, neighbour, main, feed, other

MCEnds == {bbs, neighbour}

\* The session loop and the chat feed of the BBS, and one task opposite.
MCTasks == {main, feed, other}
MCEndOf == [t \in MCTasks |-> IF t = other THEN neighbour ELSE bbs]

\* Three fragments of the BBS, in one message that fills the reassembly buffer
\* and a short one: its sequence numbers wrap and its writers wait for the window.
MCWrites == [t \in MCTasks |-> IF t = main THEN <<2>> ELSE <<1>>]

\* Of the two ends, it is the other make that retransmits.
MCRetransmitters == {neighbour}
=============================================================================
