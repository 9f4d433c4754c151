------------------------------ MODULE MCHeard ------------------------------
\* A node K with a second SSID and the Ka-Node alias R; two transports.
EXTENDS Heard, TLC

Alike == Permutations(Transports)

SysopEdits == {<<"K", "R">>, <<"K", "K">>}
OwnBase == [c \in Calls |-> IF c = "R" THEN "R" ELSE "K"]
Via(d, s) == [digi |-> d, star |-> s]
OnAir == {[src |-> "S", via |-> <<Via("R", FALSE)>>],
          [src |-> "S", via |-> <<Via("R", FALSE), Via("K", TRUE)>>],
          [src |-> "S", via |-> <<Via("R", TRUE), Via("K", FALSE)>>],
          [src |-> "K", via |-> <<Via("R", TRUE)>>]}
=============================================================================
