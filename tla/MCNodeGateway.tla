--------------------------- MODULE MCNodeGateway ---------------------------
\* NodeGateway with two sessions of one user, one of them at the menu and one
\* that came in on a crosslink.
EXTENDS NodeGateway, TLC
CONSTANTS s1, s2, u1, v1, v2

SharedUser == s1 :> u1 @@ s2 :> u1
CameOver == s1 :> None @@ s2 :> v1
=============================================================================
