--------------------------- MODULE MCAuthService ---------------------------
\* AuthService with sessions that are alike.
EXTENDS AuthService, TLC
Alike == Permutations(Sessions)
=============================================================================
