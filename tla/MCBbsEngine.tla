---------------------------- MODULE MCBbsEngine ----------------------------
\* BbsEngine with a caller, two browser terminals, two guests of external
\* services and a user of the node, of which any two arrive.
EXTENDS BbsEngine
=============================================================================
