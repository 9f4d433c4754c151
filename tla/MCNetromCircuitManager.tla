----------------------- MODULE MCNetromCircuitManager -----------------------
\* NetromCircuitManager with few circuits over the life of a crosslink and two
\* local indices.  Every circuit gets an id of its own: with 256 of them, an id
\* comes round only after 256 circuits.
EXTENDS NetromCircuitManager, TLC

CircuitSymmetry == Permutations(Circuits)
=============================================================================
