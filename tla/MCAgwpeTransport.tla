-------------------------- MODULE MCAgwpeTransport --------------------------
\* AgwpeTransport with one or two stations and few sessions over the life of
\* the program.
EXTENDS AgwpeTransport, TLC

AgwpeSymmetry == Permutations(Sessions) \cup Permutations(Callers)
=============================================================================
