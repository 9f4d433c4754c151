--------------------------- MODULE MCNetromRouter ---------------------------
\* Two routers and two leaves.  L is heard by both routers, M by A alone; M says
\* that it reaches L, so that A may know L by three neighbours: a full list.
EXTENDS NetromRouter

FourOrder == <<"A", "B", "L", "M">>
Earshot == [c \in Calls |-> IF c = "M" THEN {"A"} ELSE Routers \ {c}]
TellsOfL == [c \in Leaves |->
                {IF c = "M" THEN <<[dest |-> "L", nbr |-> "L", quality |-> 200]>> ELSE <<>>}]

\* Only A links with a leaf.
LinksOfA == [n \in Routers |-> IF n = "A" THEN {"L"} ELSE {}]

\* Links on which composed qualities fall quickly, one of them better.
PoorLinks == [n \in Routers |-> [c \in Calls |-> IF {n, c} = {"A", "L"} THEN 128 ELSE 64]]

\* What _upsert_route() makes of a full list: over every list of two routes and
\* every new one, it keeps the new route in place of the old one of its via, and
\* drops only what is worse than all it keeps.
Sample == {[via |-> v, nbr |-> v, quality |-> q, obs |-> 1] : v \in Calls, q \in 1 .. 3}
ASSUME UpsertKeepsBest ==
    \A a, b, r \in Sample :
        a.via # b.via /\ a.quality >= b.quality =>
            LET candidates == {x \in {a, b} : x.via # r.via} \cup {r}
                kept == Upsert(<<a, b>>, r)
            IN  /\ Range(kept) \subseteq candidates
                /\ Len(kept) = Cardinality(Range(kept))
                /\ \A x \in candidates \ Range(kept) :
                       Len(kept) = MaxRoutes /\ \A y \in Range(kept) : y.quality >= x.quality
=============================================================================
