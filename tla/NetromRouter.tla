---------------------------- MODULE NetromRouter ----------------------------
(***************************************************************************)
(* The NET/ROM routers of a small network (src/bbs/netrom/router.py).      *)
(* Routers run the code; the other callsigns (leaves) run other software   *)
(* and broadcast any of the lists they are given.  A NODES broadcast       *)
(* reaches any subset of those that can hear its source (UI frames are not *)
(* repeated), each of which composes the advertised qualities with its own *)
(* link quality, keeps the best few routes per destination, and forgets    *)
(* what it no longer hears by a count.                                     *)
(*                                                                         *)
(* Abstracted: aliases (a second name for a destination); wall-clock       *)
(* times (a restart happens within the route TTL or long after it, and a   *)
(* direct route in the table is within it); operator locks, which no code  *)
(* sets; the splitting of one broadcast over several frames.               *)
(***************************************************************************)
EXTENDS Integers, FiniteSets, SequencesExt

CONSTANTS
    Routers,         \* the nodes that run this code
    CallOrder,       \* every callsign, in the order broadcasts list them
    Hears,           \* [callsign -> the routers that may receive its frames]
    PathQuality,     \* [router -> [callsign -> 0..255]], the link qualities
    WorstQuality,    \* routes below it are ignored; 0 turns routing off
    MaxRoutes,       \* _MAX_ROUTES_PER_DEST
    MaxDestinations, \* max_destinations
    ObsInit,         \* obs_initializer
    ObsMin,          \* obs_min_to_broadcast
    LeafLists,       \* [leaf -> the lists of entries its broadcasts may carry]
    SelfOnly,        \* the routers in polite-client mode
    Crosslinkable,   \* [router -> the callsigns it may have a crosslink to and hear]
    Stores,          \* the routers that have a database
    MaxCrashes       \* bound: restarts of a router

Calls == {CallOrder[i] : i \in DOMAIN CallOrder}
Leaves == Calls \ Routers
\* An entry of a broadcast: a destination, the first hop to it and its quality.
Entry == [dest : Calls, nbr : Calls, quality : 0 .. 255]

ASSUME CallsAssumption == /\ CallOrder \in Seq(Calls) /\ IsInjective(CallOrder)
                          /\ Routers \subseteq Calls
                          /\ SelfOnly \subseteq Routers
                          /\ Crosslinkable \in [Routers -> SUBSET Calls]
                          /\ Hears \in [Calls -> SUBSET Routers]
                          /\ PathQuality \in [Routers -> [Calls -> 0 .. 255]]
                          /\ \A l \in Leaves : LeafLists[l] \subseteq Seq(Entry)
ASSUME BoundsAssumption == /\ WorstQuality \in 0 .. 255
                           /\ MaxRoutes \in Nat \ {0}
                           /\ MaxDestinations \in Nat \ {0}
                           /\ ObsInit \in 0 .. 255 /\ ObsMin \in 1 .. 255
                           /\ Stores \subseteq Routers /\ MaxCrashes \in Nat

VARIABLES
    \* in memory
    routes,      \* [router -> [callsign -> its routes, best first]]
    neighbours,  \* [router -> the keys of _neighbours]
    crosslinks,  \* [router -> _crosslinks]
    heard,       \* [router -> callsigns heard directly within the TTL]
    owed,        \* [router -> on_netrom_frame() awaits its observer]
    saving,      \* [router -> [task -> the snapshot it saves, or {}]]
    \* on disk
    stored,      \* [router -> the snapshot in the database]
    \* the environment
    crashes      \* [router -> restarts so far]

mem == <<routes, neighbours, crosslinks, heard, owed, saving>>
routerVars == <<mem, stored, crashes>>

Route == [via : Calls, nbr : Calls, quality : 0 .. 255, obs : 0 .. ObsInit]
NoRoutes == [d \in Calls |-> <<>>]
\* The two tasks that persist: the transport's, which awaits one frame after
\* the other, and the decay loop.
Savers == {"frame", "decay"}
EmptySnapshot == [rows |-> [d \in Calls |-> {}], nbrs |-> {}]

-----------------------------------------------------------------------------
\* The routing table: pure operators.

\* Both factors are fractions of 256; the product is rounded to the nearest.
RouteQuality(advertised, path) == (advertised * path + 128) \div 256

\* The elements of s at the positions P, in their order.
Picked(s, P) ==
    [k \in 1 .. Cardinality(P) |->
        s[CHOOSE i \in P : Cardinality({j \in P : j <= i}) = k]]

\* Python's stable sort by falling quality.
ByQuality(s) ==
    LET Rank(i) == Cardinality({j \in DOMAIN s :
                      \/ s[j].quality > s[i].quality
                      \/ (s[j].quality = s[i].quality /\ j <= i)})
    IN  [k \in DOMAIN s |-> s[CHOOSE i \in DOMAIN s : Rank(i) = k]]

FirstRoutes(s) == SubSeq(s, 1, IF Len(s) < MaxRoutes THEN Len(s) ELSE MaxRoutes)

Ranked(s) == FirstRoutes(ByQuality(s))

\* A mutant: the routes are told apart as the stored rows are.
UpsertByNbr(bucket, route) ==
    LET same == {i \in DOMAIN bucket : bucket[i].nbr = route.nbr}
    IN  Ranked(IF same = {} THEN Append(bucket, route)
               ELSE [i \in DOMAIN bucket |-> IF i \in same THEN route ELSE bucket[i]])

\* One route per via; a refreshed route takes the place of the old one.
Upsert(bucket, route) ==
    LET same == {i \in DOMAIN bucket : bucket[i].via = route.via}
    IN  Ranked(IF same = {} THEN Append(bucket, route)
               ELSE [i \in DOMAIN bucket |-> IF i \in same THEN route ELSE bucket[i]])

Known(table) == {d \in Calls : table[d] # <<>>}

\* A mutant: the advertised quality is taken over.
VerbatimQuality(n, entry, path) == IF entry.nbr = n THEN 0 ELSE entry.quality

\* What an entry is worth to router n behind a link of quality path: an entry
\* that would come straight back is worth nothing.
EntryQuality(n, entry, path) ==
    IF entry.nbr = n THEN 0 ELSE RouteQuality(entry.quality, path)

Learn(n, src, path, table, entry) ==
    LET q == EntryQuality(n, entry, path)
        d == entry.dest
        full == table[d] = <<>> /\ Cardinality(Known(table)) >= MaxDestinations
    IN  IF q < WorstQuality \/ full
        THEN table
        ELSE [table EXCEPT ![d] = Upsert(@,
                [via |-> src, nbr |-> entry.nbr, quality |-> q, obs |-> ObsInit])]

DirectRoute(src, path) == [via |-> src, nbr |-> src, quality |-> path, obs |-> ObsInit]

\* _process_nodes(): the table of n after a broadcast of src.
ProcessNodes(n, src, entries) ==
    LET path == PathQuality[n][src]
        direct == [routes[n] EXCEPT ![src] = Upsert(@, DirectRoute(src, path))]
        table[k \in 0 .. Len(entries)] ==
            IF k = 0 THEN direct ELSE Learn(n, src, path, table[k - 1], entries[k])
    IN  table[Len(entries)]

\* _nodes_entries(): the best route of each destination that is fresh enough.
Advertised(n) ==
    LET fresh(d) == /\ routes[n][d] # <<>>
                    /\ \/ routes[n][d][1].obs = 0
                       \/ routes[n][d][1].obs >= ObsMin
        dests == Picked(CallOrder, {i \in DOMAIN CallOrder : fresh(CallOrder[i])})
    IN  [i \in DOMAIN dests |-> [dest |-> dests[i], nbr |-> routes[n][dests[i]][1].via,
                                 quality |-> routes[n][dests[i]][1].quality]]

\* decay_obsolescence(): 0 means locked, 1 runs out.
NotLast(route) == route.obs # 1

\* A mutant: a count that runs out stays, at 0.
KeptAtZero(bucket) ==
    [i \in DOMAIN bucket |-> [bucket[i] EXCEPT !.obs = IF @ = 0 THEN 0 ELSE @ - 1]]

Kept(bucket) ==
    LET alive == Picked(bucket, {i \in DOMAIN bucket : NotLast(bucket[i])})
    IN  [i \in DOMAIN alive |-> [alive[i] EXCEPT !.obs = IF @ = 0 THEN 0 ELSE @ - 1]]
Decayed(table) == [d \in Calls |-> Kept(table[d])]

UsedVias(table) == UNION {{table[d][i].via : i \in DOMAIN table[d]} : d \in Calls}

Reconcile(nbrs, table, links) == nbrs \cap (UsedVias(table) \cup links)

\* A mutant: a later row of the same neighbour replaces an earlier one.
LastRows(bucket) ==
    LET last(i) == \A j \in i + 1 .. Len(bucket) : bucket[j].nbr # bucket[i].nbr
    IN  {bucket[i] : i \in {j \in DOMAIN bucket : last(j)}}

\* persist() keeps one row per (destination, neighbor_call), the best one.
BestRows(bucket) ==
    LET first(i) == \A j \in 1 .. i - 1 : bucket[j].nbr # bucket[i].nbr
    IN  {bucket[i] : i \in {j \in DOMAIN bucket : first(j)}}
Snapshot(n) == [rows |-> [d \in Calls |-> BestRows(routes[n][d])], nbrs |-> neighbours[n]]

\* seed_from_db(): the rows by falling quality (equal ones in one fixed order),
\* none twice for one via, as many as a bucket holds.
Seeded(rows) == [d \in Calls |-> Ranked(SetToSeq(rows[d]))]

-----------------------------------------------------------------------------
\* Adjacency and the next hop.

\* _is_known_node()
KnownNode(n, c) == \/ routes[n][c] # <<>>
                   \/ c \in crosslinks[n] \cup UsedVias(routes[n])

\* is_direct_neighbor()
DirectNeighbour(n, c) ==
    \/ c \in crosslinks[n]
    \/ c \in neighbours[n] /\ PathQuality[n][c] > 0
    \/ KnownNode(n, c) /\ c \in heard[n]
    \/ \E i \in DOMAIN routes[n][c] : routes[n][c][i].via = c

\* best_neighbor_for(): the destination itself, else the best route whose
\* first hop is adjacent, else the best route; {} when there is none.
BestNeighbourFor(n, d) ==
    LET usable == {i \in DOMAIN routes[n][d] : routes[n][d][i].quality >= 1}
        adjacent == {i \in usable : DirectNeighbour(n, routes[n][d][i].via)}
        best(S) == {routes[n][d][i].via : i \in {j \in S : \A k \in S : j <= k}}
    IN  IF DirectNeighbour(n, d) THEN {d}
        ELSE IF adjacent # {} THEN best(adjacent) ELSE best(usable)

-----------------------------------------------------------------------------
RouterInit ==
    /\ routes = [n \in Routers |-> NoRoutes]
    /\ neighbours = [n \in Routers |-> {}]
    /\ crosslinks = [n \in Routers |-> {}]
    /\ heard = [n \in Routers |-> {}]
    /\ owed = [n \in Routers |-> FALSE]
    /\ saving = [n \in Routers |-> [t \in Savers |-> {}]]
    /\ stored = [n \in Routers |-> EmptySnapshot]
    /\ crashes = [n \in Routers |-> 0]

Ready(n) == ~owed[n] /\ saving[n]["frame"] = {}

\* One broadcast of src and its processing by the routers R that receive it.
\* WorstQuality 0 turns processing off, a link quality of 0 ignores the
\* source; both still owe the observer and persist() their turn.
Received(src, entries, R) ==
    LET takes == {n \in R : WorstQuality > 0}
        learns == {n \in takes : PathQuality[n][src] > 0}
    IN  /\ \A n \in R : Ready(n)
        /\ neighbours' = [n \in Routers |->
                IF n \in takes THEN neighbours[n] \cup {src} ELSE neighbours[n]]
        /\ routes' = [n \in Routers |->
                IF n \in learns THEN ProcessNodes(n, src, entries) ELSE routes[n]]
        /\ owed' = [n \in Routers |-> owed[n] \/ n \in R \cap Stores]
        /\ UNCHANGED <<crosslinks, heard, saving, stored, crashes>>

\* A router sends its table, or its own presence in polite-client mode; with
\* nothing to advertise it sends nothing at all.
RouterBroadcasts(src) ==
    /\ src \in SelfOnly \/ Advertised(src) # <<>>
    /\ \E R \in SUBSET Hears[src] :
         Received(src, IF src \in SelfOnly THEN <<>> ELSE Advertised(src), R)

LeafBroadcasts(src) ==
    /\ \E R \in SUBSET Hears[src], entries \in LeafLists[src] : Received(src, entries, R)

Broadcasts(src) == \/ src \in Routers /\ RouterBroadcasts(src)
                   \/ src \in Leaves /\ LeafBroadcasts(src)

NoteHeardDirect(n, c) ==
    /\ c \notin heard[n]
    /\ heard' = [heard EXCEPT ![n] = @ \cup {c}]
    /\ UNCHANGED <<routes, neighbours, crosslinks, owed, saving, stored, crashes>>

HeardExpires(n, c) ==
    /\ c \in heard[n]
    /\ heard' = [heard EXCEPT ![n] = @ \ {c}]
    /\ UNCHANGED <<routes, neighbours, crosslinks, owed, saving, stored, crashes>>

NoteCrosslinkUp(n, c) ==
    /\ c \notin crosslinks[n]
    /\ crosslinks' = [crosslinks EXCEPT ![n] = @ \cup {c}]
    /\ UNCHANGED <<routes, neighbours, heard, owed, saving, stored, crashes>>

NoteCrosslinkDown(n, c) ==
    /\ c \in crosslinks[n]
    /\ crosslinks' = [crosslinks EXCEPT ![n] = @ \ {c}]
    /\ neighbours' = [neighbours EXCEPT ![n] = Reconcile(@, routes[n], crosslinks'[n])]
    /\ UNCHANGED <<routes, heard, owed, saving, stored, crashes>>

\* The periodic scan; it persists right after it, without an await between.
Decay(n) ==
    /\ ObsInit > 0
    /\ routes' = [routes EXCEPT ![n] = Decayed(@)]
    /\ neighbours' = [neighbours EXCEPT ![n] = Reconcile(@, routes'[n], crosslinks[n])]
    /\ saving[n]["decay"] = {}
    /\ saving' = [saving EXCEPT ![n]["decay"] = IF n \in Stores THEN {Snapshot(n)'} ELSE {}]
    /\ UNCHANGED <<crosslinks, heard, owed, stored, crashes>>

\* on_netrom_frame() after the observer's await: persist() takes its snapshot.
SaveBegins(n) ==
    /\ owed[n]
    /\ owed' = [owed EXCEPT ![n] = FALSE]
    /\ saving' = [saving EXCEPT ![n]["frame"] = {Snapshot(n)}]
    /\ UNCHANGED <<routes, neighbours, crosslinks, heard, stored, crashes>>

\* Its transaction replaces all rows, or fails and is only logged.  Two of
\* them wait for each other at the database, in either order.
SaveEnds(n, t) ==
    \E snapshot \in saving[n][t] :
        /\ saving' = [saving EXCEPT ![n][t] = {}]
        /\ stored' = [stored EXCEPT ![n] = snapshot]
        /\ UNCHANGED <<routes, neighbours, crosslinks, heard, owed, crashes>>

SaveFails(n, t) ==
    /\ saving[n][t] # {}
    /\ saving' = [saving EXCEPT ![n][t] = {}]
    /\ UNCHANGED <<routes, neighbours, crosslinks, heard, owed, stored, crashes>>

\* The program stops at any point and starts again, within the route TTL of
\* the stored rows or after it.
Restart(n) ==
    /\ crashes[n] < MaxCrashes
    /\ crashes' = [crashes EXCEPT ![n] = @ + 1]
    /\ \E snapshot \in {stored[n], EmptySnapshot} :
         /\ routes' = [routes EXCEPT ![n] = Seeded(snapshot.rows)]
         /\ neighbours' = [neighbours EXCEPT ![n] = snapshot.nbrs]
    /\ crosslinks' = [crosslinks EXCEPT ![n] = {}]
    /\ heard' = [heard EXCEPT ![n] = {}]
    /\ owed' = [owed EXCEPT ![n] = FALSE]
    /\ saving' = [saving EXCEPT ![n] = [t \in Savers |-> {}]]
    /\ UNCHANGED stored

RouterNext ==
    \/ \E c \in Calls : Broadcasts(c)
    \/ \E n \in Routers :
        \/ \E c \in Crosslinkable[n] :
             \/ NoteCrosslinkUp(n, c) \/ NoteCrosslinkDown(n, c)
             \/ NoteHeardDirect(n, c) \/ HeardExpires(n, c)
        \/ \E t \in Savers : SaveEnds(n, t) \/ SaveFails(n, t)
        \/ Decay(n) \/ SaveBegins(n) \/ Restart(n)

RouterSpec == RouterInit /\ [][RouterNext]_routerVars

-----------------------------------------------------------------------------
\* The types; no list of routes is longer than it may be.
RouterTypeOK ==
    /\ routes \in [Routers -> [Calls -> Seq(Route)]]
    /\ \A n \in Routers, d \in Calls : Len(routes[n][d]) <= MaxRoutes
    /\ neighbours \in [Routers -> SUBSET Calls]
    /\ crosslinks \in [Routers -> SUBSET Calls]
    /\ heard \in [Routers -> SUBSET Calls]
    /\ owed \in [Routers -> BOOLEAN]
    /\ \A n \in Routers, t \in Savers : Cardinality(saving[n][t]) <= 1
    /\ crashes \in [Routers -> 0 .. MaxCrashes]

Bucket(s) ==
    \A i, j \in DOMAIN s : i < j => /\ s[i].quality >= s[j].quality
                                    /\ s[i].via # s[j].via

\* However broadcasts, decay scans and restarts alternate, a destination's
\* routes are best first with one per neighbour, none but a neighbour's own is
\* below the quality that is worth keeping, and none has run down to the count
\* that would make it permanent (_upsert_route, decay_obsolescence, seed_from_db).
RoutesWellFormed ==
    /\ RouterTypeOK
    /\ \A n \in Routers, d \in Calls :
           /\ Bucket(routes[n][d])
           /\ \A i \in DOMAIN routes[n][d] :
                /\ routes[n][d][i].via = d \/ routes[n][d][i].quality >= WorstQuality
                /\ ObsInit > 0 => routes[n][d][i].obs > 0

\* What would be stored now and seeded after a restart: every destination
\* keeps a route of its best quality, though the rows are keyed by
\* neighbor_call and the list by via (persist, seed_from_db).
BestQuality(bucket) == IF bucket = <<>> THEN 0 ELSE bucket[1].quality
SnapshotFaithful ==
    \A n \in Routers, d \in Calls :
        BestQuality(Seeded(Snapshot(n).rows)[d]) = BestQuality(routes[n][d])

\* A broadcast that names its source or a destination twice upserts one list
\* more than once.  A leaf's list may do the first, a router does when it has
\* learned a route to itself.
Tidy(src, entries) ==
    \A i, j \in DOMAIN entries : /\ entries[i].dest # src
                                 /\ i # j => entries[i].dest # entries[j].dest
NamesOnce(src) ==
    IF src \in Routers
    THEN src \in SelfOnly \/ routes[src][src] = <<>>
    ELSE \A entries \in LeafLists[src] : Tidy(src, entries)

\* A broadcast that tells of each destination once pushes a route out only in
\* favour of as many routes that are at least as good as a list holds: rounding,
\* equal qualities and routes of several entries included (_upsert_route,
\* _process_nodes).
NoBetterDropped ==
    [][\A src \in Calls : Broadcasts(src) /\ NamesOnce(src) =>
         \A n \in Routers, d \in Calls :
           \A i \in DOMAIN routes[n][d] :
             LET r == routes[n][d][i] IN
             \/ r.via = src
             \/ \E j \in DOMAIN routes'[n][d] : routes'[n][d][j] = r
             \/ Cardinality({j \in DOMAIN routes'[n][d] :
                    routes'[n][d][j].quality >= r.quality}) = MaxRoutes]_routerVars

\* No route is better than the link its first hop is on, however often it went
\* around: a tale that routers tell each other loses quality at every hop, also
\* over restarts (_route_quality, _process_nodes, seed_from_db).
NoBetterThanLink ==
    \A n \in Routers, d \in Calls : \A i \in DOMAIN routes[n][d] :
        routes[n][d][i].quality <= PathQuality[n][routes[n][d][i].via]

\* A direct route takes the quality of the path to the neighbour verbatim, so
\* that it outranks every route that composes it (NETROM.md 3.2).  The code
\* gives the source's own route that quality first, and then lets an entry of
\* the same broadcast that names the source replace it (_process_nodes).
DirectVerbatim ==
    \A n \in Routers, d \in Calls : \A i \in DOMAIN routes[n][d] :
        routes[n][d][i].via = d => routes[n][d][i].quality = PathQuality[n][d]
=============================================================================
