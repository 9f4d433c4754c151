------------------------------- MODULE Heard -------------------------------
(***************************************************************************)
(* The log of the stations heard on the air: HeardPlugin                   *)
(* (src/bbs/plugins/heard/heard.py) and the sysop's requests about it      *)
(* (src/server/routes/heard.py).                                           *)
(* A transport awaits on_heard() for every frame it monitors, so there is  *)
(* one observer per transport, and observers of two transports overlap.    *)
(* An observer updates the cache of directly heard stations at once, then  *)
(* waits for the database, holds its write lock while it works through the *)
(* frame's digipeaters, and commits; it may fail on the way.  The sysop's  *)
(* requests run in threads of the web server, on connections of their own. *)
(*                                                                         *)
(* Abstracted: counts, positions, aliases, beacon text, signal levels and  *)
(* first-seen times (data carried along by the same statements), and the   *)
(* reports made from the tables except whom they list.                     *)
(***************************************************************************)
EXTENDS Integers, FiniteSets, Sequences, FiniteSetsExt

CONSTANTS
    Calls,        \* callsigns, and the tactical aliases of Ka-Nodes
    Nobody,
    BaseOf,       \* [call -> its base callsign]
    Transports,   \* the transports that monitor frames
    Frames,       \* what is on the air: [src, via: sequence of [digi, star]]
    Advertised,   \* the sets of named nodes a NODES broadcast may list
    Edits,        \* the Ka-Node aliases the sysop may set: set of <<owner, alias>>
    GraceSeconds, \* how long a digipeater stays "heard" without a star
    LockTimeout,  \* the longest an observer waits for the database
    ListLimit,    \* limit: the most stations a listing prints
    MaxAge,       \* the age at which paths are pruned, when it is not 0
    MaxTime,      \* the last moment looked at
    MaxFrames,    \* frames and broadcasts received
    MaxOthers     \* requests of the sysop, failures and restarts, together

ASSUME HeardAssumption ==
    /\ Nobody \notin Calls
    /\ Frames \subseteq [src : Calls, via : Seq([digi : Calls, star : BOOLEAN])]
    /\ Advertised \subseteq SUBSET Calls
    /\ Edits \subseteq Calls \X Calls
    /\ Transports \cap {"", "netrom", "none"} = {}
    /\ ListLimit \in Nat
ASSUME TimesAssumption ==
    /\ LockTimeout \in Nat /\ GraceSeconds \in Nat
    /\ MaxTime \in Nat /\ GraceSeconds < MaxTime

VARIABLES
    db,        \* the committed tables
    txn,       \* the observer that holds the write lock: its transport, hop and tables
    observer,  \* [transport -> the frame its on_heard() is busy with, or Idle]
    direct,    \* _direct_heard: [call -> time, 0 for none]
    kanode,    \* _kanode_map: [alias -> owner, or Nobody]
    refresh,   \* [request -> what it left to the event loop: a _refresh_kanode_map() and
               \* the map of the rows it read, or a _save_max_age()]
    now,
    unsaved,   \* history: whose direct hearing was erased or failed to be written
    absorbed,  \* history: the owners that took over an alias's rows
    used       \* the bounded events so far

vars == <<db, txn, observer, direct, kanode, refresh, now, unsaved, absorbed, used>>

Idle == [frame |-> "none"]
NoTxn == [by |-> "none"]
NoRefresh == [is |-> "none"]
NoRow == [source |-> "none", last |-> 0, direct |-> 0]
\* heard_events is keyed by call and transport; a digipeater's row names none.
NoPort == ""
Keys == Transports \cup {NoPort, "netrom"}

Bases == {BaseOf[c] : c \in Calls}
Star(f) == {i \in DOMAIN f.via : f.via[i].star}
ViaBase(f) == [i \in DOMAIN f.via |-> f.via[i].digi]

\* is_direct: no digipeater has repeated the frame yet.
Direct(f) == Star(f) = {}

\* _load_direct_heard(): what the rows say of a call's direct hearings.
Stored(d, c) == Max({d.rows[c][k].direct : k \in Keys})

\* _refresh_kanode_map(): one owner per alias; of several, the row read last.
MapsOf(d) ==
    {m \in [Calls -> Calls \cup {Nobody}] :
        \A a \in Calls : LET owners == {c \in d.stations : d.aliasOf[c] = a}
                         IN IF owners = {} THEN m[a] = Nobody ELSE m[a] \in owners}

\* _station_count()
HeardOnAir(d, c) == \E k \in Keys \ {NoPort} : d.rows[c][k].source = "heard"
Counted(d) == {c \in Calls : HeardOnAir(d, c)}

\* The H and HS listings of handle_session(): of all the stations, or of more than
\* the limit as many, the last seen ones.
Listings(d) ==
    LET found == {c \in d.stations : HeardOnAir(d, c)}
    IN IF Cardinality(found) <= ListLimit THEN {found}
       ELSE {l \in SUBSET found : Cardinality(l) = ListLimit}

\* A fresh database: initialize() creates the tables.  The clock counts from 1970
\* in the code, so that no grace period reaches back to 0.
Init == /\ db = [stations |-> {}, aliasOf |-> [c \in Calls |-> Nobody],
                 rows |-> [c \in Calls |-> [k \in Keys |-> NoRow]],
                 paths |-> {}, entities |-> {}, maxAge |-> MaxAge]
        /\ txn = NoTxn
        /\ observer = [t \in Transports |-> Idle]
        /\ direct = [c \in Calls |-> 0]
        /\ kanode = [c \in Calls |-> Nobody]
        /\ refresh = [e \in 1..MaxOthers |-> NoRefresh]
        /\ now = GraceSeconds + 1
        /\ unsaved = {} /\ absorbed = {}
        /\ used = [frames |-> 0, others |-> 0]

Use(what, bound) == /\ used[what] < bound
                    /\ used' = [used EXCEPT ![what] = @ + 1]

-----------------------------------------------------------------------------
\* The statements of on_heard(), on the tables of its transaction

Known(d, c) == [d EXCEPT !.stations = @ \cup {c}]
Later(x, y) == IF x < y THEN y ELSE x

\* A mutant: a relayed frame resets the time of the direct hearing.
DirectForgotten(d, t, f, ts) ==
    [Known(d, f.src) EXCEPT !.rows[f.src][t] =
        [source |-> "heard", last |-> ts, direct |-> IF Direct(f) THEN ts ELSE 0]]

\* The source's own row; last_direct_heard moves only on a direct frame.
SourceHeard(d, t, f, ts) ==
    [Known(d, f.src) EXCEPT !.rows[f.src][t] =
        [source |-> "heard", last |-> ts, direct |-> IF Direct(f) THEN ts ELSE @.direct]]

\* A digipeater whose own transmission was received.
DigiHeard(row, ts) ==
    [source |-> "heard", last |-> Later(row.last, ts), direct |-> Later(row.direct, ts)]

\* A digipeater without a star, before the last star.
DigiPassed(row, ts) ==
    [row EXCEPT !.source = IF row # NoRow /\ row.direct >= ts - GraceSeconds
                           THEN "heard" ELSE "via",
                !.last = Later(@, ts)]

\* A mutant: a speculative hop counts as a mention.
SpeculationCounts(row, ts) ==
    IF row = NoRow THEN [NoRow EXCEPT !.source = "via", !.last = ts]
    ELSE [row EXCEPT !.last = Later(@, ts)]

\* A digipeater after the last star is only seeded.
DigiSeeded(row, ts) ==
    IF row = NoRow THEN [NoRow EXCEPT !.source = "via", !.last = ts] ELSE row

DigiRow(f, i, row, ts) ==
    IF \A j \in Star(f) : j < i THEN DigiSeeded(row, ts)
    ELSE IF f.via[i].star THEN DigiHeard(row, ts)
    ELSE DigiPassed(row, ts)

\* One turn of the loop over via; the alias is resolved by the map of that moment.
HopHeard(d, f, i, ts, map) ==
    LET digi == f.via[i].digi
        owner == IF map[digi] = Nobody THEN digi ELSE map[digi]
    IN IF digi = f.src THEN d
       ELSE [Known(d, owner) EXCEPT !.rows[owner][NoPort] = DigiRow(f, i, @, ts)]

\* _merge_via(): a hop keeps the star that any copy of the path gave it.
MergedStars(f, old) == Star(f) \cup UNION {p.stars : p \in old}

\* heard_paths: one row for the frames heard over one path.
PathHeard(d, t, f, ts) ==
    LET base == IF Direct(f) THEN <<>> ELSE ViaBase(f)
        old == {p \in d.paths : p.call = f.src /\ p.transport = t /\ p.base = base}
    IN [d EXCEPT !.paths = (@ \ old) \cup
           {[call |-> f.src, transport |-> t, base |-> base, last |-> ts,
             stars |-> IF Direct(f) THEN {} ELSE MergedStars(f, old)]}]

\* _reconcile_entities()
Reconcile(d) == [d EXCEPT !.entities = @ \cup {BaseOf[c] : c \in d.stations}]

-----------------------------------------------------------------------------
\* on_heard()

\* Up to its first await: the cache is current before the tables are.
Receive(t, f) ==
    /\ observer[t] = Idle
    /\ Use("frames", MaxFrames)
    /\ observer' = [observer EXCEPT ![t] = [frame |-> f, ts |-> now]]
    /\ direct' = IF Direct(f) THEN [direct EXCEPT ![f.src] = now] ELSE direct
    /\ UNCHANGED <<db, txn, kanode, refresh, now, unsaved, absorbed>>

\* The first statement takes the write lock.
Begin(t) ==
    /\ observer[t] # Idle /\ txn = NoTxn
    /\ LET o == observer[t] IN
       txn' = [by |-> t, hop |-> 1, tables |-> SourceHeard(db, t, o.frame, o.ts)]
    /\ UNCHANGED <<db, observer, direct, kanode, refresh, now, unsaved, absorbed, used>>

Hop(t) ==
    /\ txn.by = t /\ txn.hop <= Len(observer[t].frame.via)
    /\ LET o == observer[t] IN
       txn' = [txn EXCEPT !.hop = @ + 1,
                          !.tables = HopHeard(@, o.frame, txn.hop, o.ts, kanode)]
    /\ UNCHANGED <<db, observer, direct, kanode, refresh, now, unsaved, absorbed, used>>

Commit(t) ==
    /\ txn.by = t /\ txn.hop > Len(observer[t].frame.via)
    /\ LET o == observer[t] IN
       /\ db' = Reconcile(PathHeard(txn.tables, t, o.frame, o.ts))
       /\ unsaved' = IF Direct(o.frame) /\ o.ts >= direct[o.frame.src]
                     THEN unsaved \ {o.frame.src} ELSE unsaved
    /\ txn' = NoTxn
    /\ observer' = [observer EXCEPT ![t] = Idle]
    /\ UNCHANGED <<direct, kanode, refresh, now, absorbed, used>>

\* The lock is not to be had in time, or a statement fails: nothing is written.
\* The AGWPE transport logs the exception, drops the frame and goes on; a KISS
\* transport is stopped for good by it, which is the same as hearing no more.
Fail(t) ==
    /\ observer[t] # Idle
    /\ Use("others", MaxOthers)
    /\ txn' = IF txn.by = t THEN NoTxn ELSE txn
    /\ unsaved' = IF Direct(observer[t].frame)
                  THEN unsaved \cup {observer[t].frame.src} ELSE unsaved
    /\ observer' = [observer EXCEPT ![t] = Idle]
    /\ UNCHANGED <<db, direct, kanode, refresh, now, absorbed>>

-----------------------------------------------------------------------------
\* Other writers of the tables: each is one transaction

Writes == txn = NoTxn
Elsewhere == UNCHANGED <<txn, observer, direct, kanode, now>>

\* on_netrom_nodes(): the nodes a broadcast gives a name.
Nodes(named) ==
    /\ Writes /\ \E t \in Transports : observer[t] = Idle
    /\ Use("frames", MaxFrames)
    /\ db' = Reconcile([db EXCEPT
           !.stations = @ \cup named,
           !.rows = [c \in Calls |-> IF c \in named
               THEN [db.rows[c] EXCEPT !["netrom"] =
                       [source |-> "netrom", last |-> now, direct |-> @.direct]]
               ELSE db.rows[c]]])
    /\ Elsewhere /\ UNCHANGED <<refresh, unsaved, absorbed>>

\* What becomes of two rows for one key when an alias's rows go to its owner.
MergedRow(mine, theirs) ==
    IF mine = NoRow THEN theirs
    ELSE IF theirs = NoRow THEN mine
    ELSE [mine EXCEPT !.last = Later(@, theirs.last), !.direct = Later(@, theirs.direct)]

MergedPaths(d, c, a) ==
    LET of(x) == {p \in d.paths : p.call = x}
        Same(p, q) == p.transport = q.transport /\ p.base = q.base
    IN {[p EXCEPT !.last = Max({@} \cup {q.last : q \in {r \in of(a) : Same(p, r)}})]
            : p \in of(c)}
       \cup {[q EXCEPT !.call = c] : q \in {r \in of(a) : ~\E p \in of(c) : Same(p, r)}}

\* A mutant: the paths of an erased station are left behind.
PathsLeft(d, calls) ==
    [d EXCEPT !.stations = @ \ calls,
              !.aliasOf = [c \in Calls |-> IF c \in calls THEN Nobody ELSE @[c]],
              !.rows = [c \in Calls |-> IF c \in calls THEN [k \in Keys |-> NoRow] ELSE @[c]]]

\* The rows of some callsigns are deleted from all three tables.
Erased(d, calls) ==
    [d EXCEPT !.stations = @ \ calls,
              !.aliasOf = [c \in Calls |-> IF c \in calls THEN Nobody ELSE @[c]],
              !.rows = [c \in Calls |-> IF c \in calls THEN [k \in Keys |-> NoRow] ELSE @[c]],
              !.paths = {p \in @ : p.call \notin calls}]

Absorbs(d, c, a) ==
    Erased([d EXCEPT !.rows[c] = [k \in Keys |-> MergedRow(d.rows[c][k], d.rows[a][k])],
                     !.paths = {p \in @ : p.call # c} \cup MergedPaths(d, c, a)], {a})

\* heard_update(): the sysop names an owner of an alias, or clears it; the
\* stand-alone rows of the alias become the owner's.  A refresh of the map is
\* asked of the event loop.
SetAlias(c, a) ==
    /\ Writes /\ c \in db.stations
    /\ Use("others", MaxOthers)
    /\ LET named == [db EXCEPT !.aliasOf[c] = a] IN
       IF a \in db.stations
       THEN /\ db' = Absorbs(named, c, a)
            /\ unsaved' = unsaved \cup {a}
            /\ absorbed' = absorbed \cup {c}
       ELSE /\ db' = named
            /\ UNCHANGED <<unsaved, absorbed>>
    /\ refresh' = [refresh EXCEPT ![used.others + 1] = [is |-> "asked"]]
    /\ Elsewhere

\* heard_delete_station() and heard_clear(), the sysop's X; entities remain.
Erase(calls) ==
    /\ Writes
    /\ Use("others", MaxOthers)
    /\ db' = Erased(db, calls)
    /\ unsaved' = unsaved \cup calls
    /\ Elsewhere /\ UNCHANGED <<refresh, absorbed>>

\* heard_entity_update()
EditEntity(b) ==
    /\ Writes
    /\ Use("others", MaxOthers)
    /\ db' = [db EXCEPT !.entities = @ \cup {b}]
    /\ Elsewhere /\ UNCHANGED <<refresh, unsaved, absorbed>>

\* _configure() saves the age; heard_settings_put() writes it, and has the event
\* loop save it once more.
SetMaxAge(age) ==
    /\ Writes
    /\ Use("others", MaxOthers)
    /\ db' = [db EXCEPT !.maxAge = age]
    /\ \/ UNCHANGED refresh
       \/ refresh' = [refresh EXCEPT ![used.others + 1] = [is |-> "save", age |-> age]]
    /\ Elsewhere /\ UNCHANGED <<unsaved, absorbed>>

SavesMaxAge(e, age) ==
    /\ refresh[e] = [is |-> "save", age |-> age]
    /\ Writes
    /\ db' = [db EXCEPT !.maxAge = age]
    /\ refresh' = [refresh EXCEPT ![e] = NoRefresh]
    /\ Elsewhere /\ UNCHANGED <<unsaved, absorbed, used>>

\* handle_session() loads the age and prunes the paths beyond it.
Prune ==
    /\ Writes /\ db.maxAge > 0
    /\ db' = [db EXCEPT !.paths = {p \in @ : p.last >= now - db.maxAge}]
    /\ Elsewhere /\ UNCHANGED <<refresh, unsaved, absorbed, used>>

\* _refresh_kanode_map() reads the rows, and later replaces the map.
RefreshReads(e) ==
    /\ refresh[e].is = "asked"
    /\ \E m \in MapsOf(db) : refresh' = [refresh EXCEPT ![e] = [is |-> "read", map |-> m]]
    /\ UNCHANGED <<db, txn, observer, direct, kanode, now, unsaved, absorbed, used>>

RefreshSets(e) ==
    /\ refresh[e].is = "read"
    /\ kanode' = refresh[e].map
    /\ refresh' = [refresh EXCEPT ![e] = NoRefresh]
    /\ UNCHANGED <<db, txn, observer, direct, now, unsaved, absorbed, used>>

\* A new process, initialize() first; an open transaction is rolled back.
Restart ==
    /\ Use("others", MaxOthers)
    /\ txn' = NoTxn
    /\ observer' = [t \in Transports |-> Idle]
    /\ refresh' = [e \in 1..MaxOthers |-> NoRefresh]
    /\ direct' = [c \in Calls |-> Stored(db, c)]
    /\ kanode' \in MapsOf(db)
    /\ unsaved' = {}
    /\ UNCHANGED <<db, now, absorbed>>

\* An observer is done, one way or the other, LockTimeout after its frame.
Tick ==
    /\ now < MaxTime
    /\ \A t \in Transports : observer[t] # Idle => now < observer[t].ts + LockTimeout
    /\ now' = now + 1
    /\ UNCHANGED <<db, txn, observer, direct, kanode, refresh, unsaved, absorbed, used>>

Observe(t) == (\E f \in Frames : Receive(t, f)) \/ Begin(t) \/ Hop(t) \/ Commit(t) \/ Fail(t)

Next ==
    \/ \E t \in Transports : Observe(t)
    \/ \E named \in Advertised : Nodes(named)
    \/ \E e \in Edits : SetAlias(e[1], e[2]) \/ SetAlias(e[1], Nobody)
    \/ \E c \in Calls : Erase({c})
    \/ Erase(Calls)
    \/ \E b \in Bases : EditEntity(b)
    \/ \E age \in {0, MaxAge} : SetMaxAge(age) \/ \E e \in 1..MaxOthers : SavesMaxAge(e, age)
    \/ Prune
    \/ \E e \in 1..MaxOthers : RefreshReads(e) \/ RefreshSets(e)
    \/ Restart
    \/ Tick

Spec == Init /\ [][Next]_vars

-----------------------------------------------------------------------------
\* Properties

TypeOK ==
    /\ db.stations \subseteq Calls /\ db.entities \subseteq Bases /\ db.maxAge \in {0, MaxAge}
    /\ db.aliasOf \in [Calls -> Calls \cup {Nobody}]
    /\ \A c \in Calls, k \in Keys :
           /\ db.rows[c][k].source \in {"none", "heard", "via", "netrom"}
           /\ db.rows[c][k].direct \in 0..MaxTime /\ db.rows[c][k].last \in 0..MaxTime
    /\ txn # NoTxn => txn.by \in Transports /\ observer[txn.by] # Idle
    /\ direct \in [Calls -> 0..MaxTime]
    /\ kanode \in [Calls -> Calls \cup {Nobody}]

\* The tables of the heard plugin agree with each other after every commit,
\* whatever observers, NODES broadcasts and sysop's requests made of them: a call
\* has a station row exactly when it has an event row, so a listing (from
\* stations) prints none but the ones the menu counts (from heard_events), and all
\* of them unless they are more than its limit; every path belongs to a source that was heard on that transport and is stored once,
\* with a star on it exactly when it is a relayed one; every station has its
\* physical-station entity (on_heard, on_netrom_nodes, heard_update,
\* heard_delete_station, heard_clear, _prune, _reconcile_entities).
TablesSound ==
    /\ TypeOK
    /\ \A c \in Calls : c \in db.stations <=> \E k \in Keys : db.rows[c][k] # NoRow
    /\ \A l \in Listings(db) :
           /\ l \subseteq Counted(db)
           /\ Cardinality(Counted(db)) <= ListLimit => l = Counted(db)
    /\ \A p \in db.paths :
           /\ db.rows[p.call][p.transport].source = "heard"
           /\ p.base = <<>> <=> p.stars = {}
           /\ \A q \in db.paths : p = q \/ p.call # q.call \/ p.transport # q.transport
                                        \/ p.base # q.base
    /\ \A c \in db.stations : BaseOf[c] \in db.entities

\* The cache of directly heard stations, which on_heard() updates before it writes,
\* is never ahead of what a restart would seed it with (_load_direct_heard), but for
\* a frame whose observer is at work, one whose write failed, and records the
\* sysop erased or merged: the router's adjacency survives a restart.
CacheBacked ==
    \A c \in Calls :
        \/ direct[c] <= Stored(db, c)
        \/ c \in unsaved
        \/ \E t \in Transports : observer[t] # Idle /\ observer[t].frame.src = c

\* A digipeater's row says "heard" only while its own transmissions were received
\* no longer than the grace period before the row's last mention, give or take the
\* time an observer may wait for the lock: observers of two transports may commit
\* in the other order, and an older mention finds the grace not over yet (the three
\* tiers of on_heard).  The rows of an owner that absorbed its alias are excepted:
\* heard_update() keeps the owner's source with the later of the two times.
HeardIsRecent ==
    \A c \in Calls \ absorbed :
        LET row == db.rows[c][NoPort]
        IN row.source = "heard" => row.last - row.direct <= GraceSeconds + LockTimeout
=============================================================================
