----------------------------- MODULE HeardProofs -----------------------------
(***************************************************************************)
(* The tables of the heard plugin agree, the cache of directly heard       *)
(* stations is backed by them and a digipeater that is "heard" was heard   *)
(* lately, for every set of stations, transports and frames.  The          *)
(* invariant holds of the committed tables and of those in the open        *)
(* transaction alike; a row's times are bounded by the clock of the        *)
(* transport that writes it, which is the time of the frame it works on.   *)
(***************************************************************************)
EXTENDS Heard, WellFoundedInduction, TLAPS

Row == [source : {"none", "heard", "via", "netrom"}, last : 0..MaxTime, direct : 0..MaxTime]

\* What a transport's observer takes for the time.
Clock(t) == IF observer[t] = Idle THEN now ELSE observer[t].ts

\* One row of heard_events.
RowOK(c, k, row) ==
    /\ row \in Row
    /\ row.source = "none" => row = NoRow
    /\ row.last <= now /\ row.direct <= now
    /\ k \in Transports => row.source \in {"none", "heard"} /\ row.direct <= Clock(k)
    /\ (k = NoPort /\ c \notin absorbed /\ row.source = "heard") =>
          row.last - row.direct <= GraceSeconds + LockTimeout

\* A row of heard_paths, and the tables, have their columns.
IsPath(p) == p = [call |-> p.call, transport |-> p.transport, base |-> p.base,
                  last |-> p.last, stars |-> p.stars]
IsTables(d) == d = [stations |-> d.stations, aliasOf |-> d.aliasOf, rows |-> d.rows,
                    paths |-> d.paths, entities |-> d.entities, maxAge |-> d.maxAge]

TablesType(d) ==
    /\ IsTables(d)
    /\ d.stations \subseteq Calls /\ d.entities \subseteq Bases /\ d.maxAge \in {0, MaxAge}
    /\ d.aliasOf \in [Calls -> Calls \cup {Nobody}]
    /\ d.rows \in [Calls -> [Keys -> Row]]

RowsInv(d) ==
    \A c \in Calls :
        /\ \A k \in Keys : RowOK(c, k, d.rows[c][k])
        /\ c \in d.stations <=> \E k \in Keys : d.rows[c][k] # NoRow

PathsFit(rows, paths) ==
    /\ \A p \in paths :
          /\ IsPath(p) /\ p.call \in Calls /\ p.transport \in Transports
          /\ rows[p.call][p.transport].source = "heard"
          /\ p.base = <<>> <=> p.stars = {}
    /\ \A p, q \in paths : \/ p = q \/ p.call # q.call \/ p.transport # q.transport
                            \/ p.base # q.base

PathsInv(d) == PathsFit(d.rows, d.paths)

Sound(d) == TablesType(d) /\ RowsInv(d) /\ PathsInv(d)

DbInv == Sound(db) /\ \A c \in db.stations : BaseOf[c] \in db.entities

ObserversInv ==
    /\ now \in 0..MaxTime
    /\ \A t \in Transports : observer[t] # Idle =>
          /\ observer[t].frame \in Frames
          /\ observer[t].ts \in 0..now /\ now <= observer[t].ts + LockTimeout

\* The transaction has heard the frame's source, and forgets nothing heard.
TxnInv ==
    txn # NoTxn =>
        LET t == txn.by
            o == observer[t]
        IN  /\ txn = [by |-> t, hop |-> txn.hop, tables |-> txn.tables]
            /\ t \in Transports /\ o # Idle /\ txn.hop \in Nat \ {0}
            /\ Sound(txn.tables)
            /\ txn.tables.rows[o.frame.src][t].source = "heard"
            /\ Direct(o.frame) => o.ts <= txn.tables.rows[o.frame.src][t].direct
            /\ \A c \in Calls, k \in Keys :
                  db.rows[c][k].direct <= txn.tables.rows[c][k].direct

MapsInv ==
    /\ kanode \in [Calls -> Calls \cup {Nobody}]
    /\ DOMAIN refresh = 1..MaxOthers
    /\ \A e \in 1..MaxOthers :
          refresh[e].is = "read" => refresh[e].map \in [Calls -> Calls \cup {Nobody}]

\* What the cache has of a call is in a row, lost, or being written.
CacheInv ==
    /\ direct \in [Calls -> 0..MaxTime]
    /\ \A c \in Calls :
          \/ \E k \in Keys : direct[c] <= db.rows[c][k].direct
          \/ c \in unsaved
          \/ \E t \in Transports :
                /\ observer[t] # Idle /\ observer[t].frame.src = c
                /\ Direct(observer[t].frame) /\ direct[c] <= observer[t].ts

HeardInv == /\ ObserversInv /\ MapsInv /\ DbInv /\ TxnInv /\ CacheInv
            /\ DOMAIN observer = Transports
-----------------------------------------------------------------------------
\* An observer with a frame is not idle, nor is a transaction none.
LEMMA BusyIsNotIdle == \A f, ts : [frame |-> f, ts |-> ts] # Idle
<1>. SUFFICES ASSUME NEW f, NEW ts PROVE [frame |-> f, ts |-> ts] # Idle
  OBVIOUS
<1>1. DOMAIN [frame |-> f, ts |-> ts] = {"frame", "ts"} /\ DOMAIN Idle = {"frame"}
  BY DEF Idle
<1>2. "ts" \notin {"frame"} /\ "ts" \in {"frame", "ts"}
  OBVIOUS
<1>. QED  BY <1>1, <1>2

LEMMA OpenIsNotNoTxn == \A t, h, d : [by |-> t, hop |-> h, tables |-> d] # NoTxn
<1>. SUFFICES ASSUME NEW t, NEW h, NEW d PROVE [by |-> t, hop |-> h, tables |-> d] # NoTxn
  OBVIOUS
<1>1. DOMAIN [by |-> t, hop |-> h, tables |-> d] = {"by", "hop", "tables"} /\ DOMAIN NoTxn = {"by"}
  BY DEF NoTxn
<1>2. "hop" \notin {"by"} /\ "hop" \in {"by", "hop", "tables"}
  OBVIOUS
<1>. QED  BY <1>1, <1>2

LEMMA NoRowFacts == NoRow.source = "none" /\ NoRow.last = 0 /\ NoRow.direct = 0
BY DEF NoRow

LEMMA KeyFacts == /\ Transports \subseteq Keys /\ NoPort \in Keys /\ "netrom" \in Keys
                  /\ NoPort \notin Transports /\ "netrom" \notin Transports /\ "none" \notin Transports
BY HeardAssumption DEF Keys, NoPort, HeardAssumption

\* What a step that lets time pass, or changes no more than who works on what,
\* leaves of a row.
Onward == /\ now' \in 0..MaxTime /\ now <= now'
          /\ absorbed \subseteq absorbed'
          /\ \A t \in Transports : Clock(t) <= Clock(t)'

LEMMA RowStays ==
    ASSUME NEW c, NEW k, NEW row, RowOK(c, k, row), ObserversInv, ObserversInv', Onward
    PROVE  RowOK(c, k, row)'
<1>1. now \in Nat /\ now' \in Nat
  BY TimesAssumption DEF ObserversInv, TimesAssumption
<1>2. row.last \in Nat /\ row.direct \in Nat
  <2>1. row \in Row
    BY DEF RowOK
  <2>. QED  BY <2>1, TimesAssumption DEF Row, TimesAssumption
<1>3. ASSUME NEW t \in Transports
      PROVE  Clock(t) \in Nat /\ Clock(t)' \in Nat
  <2>1. Clock(t) \in Nat
    BY <1>1 DEF ObserversInv, Clock
  <2>2. Clock(t)' \in Nat
    BY <1>1 DEF ObserversInv, Clock
  <2>. QED  BY <2>1, <2>2
<1>4. k \in Transports => row.direct <= Clock(k)'
  <2>. SUFFICES ASSUME k \in Transports PROVE row.direct <= Clock(k)'
    OBVIOUS
  <2>1. row.direct <= Clock(k) /\ Clock(k) <= Clock(k)'
    BY DEF RowOK, Onward
  <2>. QED  BY <1>2, <1>3, <2>1
<1>5. row.last <= now' /\ row.direct <= now'
  <2>1. row.last <= now /\ row.direct <= now
    BY DEF RowOK
  <2>2. now <= now'
    BY DEF Onward
  <2>. QED  BY <1>1, <1>2, <2>1, <2>2
<1>6. k \in Transports => row.source \in {"none", "heard"}
  BY DEF RowOK
<1>7. (k = NoPort /\ c \notin absorbed' /\ row.source = "heard") =>
         row.last - row.direct <= GraceSeconds + LockTimeout
  BY DEF RowOK, Onward
<1>8. row \in Row /\ (row.source = "none" => row = NoRow)
  BY DEF RowOK
<1>. QED  BY <1>4, <1>5, <1>6, <1>7, <1>8 DEF RowOK

LEMMA SoundStays ==
    ASSUME NEW d, Sound(d), ObserversInv, ObserversInv', Onward
    PROVE  Sound(d)'
<1>1. TablesType(d) /\ PathsInv(d)
  BY DEF Sound
<1>2. RowsInv(d)'
  <2>. SUFFICES ASSUME NEW c \in Calls
                PROVE  /\ \A k \in Keys : RowOK(c, k, d.rows[c][k])'
                       /\ c \in d.stations <=> \E k \in Keys : d.rows[c][k] # NoRow
    BY DEF RowsInv
  <2>1. \A k \in Keys : RowOK(c, k, d.rows[c][k])
    BY DEF Sound, RowsInv
  <2>. QED  BY <2>1, RowStays DEF Sound, RowsInv
<1>. QED  BY <1>1, <1>2 DEF Sound, TablesType, PathsInv, PathsFit
-----------------------------------------------------------------------------
\* One row is written, of a station that is known from then on.
Put(d, c, k, row) == [Known(d, c) EXCEPT !.rows[c][k] = row]

LEMMA PutRecord ==
    ASSUME NEW d, IsTables(d), NEW c, NEW k, NEW row
    PROVE  Put(d, c, k, row) =
              [stations |-> d.stations \cup {c}, aliasOf |-> d.aliasOf,
               rows |-> [d.rows EXCEPT ![c][k] = row],
               paths |-> d.paths, entities |-> d.entities, maxAge |-> d.maxAge]
<1>1. Known(d, c) = [stations |-> d.stations \cup {c}, aliasOf |-> d.aliasOf, rows |-> d.rows,
                     paths |-> d.paths, entities |-> d.entities, maxAge |-> d.maxAge]
  BY DEF Known, IsTables
<1>. QED  BY <1>1 DEF Put

LEMMA PutFields ==
    ASSUME NEW d, IsTables(d), NEW c, NEW k, NEW row
    PROVE  /\ IsTables(Put(d, c, k, row))
           /\ Put(d, c, k, row).stations = d.stations \cup {c}
           /\ Put(d, c, k, row).aliasOf = d.aliasOf
           /\ Put(d, c, k, row).paths = d.paths
           /\ Put(d, c, k, row).entities = d.entities
           /\ Put(d, c, k, row).maxAge = d.maxAge
BY PutRecord DEF IsTables

LEMMA PutRows ==
    ASSUME NEW d, TablesType(d), NEW c \in Calls, NEW k \in Keys, NEW row \in Row
    PROVE  /\ Put(d, c, k, row).rows[c][k] = row
           /\ \A b \in Calls, j \in Keys :
                 <<b, j>> # <<c, k>> => Put(d, c, k, row).rows[b][j] = d.rows[b][j]
           /\ Put(d, c, k, row).rows \in [Calls -> [Keys -> Row]]
<1>1. Put(d, c, k, row).rows = [d.rows EXCEPT ![c][k] = row]
  BY PutRecord DEF TablesType
<1>2. d.rows \in [Calls -> [Keys -> Row]]
  BY DEF TablesType
<1>. QED  BY <1>1, <1>2

\* A row that is as rows should be, and says something, keeps the tables sound.
LEMMA PutSound ==
    ASSUME NEW d, Sound(d), NEW c \in Calls, NEW k \in Keys, NEW row,
           RowOK(c, k, row), row # NoRow
    PROVE  Sound(Put(d, c, k, row))
<1> DEFINE e == Put(d, c, k, row)
<1>1. row \in Row
  BY DEF RowOK
<1>2. TablesType(e)
  <2>1. TablesType(d) /\ IsTables(d)
    BY DEF Sound, TablesType
  <2>2. /\ IsTables(e) /\ e.stations = d.stations \cup {c} /\ e.aliasOf = d.aliasOf
        /\ e.entities = d.entities /\ e.maxAge = d.maxAge
    BY <2>1, PutFields
  <2>3. e.rows \in [Calls -> [Keys -> Row]]
    BY <1>1, <2>1, PutRows
  <2> HIDE DEF e
  <2>. QED  BY <2>1, <2>2, <2>3 DEF TablesType
<1>3. \A b \in Calls, j \in Keys : e.rows[b][j] = IF b = c /\ j = k THEN row ELSE d.rows[b][j]
  BY <1>1, PutRows DEF Sound
<1>4. e.stations = d.stations \cup {c} /\ e.paths = d.paths
  <2>1. IsTables(d)
    BY DEF Sound, TablesType
  <2>2. Put(d, c, k, row).stations = d.stations \cup {c}
    BY <2>1, PutFields
  <2>3. Put(d, c, k, row).paths = d.paths
    BY <2>1, PutFields
  <2>. QED  BY <2>2, <2>3
<1> HIDE DEF e
<1>5. RowsInv(e)
  <2>. SUFFICES ASSUME NEW b \in Calls
                PROVE  /\ \A j \in Keys : RowOK(b, j, e.rows[b][j])
                       /\ b \in e.stations <=> \E j \in Keys : e.rows[b][j] # NoRow
    BY DEF RowsInv
  <2>1. \A j \in Keys : RowOK(b, j, d.rows[b][j])
    BY DEF Sound, RowsInv
  <2>2. \A j \in Keys : RowOK(b, j, e.rows[b][j])
    BY <1>3, <2>1
  <2>3. b \in d.stations <=> \E j \in Keys : d.rows[b][j] # NoRow
    BY DEF Sound, RowsInv
  <2>4. b \in e.stations <=> \E j \in Keys : e.rows[b][j] # NoRow
    BY <1>3, <1>4, <2>3
  <2>. QED  BY <2>2, <2>4
<1>6. PathsInv(e)
  <2>1. k \in Transports => row.source = "heard"
    BY DEF RowOK
  <2>2. \A b \in Calls, t \in Transports :
           d.rows[b][t].source = "heard" => e.rows[b][t].source = "heard"
    BY <1>3, <2>1, KeyFacts
  <2>. QED  BY <1>4, <2>2 DEF PathsInv, PathsFit, Sound
<1>. QED  BY <1>2, <1>5, <1>6 DEF Sound, e

\* The source's row, and a digipeater's, are as rows should be.
LEMMA SourceIsPut ==
    ASSUME NEW d, IsTables(d), NEW t, NEW f, NEW ts
    PROVE  SourceHeard(d, t, f, ts) =
              Put(d, f.src, t, [source |-> "heard", last |-> ts,
                  direct |-> IF Direct(f) THEN ts ELSE d.rows[f.src][t].direct])
<1>1. Known(d, f.src).rows = d.rows
  BY DEF Known, IsTables
<1>. QED  BY <1>1 DEF SourceHeard, Put

Owner(map, c) == IF map[c] = Nobody THEN c ELSE map[c]

LEMMA HopIsPut ==
    ASSUME NEW d, IsTables(d), NEW f, NEW i, NEW ts, NEW map,
           NEW c, c = Owner(map, f.via[i].digi)
    PROVE  HopHeard(d, f, i, ts, map) =
              IF f.via[i].digi = f.src THEN d
              ELSE Put(d, c, NoPort, DigiRow(f, i, d.rows[c][NoPort], ts))
<1>1. Known(d, c).rows = d.rows
  BY DEF Known, IsTables
<1>. QED  BY <1>1 DEF HopHeard, Put, Owner

LEMMA LaterFacts ==
    ASSUME NEW x \in Nat, NEW y \in Nat
    PROVE  /\ Later(x, y) = x \/ Later(x, y) = y
           /\ x <= Later(x, y) /\ y <= Later(x, y)
BY DEF Later

LEMMA SourceRowOK ==
    ASSUME ObserversInv, NEW t \in Transports, observer[t] # Idle, NEW c, NEW row,
           RowOK(c, t, row), NEW x \in {row.direct, observer[t].ts},
           NEW new, new = [source |-> "heard", last |-> observer[t].ts, direct |-> x]
    PROVE  RowOK(c, t, new) /\ new # NoRow /\ row.direct <= new.direct
<1>1. /\ now \in Nat /\ now <= MaxTime /\ MaxTime \in Nat
      /\ observer[t].ts \in Nat /\ observer[t].ts <= now /\ Clock(t) = observer[t].ts
  BY TimesAssumption DEF ObserversInv, Clock, TimesAssumption
<1>2. row.direct \in Nat /\ row.direct <= observer[t].ts
  BY <1>1 DEF RowOK, Row
<1>3. x \in Nat /\ x <= observer[t].ts /\ row.direct <= x /\ x <= now /\ x <= MaxTime
  BY <1>1, <1>2
<1>4. new.source = "heard" /\ new.last = observer[t].ts /\ new.direct = x
  OBVIOUS
<1>5. observer[t].ts \in 0..MaxTime /\ x \in 0..MaxTime
  BY <1>1, <1>3
<1>6. new \in Row
  BY <1>5 DEF Row
<1>7. new # NoRow /\ t # NoPort
  BY <1>4, NoRowFacts, KeyFacts
<1>. QED  BY <1>1, <1>3, <1>4, <1>6, <1>7 DEF RowOK

\* The three tiers of on_heard(): what a digipeater's row becomes.
LEMMA DigiRowOK ==
    ASSUME ObserversInv, NEW f, NEW i, NEW c, NEW row, RowOK(c, NoPort, row),
           NEW ts \in 0..now, now <= ts + LockTimeout
    PROVE  LET new == DigiRow(f, i, row, ts)
           IN  RowOK(c, NoPort, new) /\ new # NoRow /\ row.direct <= new.direct
<1> DEFINE Good(new) == RowOK(c, NoPort, new) /\ new # NoRow /\ row.direct <= new.direct
<1>1. /\ now \in Nat /\ now <= MaxTime /\ MaxTime \in Nat /\ LockTimeout \in Nat
      /\ GraceSeconds \in Nat /\ NoPort \notin Transports /\ ts \in Nat /\ ts <= now
  BY TimesAssumption, KeyFacts DEF ObserversInv, TimesAssumption
<1>2. /\ row \in Row /\ row.last \in Nat /\ row.direct \in Nat
      /\ row.last <= now /\ row.direct <= now
  BY <1>1 DEF RowOK, Row
<1>3. ASSUME NEW new \in Row, new.source # "none",
             new.last <= now, new.direct <= now, row.direct <= new.direct,
             c \notin absorbed /\ new.source = "heard" =>
                new.last - new.direct <= GraceSeconds + LockTimeout
      PROVE  Good(new)
  <2>1. new # NoRow
    BY <1>3, NoRowFacts
  <2>. QED  BY <1>1, <1>3, <2>1 DEF RowOK
<1>4. \A x \in Nat : x <= now => x \in 0..MaxTime
  BY <1>1
<1> DEFINE last == Later(row.last, ts)
           dir == Later(row.direct, ts)
<1>5. last \in Nat /\ last <= now /\ dir \in Nat /\ dir <= now /\ row.direct <= dir /\ ts <= dir
  BY <1>1, <1>2, LaterFacts
<1> HIDE DEF Good
<1>6. Good(DigiHeard(row, ts))
  <2>1. DigiHeard(row, ts) = [source |-> "heard", last |-> last, direct |-> dir]
    BY DEF DigiHeard
  <2>2. last - dir <= GraceSeconds + LockTimeout
    <3> HIDE DEF last, dir
    <3>. QED  BY <1>1, <1>5
  <2> HIDE DEF last, dir
  <2>3. DigiHeard(row, ts) \in Row
    BY <1>4, <1>5, <2>1 DEF Row
  <2>. QED  BY <1>3, <1>5, <2>1, <2>2, <2>3
<1>7. Good(DigiPassed(row, ts))
  <2> DEFINE src == IF row # NoRow /\ row.direct >= ts - GraceSeconds THEN "heard" ELSE "via"
             new == [row EXCEPT !.source = src, !.last = last]
  <2>1. DigiPassed(row, ts) = new
    BY DEF DigiPassed
  <2>2. src \in {"heard", "via"}
    OBVIOUS
  <2>3. src = "heard" => last - row.direct <= GraceSeconds + LockTimeout
    <3>1. src = "heard" => ts - GraceSeconds <= row.direct
      BY <1>1, <1>2
    <3>2. last = row.last \/ last = ts
      BY <1>1, <1>2, LaterFacts
    <3> HIDE DEF src, last
    <3>. QED  BY <1>1, <1>2, <1>5, <3>1, <3>2
  <2> HIDE DEF src, last
  <2>4. new \in Row /\ new.source = src /\ new.last = last /\ new.direct = row.direct
    BY <1>2, <1>4, <1>5, <2>2 DEF Row
  <2> HIDE DEF new
  <2>5. row.direct <= new.direct
    BY <1>2, <2>4
  <2>. QED  BY <1>2, <1>3, <1>5, <2>1, <2>2, <2>3, <2>4, <2>5
<1>8. Good(DigiSeeded(row, ts))
  <2>1. CASE row = NoRow
    <3> DEFINE new == [NoRow EXCEPT !.source = "via", !.last = ts]
    <3>1. DigiSeeded(row, ts) = new
      BY <2>1 DEF DigiSeeded
    <3>2. ts \in 0..MaxTime /\ 0 \in 0..MaxTime
      BY <1>1
    <3>3. new \in Row /\ new.source = "via" /\ new.last = ts /\ new.direct = 0
      BY <3>2 DEF Row, NoRow
    <3>4. row.direct <= new.direct /\ new.direct <= now
      BY <1>1, <1>2, <2>1, <3>3, NoRowFacts
    <3> HIDE DEF new
    <3>. QED  BY <1>1, <1>3, <3>1, <3>3, <3>4
  <2>2. CASE row # NoRow
    <3>1. row.direct <= row.direct
      BY <1>2
    <3>. QED  BY <2>2, <3>1 DEF DigiSeeded, Good
  <2>. QED  BY <2>1, <2>2
<1>. QED  BY <1>6, <1>7, <1>8 DEF DigiRow, Good

-----------------------------------------------------------------------------
\* The statements of on_heard() keep the tables sound.
LEMMA InSeq == ASSUME NEW S, NEW s \in Seq(S), NEW i \in DOMAIN s PROVE s[i] \in S
OBVIOUS

LEMMA FrameFacts ==
    ASSUME NEW f \in Frames
    PROVE  /\ f.src \in Calls
           /\ \A i \in DOMAIN f.via : f.via[i].digi \in Calls
           /\ Len(f.via) \in Nat /\ DOMAIN f.via = 1..Len(f.via)
           /\ f.via = <<>> => Star(f) = {}
<1>1. f \in [src : Calls, via : Seq([digi : Calls, star : BOOLEAN])]
  BY HeardAssumption DEF HeardAssumption
<1>2. f.src \in Calls /\ f.via \in Seq([digi : Calls, star : BOOLEAN])
  BY <1>1
<1>3. Len(f.via) \in Nat /\ DOMAIN f.via = 1..Len(f.via)
  BY <1>2
<1>4. \A i \in DOMAIN f.via : f.via[i] \in [digi : Calls, star : BOOLEAN]
  BY <1>2, InSeq
<1>5. f.via = <<>> => Star(f) = {}
  BY <1>2 DEF Star
<1>. QED  BY <1>2, <1>3, <1>4, <1>5

LEMMA SourceSound ==
    ASSUME ObserversInv, NEW t \in Transports, observer[t] # Idle, NEW d, Sound(d)
    PROVE  LET f == observer[t].frame
               e == SourceHeard(d, t, f, observer[t].ts)
           IN  /\ Sound(e) /\ e.rows[f.src][t].source = "heard"
               /\ Direct(f) => observer[t].ts <= e.rows[f.src][t].direct
               /\ \A c \in Calls, k \in Keys : d.rows[c][k].direct <= e.rows[c][k].direct
<1> DEFINE f == observer[t].frame
           ts == observer[t].ts
           old == d.rows[f.src][t]
           x == IF Direct(f) THEN ts ELSE old.direct
           new == [source |-> "heard", last |-> ts, direct |-> x]
           e == Put(d, f.src, t, new)
<1>1. f.src \in Calls /\ t \in Keys /\ ts \in Nat
  BY FrameFacts, KeyFacts DEF ObserversInv
<1>2. IsTables(d) /\ TablesType(d)
  BY DEF Sound, TablesType
<1>3. SourceHeard(d, t, f, ts) = e
  BY <1>2, SourceIsPut
<1>4. RowOK(f.src, t, old)
  BY <1>1 DEF Sound, RowsInv
<1>5. x \in {old.direct, ts}
  OBVIOUS
<1>6. RowOK(f.src, t, new) /\ new # NoRow /\ old.direct <= new.direct
  <2> HIDE DEF x, old
  <2>. QED  BY <1>4, <1>5, SourceRowOK
<1>7. Sound(e)
  <2> HIDE DEF new
  <2>. QED  BY <1>1, <1>6, PutSound
<1>8. /\ e.rows[f.src][t] = new
      /\ \A c \in Calls, k \in Keys : <<c, k>> # <<f.src, t>> => e.rows[c][k] = d.rows[c][k]
  <2>1. new \in Row
    BY <1>6 DEF RowOK
  <2> HIDE DEF new
  <2>. QED  BY <1>1, <1>2, <2>1, PutRows
<1>9. new.source = "heard" /\ (Direct(f) => ts <= new.direct)
  BY <1>1
<1>10. \A c \in Calls, k \in Keys : d.rows[c][k].direct <= e.rows[c][k].direct
  <2>1. \A c \in Calls, k \in Keys : d.rows[c][k].direct <= d.rows[c][k].direct
    BY <1>2, TimesAssumption DEF TablesType, Row, TimesAssumption
  <2> HIDE DEF new, e
  <2>. QED  BY <1>6, <1>8, <2>1
<1>. QED  BY <1>3, <1>7, <1>8, <1>9, <1>10

LEMMA HopSound ==
    ASSUME ObserversInv, NEW t \in Transports, observer[t] # Idle, NEW d, Sound(d),
           NEW map \in [Calls -> Calls \cup {Nobody}],
           NEW i \in DOMAIN observer[t].frame.via
    PROVE  LET e == HopHeard(d, observer[t].frame, i, observer[t].ts, map)
           IN  /\ Sound(e)
               /\ \A c \in Calls, k \in Transports : e.rows[c][k] = d.rows[c][k]
               /\ \A c \in Calls, k \in Keys : d.rows[c][k].direct <= e.rows[c][k].direct
<1> DEFINE f == observer[t].frame
           ts == observer[t].ts
           digi == f.via[i].digi
           owner == Owner(map, digi)
           old == d.rows[owner][NoPort]
           new == DigiRow(f, i, old, ts)
           e == Put(d, owner, NoPort, new)
<1>1. digi \in Calls /\ ts \in 0..now /\ now <= ts + LockTimeout
  BY FrameFacts DEF ObserversInv
<1>2. owner \in Calls /\ NoPort \in Keys /\ NoPort \notin Transports
  BY <1>1, KeyFacts DEF Owner
<1>3. IsTables(d) /\ TablesType(d)
  BY DEF Sound, TablesType
<1>4. HopHeard(d, f, i, ts, map) = IF digi = f.src THEN d ELSE e
  BY <1>3, HopIsPut
<1>5. RowOK(owner, NoPort, old)
  BY <1>2 DEF Sound, RowsInv
<1>6. RowOK(owner, NoPort, new) /\ new # NoRow /\ old.direct <= new.direct
  <2> HIDE DEF f, ts, owner, old
  <2>. QED  BY <1>1, <1>5, DigiRowOK
<1>7. \A c \in Calls, k \in Keys : d.rows[c][k].direct <= d.rows[c][k].direct
  BY <1>3, TimesAssumption DEF TablesType, Row, TimesAssumption
<1>8. /\ e.rows[owner][NoPort] = new
      /\ \A c \in Calls, k \in Keys : <<c, k>> # <<owner, NoPort>> => e.rows[c][k] = d.rows[c][k]
  <2>1. new \in Row
    BY <1>6 DEF RowOK
  <2> HIDE DEF new, owner
  <2>. QED  BY <1>2, <1>3, <2>1, PutRows
<1>9. Sound(e)
  <2> HIDE DEF new, owner
  <2>. QED  BY <1>2, <1>6, PutSound
<1>10. /\ \A c \in Calls, k \in Transports : e.rows[c][k] = d.rows[c][k]
       /\ \A c \in Calls, k \in Keys : d.rows[c][k].direct <= e.rows[c][k].direct
  <2> HIDE DEF new, owner, e
  <2>. QED  BY <1>2, <1>6, <1>7, <1>8, KeyFacts DEF old
<1> HIDE DEF e, digi
<1>. QED  BY <1>4, <1>7, <1>9, <1>10
-----------------------------------------------------------------------------
\* One column of the tables is written.
LEMMA ColumnSet ==
    ASSUME NEW d, IsTables(d), NEW x
    PROVE  /\ [d EXCEPT !.paths = x] =
                 [stations |-> d.stations, aliasOf |-> d.aliasOf, rows |-> d.rows,
                  paths |-> x, entities |-> d.entities, maxAge |-> d.maxAge]
           /\ [d EXCEPT !.entities = x] =
                 [stations |-> d.stations, aliasOf |-> d.aliasOf, rows |-> d.rows,
                  paths |-> d.paths, entities |-> x, maxAge |-> d.maxAge]
           /\ [d EXCEPT !.maxAge = x] =
                 [stations |-> d.stations, aliasOf |-> d.aliasOf, rows |-> d.rows,
                  paths |-> d.paths, entities |-> d.entities, maxAge |-> x]
           /\ [d EXCEPT !.aliasOf = x] =
                 [stations |-> d.stations, aliasOf |-> x, rows |-> d.rows,
                  paths |-> d.paths, entities |-> d.entities, maxAge |-> d.maxAge]
BY DEF IsTables

LEMMA PathsReplaced ==
    ASSUME NEW d, Sound(d), NEW P, PathsFit(d.rows, P)
    PROVE  LET e == [d EXCEPT !.paths = P]
           IN  Sound(e) /\ e.stations = d.stations /\ e.rows = d.rows /\ e.entities = d.entities
<1> DEFINE e == [d EXCEPT !.paths = P]
<1>1. IsTables(d)
  BY DEF Sound, TablesType
<1>2. e = [stations |-> d.stations, aliasOf |-> d.aliasOf, rows |-> d.rows,
           paths |-> P, entities |-> d.entities, maxAge |-> d.maxAge]
  BY <1>1, ColumnSet
<1> HIDE DEF e
<1>3. /\ IsTables(e) /\ e.stations = d.stations /\ e.rows = d.rows /\ e.entities = d.entities
      /\ e.paths = P /\ e.aliasOf = d.aliasOf /\ e.maxAge = d.maxAge
  BY <1>2 DEF IsTables
<1>4. TablesType(e)
  BY <1>3 DEF Sound, TablesType
<1>5. RowsInv(e)
  BY <1>3 DEF Sound, RowsInv
<1>6. PathsInv(e)
  BY <1>3 DEF PathsInv
<1>. QED  BY <1>3, <1>4, <1>5, <1>6 DEF Sound, e

LEMMA OtherColumns ==
    ASSUME NEW d, Sound(d), NEW entities, d.entities \subseteq entities, entities \subseteq Bases,
           NEW aliasOf \in [Calls -> Calls \cup {Nobody}], NEW age \in {0, MaxAge}, NEW e,
           \/ e = [d EXCEPT !.entities = entities]
           \/ e = [d EXCEPT !.aliasOf = aliasOf]
           \/ e = [d EXCEPT !.maxAge = age]
    PROVE  /\ Sound(e) /\ e.stations = d.stations /\ e.rows = d.rows
           /\ d.entities \subseteq e.entities
<1>1. TablesType(d) /\ IsTables(d)
  BY DEF Sound, TablesType
<1>2. /\ IsTables(e) /\ e.stations = d.stations /\ e.rows = d.rows /\ e.paths = d.paths
      /\ e.entities \in {d.entities, entities} /\ e.aliasOf \in {d.aliasOf, aliasOf}
      /\ e.maxAge \in {d.maxAge, age}
  <2>1. CASE e = [d EXCEPT !.entities = entities]
    <3>1. e = [stations |-> d.stations, aliasOf |-> d.aliasOf, rows |-> d.rows,
               paths |-> d.paths, entities |-> entities, maxAge |-> d.maxAge]
      BY <1>1, <2>1, ColumnSet
    <3>. QED  BY <3>1 DEF IsTables
  <2>2. CASE e = [d EXCEPT !.aliasOf = aliasOf]
    <3>1. e = [stations |-> d.stations, aliasOf |-> aliasOf, rows |-> d.rows,
               paths |-> d.paths, entities |-> d.entities, maxAge |-> d.maxAge]
      BY <1>1, <2>2, ColumnSet
    <3>. QED  BY <3>1 DEF IsTables
  <2>3. CASE e = [d EXCEPT !.maxAge = age]
    <3>1. e = [stations |-> d.stations, aliasOf |-> d.aliasOf, rows |-> d.rows,
               paths |-> d.paths, entities |-> d.entities, maxAge |-> age]
      BY <1>1, <2>3, ColumnSet
    <3>. QED  BY <3>1 DEF IsTables
  <2>. QED  BY <2>1, <2>2, <2>3
<1>3. TablesType(e)
  BY <1>1, <1>2 DEF TablesType
<1>4. RowsInv(e) /\ PathsInv(e)
  BY <1>2 DEF Sound, RowsInv, PathsInv
<1>. QED  BY <1>2, <1>3, <1>4 DEF Sound

\* Every station has its entity afterwards.
LEMMA ReconcileSound ==
    ASSUME NEW d, Sound(d)
    PROVE  LET e == Reconcile(d)
           IN  /\ Sound(e) /\ e.rows = d.rows
               /\ \A c \in e.stations : BaseOf[c] \in e.entities
<1> DEFINE all == d.entities \cup {BaseOf[c] : c \in d.stations}
           e == [d EXCEPT !.entities = all]
<1>1. Reconcile(d) = e
  BY DEF Reconcile
<1>2. TablesType(d) /\ IsTables(d)
  BY DEF Sound, TablesType
<1>3. all \subseteq Bases
  BY <1>2 DEF TablesType, Bases
<1>4. e = [stations |-> d.stations, aliasOf |-> d.aliasOf, rows |-> d.rows,
           paths |-> d.paths, entities |-> all, maxAge |-> d.maxAge]
  <2> HIDE DEF all
  <2>. QED  BY <1>2, ColumnSet
<1>5. d.aliasOf \in [Calls -> Calls \cup {Nobody}] /\ d.maxAge \in {0, MaxAge}
  BY <1>2 DEF TablesType
<1>6. d.entities \subseteq all
  OBVIOUS
<1>7. Sound(e) /\ e.stations = d.stations /\ e.rows = d.rows
  <2> HIDE DEF all
  <2>. QED  BY <1>3, <1>5, <1>6, OtherColumns
<1>8. e.entities = all
  BY <1>4
<1> HIDE DEF e
<1>. QED  BY <1>1, <1>7, <1>8

\* The path of a frame whose source's row says "heard" on this transport.
LEMMA PathSound ==
    ASSUME NEW d, Sound(d), NEW t \in Transports, NEW f \in Frames, NEW ts,
           d.rows[f.src][t].source = "heard"
    PROVE  LET e == PathHeard(d, t, f, ts)
           IN  Sound(e) /\ e.stations = d.stations /\ e.rows = d.rows
<1> DEFINE base == IF Direct(f) THEN <<>> ELSE ViaBase(f)
           old == {p \in d.paths : p.call = f.src /\ p.transport = t /\ p.base = base}
           stars == IF Direct(f) THEN {} ELSE MergedStars(f, old)
           new == [call |-> f.src, transport |-> t, base |-> base, last |-> ts, stars |-> stars]
           P == (d.paths \ old) \cup {new}
<1>1. PathHeard(d, t, f, ts) = [d EXCEPT !.paths = P]
  BY DEF PathHeard
<1>2. base = <<>> <=> stars = {}
  <2>1. CASE Direct(f)
    BY <2>1
  <2>2. CASE ~Direct(f)
    <3>1. PICK i \in DOMAIN f.via : i \in Star(f)
      BY <2>2 DEF Direct, Star
    <3>2. i \in stars
      BY <2>2, <3>1 DEF MergedStars
    <3>3. base = ViaBase(f) /\ DOMAIN ViaBase(f) = DOMAIN f.via
      BY <2>2 DEF ViaBase
    <3>4. DOMAIN <<>> = {}
      OBVIOUS
    <3> HIDE DEF base, stars
    <3>. QED  BY <3>1, <3>2, <3>3, <3>4
  <2>. QED  BY <2>1, <2>2
<1>3. f.src \in Calls
  BY FrameFacts
<1>4. IsPath(new)
  <2> HIDE DEF base, stars
  <2>. QED  BY DEF IsPath
<1>5. new.call = f.src /\ new.transport = t /\ new.base = base /\ new.stars = stars
  OBVIOUS
<1>6. PathsFit(d.rows, d.paths)
  BY DEF Sound, PathsInv
<1>7. PathsFit(d.rows, P)
  <2> HIDE DEF base, stars, new
  <2>. QED  BY <1>2, <1>3, <1>4, <1>5, <1>6 DEF PathsFit
<1>. QED
  <2> HIDE DEF P
  <2>. QED  BY <1>1, <1>7, PathsReplaced
-----------------------------------------------------------------------------
\* The other writers keep the tables sound.
LEMMA RowSelf == \A row \in Row : row.last <= row.last /\ row.direct <= row.direct
BY TimesAssumption DEF Row, TimesAssumption

\* The tables of a NODES broadcast, before the entities.
NodesHeard(d, named) ==
    [d EXCEPT !.stations = @ \cup named,
              !.rows = [c \in Calls |-> IF c \in named
                  THEN [d.rows[c] EXCEPT !["netrom"] =
                          [source |-> "netrom", last |-> now, direct |-> @.direct]]
                  ELSE d.rows[c]]]

LEMMA NodesSound ==
    ASSUME ObserversInv, NEW d, Sound(d), NEW named, named \subseteq Calls
    PROVE  LET e == NodesHeard(d, named)
           IN  /\ Sound(e)
               /\ \A c \in Calls, k \in Keys : e.rows[c][k].direct = d.rows[c][k].direct
<1> DEFINE N(row) == [source |-> "netrom", last |-> now, direct |-> row.direct]
           rows == [c \in Calls |-> IF c \in named
                       THEN [d.rows[c] EXCEPT !["netrom"] = N(d.rows[c]["netrom"])]
                       ELSE d.rows[c]]
           e == NodesHeard(d, named)
<1>1. IsTables(d) /\ TablesType(d)
  BY DEF Sound, TablesType
<1>2. e = [stations |-> d.stations \cup named, aliasOf |-> d.aliasOf, rows |-> rows,
           paths |-> d.paths, entities |-> d.entities, maxAge |-> d.maxAge]
  <2>1. e = [d EXCEPT !.stations = d.stations \cup named, !.rows = rows]
    BY DEF NodesHeard
  <2> HIDE DEF e, rows
  <2>. QED  BY <1>1, <2>1 DEF IsTables
<1> HIDE DEF e
<1>3. /\ IsTables(e) /\ e.stations = d.stations \cup named /\ e.aliasOf = d.aliasOf
      /\ e.rows = rows /\ e.paths = d.paths /\ e.entities = d.entities /\ e.maxAge = d.maxAge
  <2> HIDE DEF rows
  <2>. QED  BY <1>2 DEF IsTables
<1>4. now \in 0..MaxTime
  BY DEF ObserversInv
<1>5. ASSUME NEW row \in Row PROVE N(row) \in Row
  BY <1>4 DEF Row
<1>6. d.rows \in [Calls -> [Keys -> Row]]
  BY <1>1 DEF TablesType
<1>7. \A c \in Calls : d.rows[c] \in [Keys -> Row]
  BY <1>6
<1>8. \A c \in Calls, k \in Keys :
         rows[c][k] = IF c \in named /\ k = "netrom" THEN N(d.rows[c][k]) ELSE d.rows[c][k]
  <2> HIDE DEF N
  <2>. QED  BY <1>7
<1>9. rows \in [Calls -> [Keys -> Row]]
  <2>1. ASSUME NEW c \in Calls PROVE rows[c] \in [Keys -> Row]
    <3>1. N(d.rows[c]["netrom"]) \in Row
      BY <1>5, <1>7, KeyFacts
    <3> HIDE DEF N
    <3>. QED  BY <1>7, <3>1
  <2>2. rows \in [Calls -> [Keys -> Row]] <=> \A c \in Calls : rows[c] \in [Keys -> Row]
    <3> DEFINE R(c) == IF c \in named
                       THEN [d.rows[c] EXCEPT !["netrom"] = N(d.rows[c]["netrom"])]
                       ELSE d.rows[c]
    <3> HIDE DEF R
    <3>1. \A c \in Calls : [b \in Calls |-> R(b)][c] = R(c)
      OBVIOUS
    <3>2. (\A c \in Calls : R(c) \in [Keys -> Row]) =>
             [c \in Calls |-> R(c)] \in [Calls -> [Keys -> Row]]
      OBVIOUS
    <3>. QED  BY <3>1, <3>2 DEF R
  <2> HIDE DEF rows
  <2>. QED  BY <2>1, <2>2
<1> HIDE DEF rows
<1>10. TablesType(e)
  BY <1>1, <1>3, <1>9 DEF TablesType
<1>11. ASSUME NEW c \in Calls, NEW k \in Keys
       PROVE  /\ RowOK(c, k, e.rows[c][k])
              /\ k # "netrom" => e.rows[c][k] = d.rows[c][k]
              /\ d.rows[c][k] # NoRow => e.rows[c][k] # NoRow
              /\ c \in named => e.rows[c]["netrom"] # NoRow
              /\ c \notin named => e.rows[c][k] = d.rows[c][k]
              /\ e.rows[c][k].direct = d.rows[c][k].direct
  <2> DEFINE old == d.rows[c][k]
  <2>1. RowOK(c, k, old) /\ old \in Row
    BY DEF Sound, RowsInv, RowOK
  <2>2. \A row : N(row).source = "netrom" /\ N(row).last = now /\ N(row).direct = row.direct
    OBVIOUS
  <2>3. \A row : N(row) # NoRow
    BY <2>2, NoRowFacts
  <2>4. k = "netrom" => RowOK(c, k, N(old))
    <3>1. N(old) \in Row
      BY <1>5, <2>1
    <3>2. now <= now
      BY <1>4, TimesAssumption DEF TimesAssumption
    <3>3. old.direct <= now
      BY <2>1 DEF RowOK
    <3>4. "netrom" \notin Transports /\ "netrom" # NoPort
      BY HeardAssumption DEF HeardAssumption, NoPort
    <3> HIDE DEF N, old
    <3>. QED  BY <2>2, <3>1, <3>2, <3>3, <3>4 DEF RowOK
  <2> HIDE DEF N
  <2>. QED  BY <1>3, <1>8, <2>1, <2>2, <2>3, <2>4, KeyFacts
<1>12. RowsInv(e)
  BY <1>3, <1>11, KeyFacts DEF RowsInv, Sound
<1>13. PathsInv(e)
  <2>1. \A c \in Calls, t \in Transports : e.rows[c][t] = d.rows[c][t]
    BY <1>11, KeyFacts
  <2>2. PathsFit(d.rows, d.paths)
    BY DEF Sound, PathsInv
  <2>. QED  BY <1>3, <2>1, <2>2 DEF PathsInv, PathsFit
<1>. QED  BY <1>10, <1>11, <1>12, <1>13 DEF Sound, e

\* Nothing is left of the erased.
LEMMA ErasedShape ==
    ASSUME NEW d, TablesType(d), PathsInv(d), NEW calls
    PROVE  LET e == Erased(d, calls)
           IN  /\ TablesType(e) /\ PathsInv(e)
               /\ e.stations = d.stations \ calls /\ e.entities = d.entities
               /\ \A c \in Calls, k \in Keys :
                     e.rows[c][k] = IF c \in calls THEN NoRow ELSE d.rows[c][k]
<1> DEFINE e == Erased(d, calls)
           none == [k \in Keys |-> NoRow]
           rows == [c \in Calls |-> IF c \in calls THEN none ELSE d.rows[c]]
           aliasOf == [c \in Calls |-> IF c \in calls THEN Nobody ELSE d.aliasOf[c]]
           P == {p \in d.paths : p.call \notin calls}
<1>1. e = [stations |-> d.stations \ calls, aliasOf |-> aliasOf, rows |-> rows,
           paths |-> P, entities |-> d.entities, maxAge |-> d.maxAge]
  <2>1. e = [d EXCEPT !.stations = d.stations \ calls, !.aliasOf = aliasOf,
                      !.rows = rows, !.paths = P]
    BY DEF Erased
  <2> HIDE DEF e, rows, aliasOf, P
  <2>. QED  BY <2>1 DEF TablesType, IsTables
<1> HIDE DEF e
<1>2. /\ IsTables(e) /\ e.stations = d.stations \ calls /\ e.aliasOf = aliasOf
      /\ e.rows = rows /\ e.paths = P /\ e.entities = d.entities /\ e.maxAge = d.maxAge
  <2> HIDE DEF rows, aliasOf, P
  <2>. QED  BY <1>1 DEF IsTables
<1>3. none \in [Keys -> Row]
  <2>1. 0 \in 0..MaxTime
    BY TimesAssumption DEF TimesAssumption
  <2>2. NoRow \in Row
    BY <2>1 DEF Row, NoRow
  <2>. QED  BY <2>2
<1>4. rows \in [Calls -> [Keys -> Row]]
  <2> HIDE DEF none
  <2>. QED  BY <1>3 DEF TablesType
<1>5. aliasOf \in [Calls -> Calls \cup {Nobody}]
  BY DEF TablesType
<1>6. \A c \in Calls, k \in Keys :
         rows[c][k] = IF c \in calls THEN NoRow ELSE d.rows[c][k]
  OBVIOUS
<1> HIDE DEF rows, aliasOf
<1>7. TablesType(e)
  BY <1>2, <1>4, <1>5 DEF TablesType
<1>8. PathsInv(e)
  <2>1. \A p \in P : p \in d.paths /\ p.call \notin calls
    OBVIOUS
  <2>2. \A c \in Calls \ calls, t \in Transports : rows[c][t] = d.rows[c][t]
    BY <1>6, KeyFacts
  <2> HIDE DEF P
  <2>. QED  BY <1>2, <2>1, <2>2 DEF PathsInv, PathsFit
<1>. QED  BY <1>2, <1>6, <1>7, <1>8 DEF e

LEMMA NoRowOK == ASSUME ObserversInv, NEW c, NEW k PROVE RowOK(c, k, NoRow)
<1>1. 0 \in 0..MaxTime /\ 0 <= now
  BY TimesAssumption DEF ObserversInv, TimesAssumption
<1>2. NoRow \in Row
  BY <1>1 DEF Row, NoRow
<1>3. k \in Transports => 0 <= Clock(k)
  BY <1>1, TimesAssumption DEF ObserversInv, TimesAssumption, Clock
<1>. QED  BY <1>1, <1>2, <1>3, NoRowFacts DEF RowOK

LEMMA EraseSound ==
    ASSUME ObserversInv, NEW d, Sound(d), NEW calls
    PROVE  Sound(Erased(d, calls))
<1> DEFINE e == Erased(d, calls)
<1>1. /\ TablesType(e) /\ PathsInv(e) /\ e.stations = d.stations \ calls
      /\ \A c \in Calls, k \in Keys :
            e.rows[c][k] = IF c \in calls THEN NoRow ELSE d.rows[c][k]
  BY ErasedShape DEF Sound
<1> HIDE DEF e
<1>2. RowsInv(e)
  BY <1>1, NoRowOK, KeyFacts DEF Sound, RowsInv
<1>. QED  BY <1>1, <1>2 DEF Sound, e

\* Of two rows the owner's stays, unless it has none.
LEMMA MergedRowFacts ==
    ASSUME NEW mine \in Row, NEW theirs \in Row, mine.source = "none" => mine = NoRow
    PROVE  LET new == MergedRow(mine, theirs)
           IN  /\ new \in Row /\ (mine = NoRow => new = theirs)
               /\ mine # NoRow => new # NoRow /\ new.source = mine.source
               /\ new.last \in {mine.last, theirs.last}
               /\ new.direct \in {mine.direct, theirs.direct}
               /\ mine.direct <= new.direct
<1> DEFINE last == Later(mine.last, theirs.last)
           dir == Later(mine.direct, theirs.direct)
           both == [mine EXCEPT !.last = last, !.direct = dir]
<1>1. last \in {mine.last, theirs.last} /\ dir \in {mine.direct, theirs.direct}
  BY DEF Later
<1>2. mine.last \in 0..MaxTime /\ theirs.last \in 0..MaxTime
      /\ mine.direct \in 0..MaxTime /\ theirs.direct \in 0..MaxTime
  BY DEF Row
<1>3. last \in 0..MaxTime /\ dir \in 0..MaxTime
  <2> HIDE DEF last, dir
  <2>. QED  BY <1>1, <1>2
<1>4. MergedRow(mine, theirs) =
         IF mine = NoRow THEN theirs ELSE IF theirs = NoRow THEN mine ELSE both
  BY DEF MergedRow
<1> HIDE DEF last, dir
<1>5. both \in Row /\ both.source = mine.source /\ both.last = last /\ both.direct = dir
  BY <1>3 DEF Row
<1> HIDE DEF both
<1>6. mine # NoRow => mine.source # "none"
  OBVIOUS
<1>8. /\ mine.direct \in Nat /\ theirs.direct \in Nat /\ mine.direct <= dir
      /\ mine = NoRow => mine.direct = 0
  <2>1. mine.direct \in Nat /\ theirs.direct \in Nat
    BY <1>2, TimesAssumption DEF TimesAssumption
  <2>2. mine.direct <= dir
    BY <2>1, LaterFacts DEF dir
  <2>. QED  BY <2>1, <2>2, NoRowFacts
<1>7. mine # NoRow => both # NoRow
  BY <1>5, <1>6, NoRowFacts
<1>. QED  BY <1>1, <1>4, <1>5, <1>7, <1>8

\* The owner's paths, and those of the alias that the owner does not have.
LEMMA MergedPathsFit ==
    ASSUME NEW d, PathsInv(d), NEW c \in Calls, NEW a \in Calls, NEW rows,
           \A t \in Transports :
              d.rows[c][t].source = "heard" \/ d.rows[a][t].source = "heard" =>
                 rows[c][t].source = "heard",
           \A b \in Calls \ {c}, t \in Transports : rows[b][t] = d.rows[b][t]
    PROVE  PathsFit(rows, {p \in d.paths : p.call # c} \cup MergedPaths(d, c, a))
<1> DEFINE Same(p, q) == p.transport = q.transport /\ p.base = q.base
           Last(p) == Max({p.last} \cup {q.last : q \in
                          {r \in {s \in d.paths : s.call = a} : Same(p, r)}})
           From(y) == IF y.call = c THEN [y EXCEPT !.last = Last(y)] ELSE [y EXCEPT !.call = c]
           Kept == {y \in d.paths : \/ y.call = c
                                   \/ /\ y.call = a
                                      /\ ~\E p \in d.paths : p.call = c /\ Same(p, y)}
           Others == {p \in d.paths : p.call # c}
           M == MergedPaths(d, c, a)
<1>1. \A x \in M : \E y \in Kept : x = From(y)
  <2>1. M = {[p EXCEPT !.last = Last(p)] : p \in {s \in d.paths : s.call = c}}
            \cup {[q EXCEPT !.call = c] : q \in
                      {r \in {s \in d.paths : s.call = a} :
                          ~\E p \in {s \in d.paths : s.call = c} : Same(p, r)}}
    BY DEF MergedPaths
  <2> HIDE DEF M, Last
  <2> SUFFICES ASSUME NEW x \in M PROVE \E y \in Kept : x = From(y)
    OBVIOUS
  <2>2. CASE \E p \in d.paths : p.call = c /\ x = [p EXCEPT !.last = Last(p)]
    <3>1. PICK p \in d.paths : p.call = c /\ x = [p EXCEPT !.last = Last(p)]
      BY <2>2
    <3>2. p \in Kept
      BY <3>1
    <3>3. x = From(p)
      <4> HIDE DEF Kept
      <4>. QED  BY <3>1
    <3> HIDE DEF Kept, From
    <3>. QED  BY <3>2, <3>3
  <2>3. CASE \E q \in d.paths : q.call = a /\ x = [q EXCEPT !.call = c]
                                /\ ~\E p \in d.paths : p.call = c /\ Same(p, q)
    <3>1. PICK q \in d.paths : q.call = a /\ x = [q EXCEPT !.call = c]
                                /\ ~\E p \in d.paths : p.call = c /\ Same(p, q)
      BY <2>3
    <3>2. Same(q, q)
      OBVIOUS
    <3>3. q.call # c
      BY <3>1, <3>2
    <3>. QED  BY <3>1, <3>3
  <2>. QED  BY <2>1, <2>2, <2>3
<1>2. ASSUME NEW y \in Kept
      PROVE  /\ IsPath(From(y)) /\ From(y).call = c /\ From(y).transport = y.transport
             /\ From(y).base = y.base /\ From(y).stars = y.stars
  <2>1. y = [call |-> y.call, transport |-> y.transport, base |-> y.base,
             last |-> y.last, stars |-> y.stars]
    BY DEF PathsInv, PathsFit, IsPath
  <2>2. CASE y.call = c
    <3> DEFINE l == Last(y)
               z == [y EXCEPT !.last = l]
    <3>1. From(y) = z
      BY <2>2
    <3> HIDE DEF l
    <3>2. z = [call |-> y.call, transport |-> y.transport, base |-> y.base,
               last |-> l, stars |-> y.stars]
      BY <2>1
    <3> HIDE DEF z
    <3>3. IsPath(z) /\ z.call = c /\ z.transport = y.transport /\ z.base = y.base
          /\ z.stars = y.stars
      BY <2>2, <3>2 DEF IsPath
    <3> HIDE DEF From
    <3>. QED  BY <3>1, <3>3
  <2>3. CASE y.call # c
    <3>1. From(y) = [call |-> c, transport |-> y.transport, base |-> y.base,
                     last |-> y.last, stars |-> y.stars]
      <4>1. From(y) = [y EXCEPT !.call = c]
        BY <2>3
      <4> HIDE DEF From
      <4>. QED  BY <2>1, <4>1
    <3> HIDE DEF From
    <3>. QED  BY <3>1 DEF IsPath
  <2>. QED  BY <2>2, <2>3
<1> HIDE DEF From, M
<1>3. PathsFit(d.rows, d.paths)
  BY DEF PathsInv
<1>4. ASSUME NEW y1 \in Kept, NEW y2 \in Kept, Same(y1, y2) PROVE y1 = y2
  <2>1. CASE y1.call = y2.call
    BY <1>3, <1>4, <2>1 DEF PathsFit
  <2>2. CASE y1.call = c /\ y2.call # c
    BY <1>4, <2>2
  <2>3. CASE y2.call = c /\ y1.call # c
    BY <1>4, <2>3
  <2>. QED  BY <2>1, <2>2, <2>3
<1>5. ASSUME NEW x \in M
      PROVE  /\ IsPath(x) /\ x.call = c /\ x.transport \in Transports
             /\ rows[c][x.transport].source = "heard" /\ (x.base = <<>> <=> x.stars = {})
  <2>1. PICK y \in Kept : x = From(y)
    BY <1>1
  <2>2. IsPath(x) /\ x.call = c /\ x.transport = y.transport /\ x.base = y.base
        /\ x.stars = y.stars
    BY <1>2, <2>1
  <2>3. /\ y.transport \in Transports /\ d.rows[y.call][y.transport].source = "heard"
        /\ (y.base = <<>> <=> y.stars = {}) /\ y.call \in {c, a}
    BY <1>3 DEF PathsFit
  <2>. QED  BY <2>2, <2>3
<1>6. ASSUME NEW x1 \in M, NEW x2 \in M, Same(x1, x2) PROVE x1 = x2
  <2>1. PICK y1 \in Kept : x1 = From(y1)
    BY <1>1
  <2>2. PICK y2 \in Kept : x2 = From(y2)
    BY <1>1
  <2>3. Same(y1, y2)
    BY <1>2, <1>6, <2>1, <2>2
  <2>. QED  BY <1>4, <2>1, <2>2, <2>3
<1>7. ASSUME NEW x \in Others
      PROVE  /\ IsPath(x) /\ x.call \in Calls \ {c} /\ x.transport \in Transports
             /\ rows[x.call][x.transport].source = "heard" /\ (x.base = <<>> <=> x.stars = {})
  BY <1>3 DEF PathsFit
<1>8. \A x1, x2 \in Others : Same(x1, x2) /\ x1.call = x2.call => x1 = x2
  BY <1>3 DEF PathsFit
<1> HIDE DEF Others
<1>9. PathsFit(rows, Others \cup M)
  BY <1>5, <1>6, <1>7, <1>8 DEF PathsFit
<1>. QED  BY <1>9 DEF Others, M

\* An owner takes over the rows of its alias; from then on it is one that absorbed.
LEMMA AbsorbsSound ==
    ASSUME ObserversInv, ObserversInv', Onward, NEW d, Sound(d),
           NEW c \in d.stations, c \in absorbed', NEW a \in d.stations
    PROVE  LET e == Absorbs(d, c, a)
           IN  /\ Sound(e)' /\ e.stations \subseteq d.stations /\ e.entities = d.entities
               /\ \A b \in Calls \ {a}, k \in Keys :
                     d.rows[b][k].direct <= e.rows[b][k].direct
<1> DEFINE row == [k \in Keys |-> MergedRow(d.rows[c][k], d.rows[a][k])]
           rows == [d.rows EXCEPT ![c] = row]
           P == {p \in d.paths : p.call # c} \cup MergedPaths(d, c, a)
           m == [d EXCEPT !.rows[c] = row, !.paths = P]
           e == Absorbs(d, c, a)
<1>1. IsTables(d) /\ TablesType(d) /\ RowsInv(d) /\ PathsInv(d)
  BY DEF Sound, TablesType
<1>2. c \in Calls /\ a \in Calls
  BY <1>1 DEF TablesType
<1>3. d.rows \in [Calls -> [Keys -> Row]]
  BY <1>1 DEF TablesType
<1>4. /\ IsTables(m) /\ m.stations = d.stations /\ m.aliasOf = d.aliasOf
      /\ m.rows = rows /\ m.paths = P /\ m.entities = d.entities /\ m.maxAge = d.maxAge
  <2>1. m = [d EXCEPT !.rows = rows, !.paths = P]
    OBVIOUS
  <2> HIDE DEF m, rows, P
  <2>2. m = [stations |-> d.stations, aliasOf |-> d.aliasOf, rows |-> rows,
             paths |-> P, entities |-> d.entities, maxAge |-> d.maxAge]
    BY <1>1, <2>1 DEF IsTables
  <2>. QED  BY <2>2 DEF IsTables
<1>5. e = Erased(m, {a})
  BY DEF Absorbs
<1>6. \A k \in Keys :
         LET mine == d.rows[c][k]
             theirs == d.rows[a][k]
             new == MergedRow(mine, theirs)
         IN  /\ new \in Row /\ (mine = NoRow => new = theirs)
             /\ mine # NoRow => new # NoRow /\ new.source = mine.source
             /\ new.last \in {mine.last, theirs.last}
             /\ new.direct \in {mine.direct, theirs.direct}
             /\ mine.direct <= new.direct
             /\ RowOK(c, k, mine) /\ RowOK(a, k, theirs)
  <2> SUFFICES ASSUME NEW k \in Keys
               PROVE  LET mine == d.rows[c][k]
                          theirs == d.rows[a][k]
                          new == MergedRow(mine, theirs)
                      IN  /\ new \in Row /\ (mine = NoRow => new = theirs)
                          /\ mine # NoRow => new # NoRow /\ new.source = mine.source
                          /\ new.last \in {mine.last, theirs.last}
                          /\ new.direct \in {mine.direct, theirs.direct}
                          /\ mine.direct <= new.direct
                          /\ RowOK(c, k, mine) /\ RowOK(a, k, theirs)
    OBVIOUS
  <2>1. RowOK(c, k, d.rows[c][k]) /\ RowOK(a, k, d.rows[a][k])
    BY <1>1, <1>2 DEF RowsInv
  <2>2. /\ d.rows[c][k] \in Row /\ d.rows[a][k] \in Row
        /\ d.rows[c][k].source = "none" => d.rows[c][k] = NoRow
    BY <2>1 DEF RowOK
  <2>. QED  BY <2>1, <2>2, MergedRowFacts
<1>7. \A b \in Calls, k \in Keys : rows[b][k] = IF b = c THEN row[k] ELSE d.rows[b][k]
  <2> HIDE DEF row
  <2>. QED  BY <1>3
<1>8. \A k \in Keys : row[k] = MergedRow(d.rows[c][k], d.rows[a][k])
  OBVIOUS
<1>9. rows \in [Calls -> [Keys -> Row]]
  <2>1. row \in [Keys -> Row]
    BY <1>6
  <2> HIDE DEF row
  <2>. QED  BY <1>3, <2>1
<1> HIDE DEF row, rows, P, m
<1>10. TablesType(m)
  BY <1>1, <1>4, <1>9 DEF TablesType
<1>11. PathsInv(m)
  <2>1. ASSUME NEW t \in Transports,
               d.rows[c][t].source = "heard" \/ d.rows[a][t].source = "heard"
        PROVE  rows[c][t].source = "heard"
    <3>1. t \in Keys /\ rows[c][t] = MergedRow(d.rows[c][t], d.rows[a][t])
      BY <1>2, <1>7, <1>8, KeyFacts
    <3>2. /\ d.rows[c][t] = NoRow => rows[c][t] = d.rows[a][t]
          /\ d.rows[c][t] # NoRow => rows[c][t].source = d.rows[c][t].source
          /\ RowOK(c, t, d.rows[c][t])
      BY <1>6, <3>1
    <3>3. d.rows[c][t].source \in {"none", "heard"}
          /\ (d.rows[c][t].source = "none" => d.rows[c][t] = NoRow)
      BY <3>2 DEF RowOK
    <3>. QED  BY <2>1, <3>2, <3>3, NoRowFacts
  <2>2. \A b \in Calls \ {c}, t \in Transports : rows[b][t] = d.rows[b][t]
    BY <1>7, KeyFacts
  <2>3. PathsFit(rows, P)
    BY <1>1, <1>2, <2>1, <2>2, MergedPathsFit DEF P
  <2>. QED  BY <1>4, <2>3 DEF PathsInv
<1>12. /\ TablesType(e) /\ PathsInv(e)
       /\ e.stations = d.stations \ {a} /\ e.entities = d.entities
       /\ \A b \in Calls, k \in Keys :
             e.rows[b][k] = IF b \in {a} THEN NoRow
                            ELSE IF b = c THEN row[k] ELSE d.rows[b][k]
  BY <1>4, <1>5, <1>7, <1>10, <1>11, ErasedShape
<1> HIDE DEF e
<1>13. ASSUME NEW b \in Calls, NEW k \in Keys PROVE RowOK(b, k, e.rows[b][k])'
  <2>1. CASE b = a
    <3>1. RowOK(b, k, NoRow)
      BY NoRowOK
    <3>2. RowOK(b, k, NoRow)'
      BY <3>1, RowStays
    <3>. QED  BY <1>12, <2>1, <3>2
  <2>2. CASE b # a /\ b # c
    <3>1. RowOK(b, k, d.rows[b][k])
      BY <1>1 DEF RowsInv
    <3>2. RowOK(b, k, d.rows[b][k])'
      BY <3>1, RowStays
    <3>. QED  BY <1>12, <2>2, <3>2
  <2>3. CASE b # a /\ b = c
    <3> DEFINE mine == d.rows[c][k]
               theirs == d.rows[a][k]
               new == MergedRow(mine, theirs)
    <3>1. /\ new \in Row /\ (mine = NoRow => new = theirs)
          /\ mine # NoRow => new # NoRow /\ new.source = mine.source
          /\ new.last \in {mine.last, theirs.last}
          /\ new.direct \in {mine.direct, theirs.direct}
          /\ RowOK(c, k, mine) /\ RowOK(a, k, theirs)
      BY <1>6
    <3> HIDE DEF mine, theirs, new
    <3>2. RowOK(c, k, mine)' /\ RowOK(a, k, theirs)'
      BY <3>1, RowStays
    <3>3. RowOK(c, k, new)'
      BY <2>3, <3>1, <3>2, NoRowFacts DEF RowOK
    <3>4. e.rows[b][k] = new
      BY <1>2, <1>8, <1>12, <2>3 DEF new, mine, theirs
    <3>. QED  BY <2>3, <3>3, <3>4
  <2>. QED  BY <2>1, <2>2, <2>3
<1>14. ASSUME NEW b \in Calls
       PROVE  b \in e.stations <=> \E k \in Keys : e.rows[b][k] # NoRow
  <2>1. \A x \in Calls : x \in d.stations <=> \E k \in Keys : d.rows[x][k] # NoRow
    BY <1>1 DEF RowsInv
  <2>2. b = c => \E k \in Keys : row[k] # NoRow
    <3>1. PICK k \in Keys : d.rows[c][k] # NoRow
      BY <1>2, <2>1
    <3>2. row[k] # NoRow
      BY <1>6, <1>8, <3>1
    <3>. QED  BY <3>2
  <2>. QED  BY <1>12, <2>1, <2>2
<1>15. Sound(e)'
  <2>1. RowsInv(e)'
    BY <1>13, <1>14 DEF RowsInv
  <2>2. TablesType(e)' /\ PathsInv(e)'
    BY <1>12 DEF TablesType, PathsInv, PathsFit
  <2>. QED  BY <2>1, <2>2 DEF Sound
<1>16. \A b \in Calls \ {a}, k \in Keys : d.rows[b][k].direct <= e.rows[b][k].direct
  <2>1. \A b \in Calls, k \in Keys : d.rows[b][k].direct <= d.rows[b][k].direct
    BY <1>3, RowSelf
  <2>. QED  BY <1>6, <1>8, <1>12, <2>1
<1>. QED  BY <1>12, <1>15, <1>16 DEF e
-----------------------------------------------------------------------------
\* The steps, and the observers, the clock and the maps

\* The steps that leave the observers and the clock alone.
Statement ==
    \/ \E t \in Transports : Begin(t) \/ Hop(t)
    \/ \E e \in 1..MaxOthers : RefreshReads(e) \/ RefreshSets(e)
Request ==
    \/ \E named \in Advertised : Nodes(named)
    \/ \E e \in Edits : SetAlias(e[1], e[2]) \/ SetAlias(e[1], Nobody)
    \/ \E c \in Calls : Erase({c})
    \/ Erase(Calls)
    \/ \E b \in Bases : EditEntity(b)
    \/ \E age \in {0, MaxAge} : SetMaxAge(age) \/ \E e \in 1..MaxOthers : SavesMaxAge(e, age)
    \/ Prune

LEMMA StepKinds ==
    ASSUME [Next]_vars
    PROVE  \/ \E t \in Transports, f \in Frames : Receive(t, f)
           \/ \E t \in Transports : Commit(t) \/ Fail(t)
           \/ Statement \/ Request \/ Restart \/ Tick
           \/ UNCHANGED vars
<1>1. CASE \E t \in Transports : Observe(t)
  BY <1>1 DEF Observe, Statement
<1>2. CASE Request
  BY <1>2
<1>3. CASE \E e \in 1..MaxOthers : RefreshReads(e) \/ RefreshSets(e)
  BY <1>3 DEF Statement
<1>. QED  BY <1>1, <1>2, <1>3 DEF Next, Request

LEMMA StatementLeaves ==
    ASSUME Statement \/ Request
    PROVE  observer' = observer /\ now' = now /\ direct' = direct
BY DEF Statement, Request, Begin, Hop, RefreshReads, RefreshSets, Nodes, SetAlias, Erase,
       EditEntity, SetMaxAge, SavesMaxAge, Prune, Elsewhere

LEMMA AbsorbedGrows ==
    ASSUME [Next]_vars
    PROVE  absorbed \subseteq absorbed'
<1>1. CASE Statement
  BY <1>1 DEF Statement, Begin, Hop, RefreshReads, RefreshSets
<1>2. CASE Request
  <2>1. \A c, a : SetAlias(c, a) => absorbed \subseteq absorbed'
    BY DEF SetAlias
  <2>. QED  BY <1>2, <2>1 DEF Request, Nodes, Erase, EditEntity, SetMaxAge, SavesMaxAge, Prune
<1>3. CASE \E t \in Transports, f \in Frames : Receive(t, f)
  BY <1>3 DEF Receive
<1>4. CASE \E t \in Transports : Commit(t) \/ Fail(t)
  BY <1>4 DEF Commit, Fail
<1>. QED  BY <1>1, <1>2, <1>3, <1>4, StepKinds DEF Restart, Tick, vars

LEMMA ObserversKept ==
    ASSUME ObserversInv, DOMAIN observer = Transports, [Next]_vars
    PROVE  ObserversInv' /\ DOMAIN observer' = Transports /\ Onward
<1>1. now \in Nat /\ now <= MaxTime /\ MaxTime \in Nat /\ LockTimeout \in Nat
  BY TimesAssumption DEF ObserversInv, TimesAssumption
<1>2. \A t \in Transports : observer[t] # Idle =>
         /\ observer[t].frame \in Frames /\ observer[t].ts \in Nat
         /\ observer[t].ts <= now /\ now <= observer[t].ts + LockTimeout
  BY <1>1 DEF ObserversInv
<1>3. SUFFICES /\ DOMAIN observer' = Transports
               /\ now' \in Nat /\ now' <= MaxTime /\ now <= now'
               /\ \A t \in Transports : observer'[t] # Idle =>
                     /\ observer'[t].frame \in Frames /\ observer'[t].ts \in Nat
                     /\ observer'[t].ts <= now' /\ now' <= observer'[t].ts + LockTimeout
               /\ \A t \in Transports : Clock(t) <= Clock(t)'
  BY <1>1, <1>3, AbsorbedGrows DEF ObserversInv, Onward
<1>4. CASE \E t \in Transports, f \in Frames : Receive(t, f)
  <2>1. PICK t \in Transports, f \in Frames : Receive(t, f)
    BY <1>4
  <2>2. /\ observer[t] = Idle /\ now' = now
        /\ observer' = [observer EXCEPT ![t] = [frame |-> f, ts |-> now]]
    BY <2>1 DEF Receive
  <2>3. \A s \in Transports : observer'[s] = IF s = t THEN [frame |-> f, ts |-> now] ELSE observer[s]
    BY <2>2
  <2>4. [frame |-> f, ts |-> now].frame = f /\ [frame |-> f, ts |-> now].ts = now
    OBVIOUS
  <2>. QED  BY <1>1, <1>2, <2>2, <2>3, <2>4 DEF Clock
<1>5. CASE \E t \in Transports : Commit(t) \/ Fail(t)
  <2>1. PICK t \in Transports : Commit(t) \/ Fail(t)
    BY <1>5
  <2>2. now' = now /\ observer' = [observer EXCEPT ![t] = Idle]
    BY <2>1 DEF Commit, Fail
  <2>3. \A s \in Transports : observer'[s] = IF s = t THEN Idle ELSE observer[s]
    BY <2>2
  <2>. QED  BY <1>1, <1>2, <2>2, <2>3 DEF Clock
<1>6. CASE Statement \/ Request
  BY <1>1, <1>2, <1>6, StatementLeaves DEF Clock
<1>7. CASE Restart
  <2>1. now' = now /\ observer' = [t \in Transports |-> Idle]
    BY <1>7 DEF Restart
  <2>. QED  BY <1>1, <1>2, <2>1 DEF Clock
<1>8. CASE Tick
  BY <1>1, <1>2, <1>8 DEF Tick, Clock
<1>9. CASE UNCHANGED vars
  BY <1>1, <1>2, <1>9 DEF vars, Clock
<1>. QED  BY <1>4, <1>5, <1>6, <1>7, <1>8, <1>9, StepKinds

LEMMA MapsKept ==
    ASSUME MapsInv, [Next]_vars
    PROVE  MapsInv'
<1> DEFINE Maps == [Calls -> Calls \cup {Nobody}]
           Fine(r) == r.is = "read" => r.map \in Maps
<1>1. \A d : MapsOf(d) \subseteq Maps
  BY DEF MapsOf
<1>2. \A m \in Maps : Fine([is |-> "read", map |-> m])
  OBVIOUS
<1>3. Fine([is |-> "asked"]) /\ Fine(NoRefresh)
  BY DEF NoRefresh
<1>4. /\ kanode \in Maps /\ DOMAIN refresh = 1..MaxOthers
      /\ \A e \in 1..MaxOthers : Fine(refresh[e])
  BY DEF MapsInv
<1> HIDE DEF Fine
<1> DEFINE Goal == /\ kanode' \in Maps /\ DOMAIN refresh' = 1..MaxOthers
                   /\ \A e \in 1..MaxOthers : Fine(refresh'[e])
<1>5. SUFFICES Goal
  BY <1>5 DEF MapsInv, Fine
<1>6. ASSUME NEW e, NEW r, Fine(r), refresh' = [refresh EXCEPT ![e] = r], kanode' \in Maps
      PROVE  Goal
  BY <1>4, <1>6
<1>7. CASE UNCHANGED <<kanode, refresh>>
  BY <1>4, <1>7
<1>8. CASE Statement
  <2>1. CASE \E t \in Transports : Begin(t) \/ Hop(t)
    BY <1>7, <2>1 DEF Begin, Hop
  <2>2. CASE \E e \in 1..MaxOthers : RefreshReads(e)
    <3>1. PICK e \in 1..MaxOthers, m \in MapsOf(db) :
             refresh' = [refresh EXCEPT ![e] = [is |-> "read", map |-> m]] /\ kanode' = kanode
      BY <2>2 DEF RefreshReads
    <3> DEFINE r == [is |-> "read", map |-> m]
    <3>2. Fine(r)
      BY <1>1, <1>2
    <3>3. refresh' = [refresh EXCEPT ![e] = r] /\ kanode' = kanode
      BY <3>1
    <3> HIDE DEF r, Goal
    <3>. QED  BY <1>4, <1>6, <3>2, <3>3
  <2>3. CASE \E e \in 1..MaxOthers : RefreshSets(e)
    <3>1. PICK e \in 1..MaxOthers :
             /\ refresh[e].is = "read" /\ kanode' = refresh[e].map
             /\ refresh' = [refresh EXCEPT ![e] = NoRefresh]
      BY <2>3 DEF RefreshSets
    <3>2. kanode' \in Maps
      BY <1>4, <3>1 DEF Fine
    <3> HIDE DEF Goal
    <3>. QED  BY <1>3, <1>6, <3>1, <3>2
  <2>. QED  BY <1>8, <2>1, <2>2, <2>3 DEF Statement
<1>9. CASE Request
  <2>1. ASSUME NEW c, NEW a, SetAlias(c, a) PROVE Goal
    <3>1. kanode' = kanode /\ refresh' = [refresh EXCEPT ![used.others + 1] = [is |-> "asked"]]
      BY <2>1 DEF SetAlias, Elsewhere
    <3> HIDE DEF Goal
    <3>. QED  BY <1>3, <1>4, <1>6, <3>1
  <2>2. CASE \E e \in Edits : SetAlias(e[1], e[2]) \/ SetAlias(e[1], Nobody)
    BY <2>1, <2>2
  <2>3. CASE \/ \E named \in Advertised : Nodes(named)
             \/ \E c \in Calls : Erase({c})
             \/ Erase(Calls)
             \/ \E b \in Bases : EditEntity(b)
             \/ Prune
    BY <1>7, <2>3 DEF Nodes, Erase, EditEntity, Prune, Elsewhere
  <2>4. ASSUME NEW age, SetMaxAge(age) PROVE Goal
    <3>1. kanode' = kanode
      BY <2>4 DEF SetMaxAge, Elsewhere
    <3>2. CASE UNCHANGED refresh
      BY <1>7, <3>1, <3>2
    <3>3. CASE refresh' = [refresh EXCEPT ![used.others + 1] = [is |-> "save", age |-> age]]
      <4> DEFINE r == [is |-> "save", age |-> age]
      <4>1. Fine(r) /\ refresh' = [refresh EXCEPT ![used.others + 1] = r]
        BY <3>3 DEF Fine
      <4> HIDE DEF r, Goal
      <4>. QED  BY <1>4, <1>6, <3>1, <4>1
    <3>. QED  BY <2>4, <3>2, <3>3 DEF SetMaxAge
  <2>5. ASSUME NEW e, NEW age, SavesMaxAge(e, age) PROVE Goal
    <3>1. kanode' = kanode /\ refresh' = [refresh EXCEPT ![e] = NoRefresh]
      BY <2>5 DEF SavesMaxAge, Elsewhere
    <3> HIDE DEF Goal
    <3>. QED  BY <1>3, <1>4, <1>6, <3>1
  <2> HIDE DEF Goal
  <2>. QED  BY <1>9, <2>2, <2>3, <2>4, <2>5 DEF Request
<1>10. CASE Restart
  <2>1. /\ kanode' \in MapsOf(db) /\ refresh' = [e \in 1..MaxOthers |-> NoRefresh]
    BY <1>10 DEF Restart
  <2>. QED  BY <1>1, <1>3, <2>1
<1>11. CASE \/ \E t \in Transports, f \in Frames : Receive(t, f)
            \/ \E t \in Transports : Commit(t) \/ Fail(t)
            \/ Tick \/ UNCHANGED vars
  BY <1>7, <1>11 DEF Receive, Commit, Fail, Tick, vars
<1> HIDE DEF Goal
<1>. QED  BY <1>8, <1>9, <1>10, <1>11, StepKinds
-----------------------------------------------------------------------------
\* The committed tables

Covered(d) == \A c \in d.stations : BaseOf[c] \in d.entities
\* No direct hearing is forgotten, but of the callsigns left out.
Remembers(d, calls) ==
    \A c \in Calls \ calls, k \in Keys : db.rows[c][k].direct <= d.rows[c][k].direct

LEMMA DbBecomes ==
    ASSUME NEW d, Sound(d), Covered(d), ObserversInv, ObserversInv', Onward, db' = d
    PROVE  DbInv'
<1>1. Sound(d)'
  BY SoundStays
<1>. QED  BY <1>1 DEF DbInv, Covered, Sound, TablesType, RowsInv, PathsInv, IsTables

LEMMA DirectTypes ==
    ASSUME HeardInv
    PROVE  /\ db.rows \in [Calls -> [Keys -> Row]]
           /\ \A c \in Calls, k \in Keys : db.rows[c][k] \in Row
           /\ Remembers(db, {})
<1>1. db.rows \in [Calls -> [Keys -> Row]]
  BY DEF HeardInv, DbInv, Sound, TablesType
<1>. QED  BY <1>1, RowSelf DEF Remembers

LEMMA CommitWrites ==
    ASSUME HeardInv, NEW t \in Transports, Commit(t)
    PROVE  /\ Sound(db') /\ Covered(db') /\ Remembers(db', {})
           /\ observer[t] # Idle
           /\ LET o == observer[t]
              IN  /\ o.frame.src \in Calls
                  /\ Direct(o.frame) => o.ts <= db'.rows[o.frame.src][t].direct
<1> DEFINE o == observer[t]
           d == txn.tables
           e == PathHeard(d, t, o.frame, o.ts)
<1>1. txn.by = t /\ txn # NoTxn
  BY KeyFacts DEF Commit, NoTxn
<1>2. /\ o # Idle /\ Sound(d) /\ d.rows[o.frame.src][t].source = "heard"
      /\ Direct(o.frame) => o.ts <= d.rows[o.frame.src][t].direct
      /\ Remembers(d, {})
  BY <1>1 DEF HeardInv, TxnInv, Remembers
<1>3. o.frame \in Frames
  BY <1>2 DEF HeardInv, ObserversInv
<1>4. Sound(e) /\ e.rows = d.rows
  BY <1>2, <1>3, PathSound
<1>5. Sound(Reconcile(e)) /\ Covered(Reconcile(e)) /\ Reconcile(e).rows = d.rows
  <2> HIDE DEF e
  <2>. QED  BY <1>4, ReconcileSound DEF Covered
<1>6. db' = Reconcile(e)
  BY DEF Commit
<1>7. o.frame.src \in Calls
  BY <1>3, FrameFacts
<1> HIDE DEF e, o, d
<1>8. Remembers(db', {})
  BY <1>2, <1>5, <1>6 DEF Remembers
<1>9. Direct(o.frame) => o.ts <= db'.rows[o.frame.src][t].direct
  BY <1>2, <1>5, <1>6
<1>. QED  BY <1>2, <1>5, <1>6, <1>7, <1>8, <1>9 DEF o

LEMMA NodesWrites ==
    ASSUME HeardInv, ObserversInv', Onward, NEW named \in Advertised, Nodes(named)
    PROVE  DbInv' /\ Remembers(db', {}) /\ unsaved' = unsaved
<1> DEFINE d == NodesHeard(db, named)
           e == Reconcile(d)
<1>1. named \subseteq Calls
  BY HeardAssumption DEF HeardAssumption
<1>2. Sound(d) /\ \A c \in Calls, k \in Keys : d.rows[c][k].direct = db.rows[c][k].direct
  BY <1>1, NodesSound DEF HeardInv, DbInv
<1>3. Sound(e) /\ e.rows = d.rows /\ Covered(e)
  <2> HIDE DEF d
  <2>. QED  BY <1>2, ReconcileSound DEF Covered
<1>4. db' = e /\ unsaved' = unsaved
  BY DEF Nodes, NodesHeard
<1>5. Remembers(e, {})
  <2> HIDE DEF d, e
  <2>. QED  BY <1>2, <1>3, DirectTypes DEF Remembers
<1> HIDE DEF e
<1>. QED  BY <1>3, <1>4, <1>5, DbBecomes DEF HeardInv

LEMMA AbsorbsBecomes ==
    ASSUME ObserversInv, ObserversInv', Onward, NEW d, Sound(d), Covered(d),
           NEW c \in d.stations, c \in absorbed', NEW a \in d.stations, db' = Absorbs(d, c, a)
    PROVE  /\ DbInv'
           /\ \A b \in Calls \ {a}, k \in Keys : d.rows[b][k].direct <= db'.rows[b][k].direct
<1> DEFINE e == Absorbs(d, c, a)
<1>1. /\ Sound(e)' /\ e.stations \subseteq d.stations /\ e.entities = d.entities
      /\ \A b \in Calls \ {a}, k \in Keys : d.rows[b][k].direct <= e.rows[b][k].direct
  BY AbsorbsSound
<1>2. db' = e
  OBVIOUS
<1> HIDE DEF e
<1>3. DbInv'
  BY <1>1, <1>2 DEF DbInv, Covered, Sound, TablesType, RowsInv, PathsInv, IsTables
<1>. QED  BY <1>1, <1>2, <1>3

LEMMA SetAliasWrites ==
    ASSUME HeardInv, ObserversInv', Onward, NEW c, NEW a \in Calls \cup {Nobody}, SetAlias(c, a)
    PROVE  DbInv' /\ Remembers(db', unsaved') /\ unsaved \subseteq unsaved'
<1> DEFINE aliasOf == [db.aliasOf EXCEPT ![c] = a]
           d == [db EXCEPT !.aliasOf = aliasOf]
           e == Absorbs(d, c, a)
<1>1. Sound(db) /\ Covered(db) /\ TablesType(db)
  BY DEF HeardInv, DbInv, Covered, Sound
<1>2. c \in Calls /\ c \in db.stations
  BY <1>1 DEF SetAlias, TablesType
<1>3. /\ aliasOf \in [Calls -> Calls \cup {Nobody}] /\ db.maxAge \in {0, MaxAge}
      /\ db.entities \subseteq Bases
  BY <1>1, <1>2 DEF TablesType
<1>4. d = [db EXCEPT !.aliasOf[c] = a]
  OBVIOUS
<1>5. Sound(d) /\ d.stations = db.stations /\ d.rows = db.rows /\ db.entities \subseteq d.entities
  <2> HIDE DEF aliasOf
  <2>1. db.entities \subseteq db.entities
    OBVIOUS
  <2>. QED  BY <1>1, <1>3, <2>1, OtherColumns
<1>6. SetAlias(c, a) =>
         IF a \in db.stations
         THEN db' = e /\ unsaved' = unsaved \cup {a} /\ absorbed' = absorbed \cup {c}
         ELSE db' = d /\ unsaved' = unsaved
  BY <1>4 DEF SetAlias
<1> HIDE DEF d
<1>7. CASE a \in db.stations
  <2>1. db' = e /\ unsaved' = unsaved \cup {a} /\ c \in absorbed'
    BY <1>6, <1>7
  <2>2. Covered(d)
    BY <1>1, <1>5 DEF Covered
  <2>3. /\ DbInv'
        /\ \A b \in Calls \ {a}, k \in Keys : d.rows[b][k].direct <= db'.rows[b][k].direct
    BY <1>2, <1>5, <1>7, <2>1, <2>2, AbsorbsBecomes DEF HeardInv
  <2>4. Remembers(db', unsaved')
    <3> HIDE DEF e
    <3>. QED  BY <1>5, <2>1, <2>3 DEF Remembers
  <2>. QED  BY <2>1, <2>3, <2>4
<1>8. CASE a \notin db.stations
  <2>1. db' = d /\ unsaved' = unsaved
    BY <1>6, <1>8
  <2>2. Covered(d)
    BY <1>1, <1>5 DEF Covered
  <2>3. Remembers(d, unsaved')
    BY <1>5, DirectTypes DEF Remembers
  <2>. QED  BY <1>5, <2>1, <2>2, <2>3, DbBecomes DEF HeardInv
<1>. QED  BY <1>7, <1>8

LEMMA EraseWrites ==
    ASSUME HeardInv, ObserversInv', Onward, NEW calls, Erase(calls)
    PROVE  DbInv' /\ Remembers(db', unsaved') /\ unsaved \subseteq unsaved'
<1> DEFINE e == Erased(db, calls)
<1>1. Sound(db) /\ Covered(db)
  BY DEF HeardInv, DbInv, Covered
<1>2. Sound(e)
  BY <1>1, EraseSound DEF HeardInv
<1>3. /\ e.stations = db.stations \ calls /\ e.entities = db.entities
      /\ \A c \in Calls, k \in Keys :
            e.rows[c][k] = IF c \in calls THEN NoRow ELSE db.rows[c][k]
  BY <1>1, ErasedShape DEF Sound
<1>4. db' = e /\ unsaved' = unsaved \cup calls
  BY DEF Erase
<1> HIDE DEF e
<1>5. Covered(e)
  BY <1>1, <1>3 DEF Covered
<1>6. Remembers(e, unsaved')
  BY <1>3, <1>4, DirectTypes DEF Remembers
<1>. QED  BY <1>2, <1>4, <1>5, <1>6, DbBecomes DEF HeardInv

LEMMA OthersWrite ==
    ASSUME HeardInv, ObserversInv', Onward,
           \/ \E b \in Bases : EditEntity(b)
           \/ \E age \in {0, MaxAge} : SetMaxAge(age) \/ \E e \in 1..MaxOthers : SavesMaxAge(e, age)
           \/ Prune
    PROVE  DbInv' /\ Remembers(db', {}) /\ unsaved' = unsaved
<1>1. Sound(db) /\ Covered(db) /\ TablesType(db)
  BY DEF HeardInv, DbInv, Covered, Sound
<1>2. /\ db.aliasOf \in [Calls -> Calls \cup {Nobody}] /\ db.maxAge \in {0, MaxAge}
      /\ db.entities \subseteq Bases
  BY <1>1 DEF TablesType
<1>3. ASSUME NEW e, Sound(e), e.stations = db.stations, e.rows = db.rows,
             db.entities \subseteq e.entities, db' = e
      PROVE  DbInv' /\ Remembers(db', {})
  <2>1. Covered(e)
    BY <1>1, <1>3 DEF Covered
  <2>2. Remembers(e, {})
    BY <1>3, DirectTypes DEF Remembers
  <2>. QED  BY <1>3, <2>1, <2>2, DbBecomes DEF HeardInv
<1>4. CASE \E b \in Bases : EditEntity(b)
  <2>1. PICK b \in Bases : EditEntity(b)
    BY <1>4
  <2> DEFINE more == db.entities \cup {b}
             e == [db EXCEPT !.entities = more]
  <2>2. db' = e /\ unsaved' = unsaved
    BY <2>1 DEF EditEntity
  <2>3. db.entities \subseteq more /\ more \subseteq Bases
    BY <1>2
  <2>4. Sound(e) /\ e.stations = db.stations /\ e.rows = db.rows /\ db.entities \subseteq e.entities
    <3> HIDE DEF more
    <3>. QED  BY <1>1, <1>2, <2>3, OtherColumns
  <2> HIDE DEF e
  <2>. QED  BY <1>3, <2>2, <2>4
<1>5. CASE \E age \in {0, MaxAge} : SetMaxAge(age) \/ \E e \in 1..MaxOthers : SavesMaxAge(e, age)
  <2>1. PICK age \in {0, MaxAge} : SetMaxAge(age) \/ \E e \in 1..MaxOthers : SavesMaxAge(e, age)
    BY <1>5
  <2> DEFINE e == [db EXCEPT !.maxAge = age]
  <2>2. db' = e /\ unsaved' = unsaved
    BY <2>1 DEF SetMaxAge, SavesMaxAge
  <2>3. Sound(e) /\ e.stations = db.stations /\ e.rows = db.rows /\ db.entities \subseteq e.entities
    <3>1. db.entities \subseteq db.entities
      OBVIOUS
    <3>. QED  BY <1>1, <1>2, <3>1, OtherColumns
  <2> HIDE DEF e
  <2>. QED  BY <1>3, <2>2, <2>3
<1>6. CASE Prune
  <2> DEFINE P == {p \in db.paths : p.last >= now - db.maxAge}
             e == [db EXCEPT !.paths = P]
  <2>1. db' = e /\ unsaved' = unsaved
    BY <1>6 DEF Prune
  <2>2. P \subseteq db.paths
    OBVIOUS
  <2> HIDE DEF P
  <2>3. PathsFit(db.rows, P)
    BY <1>1, <2>2 DEF Sound, PathsInv, PathsFit
  <2>4. Sound(e) /\ e.stations = db.stations /\ e.rows = db.rows /\ e.entities = db.entities
    BY <1>1, <2>3, PathsReplaced
  <2> HIDE DEF e
  <2>. QED  BY <1>3, <2>1, <2>4
<1>. QED  BY <1>4, <1>5, <1>6

\* Edits are pairs of callsigns.
LEMMA EditFacts == \A e \in Edits : e[1] \in Calls /\ e[2] \in Calls
BY HeardAssumption DEF HeardAssumption

LEMMA RequestWrites ==
    ASSUME HeardInv, ObserversInv', Onward, Request
    PROVE  DbInv' /\ Remembers(db', unsaved') /\ unsaved \subseteq unsaved'
<1>1. Remembers(db', {}) => Remembers(db', unsaved')
  BY DEF Remembers
<1>2. CASE \E named \in Advertised : Nodes(named)
  BY <1>1, <1>2, NodesWrites
<1>3. CASE \E e \in Edits : SetAlias(e[1], e[2]) \/ SetAlias(e[1], Nobody)
  BY <1>3, EditFacts, SetAliasWrites
<1>4. CASE (\E c \in Calls : Erase({c})) \/ Erase(Calls)
  BY <1>4, EraseWrites
<1>5. CASE \/ \E b \in Bases : EditEntity(b)
           \/ \E age \in {0, MaxAge} : SetMaxAge(age) \/ \E e \in 1..MaxOthers : SavesMaxAge(e, age)
           \/ Prune
  BY <1>1, <1>5, OthersWrite
<1>. QED  BY <1>2, <1>3, <1>4, <1>5 DEF Request

LEMMA DbKept ==
    ASSUME HeardInv, ObserversInv', Onward, [Next]_vars
    PROVE  DbInv' /\ Remembers(db', unsaved')
<1>1. CASE db' = db
  <2>1. Sound(db) /\ Covered(db)
    BY DEF HeardInv, DbInv, Covered
  <2>2. Remembers(db', unsaved')
    BY <1>1, DirectTypes DEF Remembers
  <2>. QED  BY <1>1, <2>1, <2>2, DbBecomes DEF HeardInv
<1>2. CASE \E t \in Transports : Commit(t)
  <2>1. Sound(db') /\ Covered(db') /\ Remembers(db', {})
    BY <1>2, CommitWrites
  <2>2. Remembers(db', unsaved')
    BY <2>1 DEF Remembers
  <2>. QED  BY <2>1, <2>2, DbBecomes DEF HeardInv
<1>3. CASE Request
  BY <1>3, RequestWrites
<1>4. CASE \/ \E t \in Transports, f \in Frames : Receive(t, f)
           \/ \E t \in Transports : Fail(t)
           \/ Statement \/ Restart \/ Tick \/ UNCHANGED vars
  <2>1. db' = db
    BY <1>4 DEF Receive, Fail, Statement, Begin, Hop, RefreshReads, RefreshSets, Restart, Tick, vars
  <2>. QED  BY <1>1, <2>1
<1>. QED  BY <1>2, <1>3, <1>4, StepKinds
-----------------------------------------------------------------------------
\* The open transaction

LEMMA TxnBecomes ==
    ASSUME HeardInv, ObserversInv', Onward,
           NEW t \in Transports, NEW h \in Nat \ {0}, NEW d, Sound(d),
           txn' = [by |-> t, hop |-> h, tables |-> d],
           observer[t] # Idle, observer'[t] = observer[t],
           d.rows[observer[t].frame.src][t].source = "heard",
           Direct(observer[t].frame) => observer[t].ts <= d.rows[observer[t].frame.src][t].direct,
           db' = db, Remembers(d, {})
    PROVE  TxnInv'
<1>1. Sound(d)'
  BY SoundStays DEF HeardInv
<1>2. txn'.by = t /\ txn'.hop = h /\ txn'.tables = d
  OBVIOUS
<1>3. txn' = [by |-> txn'.by, hop |-> txn'.hop, tables |-> txn'.tables]
  BY <1>2
<1>4. Sound(txn.tables)'
  BY <1>1, <1>2 DEF Sound, TablesType, RowsInv, PathsInv, IsTables
<1>5. \A c \in Calls, k \in Keys : db'.rows[c][k].direct <= txn'.tables.rows[c][k].direct
  BY <1>2 DEF Remembers
<1>. QED  BY <1>2, <1>3, <1>4, <1>5 DEF TxnInv

LEMMA TxnKept ==
    ASSUME HeardInv, ObserversInv', Onward, [Next]_vars
    PROVE  TxnInv'
<1>1. CASE txn' = NoTxn
  BY <1>1 DEF TxnInv
<1>2. TxnInv /\ ObserversInv /\ MapsInv /\ Sound(db)
  BY DEF HeardInv, DbInv
<1>3. ASSUME txn # NoTxn
      PROVE  /\ txn = [by |-> txn.by, hop |-> txn.hop, tables |-> txn.tables]
             /\ txn.by \in Transports /\ txn.hop \in Nat \ {0} /\ observer[txn.by] # Idle
             /\ Sound(txn.tables) /\ Remembers(txn.tables, {})
             /\ LET o == observer[txn.by]
                IN  /\ txn.tables.rows[o.frame.src][txn.by].source = "heard"
                    /\ Direct(o.frame) => o.ts <= txn.tables.rows[o.frame.src][txn.by].direct
  BY <1>2, <1>3 DEF TxnInv, Remembers
<1>4. CASE txn # NoTxn /\ txn' = txn /\ db' = db /\ observer'[txn.by] = observer[txn.by]
  <2> DEFINE t == txn.by
             h == txn.hop
             d == txn.tables
  <2>1. txn' = [by |-> t, hop |-> h, tables |-> d]
    BY <1>3, <1>4
  <2> HIDE DEF t, h, d
  <2>. QED  BY <1>3, <1>4, <2>1, TxnBecomes DEF t, h, d
<1>5. CASE \E t \in Transports, f \in Frames : Receive(t, f)
  <2>1. PICK t \in Transports, f \in Frames : Receive(t, f)
    BY <1>5
  <2>2. /\ txn' = txn /\ db' = db /\ observer[t] = Idle
        /\ observer' = [observer EXCEPT ![t] = [frame |-> f, ts |-> now]]
    BY <2>1 DEF Receive
  <2>3. txn # NoTxn => observer'[txn.by] = observer[txn.by]
    BY <1>3, <2>2 DEF HeardInv
  <2>. QED  BY <1>1, <1>4, <2>2, <2>3
<1>6. CASE \E t \in Transports : Commit(t)
  BY <1>1, <1>6 DEF Commit
<1>7. CASE \E t \in Transports : Fail(t)
  <2>1. PICK t \in Transports : Fail(t)
    BY <1>7
  <2>2. /\ txn' = (IF txn.by = t THEN NoTxn ELSE txn) /\ db' = db
        /\ observer' = [observer EXCEPT ![t] = Idle]
    BY <2>1 DEF Fail
  <2>3. txn # NoTxn /\ txn.by # t => observer'[txn.by] = observer[txn.by]
    BY <1>3, <2>2 DEF HeardInv
  <2>. QED  BY <1>1, <1>4, <2>2, <2>3
<1>8. CASE \E t \in Transports : Begin(t)
  <2>1. PICK t \in Transports : Begin(t)
    BY <1>8
  <2> DEFINE o == observer[t]
             d == SourceHeard(db, t, o.frame, o.ts)
  <2>2. /\ o # Idle /\ observer' = observer /\ db' = db
        /\ txn' = [by |-> t, hop |-> 1, tables |-> d]
    BY <2>1 DEF Begin
  <2>3. /\ Sound(d) /\ d.rows[o.frame.src][t].source = "heard"
        /\ Direct(o.frame) => o.ts <= d.rows[o.frame.src][t].direct
        /\ Remembers(d, {})
    BY <1>2, <2>2, SourceSound DEF Remembers
  <2> HIDE DEF d
  <2>. QED  BY <2>2, <2>3, TxnBecomes
<1>9. CASE \E t \in Transports : Hop(t)
  <2>1. PICK t \in Transports : Hop(t)
    BY <1>9
  <2> DEFINE o == observer[t]
             i == txn.hop
             old == txn.tables
             d == HopHeard(old, o.frame, i, o.ts, kanode)
  <2>2. txn.by = t /\ txn # NoTxn /\ i <= Len(o.frame.via)
    BY <2>1, KeyFacts DEF Hop, NoTxn
  <2>3. /\ observer' = observer /\ db' = db
        /\ txn' = [txn EXCEPT !.hop = i + 1, !.tables = d]
    BY <2>1 DEF Hop
  <2>4. /\ txn = [by |-> t, hop |-> i, tables |-> old] /\ i \in Nat \ {0} /\ o # Idle
        /\ Sound(old) /\ Remembers(old, {})
        /\ old.rows[o.frame.src][t].source = "heard"
        /\ Direct(o.frame) => o.ts <= old.rows[o.frame.src][t].direct
    BY <1>3, <2>2
  <2>5. txn' = [by |-> t, hop |-> i + 1, tables |-> d]
    <3> HIDE DEF d, i, old
    <3>. QED  BY <2>3, <2>4
  <2>6. o.frame \in Frames /\ o.frame.src \in Calls /\ i \in DOMAIN o.frame.via
    <3>1. o.frame \in Frames
      BY <1>2, <2>4 DEF ObserversInv
    <3>. QED  BY <2>2, <2>4, <3>1, FrameFacts
  <2>7. kanode \in [Calls -> Calls \cup {Nobody}]
    BY <1>2 DEF MapsInv
  <2>8. /\ Sound(d)
        /\ \A c \in Calls, k \in Transports : d.rows[c][k] = old.rows[c][k]
        /\ \A c \in Calls, k \in Keys : old.rows[c][k].direct <= d.rows[c][k].direct
    <3> HIDE DEF old, i
    <3>. QED  BY <1>2, <2>4, <2>6, <2>7, HopSound
  <2> HIDE DEF d, old
  <2>9. Remembers(d, {})
    <3>1. ASSUME NEW c \in Calls, NEW k \in Keys
          PROVE  db.rows[c][k].direct <= d.rows[c][k].direct
      <4>1. db.rows[c][k].direct <= old.rows[c][k].direct
        BY <2>4 DEF Remembers
      <4>2. old.rows[c][k].direct <= d.rows[c][k].direct
        BY <2>8
      <4>3. /\ db.rows[c][k].direct \in Nat /\ old.rows[c][k].direct \in Nat
            /\ d.rows[c][k].direct \in Nat
        <5>1. db.rows[c][k] \in Row /\ old.rows[c][k] \in Row /\ d.rows[c][k] \in Row
          BY <1>2, <2>4, <2>8 DEF Sound, TablesType
        <5>. QED  BY <5>1, TimesAssumption DEF Row, TimesAssumption
      <4>. QED  BY <4>1, <4>2, <4>3
    <3>. QED  BY <3>1 DEF Remembers
  <2>10. i + 1 \in Nat \ {0}
    BY <2>4
  <2>11. /\ d.rows[o.frame.src][t].source = "heard"
         /\ Direct(o.frame) => o.ts <= d.rows[o.frame.src][t].direct
    BY <2>4, <2>6, <2>8
  <2> HIDE DEF i
  <2>. QED  BY <2>3, <2>4, <2>5, <2>8, <2>9, <2>10, <2>11, TxnBecomes
<1>10. CASE \E e \in 1..MaxOthers : RefreshReads(e) \/ RefreshSets(e)
  <2>1. txn' = txn /\ db' = db /\ observer' = observer
    BY <1>10 DEF RefreshReads, RefreshSets
  <2>. QED  BY <1>1, <1>4, <2>1
<1>11. CASE Request
  BY <1>1, <1>11 DEF Request, Nodes, SetAlias, Erase, EditEntity, SetMaxAge, SavesMaxAge, Prune, Writes, Elsewhere
<1>12. CASE Restart
  BY <1>1, <1>12 DEF Restart
<1>13. CASE Tick \/ UNCHANGED vars
  <2>1. txn' = txn /\ db' = db /\ observer' = observer
    BY <1>13 DEF Tick, vars
  <2>. QED  BY <1>1, <1>4, <2>1
<1>. QED  BY <1>5, <1>6, <1>7, <1>8, <1>9, <1>10, <1>11, <1>12, <1>13, StepKinds DEF Statement
-----------------------------------------------------------------------------
\* The cache

Smallest(S) == CHOOSE x \in S : \A y \in S : x <= y

LEMMA Least ==
    ASSUME NEW S \in SUBSET Nat, S # {}
    PROVE  Smallest(S) \in S /\ \A y \in S : Smallest(S) <= y
<1> DEFINE R == OpToRel(<, Nat)
<1>1. PICK x \in S : \A y \in S : <<y, x>> \notin R
  <2>1. IsWellFoundedOn(R, Nat)
    BY NatLessThanWellFounded
  <2> HIDE DEF R
  <2>. QED  BY <2>1, WFMin
<1>2. \A y \in S : x <= y
  <2>. SUFFICES ASSUME NEW y \in S PROVE x <= y
    OBVIOUS
  <2>1. x \in Nat /\ y \in Nat
    OBVIOUS
  <2>2. y < x => <<y, x>> \in R
    BY <2>1 DEF OpToRel
  <2> HIDE DEF R
  <2>. QED  BY <1>1, <2>1, <2>2
<1>. QED  BY <1>2 DEF Smallest

LEMMA Greatest ==
    ASSUME NEW n \in Nat, NEW S \in SUBSET (0..n), S # {}
    PROVE  Max(S) \in S /\ \A y \in S : y <= Max(S)
<1> DEFINE T == {n - y : y \in S}
<1>1. T \in SUBSET Nat /\ T # {}
  <2>1. \A y \in S : n - y \in Nat
    OBVIOUS
  <2>. QED  BY <2>1
<1>2. Smallest(T) \in T /\ \A t \in T : Smallest(T) <= t
  <2> HIDE DEF T
  <2>. QED  BY <1>1, Least
<1>3. PICK x \in S : Smallest(T) = n - x
  BY <1>2
<1>4. \A y \in S : x >= y
  <2>. SUFFICES ASSUME NEW y \in S PROVE x >= y
    OBVIOUS
  <2>1. n - x <= n - y
    BY <1>2, <1>3
  <2>. QED  BY <2>1
<1>. QED  BY <1>4 DEF Max

\* What a restart reads of a call is the latest of its rows.
LEMMA StoredFacts ==
    ASSUME HeardInv, NEW c \in Calls
    PROVE  /\ Stored(db, c) \in 0..MaxTime
           /\ \E k \in Keys : Stored(db, c) = db.rows[c][k].direct
           /\ \A k \in Keys : db.rows[c][k].direct <= Stored(db, c)
<1> DEFINE S == {db.rows[c][k].direct : k \in Keys}
<1>1. S \in SUBSET (0..MaxTime) /\ S # {}
  <2>1. \A k \in Keys : db.rows[c][k].direct \in 0..MaxTime
    BY DirectTypes DEF Row
  <2>. QED  BY <2>1, KeyFacts
<1>2. MaxTime \in Nat
  BY TimesAssumption DEF TimesAssumption
<1>3. Max(S) \in S /\ \A y \in S : y <= Max(S)
  <2> HIDE DEF S
  <2>. QED  BY <1>1, <1>2, Greatest
<1>4. Stored(db, c) = Max(S)
  BY DEF Stored
<1> DEFINE m == Max(S)
<1>5. m \in S /\ (\A y \in S : y <= m) /\ Stored(db, c) = m
  BY <1>3, <1>4
<1> HIDE DEF m
<1>. QED  BY <1>1, <1>5

\* Of what is known of a call, where the cache has it from.
InRow(c) == \E k \in Keys : direct[c] <= db.rows[c][k].direct
AtWork(t, c) == /\ observer[t] # Idle /\ observer[t].frame.src = c
                /\ Direct(observer[t].frame) /\ direct[c] <= observer[t].ts

LEMMA CacheKept ==
    ASSUME HeardInv, DbInv', ObserversInv', Onward, Remembers(db', unsaved'), [Next]_vars
    PROVE  CacheInv'
<1>1. /\ direct \in [Calls -> 0..MaxTime]
      /\ \A c \in Calls : InRow(c) \/ c \in unsaved \/ \E t \in Transports : AtWork(t, c)
  BY DEF HeardInv, CacheInv, InRow, AtWork
<1>2. DOMAIN observer = Transports /\ now \in 0..MaxTime
      /\ \A t \in Transports : observer[t] # Idle =>
            observer[t].frame \in Frames /\ observer[t].ts \in 0..now
  BY DEF HeardInv, ObserversInv
<1>3. SUFFICES /\ direct' \in [Calls -> 0..MaxTime]
               /\ \A c \in Calls : \/ InRow(c)' \/ c \in unsaved'
                                   \/ \E t \in Transports : AtWork(t, c)'
  BY <1>3 DEF CacheInv, InRow, AtWork
<1>4. ASSUME NEW c \in Calls, InRow(c), direct'[c] = direct[c], c \notin unsaved'
      PROVE  InRow(c)'
  <2>1. PICK k \in Keys : direct[c] <= db.rows[c][k].direct
    BY <1>4 DEF InRow
  <2>2. db.rows[c][k].direct <= db'.rows[c][k].direct
    BY <1>4 DEF Remembers
  <2>3. direct[c] \in Nat /\ db.rows[c][k].direct \in Nat /\ db'.rows[c][k].direct \in Nat
    <3>1. db.rows[c][k] \in Row /\ db'.rows[c][k] \in Row
      BY DirectTypes DEF DbInv, Sound, TablesType
    <3>. QED  BY <1>1, <3>1, TimesAssumption DEF Row, TimesAssumption
  <2>4. direct'[c] <= db'.rows[c][k].direct
    BY <1>4, <2>1, <2>2, <2>3
  <2>. QED  BY <2>4 DEF InRow
<1>5. ASSUME direct' = direct, unsaved \subseteq unsaved',
             \A t \in Transports, c \in Calls : AtWork(t, c) => AtWork(t, c)' \/ c \in unsaved'
      PROVE  /\ direct' \in [Calls -> 0..MaxTime]
             /\ \A c \in Calls : \/ InRow(c)' \/ c \in unsaved'
                                 \/ \E t \in Transports : AtWork(t, c)'
  BY <1>1, <1>4, <1>5
<1>6. CASE \E t \in Transports, f \in Frames : Receive(t, f)
  <2>1. PICK t \in Transports, f \in Frames : Receive(t, f)
    BY <1>6
  <2> DEFINE o == [frame |-> f, ts |-> now]
  <2>2. /\ observer[t] = Idle /\ observer' = [observer EXCEPT ![t] = o] /\ unsaved' = unsaved
        /\ direct' = IF Direct(f) THEN [direct EXCEPT ![f.src] = now] ELSE direct
    BY <2>1 DEF Receive
  <2>3. f.src \in Calls
    BY FrameFacts
  <2>4. direct' \in [Calls -> 0..MaxTime]
    BY <1>1, <1>2, <2>2, <2>3
  <2>5. ASSUME NEW c \in Calls
        PROVE  InRow(c)' \/ c \in unsaved' \/ \E s \in Transports : AtWork(s, c)'
    <3>1. CASE Direct(f) /\ c = f.src
      <4>1. o # Idle /\ o.frame = f /\ o.ts = now
        BY BusyIsNotIdle
      <4>2. direct'[c] = now /\ observer'[t] = o /\ now <= now
        BY <1>1, <1>2, <2>2, <3>1, TimesAssumption DEF TimesAssumption
      <4> HIDE DEF o
      <4>3. AtWork(t, c)'
        BY <3>1, <4>1, <4>2 DEF AtWork, Direct, Star
      <4>. QED  BY <4>3
    <3>2. CASE ~(Direct(f) /\ c = f.src)
      <4>1. direct'[c] = direct[c]
        BY <1>1, <2>2, <2>3, <3>2
      <4>2. \A s \in Transports : AtWork(s, c) => AtWork(s, c)'
        BY <1>2, <2>2, <4>1 DEF AtWork, Direct, Star
      <4>. QED  BY <1>1, <1>4, <2>2, <4>1, <4>2
    <3>. QED  BY <3>1, <3>2
  <2>. QED  BY <2>4, <2>5
<1>7. CASE \E t \in Transports : Commit(t)
  <2>1. PICK t \in Transports : Commit(t)
    BY <1>7
  <2> DEFINE o == observer[t]
  <2>2. /\ observer' = [observer EXCEPT ![t] = Idle] /\ direct' = direct
        /\ unsaved' = IF Direct(o.frame) /\ o.ts >= direct[o.frame.src]
                      THEN unsaved \ {o.frame.src} ELSE unsaved
    BY <2>1 DEF Commit
  <2>3. /\ o # Idle /\ o.frame.src \in Calls
        /\ Direct(o.frame) => o.ts <= db'.rows[o.frame.src][t].direct
    BY <2>1, CommitWrites
  <2>4. direct' \in [Calls -> 0..MaxTime]
    BY <1>1, <2>2
  <2>5. PICK b \in Calls : b = o.frame.src
    BY <2>3
  <2>6. Direct(o.frame) /\ direct[b] <= o.ts => InRow(b)'
    <3>1. SUFFICES ASSUME Direct(o.frame), direct[b] <= o.ts
                   PROVE  direct'[b] <= db'.rows[b][t].direct
      BY KeyFacts DEF InRow
    <3>2. db'.rows[b][t] \in Row
      BY KeyFacts DEF DbInv, Sound, TablesType
    <3>3. /\ direct[b] \in Nat /\ o.ts \in Nat
          /\ db'.rows[b][t].direct \in Nat
      BY <1>1, <1>2, <2>3, <3>2, TimesAssumption DEF Row, TimesAssumption
    <3>. QED  BY <2>2, <2>3, <2>5, <3>1, <3>3
  <2>7. direct[b] \in Nat /\ o.ts \in Nat
    BY <1>1, <1>2, <2>3, TimesAssumption DEF TimesAssumption
  <2>8. ASSUME NEW c \in Calls
        PROVE  InRow(c)' \/ c \in unsaved' \/ \E s \in Transports : AtWork(s, c)'
    <3>1. CASE InRow(c)
      BY <1>4, <2>2, <3>1
    <3>2. CASE c \in unsaved
      BY <2>2, <2>6, <2>7, <2>5, <3>2
    <3>3. CASE \E s \in Transports : AtWork(s, c)
      <4>1. PICK s \in Transports : AtWork(s, c)
        BY <3>3
      <4>2. CASE s = t
        BY <2>6, <2>5, <4>1, <4>2 DEF AtWork
      <4>3. CASE s # t
        <5>1. observer'[s] = observer[s]
          BY <1>2, <2>2, <4>3
        <5>2. AtWork(s, c)'
          BY <2>2, <4>1, <5>1 DEF AtWork, Direct, Star
        <5>. QED  BY <5>2
      <4>. QED  BY <4>2, <4>3
    <3>. QED  BY <1>1, <3>1, <3>2, <3>3
  <2>. QED  BY <2>4, <2>8
<1>8. CASE \E t \in Transports : Fail(t)
  <2>1. PICK t \in Transports : Fail(t)
    BY <1>8
  <2>2. /\ observer' = [observer EXCEPT ![t] = Idle] /\ direct' = direct
        /\ unsaved' = IF Direct(observer[t].frame) THEN unsaved \cup {observer[t].frame.src}
                      ELSE unsaved
    BY <2>1 DEF Fail
  <2>3. ASSUME NEW s \in Transports, NEW c \in Calls, AtWork(s, c)
        PROVE  AtWork(s, c)' \/ c \in unsaved'
    <3>1. CASE s = t
      BY <2>2, <2>3, <3>1 DEF AtWork
    <3>2. CASE s # t
      <4>1. observer'[s] = observer[s]
        BY <1>2, <2>2, <3>2
      <4>. QED  BY <2>2, <2>3, <4>1 DEF AtWork, Direct, Star
    <3>. QED  BY <3>1, <3>2
  <2>. QED  BY <1>5, <2>2, <2>3
<1>9. CASE Restart
  <2>1. direct' = [c \in Calls |-> Stored(db, c)] /\ db' = db
    BY <1>9 DEF Restart
  <2>2. direct' \in [Calls -> 0..MaxTime]
    BY <2>1, StoredFacts
  <2>3. ASSUME NEW c \in Calls PROVE InRow(c)'
    <3>1. PICK k \in Keys : Stored(db, c) = db.rows[c][k].direct
      BY StoredFacts
    <3>2. Stored(db, c) <= Stored(db, c)
      BY StoredFacts, TimesAssumption DEF TimesAssumption
    <3>. QED  BY <2>1, <3>1, <3>2 DEF InRow
  <2>. QED  BY <2>2, <2>3
<1>10. CASE Request
  <2>1. observer' = observer /\ direct' = direct
    BY <1>10, StatementLeaves
  <2>2. unsaved \subseteq unsaved'
    BY <1>10, RequestWrites
  <2>3. \A t \in Transports, c \in Calls : AtWork(t, c) => AtWork(t, c)'
    BY <2>1 DEF AtWork, Direct, Star
  <2>. QED  BY <1>5, <2>1, <2>2, <2>3
<1>11. CASE Statement \/ Tick \/ UNCHANGED vars
  <2>1. observer' = observer /\ direct' = direct /\ unsaved' = unsaved
    BY <1>11 DEF Statement, Begin, Hop, RefreshReads, RefreshSets, Tick, vars
  <2>2. \A t \in Transports, c \in Calls : AtWork(t, c) => AtWork(t, c)'
    BY <2>1 DEF AtWork, Direct, Star
  <2>. QED  BY <1>5, <2>1, <2>2
<1>. QED  BY <1>6, <1>7, <1>8, <1>9, <1>10, <1>11, StepKinds
-----------------------------------------------------------------------------
\* The theorems

LEMMA InitHeardInv == Init => HeardInv
<1>. SUFFICES ASSUME Init PROVE HeardInv
  OBVIOUS
<1>1. /\ now = GraceSeconds + 1 /\ observer = [t \in Transports |-> Idle] /\ txn = NoTxn
      /\ direct = [c \in Calls |-> 0] /\ kanode = [c \in Calls |-> Nobody]
      /\ refresh = [e \in 1..MaxOthers |-> NoRefresh]
  BY DEF Init
<1>2. ObserversInv
  BY <1>1, TimesAssumption DEF ObserversInv, TimesAssumption
<1>3. MapsInv
  BY <1>1 DEF MapsInv, NoRefresh
<1>4. TxnInv
  BY <1>1 DEF TxnInv
<1> DEFINE aliasOf == [c \in Calls |-> Nobody]
           rows == [c \in Calls |-> [k \in Keys |-> NoRow]]
<1>5. db = [stations |-> {}, aliasOf |-> aliasOf, rows |-> rows, paths |-> {},
            entities |-> {}, maxAge |-> MaxAge]
  BY DEF Init
<1>6. 0 \in 0..MaxTime
  BY TimesAssumption DEF TimesAssumption
<1>7. NoRow \in Row
  BY <1>6 DEF Row, NoRow
<1>8. aliasOf \in [Calls -> Calls \cup {Nobody}] /\ rows \in [Calls -> [Keys -> Row]]
  BY <1>7
<1>9. \A c \in Calls, k \in Keys : rows[c][k] = NoRow
  OBVIOUS
<1> HIDE DEF aliasOf, rows
<1>10. /\ IsTables(db) /\ db.stations = {} /\ db.aliasOf = aliasOf /\ db.rows = rows
       /\ db.paths = {} /\ db.entities = {} /\ db.maxAge = MaxAge
  BY <1>5 DEF IsTables
<1>11. TablesType(db)
  BY <1>8, <1>10 DEF TablesType
<1>12. RowsInv(db)
  <2>1. \A c \in Calls, k \in Keys : RowOK(c, k, NoRow)
    BY <1>2, NoRowOK
  <2>. QED  BY <1>9, <1>10, <2>1 DEF RowsInv
<1>13. PathsInv(db)
  BY <1>10 DEF PathsInv, PathsFit
<1>14. DbInv
  BY <1>10, <1>11, <1>12, <1>13 DEF DbInv, Sound
<1>15. CacheInv
  <2>1. direct \in [Calls -> 0..MaxTime]
    BY <1>1, <1>6
  <2>2. \A c \in Calls : \E k \in Keys : direct[c] <= db.rows[c][k].direct
    BY <1>1, <1>9, <1>10, KeyFacts, NoRowFacts
  <2>. QED  BY <2>1, <2>2 DEF CacheInv
<1>. QED  BY <1>1, <1>2, <1>3, <1>4, <1>14, <1>15 DEF HeardInv

\* What on_heard(), on_netrom_nodes() and the sysop's requests of routes/heard.py
\* leave each other in the tables, the open transaction and the cache.
THEOREM HeardInvariant == Spec => []HeardInv
<1>1. Init => HeardInv
  BY InitHeardInv
<1>2. HeardInv /\ [Next]_vars => HeardInv'
  <2>. SUFFICES ASSUME HeardInv, [Next]_vars PROVE HeardInv'
    OBVIOUS
  <2>1. ObserversInv' /\ DOMAIN observer' = Transports /\ Onward
    BY ObserversKept DEF HeardInv
  <2>2. MapsInv'
    BY MapsKept DEF HeardInv
  <2>3. DbInv' /\ Remembers(db', unsaved')
    BY <2>1, DbKept
  <2>4. TxnInv'
    BY <2>1, TxnKept
  <2>5. CacheInv'
    BY <2>1, <2>3, CacheKept
  <2>. QED  BY <2>1, <2>2, <2>3, <2>4, <2>5 DEF HeardInv
<1>. QED  BY <1>1, <1>2, PTL DEF Spec

\* After every commit of the heard plugin a call has a station row exactly when
\* it has an event row, so that a listing prints what the menu counts, up to its
\* limit; a path's source was heard on the path's transport, and every station has its
\* entity (on_heard, heard_update, heard_delete_station, _prune).
THEOREM TablesAreSound == Spec => []TablesSound
<1>1. HeardInv => TablesSound
  <2>. SUFFICES ASSUME HeardInv PROVE TablesSound
    OBVIOUS
  <2>1. TablesType(db) /\ RowsInv(db) /\ PathsInv(db) /\ Covered(db)
    BY DEF HeardInv, DbInv, Sound, Covered
  <2>2. TypeOK
    <3>1. \A c \in Calls, k \in Keys :
             /\ db.rows[c][k].source \in {"none", "heard", "via", "netrom"}
             /\ db.rows[c][k].direct \in 0..MaxTime /\ db.rows[c][k].last \in 0..MaxTime
      BY DirectTypes DEF Row
    <3>2. /\ txn # NoTxn => txn.by \in Transports /\ observer[txn.by] # Idle
          /\ direct \in [Calls -> 0..MaxTime]
          /\ kanode \in [Calls -> Calls \cup {Nobody}]
      BY DEF HeardInv, TxnInv, CacheInv, MapsInv
    <3>. QED  BY <2>1, <3>1, <3>2 DEF TypeOK, TablesType
  <2>3. \A c \in Calls : c \in db.stations <=> \E k \in Keys : db.rows[c][k] # NoRow
    BY <2>1 DEF RowsInv
  <2>4. ASSUME NEW l \in Listings(db)
        PROVE  /\ l \subseteq Counted(db)
               /\ Cardinality(Counted(db)) <= ListLimit => l = Counted(db)
    <3> DEFINE found == {c \in db.stations : HeardOnAir(db, c)}
    <3>1. Counted(db) = found
      BY <2>1, <2>3, NoRowFacts DEF Counted, HeardOnAir, TablesType
    <3>2. l \in IF Cardinality(found) <= ListLimit THEN {found}
                ELSE {x \in SUBSET found : Cardinality(x) = ListLimit}
      BY DEF Listings
    <3> HIDE DEF found
    <3>. QED  BY <3>1, <3>2
  <2>. QED  BY <2>1, <2>2, <2>3, <2>4 DEF TablesSound, PathsInv, PathsFit, Covered
<1>. QED  BY <1>1, HeardInvariant, PTL

\* _load_direct_heard() finds what the cache had, but for a hearing that is being
\* written, could not be, or was erased: on_heard() may set the cache first.
THEOREM CacheIsBacked == Spec => []CacheBacked
<1>1. HeardInv => CacheBacked
  <2>. SUFFICES ASSUME HeardInv, NEW c \in Calls
                PROVE  \/ direct[c] <= Stored(db, c)
                       \/ c \in unsaved
                       \/ \E t \in Transports : observer[t] # Idle /\ observer[t].frame.src = c
    BY DEF CacheBacked
  <2>1. ASSUME NEW k \in Keys, direct[c] <= db.rows[c][k].direct
        PROVE  direct[c] <= Stored(db, c)
    <3>1. db.rows[c][k].direct <= Stored(db, c) /\ Stored(db, c) \in 0..MaxTime
      BY StoredFacts
    <3>2. direct[c] \in 0..MaxTime /\ db.rows[c][k].direct \in 0..MaxTime
      BY DirectTypes DEF HeardInv, CacheInv, Row
    <3>. QED  BY <2>1, <3>1, <3>2, TimesAssumption DEF TimesAssumption
  <2>. QED  BY <2>1 DEF HeardInv, CacheInv
<1>. QED  BY <1>1, HeardInvariant, PTL

\* The three tiers of on_heard() call a digipeater heard for the grace period and
\* the time an observer may wait, whichever of two observers commits first.
THEOREM HeardWasRecent == Spec => []HeardIsRecent
<1>1. HeardInv => HeardIsRecent
  <2>1. HeardInv => \A c \in Calls : RowOK(c, NoPort, db.rows[c][NoPort])
    BY KeyFacts DEF HeardInv, DbInv, Sound, RowsInv
  <2>. QED  BY <2>1 DEF RowOK, HeardIsRecent
<1>. QED  BY <1>1, HeardInvariant, PTL
=============================================================================
