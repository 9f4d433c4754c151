# A verification project for bbs2

bbs2 is an amateur-radio bulletin board in Python: stations connect over AX.25
(through the Direwolf packet engine, a KISS TNC or the Linux kernel), over TCP
or from a browser; the board is also a NET/ROM node that carries circuits of
other nodes and opens circuits of its own. Everything but the web server runs
as coroutines and callbacks on one asyncio event loop.

This directory holds TLA+ models of the parts whose correctness depends on the
order of events, the TLC configurations that check them on small instances, and
proofs, checked by TLAPS, of the properties that matter most.

An atomic step of every model is one callback, or what a coroutine does between
two suspensions: asyncio runs nothing else in between. A blocking `await` is
two actions with anything possible between them.

## 1. The system

| Component | Source (`src/bbs/`) | State | Operations | Hard behaviour | What makes it correct |
|---|---|---|---|---|---|
| Circuit manager | `netrom/circuit.py` 684-1088 | circuits by local and by remote key, indices in use, session tasks, idle timer | dispatch of six frame kinds, originate, reap, shutdown | frames, timers, cancelled callers and link loss in any order; one circuit removed twice | no index leaks or is shared, the idle timer runs iff there is no circuit, every half-closed circuit has a guard |
| Circuit transfer | `netrom/circuit.py` 180-680 | queue, V(S), V(A), V(R), reassembly buffer | write, drain, INFO, INFO ACK, close | several tasks drain one queue; one-byte counters wrap; the peer retransmits | fragments arrive once and in order, the window holds, no writer sleeps for ever |
| AGWPE transport | `transport/agwpe.py` | sessions, session tasks, pending connects, one TCP connection | dispatch, session task, promotion, connect_out, reconnect | a station reconnects before its old session has ended; several callers share a connect; TCP drops | each link has one owner, the router knows the live crosslinks, every call returns |
| Router | `netrom/router.py` | three routes per destination, neighbours, crosslinks, direct hearings | NODES frames, decay, persist, seed | rounding, table limits, two stores in flight, routers that tell each other of a node that has gone | best routes kept, none made permanent by the decay, a restart finds the best again |
| Node and gateway | `netrom/node.py`, `netrom/gateway.py`, `plugins/node/node.py` | slots in use, connect rates, live sessions | `C`, bridge, `BYE` | a slot is held over many awaits | a slot is given back on every path that ends; caps hold; no circuit without a session |
| Engine and sessions | `core/engine.py`, `core/session.py`, `src/server/websocket/handlers.py` | sessions and tasks by id, web sessions | admission, run, watchdog, node landing, browser terminal | cancellation at every await; a second thread | `max_users` holds, whoever has gone leaves the tables |
| Services | `services/` | running service sessions | match, spawn, bridge, teardown | process, pumps and idle timer race | no process outlives its session |
| Authentication | `core/auth.py`, `db/users.py`, `src/server/routes/users.py` | failures, lockout, HOTP counter in SQLite | identify, verify_otp, the sysop's edits | read, await, write | a code is good once; the lockout comes |
| Chat | `plugins/chat/chat.py`, `src/server/routes/chat.py` | rooms, member queues, held messages, history | join, leave, say, whisper, delete room | two sessions of a callsign; full queues; deletion under members | a member sits where its session is; whoever lost its room is told; a held whisper is shown |
| Bulletins | `plugins/bulletins/bulletin.py`, `src/server/routes/bulletins.py` | areas, messages, receipts in SQLite | post, read, delete, create and delete areas | long dialogues between look-up and insert; the area may go meanwhile | a number names one message of an area; no orphans but late posts; nobody keeps the write lock |
| Heard | `plugins/heard/heard.py`, `src/server/routes/heard.py` | stations, events, paths and entities in SQLite, the direct-heard cache, the alias map | frames, NODES broadcasts, prune, the sysop's edits | observers of several transports overlap; a cache ahead of its table | the tables agree; the cache survives a restart; "heard" means heard |
| Event bus | `core/event_bus.py` | subscribers | publish, subscribe | subscribers run concurrently and may fail | one that fails stops no other |
| Display, info, lastconn | `plugins/` | text, a list | pages | hardly any | - |
| Terminal | `core/terminal.py` | output buffer | flush, readline | write timeout | modelled where the transfer and the engine meet it |
| Other transports | `transport/{base,kiss,kernel_ax25,tcp}.py` | one connection per task | accept, read, write | hardware | - |
| Codecs | `ax25/` | none | encode, decode | none | round trips |
| Start-up | `config.py`, `main.py`, `db/schema.py` | configuration | read, create | none | - |
| Web server | `src/server/` | - | HTTP, websocket | threads of their own, with connections of their own | its requests are actions of the modules they change |

How they interact. The AGWPE transport owns the links. It hands a new user
connection to the engine, which decides between the node, an external service
and a BBS session; it hands NET/ROM frames of a crosslink to that link's circuit
manager, which starts a session in the engine for each inbound circuit. The node's
`C` command asks the router for a neighbour, the gateway guard for a slot, the
transport for a crosslink (`connect_out`) and the crosslink's manager for a
circuit (`originate_circuit`), and then copies bytes both ways. The transport tells
the router which crosslinks are up (`note_crosslink`), hands it NODES frames, and
awaits the heard plugin for every frame it monitors; the heard plugin pushes direct
hearings to the router. Plugins run inside a session and talk to each other through
module state, SQLite and the event bus; the web server's threads change the same
tables on connections of their own.

## 2. Modules

| Module | What it is |
|---|---|
| `NetromCircuitManager` | the circuit manager of one crosslink |
| `ReliableStream` | what a circuit promises: fragments in order, at most once, at most a window ahead |
| `CircuitTransfer` | both ends of one circuit with their writers and the crosslink; implements `ReliableStream` |
| `AgwpeTransport` | the transport's tables, dispatcher, session tasks, connect_out callers and TCP connection |
| `NetromRouter` | the routers of a small network and the NODES broadcasts between them |
| `NodeGateway` | users at the node prompt, the gateway guard they share, their circuits and bridges |
| `BbsEngine` | BBS sessions, browser terminals, external programs and node landings, from arrival to departure |
| `AuthService` | identification, code verification and the sysop's edits of one account |
| `ChatRooms` | rooms, members, inboxes, whispers, room deletion and stored history |
| `Bulletins` | areas, messages, receipts and SQLite's write lock |
| `Heard` | the heard tables, their observers, the cache and the sysop's requests |
| `MC*` | constants and symmetry for TLC |
| `*Proofs` | theorems with their lemmas |

### NetromCircuitManager

The dictionaries `_by_local_key`, `_by_remote_key` and `_user_tasks` are sets of
circuits (`byLocal`, `byRemote`, `userTasks`); that two circuits under equal keys
would be confused by a dictionary is kept: `SameLocal` and `DropRemoteKey` remove
whatever shares the key, an insertion replaces it. `state`, `local`, `remote`,
`usedIdx`, `nextId`, `idleArmed`, `closed` are the fields of the same names;
`guarded` and `wclosing` are the circuits with a guard timer and a closed writer;
`user` is where the session task or the originator's coroutine is. There is an
action per frame kind, per step of those coroutines, per timer, and for the
loss of the link. A full table makes `_handle_connect_request` send a refusal and
change nothing, so that branch has no action; the originator's full table does
cancel the idle timer (`OriginateTableFull`).

What a peer and a caller may do beyond the orderly case is a constant, `Events`: repeat
a CONNECT REQ, send a DISC ACK nobody asked for, be cancelled. Without the
second, `discOwed` remembers which circuits have a DISC REQ unanswered, so that a
DISC ACK comes only for one of those. Not modelled: the window negotiation, the
bytes of a frame, forwarding of frames for other nodes.

### CircuitTransfer and ReliableStream

A fragment is named by its position in its sender's stream and carries its
MORE_FOLLOWS flag; its payload is left out. Counters do not wrap in the state, but
everything the code compares is a byte, and every comparison in the model goes
through `VS`, `VA`, `VR`, the counts modulo `Modulus`. A task in `drain()` is at the
top of its loop, blocked on the window event, or woken from it. The channel is
FIFO, as AX.25 is; an end of another make may retransmit. The abstract state of
`ReliableStream` is part of the concrete one (`sent`, `delivered`), so the refinement
mapping is the identity on them.

`delivered` counts fragments taken over, before reassembly: a message that overflows the
reassembly buffer is acknowledged and dropped there, as in the code. Left out: once the crosslink itself is closing, `_send_l3` drops
what the circuit sends (circuit.py:343-348); the circuit is closed with it.

### AgwpeTransport

`sessions`, `tasks` and `pending` are the three dictionaries keyed by station;
`noted` is what the router was told; the flags of a session and its writers are
sets of sessions. The packet engine is a link per station and a queue of frames to
us; a 'd' we write takes the link down and comes back as a 'd'. `onWire` are the
sessions of the present TCP connection: older ones write into a closed socket. A
user session's task starts, runs, closes its connection and ends, with the
cancellation semantics of asyncio: a task cancelled before it started never runs;
one that runs swallows the cancellation, says farewell and closes. A caller of
`connect_out` suspends in the socket's drain, on its own future or on another's.
`TcpLost` and `TcpCleanup` are two actions because `start()` awaits its beacon tasks
and the socket in between. `connect_out` may name any station, one that is connected as a user included. Two
history variables remember what then happens: `displaced`, the sessions whose entry an outbound confirmation
took over, and `spared`, those that stayed in the table as a 'd' was taken for the refusal of a connect.

Abstracted: the engine's session is one step (`TaskCloses`, detailed in
`BbsEngine`); the circuit manager only lives, closes its link or is shut down.
Beacons change none of these tables; monitored frames are `Heard`'s, NODES broadcasts
`NetromRouter`'s.

### NetromRouter

`routes` is `_routes` of every router: a sequence per destination, best first, of
records with the neighbour it goes by, the key it is stored under, the quality and the
obsolescence count. `RouteQuality`, `Upsert`, `Decayed`, `Snapshot` and `Seeded` are the pure parts
of `_route_quality`, `_upsert_route`, `decay_obsolescence`, `persist` and `seed_from_db`;
`Upsert` is also compared with its specification over all small inputs
(`UpsertKeepsBest`, an assumption of `MCNetromRouter` that TLC evaluates). `Picked` stands for the comprehensions
that keep some elements of a list in their order, and the loop over the entries of a broadcast is the recursive function in
`ProcessNodes`. A broadcast reaches any of the routers in earshot, each of which processes it in one
step; `saving` holds the snapshots that the two tasks which persist have taken and not yet stored, so
that an older one may be stored last. Leaves are nodes of other software that
broadcast any of the lists they are given. Abstracted: aliases, the wall clock, operator
locks, which no code sets.

### NodeGateway

A session walks from `Enter` through the prompt to `Reserve` (guard and slot), `Told`, `Linked`
(the crosslink), `Originated` (the circuit), `Announced` and the bridge; at each await it may fail or
be cancelled, and `Unwind` is the chain of `finally` clauses that follows. `far` is the session's last circuit
in its manager's table, which outlives a session that is cancelled while it waits for the CONNECT ACK (`originate_circuit`
catches `TimeoutError` alone) or announces the circuit: `interrupted`. A CONNECT ACK may come then, too (`FarAnswers`).

On the bridge, `pump` is what the pump to the far end does: wait for the user, hold what was typed, or await the
circuit's `drain()`, which nothing bounds. Either pump ends at an end of file (`PumpsEnd`) or by an exception of a write to the
user (`PumpsFail`), or both in one round of the event loop; the session takes the user to be gone iff the pump to the far end is among those
that have ended (node.py:626). `lost` are the sessions that wait for a connect nobody will answer, see `Abandoned` below.
`activeTotal`, `activePerUser` and `recent` are the guard's counters. Abstracted: the commands
that only print, the routing look-up and the access lists, which may decide either way.

### BbsEngine

`pc` names the await a connection's task is at: of `_on_connection`, `_run_session` and
`BBSSession.run`, of `_run_external_service` and `run_service`, or of `_run_node_native`. `sessions`,
`tasks`, `guests` and `webMap` are the dictionaries; the websocket handler's steps are actions
of their own, since it runs in a thread (`handler`, `webSessions`, `drains`, `sentinels`). A
cancellation may meet every await; `struck` remembers the ones that no `try` protects. What is said in a
session is one await.

### AuthService

One callsign, several sessions, one action per SQL statement of `identify`,
`verify_otp`, `record_auth_failure` and `increment_hotp_counter`, interleaved with the sysop's
requests. A code is right for one position of one secret or wrong for all. The sysop's secret is a new one or any that was
provisioned before, and the counter starts again with it. `guesses`, `granted` and `stale` are history: wrong codes since
the last reset, codes that gave access, and the calls under way whose right code was compared before another one gave access.

### ChatRooms

A room object is a name and the number of rooms of that name deleted before it, since a
session may hold an object that is no longer in the registry. `box` is the queue, `reader` the
second task of a session, which ends by a sentinel ("done") or, a write to the terminal having failed, by
an exception ("failed"); `rows` and `held` the whispers read from the table and those in it. An exit
runs the `finally` clause, which leaves the *first* room.

### Bulletins

A session is its place in a dialogue (`pc`, `area`, `draft`) and a connection, of which one may hold the write lock
(`writer`). Ids are given out once, as AUTOINCREMENT does. Deleting an area is a request of the web interface
(`WebDeletes`, with the cascade that its pragma enforces): the sysop's own dialogues for editing, killing and choosing the default
fail as they show the index of areas (`ShowsAreas`, see below), so that of his menu only `Creates` changes anything. A message that was posted after its area had gone is `late`. A private
message from chat goes to the area chat asks for (`MsgArea`), if it exists. Texts, listings and unread counts are left out.

### Heard

`db` is what is committed: `stations`, the events (`rows`), `paths`, `entities` and aliases. An
observer (`observer[t]`) updates the cache at once, then works on tables of its own (`txn`) under
the write lock, a hop per step because the alias map may be replaced in between, and commits.
`direct` is the cache, `kanode` the map, `refresh` what the event loop still has to do for a request of the sysop: refreshes of
the map, and the second save of the maximal age. `Listings` are what a listing may print, which is cut off at `ListLimit`
(the setting `limit`, 200 by default), while the menu counts them all. A frame that fails (`Fail`) is dropped; AGWPE goes on, a
KISS transport is stopped for good by it, which is the same as hearing no more.
Callsigns carry a base callsign; positions, signal levels, beacon texts and counts are data carried
along by the same statements. Not modelled: the schema migrations, the map.

## 3. Runs

Every property has a mutant, a plausible mistake in one mapped definition, under
which TLC finds it violated; the mutated forms stand next to the definitions.

| Run | Checks | Bounds |
|---|---|---|
| `NetromManager` | types, `NoIndexLeak`, `IdleTimerExact`, `HalfClosedGuarded`, `SessionReachable`, all events allowed | 3 circuits, 2 indices, 2 remote keys |
| `NetromManagerQuiet` | `IdleLinkReleased`, `DisconnectCompletes` under fairness | 2 circuits |
| `CircuitTransfer` | types, `WindowRespected`, `NothingAfterDiscReq`, `ImplementsStream`, `DrainReturns` under fairness | two writers against one, 4 fragments, modulus 3, window 2, 1 retransmission |
| `AgwpeTransport` | `CrosslinkNoted`, `UserReachable`, `OneManager`, `NoStaleAnswer`, callers may be cancelled and may name a connected user | 1 station, 2 sessions, 2 callers, 2 frames in the queue |
| `AgwpeConnect` | `CallersReturn`, `DeadSessionLeaves` under fairness, callers may be cancelled | 1 station, 1 session, 2 callers |
| `NetromRouter` | `RoutesWellFormed`, `SnapshotFaithful`, `NoBetterThanLink`, `NoBetterDropped` | 2 routers, 2 leaves, one of which tells of a way to the other, 2 routes per destination, 1 restart |
| `NodeGateway` | `SlotsExact`, `CircuitsAccounted`, `SlotsReturn` under fairness | 2 sessions of 1 user, 2 neighbours, cap 1 per user |
| `BbsEngine` | `TablesTrue`, `GuestsTornDown`, `EveryoneLeaves` under fairness | 2 of 6 connections arrive, caps 1, 1 cancellation each |
| `AuthService` | `LockoutHolds`, `CodeOnce`, former secrets may come back | 2 sessions, 2 secrets, 2 positions, 2 accounts, 2 attempts |
| `ChatRooms` | `MembershipTrue`, `DeletionTold`, `HeldShown` | 2 sessions, 2 rooms, queues of 2, 1 whisper, 1 deletion, 1 restart |
| `Bulletins` | `BoardSound`, `OrphansAreLate`, `LockNotKept` | 1 session after another beside the web, 2 areas, 2 messages |
| `Heard` | `TablesSound`, `CacheBacked`, `HeardIsRecent` | 2 transports, 3 callsigns, 3 frames, 5 seconds, 1 request, failure or restart, listings of 1 |

Why the bounds are enough. Two indices and three circuits let an index be freed, taken
by another circuit and freed again by the first, and let the table fill up. One of
the remote keys is (0, 0), the key of a circuit that is not yet accepted. With modulus
3 and window 2, the largest window, three fragments wrap a counter; the first
message fills the reassembly buffer. A station's entries never touch another's, apart from the
TCP loss, which clears them all: one station shows every interleaving on its key, two
sessions a reconnect or a promotion over an old session, two callers a coalesced
connect. Of the routers, A may know the leaf L directly, by B and by M, three neighbours for lists of two, so that lists
overflow; `UpsertKeepsBest` compares the same step with its specification over all small lists. Link qualities of 64, one of 128,
keep the number of composed qualities small; the theorems hold for any. Gateway sessions share only
the guard's counters, and two sessions of one user are enough to meet at the cap of a user; the other cap is tested and taken by
the same statements. In the engine, any two connections of
the four kinds meet at caps of 1; longer arrivals only repeat them. Every race of the account is between
two reads and two writes. A chat queue of 2 overflows with a notice and a line; two sessions of one
or of two callsigns, in two rooms, show both kinds of rivalry. One dialogue on the board runs beside any
number of web requests, which are what deletes areas under it. Two observers and three frames let an older mention commit
last. The proofs hold for any number.

`CHECK_DEADLOCK FALSE` everywhere: the objects a model may create are finite, so it
stops when they are used up, and a board nobody calls does nothing.

Fairness. Timers that are due run, a coroutine whose wait is over resumes, frames
received are dispatched: the event loop guarantees all three, so these actions are
weakly fair. For `connect_out` the wait in the socket's `drain()` is taken to end, by
returning or raising, as it does unless the packet engine stops reading while it
keeps the connection open. `DrainReturns` assumes that the crosslink delivers what it
carries; a peer that never acknowledges is the business of the terminal's write
timeout. In `BbsEngine` every await that is fair has a timeout in the code: the terminal's write, the grace times
of the teardown, SQLite's own. In `NodeGateway` the connect and the circuit have one, but not two other awaits, which are not
fair: of a caller that joined an abandoned connect (`JoinsAbandoned`), and of the circuit's `drain()` on a bridge, which waits for the window
(circuit.py:228) and is only sure to return when the circuit closes. Sends to a user are fair once the user has gone: they go
into a buffer or fail. Nothing is
assumed of users, peers, programs or the radio: no fairness on leaving, answering, connecting, ending, or losing the link.
A thread of the web server runs when it can.

### Exceptions in the properties

Some properties name what they do not promise, and each exception is something the code does:

- `CallersReturn`: `Abandoned`. A caller cancelled in the socket's `drain()` leaves its future in
  `_pending_connects`; a caller that joined it has no timeout and waits until the station answers or TCP drops.
- `UserReachable`, `OneManager`: `displaced`. An outbound confirmation for a station that is connected as a user replaces
  the entry without ending the session (agwpe.py:1011), which goes on where no frame and no cleanup reaches it.
- `DeadSessionLeaves`: `spared`. While a connect to the station is pending, the 'd' of its own link is taken for the refusal
  (agwpe.py:1167-1190), and the session stays in the table.
- `CircuitsAccounted`: `interrupted`. A cancellation while `originate_circuit` waits (circuit.py:930-949), or a cancellation or
  write timeout at `sendln("*** Connected ...")` (node.py:491), leaves the circuit in its manager's table without a session.
- `SlotsReturn`: `Held`. A slot is kept for ever by a session that joined an abandoned connect, and by one whose bridge sends
  to a far end that never acknowledges, whether or not the user is still there.
- `TablesTrue`, `GuestsTornDown`, `EveryoneLeaves`: `struck`, a cancellation while `session.connected` is
  published (engine.py:503) or inside the teardown of a service.
- `EveryoneLeaves`: `Spins`. A session whose input ends in the chat loop goes round that loop for ever
  (chat.py:608); the comment in `_main_loop` (session.py:445) asks the opposite of every prompt (`NoPromptSpins`).
- `LockoutHolds`: `Budget` is (max + 1)(max + 2)/2 - 1 for two sessions: 5 with the two attempts of the run, 9 with the three that
  are the default. It is reached: failures recorded from counts read side by side overwrite each other.
- `CodeOnce`: `stale`, a call that compared its code before another one gave access, may use the same code, and puts the
  counter back when it is done, after which a code that gave access does so again, to anybody; and so it does once the sysop has set
  the same secret again (routes/users.py:207-221). The call of a session whose account is deleted meanwhile still gives access.
- `MembershipTrue`, `DeletionTold`: a second session of a callsign (`Rival`), and `/JOIN` before leaving.
- `HeldShown`: a cut between the deletion of held whispers and their printing; and `Rival` again, when a session's own
  deletion fails after another of its callsign had deleted the same rows.
- `DeletionTold`: `missed`, a queue that was full; and a reader that ended by an exception.
- `OrphansAreLate`: `late`, a post to an area deleted during the dialogue. `LockNotKept` excepts the sysop, whose refused
  INSERT leaves its transaction open.
- `CacheBacked`: `unsaved`; `HeardIsRecent`: `absorbed`, because a merge keeps the owner's `source` with the later times.

### Where the code and what it says disagree

Met while modelling. The modules keep the statement as a definition where one is named; adding it to the
configuration makes TLC show the sequence of events (`DirectVerbatim` needs a leaf that tells A of a way to A as well).

- router.py:632: the docstring of `decay_obsolescence` has it that a route "that goes quiet is deleted after ``obs_initializer`` missed cycles".
  That is so of what nobody broadcasts. Rule 6 (407) drops an entry whose first hop is the node itself, but among three transit nodes in earshot
  of each other a node that has fallen silent is told on from one to the next; with the default quality of 192 what is left of it is
  (2 * 192 + 128) >> 8 = 2, no worse than the worst quality of 1, so that the three keep it for ever. No property here says that a silent node is forgotten.
- router.py:426: NETROM.md 3.2 has it that "a **direct** route (the neighbour itself) takes the path quality verbatim", which
  "makes a 1-hop direct route always outrank a 2-hop transit route through an equal link". `_process_nodes()` makes that route
  first, and an entry of the same broadcast that names the source then replaces it, since it has the same `via_call`. A node does
  name itself when it has learned of a route to itself: rule 6 drops only an entry whose first hop is the node. If A learns from a third node of
  a way to A by B and broadcasts it, B is left with a direct route to A of the
  quality of A's detour, composed once more (`DirectVerbatim`). It stays so until A forgets the detour. Among polite clients, the default,
  it cannot happen (`PoliteDirectVerbatim`). A list that is full loses a route to the direct one that is then made worse,
  which is what `NoBetterDropped` excepts by `NamesOnce`.
- circuit.py:944 frees the index of a circuit that dispatch() (790) has already removed, though
  a new circuit may have taken it; circuit.py:757-759 says that "a (local_idx, local_id) pair is unique
  within the lifetime of this crosslink" (`IdxUnique`). The id wraps, so that the pair comes back after 256 circuits even
  without this; a cancelled session that has outlived them takes the task of the new one from `_user_tasks`, and the next disconnect leaves
  that session running without a circuit (`SessionReachable` with more circuits than ids).
- circuit.py:405: a CONNECT REQ repeated for a circuit that is disconnecting makes it CONNECTED, and the
  guard of 140-151, which "force-closes the circuit locally after a bounded wait", does nothing (`DisconnectCompletes` with "repeated CONNECT REQ").
- circuit.py:934: a cancelled caller of `originate_circuit` leaves its circuit, and the crosslink, which 731-737
  says "still self-disconnects instead of leaking", stays (`IdleLinkReleased` with "cancelled originate").
- circuit.py:234: a second task that drains the same writer empties the queue, and `popleft()` raises (`DrainNeverFails`).
- agwpe.py:1046: the task of a session that a reconnect replaced says farewell and writes a 'd' for the station whose
  new link is up (`StaleNeverDisconnects`).
- agwpe.py:1519: a caller that joined a connect gets `CancelledError`, which the docstring (1490-1494) does not name, when the
  first one times out (`DocumentedOutcome`).
- bulletin.py:325-339: `_show_areas_index` ends with `session.cfg.idle_timeout`, but has no `session`: a `NameError`. The sysop's menu
  offers "Edit area number #", "Kill (delete) area number # and all messages" and "Set area # as default" (290-301), and each of them ends the session as
  soon as there is an area (375, 407, 442). In the web interface, routes/bulletins.py:10-11 lists endpoints `/default` that do not exist; the
  flag is set by the PATCH of line 8.
- chat.py:596: a write to the terminal that times out ends `_reader`, and 605 tells the session "Room has been deleted", which
  it has not. 604 takes any end of the reader for a deletion.
- chat.py:326, 484, 571: a whisper may be acknowledged that no session will read (`DeliveredToSomebody`; the docstring at
  chat.py:18-20 says it is stored rather than dropped), and a save in flight brings lines of a deleted room back (`DeletedForGood`).
  After /DELROOM a session whose reader took the sentinel is expelled even if it has joined another room; the web's deletion sends none.
- engine.py:609 "Native node users count toward max_users": they are checked against it and counted by nothing.
- handlers.py:212-224: a browser session that finds the board full leaves its `_web_sessions` entry if its drain thread ends
  before the handler enters it.
- routes/heard.py:402-405 says that the one write lock keeps on_heard() from splitting a merged station; an observer that
  comes between the commit and the refresh of the alias map still makes a row under the alias. Two refreshes may set the map in
  the wrong order; deletions never refresh it.

## 4. Proofs

All from the named assumptions on the constants (`ManagerAssumption`,
`TransferAssumption`, `AgwpeAssumption`, `GatewayAssumption`, `CallsAssumption`, `KindsAssumption`, `BoundsAssumption` of
the router and of the engine, `AuthAssumption`,
`ChatAssumption`, `BulletinsAssumption`, `HeardAssumption` and `TimesAssumption`), for finite or infinite sets of circuits,
stations, sessions, callers, tasks, users and frames. The assumptions say that names of different kinds differ
(a browser terminal is no service guest, a transport is not called `netrom`), that bounds are numbers, that qualities and
counts fit a byte, that broadcasts list each callsign once and in one order, that `default_rooms` names no room twice, that the board is
seeded with finitely many areas and that the clock starts late enough for no grace period to reach back to 0.

**NetromCircuitManagerProofs.** `TypeCorrect`; then `ManagerInv`, the conjunction of the
types, of `Tables` (`NoIndexLeak`, `IdleTimerExact`) and of `Lifecycle`
(`RemoteIndexOpen`, `HalfClosedGuarded`, and that only opened circuits are in a
table). The last part is what makes it inductive: opening a circuit must not collide with one that is
already entered. The lowest free index exists because the naturals are well-founded
(`LowestFree`). `ClosedStaysClosed` follows from `RemoteIndexOpen`: the one action that
sets a state to CONNECTED without looking at it acts on entries of `byRemote` only.
`SessionReachable` becomes inductive as `SessionInv`: a session that is scheduled or runs has its circuit *and* its task under
its key, so that whatever takes the one cancels the other (`SessionsHeld`), and no two sessions that have not returned, cancelled
ones included, have one key (`LiveKeysDiffer`), since a cancelled session pops its key when it returns (circuit.py:965). An allocation keeps the second
only if its key is fresh, and the id is one byte: `FreshKeysReach` has that as its hypothesis (`FreshKeys`), and
`SessionsAreReachable` shows from a count of the ids (`IdsCount`) that it holds for the first `IdModulus` circuits of a crosslink.

**CircuitTransferProofs.** `StreamInv` says of each end that
`acked <= Received(peer) <= sent <= acked + Window`, and of the frames on their way to it
that acknowledgements are monotone and lie between what it took over and what its peer
received, and that fragments lie within a window of what was received and of each other. A few
lemmas about residues then show that a byte names its fragment within a span of
`Modulus`: the window the code computes is the true one (`WindowIsRespected`) and the
duplicate guard accepts exactly the next fragment, which is the refinement
(`CircuitImplementsStream`). The only assumption on the sizes is `Window < Modulus`; the code
negotiates a window of 1 to 7 and counts modulo 256. `NothingFollowsDiscReq` has an invariant of its own: an end
whose DISC REQ is on its way is no longer CONNECTED.

**AgwpeTransportProofs.** The types (`TypeCorrect`, which no run asks for) come first. `TablesInv` (entries are filed under their own station, a session not
yet created has no task and no manager) carries `CrosslinksAreNoted`; `PendingInv` (a
future is in the table under one station only, and its creator has started) carries `AnswersAreFresh`;
`Ownership`, the two properties together, carries `ManagersAreUnique` and `UsersAreReachable`: a new entry either ends the
session it replaces and shuts its manager down, or displaces it. All of them hold for every set of `Events`, calls to connected
users included.

**NetromNodeProofs** has the guard of `NodeGateway` and the tables of `NetromRouter`, which share nothing.

`GuardInv` adds to `SlotsExact` that only finitely many sessions hold a slot, without which a
cardinality says nothing. Of a step the count needs to know only whether a session joins the holders (`SlotTaken`), leaves them
(`SlotGivenBack`) or neither (`SameHolders`); `release()`'s tests for zero are shown never to matter. `CircuitsAccounted` is
inductive together with the types (`AccountKept`).

`RouterInv` says of every router that each list of routes is good (`GoodBucket`: what `RoutesWellFormed` asks of it), and of the
snapshots in the database and on their way there that their rows are such that a good list can be made of them (`GoodRows`): without it
`RoutesWellFormed` would not survive a restart. The operators are proved about by two lemmas in the place of an induction over data.
`Ranking`: the ranks of a finite set under a total order are 1, 2, ... without a gap, since the rank is an injection into as many numbers; hence
sorting by rank permutes (`SortedByQuality`) and `Picked` keeps the order. `UpTo` and `Recursion`: the least
counterexample of a claim about 0, 1, ..., n would follow one that is none; hence the recursive function of `ProcessNodes` exists and
each of its tables is good (`ProcessLeads`). `SnapshotFaithful` needs no more: the first route of a list is always among its rows.
For `NoBetterDropped`, `TidyUpsertsOnce` follows the entries of a broadcast to show that a list is touched once at most, by a
router's own broadcast too unless it has a route to itself (`AdvertisedEntries`).

`NoBetterThanLink` and `DirectVerbatim` say of single routes what kind they are. `StepIn` carries any such claim over every step, stored rows
and snapshots included, provided that ageing does not lead out of it (`Lasting`) and that what is sent leads into it (`Admits`).
For the first claim every broadcast does, because a composed quality is at most that of the path (`ComposedIsLess`); for the second,
those that do not name their source.

**BbsCoreProofs** has both components of `core/`, `AuthService` and `BbsEngine`. They share no variable and no definition
(the names of the former begin with `Auth` where the two would clash, `stmt` is its program counter), and no theorem is about both.

`CodeOnce` needs `Fresh`: every code that gave access lies behind the counter if it is of the present secret (`Spent`), and a right
code on its way leads to the counter that follows it and, unless its call is stale, is ahead of all that have given access (`Ahead`). `Answer` starts
such a call; `Grant` ends one and makes those that are under way stale; a secret that is set anew takes its codes
out of the account of `granted`, as does a counter put back; every other step leaves counter, secret and codes alone.

`LockoutHolds` is proved for two sessions, whatever `auth_max_attempts` is (`LockoutHoldsForTwo`). A session that has read the
count and not yet written it may set it back to what it read, so that neither the count nor its distance to the limit bounds
the wrong codes still to come. `Bounded` counts them: with `Left(s)` the failures that are left if session s writes last, and
`Free(s)` whether it may try a code now, twice the wrong codes tried and `2 min(Left) + D(max(Left)) + 2 (Free(a) + Free(b))`, with
`D(m) = m (m + 3)`, together never exceed `D(MaxAttempts)`. Each failure recorded below the limit lowers the larger `Left` or the
smaller one (`DueRecorded`, `DueRecordedTwice`), a code tried takes a `Free`, and a reset starts again (`DueMost`). This is where
the budget of (max + 1)(max + 2)/2 - 1 comes from; with one less TLC finds `LockoutHolds` violated. More than two sessions are neither
checked nor proved.

In the engine, `TablesTrue` looks only at tasks that have ended; to be inductive, `SessionsInv` must say of every
entry that its task is still at an await inside the `try` whose `finally` removes it (`Inside`), and `Kinds` that a task runs
the code of its kind of connection. `GuestsInv` and `ProgramInv` do the same for guests and, along the teardown, for
their programs. Each action enters a session, keeps it or leaves (`SessionEnters`, `SessionsStay`, `SessionLeaves`). The caps
follow because the test of `max_users` and the entry are one step, and because the invariant keeps the tables finite.

**BulletinsProofs.** `SessionsInv` says what a session at each prompt may be and hold: who is not a sysop never keeps the
write lock, and what is being read is for its reader. `AreasInv` says that what is selected or written to was made once, so that a
post to an area that has gone cannot be of one still to be made (`OrphansAreLate`). `MessagesInv` makes
`BoardSound` inductive: as long as an area exists, every message that was not late in it is a row, and ids of areas are not
given out twice, so that the number the INSERT computes, the greatest plus one, is new for as long as the area has that id (`NewNumber`). The greatest and
the least of a set of numbers exist by well-foundedness (`Greatest`, `Least`).

**HeardProofs.** `Sound` is `TablesSound` strengthened row by row (`RowOK`): a transport's row is `heard` or absent, its
direct hearing is not later than the *observer's clock* of that transport, and a digipeater's row that says "heard" is
recent. `HeardInv` claims it of the committed tables and of those of the open transaction. The second is why `TablesSound`, which looks
at committed tables only, is not inductive: what a commit publishes was computed over several steps, during which
the clock ran, and a sysop may have asked for anything that needs no lock. `TxnInv` adds that the transaction forgets no direct
hearing and has the source's row that its path will need; `CacheInv` says where the cache has each time from.
There is a lemma for each statement of `on_heard()` (`SourceSound`, `HopSound`, `PathSound`, `ReconcileSound`) and each writer
(`NodesSound`, `AbsorbsSound`, `EraseSound`), about any tables that are sound; `SoundStays` carries them over the passing of time.

**ChatRoomsProofs.** `MembershipTrue` becomes inductive as two claims: an entry stands for a session of that callsign, in
the room it is in (`EntriesInv`), and a session without a rival has its entry (`EnteredInv`; a rival is one for good,
`RivalStays`). With them a deletion finds everybody who is in the room. `DeletionTold` then needs that the room objects of
`silenced` are older than what the registry holds, so that nobody enters one, and that nothing but a deletion
puts a sentinel, and nothing but the reader takes one (`PutQuietly`, `ToldKept`). For `HeldShown`, `WhispersInv` says that the whispers a session has in
hand are its own and, until it or a rival deletes them, in the table. The registry's part (`EnteredIs`, `PoppedIs`,
`RestoredIs`) shows that no name is listed twice, not after a restart either, since what is stored is never a configured room.

`RemoteIndexOpen`, `ClosedIsTerminal` and the types of `AgwpeTransport` are proved and no longer among the runs' properties:
the theorems hold for every instance.

Only model-checked:

- the liveness properties (`IdleLinkReleased`, `DisconnectCompletes`, `DrainReturns`, `CallersReturn`,
  `DeadSessionLeaves`, `SlotsReturn`, `EveryoneLeaves`): leads-to under fairness is beyond the prover;
- `LockoutHolds` for more than two sessions is neither checked nor proved.

## 5. Plan

Every module of the original plan exists, and every component that is modelled has proofs. What is left: `LockoutHolds` for
more than two sessions, whose measure counts on there being one other writer.

A composition of `AgwpeTransport` with the life of `NetromCircuitManager` would show `cmd_connect` over both at once; today
`NodeGateway` takes the answers of either as free choices, which allows more than they do.

## 6. Not modelled

- Codecs (`ax25/`): stateless; the models take decoded frames.
- `config.py`, `main.py`, `db/schema.py` and the migrations in heard.py: they run once, before anything else does.
- Display, info and lastconn: pages and a list; what they keep is only shown.
- `core/event_bus.py`: `publish` calls every subscriber and swallows its exceptions; subscribers appear in the models
  that have one.
- `core/terminal.py`: line editing, colours, paging. Its write timeout is in `CircuitTransfer` and `BbsEngine`.
- `transport/kiss.py`, `kernel_ax25.py`, `tcp.py`: one task per connection over hardware, the kernel or a socket, with
  no tables of their own; `BbsEngine` starts where they hand a connection over.
- Beacon loops, maps, graphs and signal reports, listings and unread counts: they read, format and send.
