----------------------------- MODULE BbsEngine -----------------------------
(***************************************************************************)
(* Sessions of the BBS engine (src/bbs/core/engine.py, core/session.py):   *)
(* callers of the BBS, the browser terminals of one sysop page             *)
(* (server/websocket/handlers.py), callers bridged to an external program  *)
(* (services/bridge.py) and users of the native node prompt.  Each has a   *)
(* task that a transport, or the shutdown of the engine, may cancel at any *)
(* of its awaits; the tables the caps are checked against must come out    *)
(* right all the same.                                                     *)
(*                                                                         *)
(* pc[c] names the await the task of c is at.  Abstracted: what is said in *)
(* a session, which is one await that the user ends, and the events and    *)
(* log lines for the dashboard, which are dropped when its queue is full.  *)
(***************************************************************************)
EXTENDS Naturals, FiniteSets

CONSTANTS
    Callers, Terminals, Guests, NodeUsers, \* connections, by what they run
    MaxUsers,      \* cfg.max_users; 0 is no limit
    MaxSessions,   \* services.max_sessions
    IdleTimeout,   \* whether cfg.idle_timeout and the route's are set
    MaxArrivals,   \* bound: connections that ever arrive
    MaxCancels     \* bound: cancellations of each task

Conns == Callers \cup Terminals \cup Guests \cup NodeUsers

ASSUME KindsAssumption ==
    /\ Callers \cap Terminals = {} /\ Callers \cap Guests = {} /\ Callers \cap NodeUsers = {}
    /\ Terminals \cap Guests = {} /\ Terminals \cap NodeUsers = {} /\ Guests \cap NodeUsers = {}
ASSUME BoundsAssumption ==
    /\ MaxUsers \in Nat /\ MaxSessions \in Nat
    /\ MaxArrivals \in Nat /\ MaxCancels \in Nat /\ IdleTimeout \in BOOLEAN

VARIABLES
    pc,            \* where each connection's task is
    sessions,      \* _sessions
    tasks,         \* _session_tasks
    guests,        \* _service_sessions
    named,         \* sessions whose callsign is known
    gone,          \* connections whose peer has fallen silent
    eof,           \* connections whose input has ended and been read
    chatting,      \* sessions in the chat plugin's loop
    closed,        \* connections closed by the program
    process,       \* the external program of each guest
    loops,         \* node users whose command loop runs
    cancels,       \* cancellations of each task so far
    struck,        \* those that were cancelled at an await nothing protects
    \* the browser page: one socket id, its connect handlers in their threads
    handler,       \* the connect handler of each terminal
    webSessions,   \* _web_sessions[sid], as a set of at most one terminal
    webMap,        \* _web_session_map[sid], likewise
    drains,        \* terminals whose drain thread runs
    sentinels      \* terminals whose output queue ends

tables == <<sessions, tasks, guests>>
web == <<handler, webSessions, webMap, drains, sentinels>>
peers == <<gone, eof, chatting>>
vars == <<pc, tables, named, peers, closed, process, loops, cancels, struck, web>>

BbsAwaits == {"created", "announcing", "opening", "running", "farewell",
              "recording", "notifying"}
ServiceAwaits == {"spawning", "bridging", "terminating", "killing", "flushing",
                  "gathering", "closing", "journaling"}
NodeAwaits == {"probing", "waiting", "reaping", "entering"}
Awaits == BbsAwaits \cup ServiceAwaits \cup NodeAwaits \cup {"refusing"}

Started == {c \in Conns : pc[c] # "new" \/ (c \in Terminals /\ handler[c] # "idle")}
MayArrive(c) == pc[c] = "new" /\ Cardinality(Started) < MaxArrivals
Live(c) == pc[c] \in Awaits
Goto(c, l) == pc' = [pc EXCEPT ![c] = l]

\* _on_connection(), _create_and_run_web_session(): checked and entered
\* without an await in between.  Users of the node are checked, not counted.
Full == MaxUsers > 0 /\ Cardinality(sessions) >= MaxUsers
ServicesFull == Cardinality(guests) >= MaxSessions

Init == /\ pc = [c \in Conns |-> "new"]
        /\ sessions = {} /\ tasks = {} /\ guests = {}
        /\ named = {} /\ gone = {} /\ eof = {} /\ chatting = {} /\ closed = {}
        /\ process = [c \in Guests |-> "none"]
        /\ loops = {}
        /\ cancels = [c \in Conns |-> 0]
        /\ struck = {}
        /\ handler = [c \in Terminals |-> "idle"]
        /\ webSessions = {} /\ webMap = {} /\ drains = {} /\ sentinels = {}

-----------------------------------------------------------------------------
\* The BBS session: _run_session() around BBSSession.run().

Enter(c) == /\ sessions' = sessions \cup {c}
            /\ tasks' = tasks \cup {c}
            /\ UNCHANGED guests

\* The end of a task.  A terminal's wrapper takes the map entry of its socket
\* id, whoever's it is, and ends the output queue.
TaskEnds(c) ==
    /\ Goto(c, "ended")
    /\ IF c \in Terminals
       THEN webMap' = {} /\ sentinels' = sentinels \cup {c}
       ELSE UNCHANGED <<webMap, sentinels>>
    /\ UNCHANGED <<handler, webSessions, drains>>

CallerArrives(c) ==
    /\ MayArrive(c)
    /\ IF Full THEN Goto(c, "refusing") /\ UNCHANGED tables
                  ELSE Goto(c, "announcing") /\ Enter(c)
    /\ UNCHANGED <<named, peers, closed, process, loops, cancels, struck, web>>

\* The refusal is written, or fails to be, and the connection closed.
Refused(c) ==
    /\ pc[c] = "refusing"
    /\ Goto(c, "ended")
    /\ closed' = closed \cup {c}
    /\ UNCHANGED <<tables, named, peers, process, loops, cancels, struck, web>>

Announced(c) ==
    /\ pc[c] = "announcing"
    /\ Goto(c, "opening")
    /\ UNCHANGED <<tables, named, peers, closed, process, loops, cancels, struck, web>>

\* The database is open, the terminal probed and the watchdog armed.
Opened(c) ==
    /\ pc[c] = "opening"
    /\ Goto(c, "running")
    /\ UNCHANGED <<tables, named, peers, closed, process, loops, cancels, struck, web>>

Identified(c) ==
    /\ pc[c] = "running" /\ c \notin named
    /\ named' = named \cup {c}
    /\ UNCHANGED <<pc, tables, peers, closed, process, loops, cancels, struck, web>>

\* The user enters and leaves the chat.
EntersChat(c) ==
    /\ pc[c] = "running" /\ c \in named \ (chatting \cup eof)
    /\ chatting' = chatting \cup {c}
    /\ UNCHANGED <<pc, tables, named, gone, eof, closed, process, loops, cancels, struck, web>>

LeavesChat(c) ==
    /\ c \in chatting \ eof
    /\ chatting' = chatting \ {c}
    /\ UNCHANGED <<pc, tables, named, gone, eof, closed, process, loops, cancels, struck, web>>

\* The user leaves, a write fails or the plugin raises.
SessionOver(c) ==
    /\ pc[c] = "running"
    /\ Goto(c, "farewell")
    /\ chatting' = chatting \ {c}
    /\ UNCHANGED <<tables, named, gone, eof, closed, process, loops, cancels, struck, web>>

\* _idle_watchdog() cancels the task; run() swallows it.  The chat's loop
\* takes the end of its input for a line and starts the idle time anew.
Spins(c) == c \in eof \cap chatting
IdleFires(c) ==
    /\ IdleTimeout /\ c \in gone /\ ~Spins(c)
    /\ SessionOver(c)

\* Every other prompt leaves when its input has ended.
EofSeen(c) ==
    /\ c \in eof \ chatting
    /\ SessionOver(c)

LeaveTables(c) == sessions' = sessions \ {c} /\ tasks' = tasks \ {c}

\* A mutant: _user_tasks is forgotten.
LeaveSessions(c) == sessions' = sessions \ {c} /\ UNCHANGED tasks

Leave(c) == LeaveTables(c)

\* The finally clause of _run_session(): the journal first, for those that
\* are known, then the tables.
Finally(c) ==
    IF c \in named
    THEN Goto(c, "recording") /\ UNCHANGED tables
    ELSE Goto(c, "notifying") /\ Leave(c) /\ UNCHANGED guests

\* _farewell(): sends are bounded by the write timeout, errors swallowed.
FarewellSaid(c) ==
    /\ pc[c] = "farewell"
    /\ closed' = closed \cup {c}
    /\ Finally(c)
    /\ UNCHANGED <<named, peers, process, loops, cancels, struck, web>>

\* The database cannot be opened.
OpeningFails(c) ==
    /\ pc[c] = "opening"
    /\ Finally(c)
    /\ UNCHANGED <<named, peers, closed, process, loops, cancels, struck, web>>

Recorded(c) ==
    /\ pc[c] = "recording"
    /\ Goto(c, "notifying")
    /\ Leave(c)
    /\ UNCHANGED <<guests, named, peers, closed, process, loops, cancels, struck, web>>

Notified(c) ==
    /\ pc[c] = "notifying"
    /\ TaskEnds(c)
    /\ UNCHANGED <<tables, named, peers, closed, process, loops, cancels, struck>>

\* What a cancellation does depends on the await it strikes: before the try
\* clause and inside the finally clause nothing takes the entries out; a task
\* that has not begun does not even reach its own finally clause.
Struck(c) ==
    \/ /\ pc[c] = "created"
       /\ Goto(c, "ended") /\ struck' = struck \cup {c}
       /\ UNCHANGED <<tables, chatting, web>>
    \/ /\ pc[c] \in {"announcing", "recording"}
       /\ TaskEnds(c) /\ struck' = struck \cup {c}
       /\ UNCHANGED <<tables, chatting>>
    \/ /\ pc[c] \in {"opening", "farewell"}
       /\ Finally(c)
       /\ UNCHANGED <<chatting, struck, web>>
    \/ /\ pc[c] = "running"
       /\ Goto(c, "farewell") /\ chatting' = chatting \ {c}
       /\ UNCHANGED <<tables, struck, web>>
    \/ /\ pc[c] \in {"notifying", "refusing"}
       /\ TaskEnds(c)
       /\ UNCHANGED <<tables, chatting, struck>>

SessionStep(c) ==
    \/ Refused(c) \/ Announced(c) \/ Opened(c) \/ OpeningFails(c) \/ IdleFires(c)
    \/ EofSeen(c) \/ FarewellSaid(c) \/ Recorded(c) \/ Notified(c)

-----------------------------------------------------------------------------
\* Browser terminals.

\* on_web_terminal_connect(): the check, then start_web_session(), which
\* blocks this thread while other handlers of the page run in theirs.
TerminalRequested(c) ==
    /\ handler[c] = "idle" /\ MayArrive(c)
    /\ webSessions = {}
    /\ handler' = [handler EXCEPT ![c] = "waiting"]
    /\ UNCHANGED <<pc, tables, named, peers, closed, process, loops, cancels, struck,
                   webSessions, webMap, drains, sentinels>>

\* _create_and_run_web_session(), in the event loop, whether or not the
\* thread still waits for it.
TerminalCreated(c) ==
    /\ handler[c] \in {"waiting", "failed"} /\ pc[c] = "new"
    /\ IF Full
       THEN /\ Goto(c, "ended")
            /\ sentinels' = sentinels \cup {c}
            /\ UNCHANGED <<tables, webMap>>
       ELSE /\ Goto(c, "created")
            /\ Enter(c)
            /\ webMap' = {c}
            /\ UNCHANGED sentinels
    /\ UNCHANGED <<named, peers, closed, process, loops, cancels, struck, handler,
                   webSessions, drains>>

TerminalBegins(c) ==
    /\ pc[c] = "created"
    /\ Goto(c, "announcing")
    /\ UNCHANGED <<tables, named, peers, closed, process, loops, cancels, struck, web>>

\* future.result() gives up after five seconds; the coroutine runs later.
StartTimesOut(c) ==
    /\ handler[c] = "waiting" /\ pc[c] = "new"
    /\ handler' = [handler EXCEPT ![c] = "failed"]
    /\ UNCHANGED <<pc, tables, named, peers, closed, process, loops, cancels, struck,
                   webSessions, webMap, drains, sentinels>>

DrainStarts(c) ==
    /\ handler[c] = "waiting" /\ pc[c] # "new"
    /\ handler' = [handler EXCEPT ![c] = "starting"]
    /\ drains' = drains \cup {c}
    /\ UNCHANGED <<pc, tables, named, peers, closed, process, loops, cancels, struck,
                   webSessions, webMap, sentinels>>

\* Only now is the entry made that input and disconnect go by.
TerminalRegistered(c) ==
    /\ handler[c] = "starting"
    /\ handler' = [handler EXCEPT ![c] = "ready"]
    /\ webSessions' = {c}
    /\ UNCHANGED <<pc, tables, named, peers, closed, process, loops, cancels, struck,
                   webMap, drains, sentinels>>

\* _drain_web_output() at the end of the queue: it takes the entry of its
\* socket id, whoever's it is.
DrainEnds(c) ==
    /\ c \in drains /\ c \in sentinels
    /\ drains' = drains \ {c}
    /\ webSessions' = {}
    /\ UNCHANGED <<pc, tables, named, peers, closed, process, loops, cancels, struck,
                   handler, webMap, sentinels>>

\* _cleanup_web_session(): the browser leaves or closes its terminal.
BrowserCloses(c) ==
    /\ c \in webSessions
    /\ webSessions' = {}
    /\ eof' = eof \cup {c}
    /\ UNCHANGED <<pc, tables, named, gone, chatting, closed, process, loops, cancels,
                   struck, handler, webMap, drains, sentinels>>

TerminalStep(c) == \/ TerminalCreated(c) \/ TerminalBegins(c) \/ DrainStarts(c)
                   \/ TerminalRegistered(c) \/ DrainEnds(c) \/ SessionStep(c)

-----------------------------------------------------------------------------
\* External services: _run_external_service(), run_service(), _teardown().

\* ServiceDispatcher.match(): locked out, digipeated or of too low a level.
GuestDenied(c) ==
    /\ MayArrive(c)
    /\ Goto(c, "ended")
    /\ closed' = closed \cup {c}
    /\ UNCHANGED <<tables, named, peers, process, loops, cancels, struck, web>>

GuestArrives(c) ==
    /\ MayArrive(c)
    /\ IF ServicesFull
       THEN Goto(c, "ended") /\ closed' = closed \cup {c} /\ UNCHANGED guests
       ELSE Goto(c, "spawning") /\ guests' = guests \cup {c} /\ UNCHANGED closed
    /\ UNCHANGED <<sessions, tasks, named, peers, process, loops, cancels, struck, web>>

\* Back in _run_external_service(): the entry goes, the journal comes last.
ServiceOver(c) ==
    /\ Goto(c, "journaling")
    /\ guests' = guests \ {c}
    /\ UNCHANGED <<sessions, tasks>>

Spawned(c) ==
    /\ pc[c] = "spawning"
    /\ Goto(c, "bridging")
    /\ process' = [process EXCEPT ![c] = "running"]
    /\ UNCHANGED <<tables, named, peers, closed, loops, cancels, struck, web>>

SpawnFails(c) ==
    /\ pc[c] = "spawning"
    /\ closed' = closed \cup {c}
    /\ ServiceOver(c)
    /\ UNCHANGED <<named, peers, process, loops, cancels, struck, web>>

\* The program ends by itself, of SIGTERM, or because its input has ended.
ProgramExits(c) ==
    /\ process[c] = "running"
    /\ process' = [process EXCEPT ![c] = "exited"]
    /\ UNCHANGED <<pc, tables, named, peers, closed, loops, cancels, struck, web>>

\* A mutant: the program is left running.
FlushOnly(c) == Goto(c, "flushing")

\* _teardown() ends the program if it runs; its last output is given a while.
Teardown(c) == Goto(c, IF process[c] = "running" THEN "terminating" ELSE "flushing")

\* A pump, the program or the idle timer ends the bridge.
BridgeOver(c) ==
    /\ pc[c] = "bridging"
    /\ c \in gone \/ process[c] = "exited"
    /\ Teardown(c)
    /\ UNCHANGED <<tables, named, peers, closed, process, loops, cancels, struck, web>>

Terminated(c) ==
    /\ pc[c] = "terminating" /\ process[c] = "exited"
    /\ Goto(c, "flushing")
    /\ UNCHANGED <<tables, named, peers, closed, process, loops, cancels, struck, web>>

\* A mutant: a program that ignores SIGTERM is spared.
SpareAfterGrace(c) ==
    /\ pc[c] = "terminating"
    /\ Goto(c, "killing")
    /\ UNCHANGED <<tables, named, peers, closed, process, loops, cancels, struck, web>>

KillAfterGrace(c) ==
    /\ pc[c] = "terminating"
    /\ Goto(c, "killing")
    /\ process' = [process EXCEPT ![c] = "exited"]
    /\ UNCHANGED <<tables, named, peers, closed, loops, cancels, struck, web>>

Killed(c) ==
    /\ pc[c] = "killing" /\ process[c] = "exited"
    /\ Goto(c, "flushing")
    /\ UNCHANGED <<tables, named, peers, closed, process, loops, cancels, struck, web>>

Flushed(c) ==
    /\ pc[c] = "flushing"
    /\ Goto(c, "gathering")
    /\ UNCHANGED <<tables, named, peers, closed, process, loops, cancels, struck, web>>

\* The pumps are gone: the connection is closed at last.
Gathered(c) ==
    /\ pc[c] = "gathering"
    /\ closed' = closed \cup {c}
    /\ ServiceOver(c)
    /\ UNCHANGED <<named, peers, process, loops, cancels, struck, web>>

Journaled(c) ==
    /\ pc[c] = "journaling"
    /\ Goto(c, "ended")
    /\ UNCHANGED <<tables, named, peers, closed, process, loops, cancels, struck, web>>

\* Cancelled while it bridges, a guest is torn down; cancelled while it is
\* torn down, the rest of the teardown is skipped.
GuestStruck(c) ==
    \/ /\ pc[c] = "bridging"
       /\ Teardown(c)
       /\ UNCHANGED <<tables, struck>>
    \/ /\ pc[c] \in {"spawning", "terminating", "killing", "flushing", "gathering"}
       /\ ServiceOver(c)
       /\ struck' = struck \cup {c}
    \/ /\ pc[c] = "journaling"
       /\ Goto(c, "ended")
       /\ UNCHANGED <<tables, struck>>

GuestStep(c) == \/ Spawned(c) \/ SpawnFails(c) \/ BridgeOver(c) \/ Terminated(c)
                \/ KillAfterGrace(c) \/ Killed(c) \/ Flushed(c) \/ Gathered(c)
                \/ Journaled(c)

-----------------------------------------------------------------------------
\* The native node prompt: _run_node_native().

NodeUserArrives(c) ==
    /\ MayArrive(c)
    /\ Goto(c, IF Full THEN "refusing" ELSE "probing")
    /\ UNCHANGED <<tables, named, peers, closed, process, loops, cancels, struck, web>>

LoopStarts(c) ==
    /\ pc[c] = "probing"
    /\ Goto(c, "waiting")
    /\ loops' = loops \cup {c}
    /\ UNCHANGED <<tables, named, peers, closed, process, cancels, struck, web>>

\* The user says BYE, the link fails, or the idle watchdog cancels the loop.
LoopEnds(c) ==
    /\ c \in loops
    /\ loops' = loops \ {c}
    /\ UNCHANGED <<pc, tables, named, peers, closed, process, cancels, struck, web>>

LoopIdle(c) == IdleTimeout /\ c \in gone /\ LoopEnds(c)

\* wait() returns when the loop is done; the finally clause cancels it
\* otherwise and gathers it.
LoopAwaited(c) ==
    /\ \/ pc[c] = "waiting" /\ c \notin loops /\ Goto(c, "reaping")
       \/ pc[c] = "reaping" /\ c \notin loops /\ Goto(c, "entering")
    /\ UNCHANGED <<tables, named, peers, closed, process, loops, cancels, struck, web>>

LoopCancelled(c) == pc[c] = "reaping" /\ LoopEnds(c)

LandingOver(c) ==
    /\ pc[c] = "entering"
    /\ Goto(c, "ended")
    /\ closed' = closed \cup {c}
    /\ UNCHANGED <<tables, named, peers, process, loops, cancels, struck, web>>

\* A cancellation while the loop is gathered, or during the journal, skips
\* the close; gather() hands it on to the loop.
NodeStruck(c) ==
    \/ /\ pc[c] = "waiting" /\ Goto(c, "reaping")
       /\ UNCHANGED <<loops, struck>>
    \/ /\ pc[c] \in {"probing", "reaping", "entering", "refusing"} /\ Goto(c, "ended")
       /\ loops' = loops \ {c}
       /\ struck' = struck \cup {c}

NodeStep(c) == LoopStarts(c) \/ LoopIdle(c) \/ LoopAwaited(c) \/ LoopCancelled(c)
               \/ LandingOver(c) \/ Refused(c)

-----------------------------------------------------------------------------
\* The peer falls silent.
PeerGone(c) ==
    /\ Live(c) /\ c \notin gone
    /\ gone' = gone \cup {c}
    /\ UNCHANGED <<pc, tables, named, eof, chatting, closed, process, loops, cancels,
                   struck, web>>

\* The caller's link goes down: its input ends, and its output goes nowhere
\* but into the transport (agwpe.py, 'd').
CallerHangsUp(c) ==
    /\ Live(c) /\ c \notin eof
    /\ eof' = eof \cup {c}
    /\ UNCHANGED <<pc, tables, named, gone, chatting, closed, process, loops, cancels,
                   struck, web>>

\* A transport that loses the link cancels the task of its callback; the
\* shutdown of the engine cancels those of _session_tasks and the transports'.
Cancel(c) ==
    /\ Live(c) /\ cancels[c] < MaxCancels
    /\ cancels' = [cancels EXCEPT ![c] = @ + 1]
    /\ \/ /\ c \in Callers \cup Terminals /\ Struck(c)
          /\ UNCHANGED loops
       \/ /\ c \in Guests /\ GuestStruck(c)
          /\ UNCHANGED <<chatting, loops, web>>
       \/ /\ c \in NodeUsers /\ NodeStruck(c)
          /\ UNCHANGED <<tables, chatting, web>>
    /\ UNCHANGED <<named, gone, eof, closed, process>>

Next ==
    \/ \E c \in Callers : CallerArrives(c) \/ SessionStep(c) \/ CallerHangsUp(c)
    \/ \E c \in Callers \cup Terminals :
         Identified(c) \/ EntersChat(c) \/ LeavesChat(c) \/ SessionOver(c)
    \/ \E c \in Terminals :
         TerminalRequested(c) \/ StartTimesOut(c) \/ TerminalStep(c) \/ BrowserCloses(c)
    \/ \E c \in Guests :
         GuestDenied(c) \/ GuestArrives(c) \/ GuestStep(c) \/ ProgramExits(c)
    \/ \E c \in NodeUsers : NodeUserArrives(c) \/ NodeStep(c) \/ LoopEnds(c)
    \/ \E c \in Conns : PeerGone(c) \/ Cancel(c)

Spec == Init /\ [][Next]_vars

\* The event loop and the threads run what can run, and every await in these
\* steps is bounded: by the write timeout, the database's or the grace times.
\* A user need not leave, and a program need not end.
Fairness == /\ \A c \in Callers : WF_vars(SessionStep(c))
            /\ \A c \in Terminals : WF_vars(TerminalStep(c))
            /\ \A c \in Guests : WF_vars(GuestStep(c))
            /\ \A c \in NodeUsers : WF_vars(NodeStep(c))
FairSpec == Spec /\ Fairness

-----------------------------------------------------------------------------
TypeOK ==
    /\ pc \in [Conns -> Awaits \cup {"new", "ended"}]
    /\ sessions \subseteq Callers \cup Terminals /\ tasks \subseteq Callers \cup Terminals
    /\ guests \subseteq Guests /\ named \subseteq Callers \cup Terminals
    /\ eof \cup chatting \subseteq Callers \cup Terminals
    /\ gone \subseteq Conns /\ closed \subseteq Conns /\ struck \subseteq Conns
    /\ process \in [Guests -> {"none", "running", "exited"}]
    /\ loops \subseteq NodeUsers
    /\ cancels \in [Conns -> 0 .. MaxCancels]
    /\ handler \in [Terminals -> {"idle", "waiting", "failed", "starting", "ready"}]
    /\ webSessions \subseteq Terminals /\ webMap \subseteq Terminals
    /\ drains \subseteq Terminals /\ sentinels \subseteq Terminals

\* The tables the caps are counted over stay true to the tasks that run: both
\* hold the same sessions, no more than max_users; an entry without a task is
\* left by a cancellation at one of the unprotected awaits and by nothing
\* else; and the resize map names a terminal whose task has yet to end.
TablesTrue ==
    /\ TypeOK
    /\ sessions = tasks
    /\ MaxUsers > 0 => Cardinality(sessions) <= MaxUsers
    /\ \A c \in sessions : Live(c) \/ c \in struck
    /\ \A c \in webMap : Live(c) \/ c \in struck

\* An external program does not outlive its session, nor the session its
\* program: when the entry of a guest is gone, the program has ended and the
\* connection is closed, whichever of peer, program and timer ended it, unless
\* the teardown itself was cancelled; and the guests stay below their cap.
GuestsTornDown ==
    /\ Cardinality(guests) <= MaxSessions
    /\ \A c \in Guests : c \in guests => Live(c)
    /\ \A c \in Guests : pc[c] \in {"journaling", "ended"} =>
         c \in struck \/ (process[c] # "running" /\ c \in closed)

\* Everyone leaves: once its peer has gone or fallen silent, every connection
\* has its task end, its table entries go, its program and its command loop
\* end and its drain thread stop, unless it is struck at an unprotected await
\* or is in the chat when its input ends.
Departed(c) == /\ pc[c] = "ended"
               /\ c \notin sessions \cup guests \cup loops \cup drains
               /\ c \in Guests => process[c] # "running"
EveryoneLeaves == \A c \in Conns :
    c \in gone \cup eof ~> Departed(c) \/ c \in struck \/ Spins(c)

\* The same without the exception for the chat: what the comment in
\* _main_loop() asks of a prompt whose input has ended.
NoPromptSpins == \A c \in Callers : c \in eof ~> Departed(c) \/ c \in struck
=============================================================================
