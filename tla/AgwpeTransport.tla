--------------------------- MODULE AgwpeTransport ---------------------------
(***************************************************************************)
(* The AGWPE transport (bbs/transport/agwpe.py): one TCP connection to the *)
(* packet engine (Direwolf) carries every AX.25 link.  The module models   *)
(* the tables keyed by remote station (sessions, session tasks, pending    *)
(* connects), the dispatcher of 'C', 'd' and NET/ROM 'D' frames, the task  *)
(* and the writer of a session, the promotion of a user session to a       *)
(* NET/ROM crosslink, the coroutines that await connect_out(), and the     *)
(* loss and the re-establishment of the TCP connection.                    *)
(*                                                                         *)
(* What a crosslink's NetromCircuitManager does with its circuits is       *)
(* module NetromCircuitManager; here a manager only lives, may close its   *)
(* link, and is shut down.                                                 *)
(***************************************************************************)
EXTENDS Naturals, Sequences, FiniteSets

CONSTANTS
    Stations,    \* the remote callsigns, the keys of the tables
    Sessions,    \* the _AGWPESession objects that may ever be created
    Callers,     \* the tasks that call connect_out(); each calls it once
    None,
    MaxInbox,    \* bound: frames of remote stations on their way to us
    Events       \* which of the events below the environment produces

\* A task is cancelled while it awaits connect_out().
EnvironmentEvents == {"cancelled caller"}

ASSUME AgwpeAssumption ==
    /\ None \notin Stations \cup Sessions \cup Callers
    /\ MaxInbox \in Nat
    /\ Events \subseteq EnvironmentEvents

VARIABLES
    tcp,         \* the connection to the packet engine
    link,        \* the AX.25 link to each station, as the packet engine has it
    inbox,       \* the frames from the packet engine not yet dispatched
    sessions,    \* _sessions
    tasks,       \* _session_tasks, a task being named by its session
    pending,     \* _pending_connects, a future being named by its creator
    noted,       \* the stations the router believes to have a live crosslink
    peer,        \* remote_call of a session; None: not yet created
    task,        \* _run_session() of a session
    eof,         \* the sessions whose reader was fed an EOF
    cancelled,   \* the sessions whose running task was cancelled
    suppressed,  \* the sessions whose writer is muted and keeps the link open
    onWire,      \* the sessions created on the present TCP connection
    wclosing,    \* the sessions whose own writer is closing
    manager,     \* netrom_manager of a session
    mclosing,    \* the sessions whose manager's writer is closing
    pc,          \* where each caller is in connect_out()
    target,      \* the station it wants
    waitsOn,     \* the future it awaits
    future,      \* the future it created
    outcome,     \* how its call ended
    \* what has happened, for the properties
    displaced,   \* the sessions whose entry an outbound confirmation took
    spared       \* those in the table as a 'd' went to a pending connect

tables      == <<sessions, tasks, pending, noted>>
sessionVars == <<peer, task, eof, cancelled, suppressed, wclosing, manager, mclosing>>
callerVars  == <<pc, target, waitsOn, future, outcome>>
history     == <<displaced, spared>>
vars == <<tcp, link, inbox, tables, sessionVars, onWire, callerVars, history>>

Frames == [kind : {"C", "d", "NETROM"}, from : Stations]

TypeOK ==
    /\ tcp \in {"down", "up", "dropping"}
    /\ link \in [Stations -> {"down", "calling", "up"}]
    /\ inbox \in Seq(Frames)
    /\ sessions \in [Stations -> Sessions \cup {None}]
    /\ tasks \in [Stations -> Sessions \cup {None}]
    /\ pending \in [Stations -> Callers \cup {None}]
    /\ noted \subseteq Stations
    /\ peer \in [Sessions -> Stations \cup {None}]
    /\ task \in [Sessions -> {"none", "scheduled", "running", "closed", "done"}]
    /\ eof \subseteq Sessions
    /\ cancelled \subseteq Sessions
    /\ suppressed \subseteq Sessions
    /\ onWire \subseteq Sessions
    /\ displaced \subseteq Sessions
    /\ spared \subseteq Sessions
    /\ wclosing \subseteq Sessions
    /\ manager \in [Sessions -> {"none", "live", "shut"}]
    /\ mclosing \subseteq Sessions
    /\ pc \in [Callers -> {"idle", "sending", "waiting", "coalesced", "ended"}]
    /\ target \in [Callers -> Stations \cup {None}]
    /\ waitsOn \in [Callers -> Callers \cup {None}]
    /\ future \in [Callers -> {"none", "pending", "result", "exception", "cancelled"}]
    /\ outcome \in [Callers -> {"none", "manager", "ConnectionError",
                                "TimeoutError", "CancelledError"}]

Init ==
    /\ tcp = "down"
    /\ link = [st \in Stations |-> "down"]
    /\ inbox = <<>>
    /\ sessions = [st \in Stations |-> None]
    /\ tasks = [st \in Stations |-> None]
    /\ pending = [st \in Stations |-> None]
    /\ noted = {}
    /\ peer = [s \in Sessions |-> None]
    /\ task = [s \in Sessions |-> "none"]
    /\ eof = {}
    /\ cancelled = {}
    /\ suppressed = {}
    /\ onWire = {}
    /\ wclosing = {}
    /\ manager = [s \in Sessions |-> "none"]
    /\ mclosing = {}
    /\ pc = [c \in Callers |-> "idle"]
    /\ target = [c \in Callers |-> None]
    /\ waitsOn = [c \in Callers |-> None]
    /\ future = [c \in Callers |-> "none"]
    /\ outcome = [c \in Callers |-> "none"]
    /\ displaced = {}
    /\ spared = {}

-----------------------------------------------------------------------------
Frame(kind, st) == [kind |-> kind, from |-> st]

IsCrosslink(st) == sessions[st] # None /\ manager[sessions[st]] # "none"

\* The session in the table for a station, and the task found with it.
Old(st) == {sessions[st]} \ {None}
OldTask(st) == {tasks[st]} \ {None}

\* The task an inbound connection tears down, along with the old session.
Replaced(st) == IF sessions[st] = None THEN {} ELSE OldTask(st)

\* Task.cancel() on the tasks of S: one that has not started never runs at all.
Unstarted(S) == [s \in Sessions |->
                    IF s \in S /\ task[s] = "scheduled" THEN "done" ELSE task[s]]
Cancel(S) == cancelled' = cancelled \cup {s \in S : task[s] \in {"running", "closed"}}

\* NetromCircuitManager.shutdown() on the managers of S, or on none.
LeaveManagers(S) == manager
ShutDown(S) == [s \in Sessions |->
                   IF s \in S /\ manager[s] = "live" THEN "shut" ELSE manager[s]]

\* _note_crosslink(st, False), and the mistake of not telling the router.
StillNoted(st) == noted
NoteDown(st) == noted \ {st}

\* _sessions.pop(st), or not.
KeepSession(st) == sessions
DropSession(st) == [sessions EXCEPT ![st] = None]

\* _pending_connects.pop(st), or not.
KeepPending(st) == pending
PopPending(st) == [pending EXCEPT ![st] = None]

\* What becomes of a future: only one that is not done() takes a new outcome.
Settle(c, result) ==
    [future EXCEPT ![c] = IF @ = "pending" THEN result ELSE @]

\* A 'd' frame written by a session: the packet engine takes the link down and
\* confirms.  Nothing leaves through a TCP connection that is gone.
SendDisconnect(s) ==
    IF s \in onWire
    THEN /\ link' = [link EXCEPT ![peer[s]] = "down"]
         /\ inbox' = Append(inbox, Frame("d", peer[s]))
    ELSE UNCHANGED <<link, inbox>>

\* A new _AGWPESession enters the table.
NewSession(st, s) ==
    /\ peer[s] = None
    /\ peer' = [peer EXCEPT ![s] = st]
    /\ sessions' = [sessions EXCEPT ![st] = s]
    /\ onWire' = onWire \cup {s}

\* The read loop takes the next frame.
Take(kind, st) ==
    /\ tcp = "up"
    /\ inbox # <<>>
    /\ Head(inbox) = Frame(kind, st)
    /\ inbox' = Tail(inbox)
    /\ UNCHANGED <<tcp, link>>

-----------------------------------------------------------------------------
\* _dispatch, one frame at a time.

\* 'C' while a connect is pending: it confirms it, and its session replaces
\* whatever the table held.
OutboundConfirmed(st, s) ==
    /\ Take("C", st)
    /\ pending[st] # None
    /\ NewSession(st, s)
    /\ manager' = [manager EXCEPT ![s] = "live"]
    /\ noted' = noted \cup {st}
    /\ future' = Settle(pending[st], "result")
    /\ pending' = PopPending(st)
    /\ displaced' = displaced \cup Old(st)
    /\ UNCHANGED <<tasks, task, eof, cancelled, suppressed, wclosing, mclosing,
                   pc, target, waitsOn, outcome, spared>>

\* Any other 'C' is an inbound connection.  A session already in the table is
\* torn down first: its manager is shut down, its reader fed an EOF, its task
\* cancelled and forgotten.
InboundCrosslink(st, s) ==
    /\ Take("C", st)
    /\ pending[st] = None
    /\ NewSession(st, s)
    /\ eof' = eof \cup Old(st)
    /\ task' = Unstarted(Replaced(st))
    /\ Cancel(Replaced(st))
    /\ tasks' = IF sessions[st] = None THEN tasks ELSE [tasks EXCEPT ![st] = None]
    /\ manager' = [ShutDown(Old(st)) EXCEPT ![s] = "live"]
    /\ noted' = noted \cup {st}
    /\ UNCHANGED <<pending, suppressed, wclosing, mclosing, callerVars, history>>

InboundUser(st, s) ==
    /\ Take("C", st)
    /\ pending[st] = None
    /\ NewSession(st, s)
    /\ eof' = eof \cup Old(st)
    /\ task' = [Unstarted(Replaced(st)) EXCEPT ![s] = "scheduled"]
    /\ Cancel(Replaced(st))
    /\ tasks' = [tasks EXCEPT ![st] = s]
    /\ manager' = ShutDown(Old(st))
    /\ noted' = IF IsCrosslink(st) THEN NoteDown(st) ELSE noted
    /\ UNCHANGED <<pending, suppressed, wclosing, mclosing, callerVars, history>>

\* A NET/ROM frame on a user session: _promote_to_netrom_crosslink.
Promote(st) ==
    /\ Take("NETROM", st)
    /\ sessions[st] # None
    /\ ~IsCrosslink(st)
    /\ suppressed' = suppressed \cup Old(st)
    /\ task' = Unstarted(OldTask(st))
    /\ Cancel(OldTask(st))
    /\ tasks' = [tasks EXCEPT ![st] = None]
    /\ eof' = eof \cup Old(st)
    /\ manager' = [manager EXCEPT ![sessions[st]] = "live"]
    /\ noted' = noted \cup {st}
    /\ UNCHANGED <<sessions, pending, peer, onWire, wclosing, mclosing, callerVars, history>>

\* A NET/ROM frame for the manager, or for nobody.
NetromFrame(st) ==
    /\ Take("NETROM", st)
    /\ sessions[st] = None \/ IsCrosslink(st)
    /\ UNCHANGED <<tables, sessionVars, onWire, callerVars, history>>

\* 'd' while a connect is pending: it failed.  No session is torn down.
ConnectFailed(st) ==
    /\ Take("d", st)
    /\ pending[st] # None
    /\ future' = Settle(pending[st], "exception")
    /\ pending' = PopPending(st)
    /\ spared' = spared \cup Old(st)
    /\ UNCHANGED <<sessions, tasks, noted, sessionVars, onWire,
                   pc, target, waitsOn, outcome, displaced>>

\* 'd' for a session: out of the table, its manager shut down or its reader
\* fed an EOF; its task ends by itself.
Disconnected(st) ==
    /\ Take("d", st)
    /\ pending[st] = None
    /\ sessions' = DropSession(st)
    /\ manager' = ShutDown(Old(st))
    /\ noted' = IF IsCrosslink(st) THEN NoteDown(st) ELSE noted
    /\ eof' = eof \cup Old(st)
    /\ UNCHANGED <<tasks, pending, peer, task, cancelled, suppressed, wclosing,
                   mclosing, onWire, callerVars, history>>

-----------------------------------------------------------------------------
\* The task of a user session: _run_session around the engine's callback.

TaskStarts(s) ==
    /\ task[s] = "scheduled"
    /\ task' = [task EXCEPT ![s] = "running"]
    /\ UNCHANGED <<tcp, link, inbox, tables, peer, eof, cancelled, suppressed,
                   wclosing, manager, mclosing, onWire, callerVars, history>>

\* The user leaves, or the session notices the EOF or the cancellation, says
\* farewell and closes the connection: _AGWPEVirtualWriter.close().
TaskCloses(s) ==
    /\ task[s] = "running"
    /\ task' = [task EXCEPT ![s] = "closed"]
    /\ IF s \in wclosing \cup suppressed
       THEN UNCHANGED <<wclosing, link, inbox>>
       ELSE wclosing' = wclosing \cup {s} /\ SendDisconnect(s)
    /\ UNCHANGED <<tcp, tables, peer, eof, cancelled, suppressed, manager,
                   mclosing, onWire, callerVars, history>>

\* Is the entry under this station the session's own, and still a user's?
\* Forgetting whose it is removes the entry of a reconnected user.
AnyEntry(s) == sessions[peer[s]] # None /\ manager[s] = "none"
OwnEntry(s) == sessions[peer[s]] = s /\ manager[s] = "none"

\* _run_session returns.  A cancellation during the farewell skips the close.
TaskEnds(s) ==
    /\ task[s] = "closed" \/ (task[s] = "running" /\ s \in cancelled)
    /\ task' = [task EXCEPT ![s] = "done"]
    /\ sessions' = IF OwnEntry(s) THEN [sessions EXCEPT ![peer[s]] = None] ELSE sessions
    /\ tasks' = IF tasks[peer[s]] = s THEN [tasks EXCEPT ![peer[s]] = None] ELSE tasks
    /\ UNCHANGED <<tcp, link, inbox, pending, noted, peer, eof, cancelled, suppressed,
                   wclosing, manager, mclosing, onWire, callerVars, history>>

\* drain() gives up on a writer: it counts as closing, but no 'd' was sent.
WriteTimesOut(s) ==
    /\ task[s] = "running"
    /\ wclosing' = wclosing \cup {s}
    /\ UNCHANGED <<tcp, link, inbox, tables, peer, task, eof, cancelled, suppressed,
                   manager, mclosing, onWire, callerVars, history>>

\* A manager without circuits closes the link; its writer may time out too.
ManagerCloses(s) ==
    /\ manager[s] = "live"
    /\ s \notin mclosing
    /\ mclosing' = mclosing \cup {s}
    /\ SendDisconnect(s) \/ UNCHANGED <<link, inbox>>
    /\ UNCHANGED <<tcp, tables, peer, task, eof, cancelled, suppressed, wclosing,
                   manager, onWire, callerVars, history>>

-----------------------------------------------------------------------------
\* connect_out, between its suspensions.

\* The coroutine ends, and its local variables with it.
End(c, how) ==
    /\ pc' = [pc EXCEPT ![c] = "ended"]
    /\ outcome' = [outcome EXCEPT ![c] = how]
    /\ target' = [target EXCEPT ![c] = None]
    /\ waitsOn' = [waitsOn EXCEPT ![c] = None]

\* A crosslink to the station is there already.
Reuse(c, st) ==
    /\ IsCrosslink(st)
    /\ End(c, "manager")
    /\ UNCHANGED <<link, pending, future>>

\* A connect to the station is in flight already.
Coalesce(c, st) ==
    /\ ~IsCrosslink(st)
    /\ pending[st] # None
    /\ waitsOn' = [waitsOn EXCEPT ![c] = pending[st]]
    /\ target' = [target EXCEPT ![c] = st]
    /\ pc' = [pc EXCEPT ![c] = "coalesced"]
    /\ UNCHANGED <<link, pending, future, outcome>>

NotConnected(c, st) ==
    /\ ~IsCrosslink(st)
    /\ pending[st] = None
    /\ tcp # "up"
    /\ End(c, "ConnectionError")
    /\ UNCHANGED <<link, pending, future>>

\* A future is created and the 'C' frame written; drain() may suspend.
SendConnect(c, st) ==
    /\ ~IsCrosslink(st)
    /\ pending[st] = None
    /\ tcp = "up"
    /\ pending' = [pending EXCEPT ![st] = c]
    /\ future' = [future EXCEPT ![c] = "pending"]
    /\ waitsOn' = [waitsOn EXCEPT ![c] = c]
    /\ link' = [link EXCEPT ![st] = "calling"]
    /\ target' = [target EXCEPT ![c] = st]
    /\ pc' = [pc EXCEPT ![c] = "sending"]
    /\ UNCHANGED outcome

ConnectOut(c, st) ==
    /\ pc[c] = "idle"
    /\ \/ Reuse(c, st)
       \/ Coalesce(c, st)
       \/ NotConnected(c, st)
       \/ SendConnect(c, st)
    /\ UNCHANGED <<tcp, inbox, sessions, tasks, noted, sessionVars, onWire, history>>

Sent(c) ==
    /\ pc[c] = "sending"
    /\ pc' = [pc EXCEPT ![c] = "waiting"]
    /\ UNCHANGED <<tcp, link, inbox, tables, sessionVars, onWire,
                   target, waitsOn, future, outcome, history>>

\* drain() raises: the entry for the station is popped, whosever it is.
SendFails(c) ==
    /\ pc[c] = "sending"
    /\ pending' = PopPending(target[c])
    /\ future' = Settle(c, "cancelled")
    /\ End(c, "ConnectionError")
    /\ UNCHANGED <<tcp, link, inbox, sessions, tasks, noted, sessionVars, onWire, history>>

\* How awaiting a future ends.
Awaited(f) == CASE future[f] = "result" -> "manager"
                [] future[f] = "exception" -> "ConnectionError"
                [] OTHER -> "CancelledError"

\* The future is done and its caller, or one that joined it, resumes.
Resume(c) ==
    /\ pc[c] \in {"waiting", "coalesced"}
    /\ future[waitsOn[c]] # "pending"
    /\ End(c, Awaited(waitsOn[c]))
    /\ UNCHANGED <<tcp, link, inbox, tables, sessionVars, onWire, future, history>>

\* What wait_for() makes of the future it gives up on.
LeavePending(c) == future
CancelFuture(c) == Settle(c, "cancelled")

\* wait_for() times out; a caller that joined the future has no timeout.
TimesOut(c) ==
    /\ pc[c] = "waiting"
    /\ future' = CancelFuture(c)
    /\ pending' = PopPending(target[c])
    /\ End(c, "TimeoutError")
    /\ UNCHANGED <<tcp, link, inbox, sessions, tasks, noted, sessionVars, onWire, history>>

\* The caller's own task is cancelled.  Awaiting a future, it takes the future
\* with it; the entry in the table stays.
CallerCancelled(c) ==
    /\ "cancelled caller" \in Events
    /\ pc[c] \in {"sending", "waiting", "coalesced"}
    /\ future' = IF pc[c] = "sending" THEN future ELSE Settle(waitsOn[c], "cancelled")
    /\ End(c, "CancelledError")
    /\ UNCHANGED <<tcp, link, inbox, tables, sessionVars, onWire, history>>

-----------------------------------------------------------------------------
\* The TCP connection: start().

TcpUp ==
    /\ tcp = "down"
    /\ tcp' = "up"
    /\ UNCHANGED <<link, inbox, tables, sessionVars, onWire, callerVars, history>>

\* The read loop ends; every pending connect fails.
TcpLost ==
    /\ tcp = "up"
    /\ tcp' = "dropping"
    /\ future' = [c \in Callers |->
                     IF c \in {pending[st] : st \in Stations} /\ future[c] = "pending"
                     THEN "exception" ELSE future[c]]
    /\ pending' = [st \in Stations |-> None]
    /\ link' = [st \in Stations |-> "down"]
    /\ inbox' = <<>>
    /\ onWire' = {}
    /\ UNCHANGED <<sessions, tasks, noted, sessionVars, pc, target, waitsOn, outcome, history>>

\* After the beacon task and the socket have been waited for: every session
\* task is cancelled, every session torn down.
TcpCleanup ==
    /\ tcp = "dropping"
    /\ tcp' = "down"
    /\ task' = Unstarted(UNION {OldTask(st) : st \in Stations})
    /\ Cancel(UNION {OldTask(st) : st \in Stations})
    /\ tasks' = [st \in Stations |-> None]
    /\ manager' = ShutDown(UNION {Old(st) : st \in Stations})
    /\ noted' = {st \in noted : ~IsCrosslink(st)}
    /\ eof' = eof \cup UNION {Old(st) : st \in Stations}
    /\ sessions' = [st \in Stations |-> None]
    /\ UNCHANGED <<link, inbox, pending, peer, suppressed, wclosing, mclosing,
                   onWire, callerVars, history>>

-----------------------------------------------------------------------------
\* The packet engine and the stations.

RoomForConnect ==
    Cardinality({i \in DOMAIN inbox : inbox[i].kind = "C"})
        < Cardinality({s \in Sessions : peer[s] = None})

\* A station connects, connects again over an open link (an AX.25 reset), or
\* answers our call; the model keeps a session object for each.
StationConnects(st) ==
    /\ tcp = "up"
    /\ Len(inbox) < MaxInbox
    /\ RoomForConnect
    /\ link' = [link EXCEPT ![st] = "up"]
    /\ inbox' = Append(inbox, Frame("C", st))
    /\ UNCHANGED <<tcp, tables, sessionVars, onWire, callerVars, history>>

\* A station disconnects, refuses our call or never answers it.
StationDisconnects(st) ==
    /\ tcp = "up"
    /\ Len(inbox) < MaxInbox
    /\ link[st] # "down"
    /\ link' = [link EXCEPT ![st] = "down"]
    /\ inbox' = Append(inbox, Frame("d", st))
    /\ UNCHANGED <<tcp, tables, sessionVars, onWire, callerVars, history>>

StationSendsNetrom(st) ==
    /\ tcp = "up"
    /\ Len(inbox) < MaxInbox
    /\ link[st] = "up"
    /\ inbox' = Append(inbox, Frame("NETROM", st))
    /\ UNCHANGED <<tcp, link, tables, sessionVars, onWire, callerVars, history>>

-----------------------------------------------------------------------------
Dispatch(st) ==
    \/ \E s \in Sessions : \/ OutboundConfirmed(st, s)
                           \/ InboundCrosslink(st, s)
                           \/ InboundUser(st, s)
    \/ Promote(st)
    \/ NetromFrame(st)
    \/ ConnectFailed(st)
    \/ Disconnected(st)

Environment(st) ==
    StationConnects(st) \/ StationDisconnects(st) \/ StationSendsNetrom(st)

Task(s) == TaskStarts(s) \/ TaskCloses(s) \/ TaskEnds(s) \/ WriteTimesOut(s)

Call(c) == Sent(c) \/ SendFails(c) \/ Resume(c) \/ TimesOut(c) \/ CallerCancelled(c)

Next ==
    \/ \E st \in Stations : Dispatch(st) \/ Environment(st)
    \/ \E s \in Sessions : Task(s) \/ ManagerCloses(s)
    \/ \E c \in Callers : Call(c) \/ \E st \in Stations : ConnectOut(c, st)
    \/ TcpUp \/ TcpLost \/ TcpCleanup

Spec == Init /\ [][Next]_vars

\* The event loop dispatches what the read loop received, lets start() clean
\* up, a drain() of the socket return or raise, and resumes a caller whose
\* future is done or whose time is up.
Fairness ==
    /\ WF_vars(\E st \in Stations : Dispatch(st))
    /\ WF_vars(TcpCleanup)
    /\ \A c \in Callers :
          /\ WF_vars(Sent(c) \/ SendFails(c))
          /\ WF_vars(TimesOut(c))
          /\ WF_vars(Resume(c))

FairSpec == Spec /\ Fairness

-----------------------------------------------------------------------------
\* The router believes a station to have a live crosslink exactly while its
\* session in the table has a circuit manager (_note_crosslink), whether the
\* crosslink came in, went out or grew out of a user session, and however it
\* ended.
CrosslinkNoted == noted = {st \in Stations : IsCrosslink(st)}

\* A running session that nobody told to end is the one its station's frames
\* reach and the one a reconnect or a TCP loss would cancel.  The exception is
\* a user's session displaced by an outbound connect to the user's station.
UserReachable ==
    \A s \in Sessions \ displaced :
        (task[s] \in {"scheduled", "running"} /\ s \notin eof \cup cancelled)
            => sessions[peer[s]] = s /\ tasks[peer[s]] = s

\* A circuit manager that was not shut down owns the link of its station, with
\* the same exception: the user's session was promoted while the connect was
\* pending.
OneManager ==
    \A s \in Sessions \ displaced : manager[s] = "live" => sessions[peer[s]] = s

\* A connect that has been answered is answered once: no later connect_out()
\* joins a future that already has its result.
NoStaleAnswer ==
    \A st \in Stations :
        pending[st] # None => future[pending[st]] \notin {"result", "exception"}

\* Nobody is left to time out on the future this caller joined: its creator was
\* cancelled while it was still sending, which leaves the future as it is.
Abandoned(c) ==
    /\ pc[c] = "coalesced"
    /\ future[waitsOn[c]] = "pending"
    /\ outcome[waitsOn[c]] = "CancelledError"

\* Every connect_out() ends, also for the callers that joined another's and
\* have no timeout of their own; an abandoned one may wait for ever.
CallersReturn ==
    \A c \in Callers :
        (pc[c] \in {"sending", "waiting", "coalesced"}) ~> (pc[c] = "ended" \/ Abandoned(c))

\* The session of a link that went down leaves the table, unless its 'd' was
\* taken for the refusal of a connect to the same station.
DeadSessionLeaves ==
    \A st \in Stations :
        (link[st] = "down") ~>
            (link[st] # "down" \/ sessions[st] \in spared \cup {None})

\* "tear down the stale BBS session and start a fresh one": a session that was
\* replaced does not disconnect the station it no longer serves.
StaleNeverDisconnects ==
    [][\A s \in Sessions :
          (s \in (wclosing' \cup mclosing') \ (wclosing \cup mclosing)
             /\ link'[peer[s]] # link[peer[s]])
                => sessions[peer[s]] \in {s, None}]_vars

\* connect_out() "raises asyncio.TimeoutError if no 'C' confirmation arrives
\* within timeout; ConnectionError on a 'd'/RETRYOUT rejection or if the AGWPE
\* TCP link drops meanwhile": a caller that nobody cancelled gets one of those.
DocumentedOutcome ==
    "cancelled caller" \notin Events =>
        \A c \in Callers : outcome[c] # "CancelledError"
=============================================================================
