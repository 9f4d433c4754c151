---------------------------- MODULE NodeGateway ----------------------------
(***************************************************************************)
(* Users at the node prompt and the guard they share: NetromNode           *)
(* (src/bbs/netrom/node.py), GatewayGuard (gateway.py), the registry of    *)
(* the node plugin (plugins/node/node.py) and the task that hosts a user   *)
(* who called the node's SSID (core/engine.py, _run_node_native).          *)
(* A CONNECT reserves a slot and then awaits the crosslink, the circuit,   *)
(* the user's terminal and the bridge, each of which can fail, and the     *)
(* session's task may be cancelled at every one of them.                   *)
(*                                                                         *)
(* Abstracted: the listings, the routing lookup (any outcome; see          *)
(* NetromRouter), access lists (the sessions they let pass), and what the  *)
(* bytes on a bridge say.  Of the circuits of one session, the last one it *)
(* asked for is followed.                                                  *)
(***************************************************************************)
EXTENDS Integers, FiniteSets

CONSTANTS
    Sessions,       \* node sessions over the life of the program
    Users,          \* base callsigns
    UserOf,         \* [session -> its user]
    Native,         \* the sessions that called the node SSID; others use the @ menu
    Permitted,      \* the sessions check()'s lists and levels let pass
    Neighbours,     \* adjacent nodes
    ArrivedVia,     \* [session -> the neighbour its circuit came in on, or None]
    None,
    MaxCircuits, MaxPerUser,  \* the guard's caps
    RateLimit       \* accepted connects per user and minute; 0: no limit

ASSUME GatewayAssumption ==
    /\ UserOf \in [Sessions -> Users]
    /\ Native \subseteq Sessions /\ Permitted \subseteq Sessions
    /\ None \notin Neighbours
    /\ ArrivedVia \in [Sessions -> Neighbours \cup {None}]
    /\ MaxCircuits \in Nat \ {0} /\ MaxPerUser \in Nat \ {0} /\ RateLimit \in Nat

VARIABLES
    pc,           \* [session -> where its task stands]
    near,         \* [session -> whether its user is still there]
    far,          \* [session -> the last circuit it asked for, see Fars]
    pump,         \* [session -> what its bridge's pump to the far end does]
    lost,         \* the sessions that await a connect nobody will answer
    interrupted,  \* those an exception met as they opened or announced a circuit
    live,         \* the node plugin's _live
    activeTotal, activePerUser,   \* the guard's counters
    recent        \* [user -> accepted connects of the last minute]

guard == <<activeTotal, activePerUser, recent>>
bridge == <<pump, lost>>
vars == <<pc, near, far, bridge, interrupted, live, guard>>

\* Inside the try clause of cmd_connect(), that is with a slot.
Connecting == {"telling", "linking", "originating", "failed", "announcing", "bridged"}
\* Inside command_loop().
InLoop == Connecting \cup {"prompt", "refused", "app"}
States == InLoop \cup {"new", "leaving", "gone"}
\* A circuit that awaits its CONNECT ACK, is connected, or was refused is in
\* its manager's table; one that the far end closed is not.
InTable == {"calling", "open", "refused"}
Fars == InTable \cup {"none", "closed"}

Init == /\ pc = [s \in Sessions |-> "new"]
        /\ near = [s \in Sessions |-> TRUE]
        /\ far = [s \in Sessions |-> "none"]
        /\ pump = [s \in Sessions |-> "idle"]
        /\ lost = {}
        /\ interrupted = {}
        /\ live = {}
        /\ activeTotal = 0
        /\ activePerUser = [u \in Users |-> 0]
        /\ recent = [u \in Users |-> 0]

Goto(s, where) == pc' = [pc EXCEPT ![s] = where]

-----------------------------------------------------------------------------
\* GatewayGuard

RateExceeded(u) == RateLimit > 0 /\ recent[u] >= RateLimit

\* check(): the first gate that fails refuses the connect.
Passes(s, neighbour) ==
    /\ s \in Permitted
    /\ ~RateExceeded(UserOf[s])
    /\ neighbour # ArrivedVia[s]

\* acquire(): both caps are tested and taken together.
SlotFree(s) == /\ activeTotal < MaxCircuits
               /\ activePerUser[UserOf[s]] < MaxPerUser

Acquire(s) ==
    /\ activeTotal' = activeTotal + 1
    /\ activePerUser' = [activePerUser EXCEPT ![UserOf[s]] = @ + 1]
    /\ recent' = [recent EXCEPT ![UserOf[s]] = IF RateLimit > 0 THEN @ + 1 ELSE @]

\* A mutant: the slot is not given back.
KeepSlot(s) == UNCHANGED guard

\* release() never goes below zero.
Release(s) ==
    /\ activeTotal' = IF activeTotal > 0 THEN activeTotal - 1 ELSE 0
    /\ activePerUser' = [activePerUser EXCEPT ![UserOf[s]] = IF @ <= 1 THEN 0 ELSE @ - 1]
    /\ UNCHANGED recent

\* An entry of the rate window is older than a minute.
MinutePasses(u) ==
    /\ recent[u] > 0
    /\ recent' = [recent EXCEPT ![u] = @ - 1]
    /\ UNCHANGED <<pc, near, far, bridge, interrupted, live, activeTotal, activePerUser>>

-----------------------------------------------------------------------------
\* The sessions

\* run_native() or handle_session(), and _run_tracked().
Enter(s) ==
    /\ pc[s] = "new"
    /\ Goto(s, "prompt")
    /\ live' = live \cup {s}
    /\ UNCHANGED <<near, far, bridge, interrupted, guard>>

\* The command loop ends: _run_tracked() takes the node off the list; a
\* native session's host still has to journal it and to close the link.
LoopEnds(s) ==
    /\ Goto(s, IF s \in Native THEN "leaving" ELSE "gone")
    /\ live' = live \ {s}

\* BYE, or end of file at the prompt.
Bye(s) ==
    /\ pc[s] = "prompt"
    /\ LoopEnds(s)
    /\ UNCHANGED <<near, far, bridge, interrupted, guard>>

\* Lines the user typed before hanging up are still read, and sends may still
\* be buffered, so what follows does not ask whether the user is there.

\* CONNECT with a local application: it runs on the user's own connection and
\* needs no slot.
AppStarts(s) ==
    /\ pc[s] = "prompt"
    /\ Goto(s, "app")
    /\ UNCHANGED <<near, far, bridge, interrupted, live, guard>>

\* It ends, fails, or sees the user leave.
AppEnds(s) ==
    /\ pc[s] = "app"
    /\ IF near[s] THEN Goto(s, "prompt") /\ UNCHANGED live ELSE LoopEnds(s)
    /\ UNCHANGED <<near, far, bridge, interrupted, guard>>

\* CONNECT is refused before a slot is taken: no route or transport, not
\* authorized, the gates, or the caps.
Refuse(s) ==
    /\ pc[s] = "prompt"
    /\ Goto(s, "refused")
    /\ UNCHANGED <<near, far, bridge, interrupted, live, guard>>

RefusalSent(s) ==
    /\ pc[s] = "refused"
    /\ Goto(s, "prompt")
    /\ UNCHANGED <<near, far, bridge, interrupted, live, guard>>

\* CONNECT is accepted; there is no await between check() and acquire().
Reserve(s, neighbour) ==
    /\ pc[s] = "prompt"
    /\ Passes(s, neighbour)
    /\ SlotFree(s)
    /\ Acquire(s)
    /\ Goto(s, "telling")
    /\ UNCHANGED <<near, far, bridge, interrupted, live>>

\* "Connecting to" is out and connect_netrom() is awaited.
Told(s) ==
    /\ pc[s] = "telling"
    /\ Goto(s, "linking")
    /\ UNCHANGED <<near, far, bridge, interrupted, live, guard>>

\* It joins a connect whose own caller was cancelled before its request was
\* out: no answer, no timeout (see Abandoned in AgwpeTransport).
JoinsAbandoned(s) ==
    /\ pc[s] = "linking"
    /\ lost' = lost \cup {s}
    /\ UNCHANGED <<pc, near, far, pump, interrupted, live, guard>>

\* connect_netrom() returned the manager of the crosslink, and
\* originate_circuit() sends a CONNECT REQ.
Linked(s) ==
    /\ pc[s] = "linking" /\ s \notin lost
    /\ far' = [far EXCEPT ![s] = "calling"]
    /\ Goto(s, "originating")
    /\ UNCHANGED <<near, bridge, interrupted, live, guard>>

\* The crosslink could not be had, or the circuit was refused or timed out and
\* originate_circuit() removed it; the user is told.
ConnectFails(s) ==
    /\ pc[s] \in {"linking", "originating"}
    /\ far' = IF pc[s] = "originating" THEN [far EXCEPT ![s] = "none"] ELSE far
    /\ lost' = lost \ {s}
    /\ Goto(s, "failed")
    /\ UNCHANGED <<near, pump, interrupted, live, guard>>

\* The message is out, the crosslink is given up if nothing rides on it (see
\* ReapNowIfIdle in NetromCircuitManager), and the prompt is back.
FailureSent(s) ==
    /\ pc[s] = "failed"
    /\ Release(s)
    /\ Goto(s, "prompt")
    /\ UNCHANGED <<near, far, bridge, interrupted, live>>

\* originate_circuit() returned an open circuit.
Originated(s) ==
    /\ pc[s] = "originating" /\ far[s] = "open"
    /\ Goto(s, "announcing")
    /\ UNCHANGED <<near, far, bridge, interrupted, live, guard>>

\* "*** Connected to" is sent and the pumps start.
Announced(s) ==
    /\ pc[s] = "announcing"
    /\ Goto(s, "bridged")
    /\ UNCHANGED <<near, far, bridge, interrupted, live, guard>>

\* The user types: the bytes wait in the reader or, short of a line end, in
\* the pump.
UserTypes(s) ==
    /\ pc[s] = "bridged" /\ near[s] /\ pump[s] = "idle"
    /\ pump' = [pump EXCEPT ![s] = "data"]
    /\ UNCHANGED <<pc, near, far, lost, interrupted, live, guard>>

\* A whole line, or at the end of file the rest, goes to the circuit's writer;
\* its drain() waits for the window without a timeout.
PumpWrites(s) ==
    /\ pc[s] = "bridged" /\ pump[s] = "data"
    /\ pump' = [pump EXCEPT ![s] = "sending"]
    /\ UNCHANGED <<pc, near, far, lost, interrupted, live, guard>>

\* drain() returns: the far end made room, or the circuit is closed.
DrainReturns(s) ==
    /\ pump[s] = "sending"
    /\ pump' = [pump EXCEPT ![s] = "idle"]
    /\ UNCHANGED <<pc, near, far, lost, interrupted, live, guard>>

\* A mutant: the bridge waits for both pumps.
AllCompleted(ended) == {ended} \cap {{"down", "up"}}

\* _bridge() waits for the first of its pumps to end; both may have.
FirstCompleted(ended) == SUBSET ended \ {{}}

\* A mutant: the circuit stays open.
LeaveCircuit(s) == UNCHANGED far

\* _bridge()'s finally clause closes the circuit's writer.
CloseCircuit(s) == far' = [far EXCEPT ![s] = "none"]

\* The pumps are stopped and the circuit is closed.  If the pump to the far end
\* has ended the user is taken to be gone and the loop ends, else the prompt is
\* back.
BridgeEnds(s, ended) ==
    /\ pc[s] = "bridged"
    /\ CloseCircuit(s)
    /\ Release(s)
    /\ \E done \in FirstCompleted(ended) :
         IF "down" \in done THEN LoopEnds(s) ELSE Goto(s, "prompt") /\ UNCHANGED live
    /\ pump' = [pump EXCEPT ![s] = "idle"]
    /\ UNCHANGED <<near, lost, interrupted>>

\* The pumps that read an end of file.
AtEof(s) == {p \in {"down", "up"} : \/ p = "down" /\ ~near[s] /\ pump[s] = "idle"
                                    \/ p = "up" /\ far[s] = "closed"}
PumpsEnd(s) == BridgeEnds(s, AtEof(s))

\* A write to the user fails, with a timeout or since the user is gone: of what
\* the far end sent, or of the echo of what the user typed.
PumpsFail(s) ==
    \/ BridgeEnds(s, AtEof(s) \cup {"up"})
    \/ pump[s] = "data" /\ BridgeEnds(s, AtEof(s) \cup {"down"})

Exposed(s) == IF pc[s] \in {"originating", "announcing"}
              THEN interrupted \cup {s} ELSE interrupted

\* An exception ends cmd_connect() or the command loop wherever it awaits: the
\* task is cancelled (idle watchdog, transport, shutdown) or a send finds
\* the user gone.  The finally clauses run.  Only the bridge has one for its
\* circuit: a circuit that awaits its CONNECT ACK or is being announced stays
\* in the table.
Unwind(s) ==
    /\ pc[s] \in InLoop
    /\ IF pc[s] \in Connecting
       THEN /\ Release(s)
            /\ interrupted' = Exposed(s)
            /\ IF pc[s] = "bridged" THEN CloseCircuit(s) ELSE UNCHANGED far
       ELSE UNCHANGED <<guard, interrupted, far>>
    /\ LoopEnds(s)
    /\ pump' = [pump EXCEPT ![s] = "idle"]
    /\ lost' = lost \ {s}
    /\ UNCHANGED near

Cancelled(s) == Unwind(s)
SendFails(s) == /\ ~near[s]
                /\ pc[s] \in {"prompt", "refused", "telling", "failed", "announcing"}
                /\ Unwind(s)

\* A send inside a command times out but the next one does not: the loop says
\* "Command failed." and prompts again.
CommandFails(s) ==
    /\ near[s] /\ pc[s] \in {"refused", "telling", "failed", "announcing"}
    /\ IF pc[s] \in Connecting
       THEN Release(s) /\ interrupted' = Exposed(s)
       ELSE UNCHANGED <<guard, interrupted>>
    /\ Goto(s, "prompt")
    /\ UNCHANGED <<near, far, bridge, live>>

\* _run_node_native()'s finally clause: journal, events, close.
HostEnds(s) ==
    /\ pc[s] = "leaving"
    /\ Goto(s, "gone")
    /\ near' = [near EXCEPT ![s] = FALSE]
    /\ UNCHANGED <<far, bridge, interrupted, live, guard>>

\* The environment: the user hangs up.
UserLeaves(s) ==
    /\ near[s] /\ pc[s] \in InLoop
    /\ near' = [near EXCEPT ![s] = FALSE]
    /\ UNCHANGED <<pc, far, bridge, interrupted, live, guard>>

\* The far node answers a CONNECT REQ, also one whose session has left.
FarAnswers(s) ==
    /\ far[s] = "calling"
    /\ \E answer \in {"open", "refused"} : far' = [far EXCEPT ![s] = answer]
    /\ UNCHANGED <<pc, near, bridge, interrupted, live, guard>>

\* The far node or the crosslink closes the circuit, which its manager removes;
\* the session has yet to see it.
FarCloses(s) ==
    /\ far[s] \in InTable
    /\ far' = [far EXCEPT ![s] =
            IF pc[s] \in {"originating", "announcing", "bridged"} THEN "closed" ELSE "none"]
    /\ UNCHANGED <<pc, near, bridge, interrupted, live, guard>>

Next ==
    \/ \E s \in Sessions :
        \/ Enter(s) \/ Bye(s) \/ AppStarts(s) \/ AppEnds(s)
        \/ Refuse(s) \/ RefusalSent(s)
        \/ \E n \in Neighbours : Reserve(s, n)
        \/ Told(s) \/ JoinsAbandoned(s) \/ Linked(s) \/ ConnectFails(s) \/ FailureSent(s)
        \/ Originated(s) \/ Announced(s)
        \/ UserTypes(s) \/ PumpWrites(s) \/ DrainReturns(s) \/ PumpsEnd(s) \/ PumpsFail(s)
        \/ Cancelled(s) \/ SendFails(s) \/ CommandFails(s) \/ HostEnds(s)
        \/ UserLeaves(s) \/ FarAnswers(s) \/ FarCloses(s)
    \/ \E u \in Users : MinutePasses(u)

Spec == Init /\ [][Next]_vars

\* connect_netrom() and originate_circuit() have timeouts, except for a caller
\* that joined an abandoned connect.  Once the user is gone a send goes into a
\* buffer or fails, and the pump reads what is left and the end of file; its
\* drain() is only sure to return if the circuit is closed.
Fairness == \A s \in Sessions :
    /\ WF_vars(s \notin lost /\ (Linked(s) \/ ConnectFails(s) \/ Originated(s)))
    /\ WF_vars(~near[s] /\ (FailureSent(s) \/ Announced(s) \/ Told(s) \/ SendFails(s)))
    /\ WF_vars(PumpWrites(s)) /\ WF_vars(far[s] = "closed" /\ DrainReturns(s))
    /\ WF_vars(~near[s] /\ PumpsEnd(s))
FairSpec == Spec /\ Fairness

-----------------------------------------------------------------------------
\* The types.
TypeOK ==
    /\ pc \in [Sessions -> States]
    /\ near \in [Sessions -> BOOLEAN]
    /\ far \in [Sessions -> Fars]
    /\ pump \in [Sessions -> {"idle", "data", "sending"}]
    /\ lost \subseteq Sessions
    /\ interrupted \subseteq Sessions
    /\ live \subseteq Sessions
    /\ activeTotal \in Nat
    /\ activePerUser \in [Users -> Nat]
    /\ recent \in [Users -> Nat]

Holders(u) == {s \in Sessions : pc[s] \in Connecting /\ UserOf[s] = u}

\* The guard's counters are the connects under way, in all and per user, and
\* within the caps, however connects fail, end or are cancelled; the
\* dashboard lists exactly the sessions in their command loop
\* (GatewayGuard.acquire, release; cmd_connect; _run_tracked).
SlotsExact ==
    /\ TypeOK
    /\ activeTotal = Cardinality({s \in Sessions : pc[s] \in Connecting})
    /\ activeTotal <= MaxCircuits
    /\ \A u \in Users : /\ activePerUser[u] = Cardinality(Holders(u))
                        /\ activePerUser[u] <= MaxPerUser
    /\ live = {s \in Sessions : pc[s] \in InLoop}

\* A circuit is in its manager's table without a session that waits for it or
\* bridges it, and so without a slot, only if its session was interrupted while
\* it waited for the CONNECT ACK or told the user of the new circuit; every
\* other end of a connect or of a bridge closes it (cmd_connect, _bridge,
\* originate_circuit).
CircuitsAccounted ==
    \A s \in Sessions :
        far[s] \in InTable => \/ pc[s] \in {"originating", "announcing", "bridged"}
                              \/ s \in interrupted

\* A user who hangs up gives the slot back, whatever the session waits for,
\* unless one of the two awaits that nothing bounds keeps it: a connect joined
\* after its caller was cancelled, or the window of a far end that does not
\* acknowledge (cmd_connect, _bridge, drain).
Held(s) == s \in lost \/ (pump[s] = "sending" /\ far[s] # "closed")
SlotsReturn ==
    \A s \in Sessions : []<>~Held(s) => (~near[s] ~> pc[s] \notin Connecting)
=============================================================================
