------------------------ MODULE NetromCircuitManager ------------------------
(***************************************************************************)
(* The circuit manager of one AX.25 crosslink (bbs/netrom/circuit.py):     *)
(* its demultiplexing tables, the local index allocator, the lifecycle of  *)
(* every NET/ROM circuit, the BBS session task of an inbound circuit, the  *)
(* coroutine of an originated one, the disconnect guard timer of a circuit *)
(* and the idle timer of the crosslink.                                    *)
(*                                                                         *)
(* asyncio runs one callback at a time, so an action is one callback, or   *)
(* the part of a coroutine between two suspensions.  Payload transfer does *)
(* not touch any of this state: it is module CircuitTransfer.              *)
(***************************************************************************)
EXTENDS Naturals, FiniteSets

CONSTANTS
    Circuits,          \* the NetromCircuit objects that may ever be created
    MaxLocalCircuits,  \* _MAX_LOCAL_CIRCUITS, 256 in the code
    IdModulus,         \* the circuit id is one byte: 256 in the code
    RemoteKeys,        \* the (idx, id) pairs remote nodes use
    ZeroKey,           \* (0, 0): the remote key of a circuit not yet accepted
    IdleTimeout,       \* TRUE iff link_idle_timeout > 0
    Events             \* which of the events below the environment produces

\* A CONNECT REQ repeated for a circuit that is already open; a DISC ACK for
\* a circuit that asked for none; the cancellation of the task that awaits
\* originate_circuit().
EnvironmentEvents == {"repeated CONNECT REQ", "stray DISC ACK", "cancelled originate"}

ASSUME ManagerAssumption ==
    /\ MaxLocalCircuits \in Nat \ {0}
    /\ IdModulus \in Nat \ {0}
    /\ IdleTimeout \in BOOLEAN
    /\ Events \subseteq EnvironmentEvents

LocalIdxs == 0 .. (MaxLocalCircuits - 1)
LocalIds  == 0 .. (IdModulus - 1)

VARIABLES
    state,        \* NetromCircuit.state
    local,        \* <<local_idx, local_id>>
    remote,       \* (remote_idx, remote_id)
    guarded,      \* the circuits whose _disc_guard_handle is armed
    wclosing,     \* the circuits whose writer has been closed (_closing)
    user,         \* the coroutine that uses the circuit
    byLocal,      \* _by_local_key, as the set of the circuits in it
    byRemote,     \* _by_remote_key, as the set of the circuits in it
    userTasks,    \* _user_tasks, as the set of the circuits whose task it holds
    usedIdx,      \* _used_local_idx
    nextId,       \* _next_local_id
    idleArmed,    \* _idle_handle is not None
    closed,       \* _closed
    axClosing,    \* the AX.25 writer is_closing()
    discOwed      \* the circuits whose DISC REQ the peer has yet to acknowledge
                  \* (not tracked where the peer may send a DISC ACK at any time)

circuitVars == <<state, local, remote, guarded, wclosing, user>>
tableVars   == <<byLocal, byRemote, userTasks, usedIdx, nextId>>
linkVars    == <<idleArmed, closed, axClosing, discOwed>>
vars == <<circuitVars, tableVars, linkVars>>

\* CONNECTING lasts only inside one callback: _open_circuit() is followed by
\* _send_connect_ack() without a suspension.
States == {"unopened", "AWAITING_CONNECT", "CONNECTED", "DISCONNECTING", "CLOSED"}

\* A session task is scheduled, then running, until it returns; cancelling
\* is a running one that cancel() was called on.  An originator is connecting
\* until originate_circuit() returns or raises; it then owns the circuit, or
\* has failed and is about to call reap_now_if_idle().
UserStates == {"none", "scheduled", "running", "cancelling",
               "connecting", "owner", "failed", "done"}

TypeOK ==
    /\ state \in [Circuits -> States]
    /\ local \in [Circuits -> LocalIdxs \X LocalIds]
    /\ remote \in [Circuits -> RemoteKeys \cup {ZeroKey}]
    /\ guarded \subseteq Circuits
    /\ wclosing \subseteq Circuits
    /\ user \in [Circuits -> UserStates]
    /\ byLocal \subseteq Circuits
    /\ byRemote \subseteq Circuits
    /\ userTasks \subseteq Circuits
    /\ usedIdx \subseteq LocalIdxs
    /\ nextId \in LocalIds
    /\ idleArmed \in BOOLEAN
    /\ closed \in BOOLEAN
    /\ axClosing \in BOOLEAN
    /\ discOwed \subseteq Circuits

\* The manager is born without circuits and arms its idle timer.
Init ==
    /\ state = [c \in Circuits |-> "unopened"]
    /\ local = [c \in Circuits |-> <<0, 0>>]
    /\ remote = [c \in Circuits |-> ZeroKey]
    /\ guarded = {}
    /\ wclosing = {}
    /\ user = [c \in Circuits |-> "none"]
    /\ byLocal = {}
    /\ byRemote = {}
    /\ userTasks = {}
    /\ usedIdx = {}
    /\ nextId = 0
    /\ idleArmed = IdleTimeout
    /\ closed = FALSE
    /\ axClosing = FALSE
    /\ discOwed = {}

-----------------------------------------------------------------------------
\* Helpers: what the methods the handlers share do to the state.

\* The circuits a dictionary keyed by (local_idx, local_id) confuses with c.
SameLocal(S, c) == {d \in S : local[d] = local[c]}

\* _allocate_local_idx: the lowest index that is not in use.
LowestFreeIdx ==
    CHOOSE i \in LocalIdxs \ usedIdx : \A j \in LocalIdxs \ usedIdx : i <= j

\* _allocate_local_id: a one-byte counter that wraps; without the wrap it
\* leaves the byte.
UnwrappedLocalId == nextId + 1
NextLocalId == (nextId + 1) % IdModulus

TableFull == LocalIdxs \subseteq usedIdx

\* Task.cancel() on the session tasks of S: a task that has not started never
\* enters its try block, one that runs sees a CancelledError.  Tasks that are
\* only forgotten run on.
ForgetTasks(u, S) == u
CancelTasks(u, S) ==
    [c \in Circuits |-> CASE c \in S /\ u[c] = "scheduled" -> "done"
                          [] c \in S /\ u[c] = "running" -> "cancelling"
                          [] OTHER -> u[c]]

\* _arm_disc_guard, or no guard at all.
NoGuard(c) == guarded
ArmGuard(c) == guarded \cup {c}

\* _initiate_disconnect: nothing in DISCONNECTING or CLOSED; otherwise send
\* DISC REQ (dropped when the AX.25 writer is closing) and arm the guard.
InitiateDisconnect(c) ==
    IF state[c] \in {"DISCONNECTING", "CLOSED"}
    THEN UNCHANGED <<state, guarded, discOwed>>
    ELSE /\ state' = [state EXCEPT ![c] = "DISCONNECTING"]
         /\ guarded' = ArmGuard(c)
         /\ discOwed' = IF axClosing \/ closed \/ "stray DISC ACK" \in Events
                        THEN discOwed ELSE discOwed \cup {c}

\* _set_closed: terminal, cancels the guard, wakes every waiter.
SetClosed(S) ==
    /\ state' = [c \in Circuits |-> IF c \in S THEN "CLOSED" ELSE state[c]]
    /\ guarded' = guarded \ S

\* What _remove_circuit makes of the indices in use, of _by_remote_key and of
\* the idle timer, each with the mistake of leaving it as it is.
KeepIdx(c) == usedIdx
FreeIdx(c) == usedIdx \ {local[c][1]}

KeepRemoteKey(c) == byRemote
DropRemoteKey(c) == {d \in byRemote : remote[d] # remote[c]}

NeverArmed(left) == idleArmed
ArmIdleTimer(left) == idleArmed \/ (left = {} /\ ~closed /\ IdleTimeout)

\* _remove_circuit: every table forgets what it holds under c's keys, the
\* index is free again, and the last circuit to leave arms the idle timer.
\* u is what the handler itself made of the users.
RemoveCircuit(c, u) ==
    /\ byLocal' = byLocal \ SameLocal(byLocal, c)
    /\ byRemote' = DropRemoteKey(c)
    /\ usedIdx' = FreeIdx(c)
    /\ user' = CancelTasks(u, SameLocal(userTasks, c))
    /\ userTasks' = userTasks \ SameLocal(userTasks, c)
    /\ idleArmed' = ArmIdleTimer(byLocal \ SameLocal(byLocal, c))

\* What _open_circuit and originate_circuit share: the idle timer is
\* cancelled, an index and an id are allocated, the circuit is entered in
\* _by_local_key under them.
Allocate(c) ==
    /\ state[c] = "unopened"
    /\ ~TableFull
    /\ idleArmed' = FALSE
    /\ usedIdx' = usedIdx \cup {LowestFreeIdx}
    /\ nextId' = NextLocalId
    /\ local' = [local EXCEPT ![c] = <<LowestFreeIdx, NextLocalId>>]
    /\ byLocal' = {d \in byLocal : local[d] # <<LowestFreeIdx, NextLocalId>>} \cup {c}

-----------------------------------------------------------------------------
\* Frames from the crosslink, while the transport still dispatches to it.

\* _handle_connect_request, first branch: a CONNECT REQ under a known remote
\* key is answered with the CONNECT ACK again, which makes it CONNECTED.
RepeatedConnectRequest(c) ==
    /\ "repeated CONNECT REQ" \in Events
    /\ ~closed
    /\ c \in byRemote
    /\ state' = [state EXCEPT ![c] = "CONNECTED"]
    /\ UNCHANGED <<local, remote, guarded, wclosing, user, tableVars, linkVars>>

\* _handle_connect_request: a new circuit, its CONNECT ACK and its session.
\* (A full table is answered with a refusal that changes nothing.)
ConnectRequest(c, key) ==
    /\ ~closed
    /\ \A d \in byRemote : remote[d] # key
    /\ Allocate(c)
    /\ remote' = [remote EXCEPT ![c] = key]
    /\ byRemote' = byRemote \cup {c}
    /\ state' = [state EXCEPT ![c] = "CONNECTED"]
    /\ user' = [user EXCEPT ![c] = "scheduled"]
    /\ userTasks' = {d \in userTasks : local[d] # local'[c]} \cup {c}
    /\ UNCHANGED <<guarded, wclosing, closed, axClosing, discOwed>>

\* handle_disconnect_request, then _remove_circuit.
DisconnectRequest(c) ==
    /\ ~closed
    /\ c \in byLocal
    /\ SetClosed({c})
    /\ RemoveCircuit(c, user)
    /\ UNCHANGED <<local, remote, wclosing, nextId, closed, axClosing, discOwed>>

\* handle_disconnect_ack closes only a DISCONNECTING circuit, but dispatch
\* removes whichever circuit the frame names.  asker is the circuit that sent
\* the DISC REQ this frame acknowledges.
DisconnectAck(c) ==
    /\ ~closed
    /\ c \in byLocal
    /\ \/ /\ "stray DISC ACK" \in Events
          /\ UNCHANGED discOwed
       \/ \E asker \in SameLocal(discOwed, c) : discOwed' = discOwed \ {asker}
    /\ IF state[c] = "DISCONNECTING" THEN SetClosed({c}) ELSE UNCHANGED <<state, guarded>>
    /\ RemoveCircuit(c, user)
    /\ UNCHANGED <<local, remote, wclosing, nextId, closed, axClosing>>

\* handle_connect_ack: refused, or accepted with the responder's key learned.
ConnectRefused(c) ==
    /\ ~closed
    /\ c \in byLocal
    /\ state[c] = "AWAITING_CONNECT"
    /\ SetClosed({c})
    /\ UNCHANGED <<local, remote, wclosing, user, tableVars, linkVars>>

ConnectAccepted(c, key) ==
    /\ ~closed
    /\ c \in byLocal
    /\ state[c] = "AWAITING_CONNECT"
    /\ remote' = [remote EXCEPT ![c] = key]
    /\ state' = [state EXCEPT ![c] = "CONNECTED"]
    /\ UNCHANGED <<local, guarded, wclosing, user, tableVars, linkVars>>

-----------------------------------------------------------------------------
\* The session task of an inbound circuit (_run_user_session).

SessionStarts(c) ==
    /\ user[c] = "scheduled"
    /\ user' = [user EXCEPT ![c] = "running"]
    /\ UNCHANGED <<state, local, remote, guarded, wclosing, tableVars, linkVars>>

\* The session closes its writer: _NetromCircuitWriter.close(), once.
WriterClose(c) ==
    /\ user[c] \in {"running", "cancelling"}
    /\ c \notin wclosing
    /\ wclosing' = wclosing \cup {c}
    /\ InitiateDisconnect(c)
    /\ UNCHANGED <<local, remote, user, tableVars, idleArmed, closed, axClosing>>

\* on_user_connect() returned or raised: the finally clause.
SessionEnds(c) ==
    /\ user[c] \in {"running", "cancelling"}
    /\ user' = [user EXCEPT ![c] = "done"]
    /\ IF state[c] = "CONNECTED"
       THEN InitiateDisconnect(c)
       ELSE UNCHANGED <<state, guarded, discOwed>>
    /\ userTasks' = userTasks \ SameLocal(userTasks, c)
    /\ UNCHANGED <<local, remote, wclosing, byLocal, byRemote, usedIdx, nextId,
                   idleArmed, closed, axClosing>>

-----------------------------------------------------------------------------
\* The originator's coroutine (originate_circuit) and its caller.

\* Up to the wait for the CONNECT ACK.  Nothing is entered in _by_remote_key.
\* A full table raises after the idle timer has been cancelled.
Originate(c) ==
    /\ Allocate(c)
    /\ state' = [state EXCEPT ![c] = "AWAITING_CONNECT"]
    /\ user' = [user EXCEPT ![c] = "connecting"]
    /\ UNCHANGED <<remote, guarded, wclosing, byRemote, userTasks,
                   closed, axClosing, discOwed>>

OriginateTableFull ==
    /\ TableFull
    /\ idleArmed' = FALSE
    /\ UNCHANGED <<circuitVars, tableVars, closed, axClosing, discOwed>>

\* The connected event was set and the coroutine resumes: it returns the
\* circuit, or finds it refused or aborted, removes it and raises.
OriginateReturns(c) ==
    /\ user[c] = "connecting"
    /\ state[c] = "CONNECTED"
    /\ user' = [user EXCEPT ![c] = "owner"]
    /\ UNCHANGED <<state, local, remote, guarded, wclosing, tableVars, linkVars>>

OriginateAborted(c) ==
    /\ user[c] = "connecting"
    /\ state[c] = "CLOSED"
    /\ RemoveCircuit(c, [user EXCEPT ![c] = "failed"])
    /\ UNCHANGED <<state, local, remote, guarded, wclosing, nextId,
                   closed, axClosing, discOwed>>

\* wait_for() timed out.  The timeout may win over an event that was set but
\* that the coroutine has not yet been resumed for.
OriginateTimesOut(c) ==
    /\ user[c] = "connecting"
    /\ RemoveCircuit(c, [user EXCEPT ![c] = "failed"])
    /\ UNCHANGED <<state, local, remote, guarded, wclosing, nextId,
                   closed, axClosing, discOwed>>

\* The caller's task is cancelled while it waits: no except clause catches it.
OriginateCancelled(c) ==
    /\ "cancelled originate" \in Events
    /\ user[c] = "connecting"
    /\ user' = [user EXCEPT ![c] = "done"]
    /\ UNCHANGED <<state, local, remote, guarded, wclosing, tableVars, linkVars>>

\* reap_now_if_idle, which the node calls after a connect that failed.
ReapNowIfIdle(c) ==
    /\ user[c] = "failed"
    /\ user' = [user EXCEPT ![c] = "done"]
    /\ IF closed \/ byLocal # {}
       THEN UNCHANGED <<idleArmed, axClosing>>
       ELSE idleArmed' = FALSE /\ axClosing' = TRUE
    /\ UNCHANGED <<state, local, remote, guarded, wclosing, tableVars,
                   closed, discOwed>>

\* The owner is done with the circuit: it closes the writer.
OwnerCloses(c) ==
    /\ user[c] = "owner"
    /\ user' = [user EXCEPT ![c] = "done"]
    /\ wclosing' = wclosing \cup {c}
    /\ InitiateDisconnect(c)
    /\ UNCHANGED <<local, remote, tableVars, idleArmed, closed, axClosing>>

-----------------------------------------------------------------------------
\* Timers and the crosslink itself.

\* _reap_disconnecting: force-close, unless the circuit is no longer
\* DISCONNECTING.  Without the removal the circuit would stay in the tables.
GuardKeepsCircuit(c) ==
    /\ c \in guarded
    /\ SetClosed({c})
    /\ UNCHANGED <<local, remote, wclosing, user, tableVars, linkVars>>

GuardFires(c) ==
    /\ c \in guarded
    /\ IF state[c] = "DISCONNECTING"
       THEN SetClosed({c}) /\ RemoveCircuit(c, user)
       ELSE /\ guarded' = guarded \ {c}
            /\ UNCHANGED <<state, user, byLocal, byRemote, userTasks, usedIdx, idleArmed>>
    /\ UNCHANGED <<local, remote, wclosing, nextId, closed, axClosing, discOwed>>

\* _reap_idle: close the crosslink if it still carries no circuit.
IdleFires ==
    /\ idleArmed
    /\ idleArmed' = FALSE
    /\ axClosing' = (axClosing \/ (~closed /\ byLocal = {}))
    /\ UNCHANGED <<circuitVars, tableVars, closed, discOwed>>

\* The AX.25 writer gives up by itself (a drain that timed out).
WriterFails ==
    /\ ~axClosing
    /\ axClosing' = TRUE
    /\ UNCHANGED <<circuitVars, tableVars, idleArmed, closed, discOwed>>

\* shutdown(): the transport lost the crosslink.
Shutdown ==
    /\ ~closed
    /\ closed' = TRUE
    /\ idleArmed' = FALSE
    /\ SetClosed(byLocal)
    /\ user' = CancelTasks(user, userTasks)
    /\ byLocal' = {}
    /\ byRemote' = {}
    /\ usedIdx' = {}
    /\ userTasks' = {}
    /\ UNCHANGED <<local, remote, wclosing, nextId, axClosing, discOwed>>

-----------------------------------------------------------------------------
Frame(c) ==
    \/ RepeatedConnectRequest(c)
    \/ \E key \in RemoteKeys : ConnectRequest(c, key)
    \/ DisconnectRequest(c)
    \/ DisconnectAck(c)
    \/ ConnectRefused(c)
    \/ \E key \in RemoteKeys : ConnectAccepted(c, key)

Session(c) == SessionStarts(c) \/ WriterClose(c) \/ SessionEnds(c)

Originator(c) ==
    \/ Originate(c)
    \/ OriginateReturns(c)
    \/ OriginateAborted(c)
    \/ OriginateTimesOut(c)
    \/ OriginateCancelled(c)
    \/ ReapNowIfIdle(c)
    \/ OwnerCloses(c)

Next ==
    \/ \E c \in Circuits : Frame(c) \/ Session(c) \/ Originator(c) \/ GuardFires(c)
    \/ OriginateTableFull
    \/ IdleFires
    \/ WriterFails
    \/ Shutdown

Spec == Init /\ [][Next]_vars

\* The event loop runs every timer that is due, and resumes a coroutine whose
\* wait is over or has timed out.  Nothing obliges a user to leave, a peer to
\* answer or a crosslink to drop.
Fairness ==
    /\ WF_vars(IdleFires)
    /\ \A c \in Circuits :
          /\ WF_vars(GuardFires(c))
          /\ WF_vars(OriginateTimesOut(c) \/ OriginateAborted(c) \/ OriginateReturns(c))
          /\ WF_vars(ReapNowIfIdle(c))

FairSpec == Spec /\ Fairness
-----------------------------------------------------------------------------
\* Every index marked as used belongs to a circuit that frames can reach, so
\* that no sequence of refusals, timeouts, guards and double removals of one
\* circuit uses the 256 indices of a crosslink up for nothing.
NoIndexLeak == usedIdx \subseteq {local[c][1] : c \in byLocal}

\* The idle timer runs exactly while the crosslink carries no circuit: it can
\* never close the link under a session, and a link that no circuit uses is
\* never left without a timer, whichever path removed the last circuit.
IdleTimerExact ==
    /\ idleArmed => byLocal = {}
    /\ (byLocal = {} /\ IdleTimeout /\ ~closed) => (idleArmed \/ axClosing)

\* What a repeated CONNECT REQ is answered for is still open: the answer sets
\* the state to CONNECTED whatever it was, and would revive a closed circuit.
RemoteIndexOpen == \A c \in byRemote : state[c] \in {"CONNECTED", "DISCONNECTING"}

\* CLOSED is terminal.
ClosedIsTerminal ==
    [][\A c \in Circuits : state[c] = "CLOSED" => state'[c] = "CLOSED"]_vars

\* A circuit whose user left waits for the DISC ACK under a running guard
\* timer: no path leaves it half-open without one.
HalfClosedGuarded == \A c \in Circuits : state[c] = "DISCONNECTING" => c \in guarded

\* While a session runs, frames of its user reach its circuit.
SessionReachable ==
    \A c \in Circuits : user[c] \in {"scheduled", "running"} => c \in byLocal

\* A local index names one circuit at a time: "local_idx is only reused after a
\* circuit closes", says _allocate_local_id.
IdxUnique == \A c, d \in byLocal : c # d => local[c][1] # local[d][1]

\* Once every user is gone, the crosslink is closed or finds a user again.
IdleLinkReleased ==
    (\A c \in Circuits : user[c] \in {"none", "done"})
        ~> (axClosing \/ closed \/ \E c \in Circuits : user[c] \notin {"none", "done"})

\* A circuit that asked for a disconnect leaves the table, answered or not.
DisconnectCompletes ==
    \A c \in Circuits : (state[c] = "DISCONNECTING") ~> (c \notin byLocal)

=============================================================================
