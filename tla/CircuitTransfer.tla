-------------------------- MODULE CircuitTransfer --------------------------
(***************************************************************************)
(* Data transfer over one NET/ROM circuit (bbs/netrom/circuit.py): the     *)
(* outbound queue and the drain() coroutines of the tasks that write to    *)
(* it, the send window over one-byte sequence numbers, the duplicate guard *)
(* and the MORE_FOLLOWS reassembly of the receiver, and the disconnect     *)
(* handshake.  Both ends run this code over an AX.25 crosslink, which      *)
(* delivers in order; an end of another make may also retransmit.          *)
(*                                                                         *)
(* Fragments and acknowledgements are counted without wrapping, to name    *)
(* them; the code holds and compares only the counts modulo Modulus, which *)
(* are the operators VS, VA and VR.                                        *)
(***************************************************************************)
EXTENDS Integers, Sequences

CONSTANTS
    Ends,            \* the two ends of the circuit
    Tasks,           \* the tasks that write to the circuit, at either end
    EndOf,           \* the end each of them writes at
    Modulus,         \* sequence numbers are one byte: 256 in the code
    Window,          \* the negotiated window, 1 .. _MAX_WINDOW in the code
    MaxReassembly,   \* _MAX_REASSEMBLY_BYTES, in fragments
    Writes,          \* bound: the write() calls each task makes, as the sequence
                     \* of their lengths in fragments
    Retransmitters,  \* the ends whose NET/ROM stack retransmits
    MaxRetransmits   \* bound: retransmissions in all

ASSUME TransferAssumption ==
    /\ \E p, q \in Ends : p # q /\ Ends = {p, q}
    /\ Modulus \in Nat \ {0}
    /\ Window \in Nat \ {0}
    /\ Window < Modulus
    /\ MaxReassembly \in Nat
    /\ EndOf \in [Tasks -> Ends]
    /\ Writes \in [Tasks -> Seq(Nat \ {0})]
    /\ Retransmitters \subseteq Ends
    /\ MaxRetransmits \in Nat

Peer(p) == CHOOSE q \in Ends : q # p

VARIABLES
    state,       \* NetromCircuit.state
    queue,       \* _pending_outbound: the more_follows flag of each fragment
    pc,          \* where each task is in drain()
    sent,        \* fragments sent; V(S) is this modulo Modulus
    acked,       \* the last acknowledgement taken over; V(A) likewise
    moreOf,      \* the more_follows flags of the fragments sent
    delivered,   \* the fragments received, in order; V(R) is their number
    partial,     \* fragments in _reassembly
    chan,        \* the frames on their way to each end
    writes,      \* write() calls so far
    retransmits  \* retransmissions so far

vars == <<state, queue, pc, sent, acked, moreOf, delivered, partial, chan,
          writes, retransmits>>

\* drain() is at the top of its loop, blocked on _window_event, or woken from
\* it; "failed" is a drain() that raised.
PCs == {"idle", "loop", "blocked", "woken", "failed"}

Info(n, ack, more) == [kind |-> "INFO", n |-> n, ack |-> ack, more |-> more]
InfoAck(ack) == [kind |-> "INFO ACK", ack |-> ack]
DiscReq == [kind |-> "DISC REQ"]
DiscAck == [kind |-> "DISC ACK"]

Frames == [kind : {"INFO"}, n : Nat, ack : Nat, more : BOOLEAN]
          \cup [kind : {"INFO ACK"}, ack : Nat] \cup {DiscReq, DiscAck}

TypeOK ==
    /\ state \in [Ends -> {"CONNECTED", "DISCONNECTING", "CLOSED"}]
    /\ queue \in [Ends -> Seq(BOOLEAN)]
    /\ pc \in [Tasks -> PCs]
    /\ sent \in [Ends -> Nat]
    /\ acked \in [Ends -> Nat]
    /\ moreOf \in [Ends -> Seq(BOOLEAN)]
    /\ delivered \in [Ends -> Seq(Nat)]
    /\ partial \in [Ends -> 0 .. MaxReassembly]
    /\ chan \in [Ends -> Seq(Frames)]
    /\ writes \in [Tasks -> Nat]
    /\ retransmits \in Nat

Init ==
    /\ state = [p \in Ends |-> "CONNECTED"]
    /\ queue = [p \in Ends |-> <<>>]
    /\ pc = [t \in Tasks |-> "idle"]
    /\ sent = [p \in Ends |-> 0]
    /\ acked = [p \in Ends |-> 0]
    /\ moreOf = [p \in Ends |-> <<>>]
    /\ delivered = [p \in Ends |-> <<>>]
    /\ partial = [p \in Ends |-> 0]
    /\ chan = [p \in Ends |-> <<>>]
    /\ writes = [t \in Tasks |-> 0]
    /\ retransmits = 0

-----------------------------------------------------------------------------
Received(p) == Len(delivered[p])

\* The sequence variables the code keeps.
VS(p) == sent[p] % Modulus
VA(p) == acked[p] % Modulus
VR(p) == Received(p) % Modulus

\* _frames_in_flight, and the condition _wait_for_window blocks on; off by
\* one, it lets one fragment too many out.
FramesInFlight(p) == (VS(p) - VA(p)) % Modulus
WindowOverfull(p) == FramesInFlight(p) > Window
WindowFull(p) == FramesInFlight(p) >= Window

\* _window_event.set(): every task blocked on it becomes runnable.  Forgetting
\* it leaves them all asleep.
WakeNobody(p) == UNCHANGED pc
Wake(p) ==
    pc' = [t \in Tasks |-> IF EndOf[t] = p /\ pc[t] = "blocked" THEN "woken" ELSE pc[t]]

\* _advance_va: take the acknowledgement over, and wake the writers, when it
\* differs from V(A).
AdvanceVA(p, ack) ==
    IF ack % Modulus = VA(p)
    THEN UNCHANGED <<acked, pc>>
    ELSE acked' = [acked EXCEPT ![p] = ack] /\ Wake(p)

\* The head of p's channel is consumed and p answers with frame: _send_l3(), as
\* long as the AX.25 link is up.  Of a link that closes it drops the frame, while
\* the sequence variables go on; no transfer is left to follow then.
Reply(p, frame) ==
    chan' = [chan EXCEPT ![p] = Tail(@), ![Peer(p)] = Append(@, frame)]

\* _set_closed: terminal; wakes the writers.
SetClosed(p) == state' = [state EXCEPT ![p] = "CLOSED"] /\ Wake(p)

-----------------------------------------------------------------------------
\* The writer.

\* The next write() of a task, which then awaits drain().
Write(t) ==
    /\ pc[t] = "idle"
    /\ writes[t] < Len(Writes[t])
    /\ state[EndOf[t]] = "CONNECTED"
    /\ LET k == Writes[t][writes[t] + 1]
       IN  queue' = [queue EXCEPT ![EndOf[t]] = @ \o [i \in 1 .. k |-> i < k]]
    /\ pc' = [pc EXCEPT ![t] = "loop"]
    /\ writes' = [writes EXCEPT ![t] = @ + 1]
    /\ UNCHANGED <<state, sent, acked, moreOf, delivered, partial, chan, retransmits>>

\* popleft() and _send_info_fragment(), then on to drain() the AX.25 writer.
SendFragment(p, t) ==
    /\ queue[p] # <<>>
    /\ queue' = [queue EXCEPT ![p] = Tail(@)]
    /\ chan' = [chan EXCEPT ![Peer(p)] = Append(@, Info(sent[p], Received(p), Head(queue[p])))]
    /\ moreOf' = [moreOf EXCEPT ![p] = Append(@, Head(queue[p]))]
    /\ sent' = [sent EXCEPT ![p] = @ + 1]
    /\ pc' = [pc EXCEPT ![t] = "loop"]

GoTo(t, label) ==
    /\ pc' = [pc EXCEPT ![t] = label]
    /\ UNCHANGED <<queue, sent, moreOf, chan>>

\* Nothing to do on a torn-down link: drop the queue and return.
Abandon(p, t) ==
    /\ queue' = [queue EXCEPT ![p] = <<>>]
    /\ pc' = [pc EXCEPT ![t] = "idle"]
    /\ UNCHANGED <<sent, moreOf, chan>>

\* One round of drain()'s loop up to its next suspension: in _wait_for_window
\* or in the drain() of the AX.25 writer.
DrainLoop(t) ==
    LET p == EndOf[t]
    IN  /\ pc[t] = "loop"
        /\ \/ queue[p] = <<>> /\ GoTo(t, "idle")
           \/ queue[p] # <<>> /\ state[p] # "CONNECTED" /\ Abandon(p, t)
           \/ queue[p] # <<>> /\ state[p] = "CONNECTED" /\ WindowFull(p) /\ GoTo(t, "blocked")
           \/ state[p] = "CONNECTED" /\ ~WindowFull(p) /\ SendFragment(p, t)
        /\ UNCHANGED <<state, acked, delivered, partial, writes, retransmits>>

\* The mistake of sending after the wait without looking at the state again.
DrainResumeUnchecked(t) ==
    LET p == EndOf[t]
    IN  /\ pc[t] = "woken"
        /\ \/ WindowFull(p) /\ GoTo(t, "blocked")
           \/ ~WindowFull(p) /\ SendFragment(p, t)
        /\ UNCHANGED <<state, acked, delivered, partial, writes, retransmits>>

\* A task resumes inside _wait_for_window.  The queue was not empty when it
\* blocked; popleft() raises if another task has emptied it since.
DrainResume(t) ==
    LET p == EndOf[t]
    IN  /\ pc[t] = "woken"
        /\ \/ state[p] # "CONNECTED" /\ Abandon(p, t)
           \/ state[p] = "CONNECTED" /\ WindowFull(p) /\ GoTo(t, "blocked")
           \/ state[p] = "CONNECTED" /\ ~WindowFull(p) /\ SendFragment(p, t)
           \/ state[p] = "CONNECTED" /\ ~WindowFull(p) /\ queue[p] = <<>> /\ GoTo(t, "failed")
        /\ UNCHANGED <<state, acked, delivered, partial, writes, retransmits>>

\* The terminal's write timeout cancels a drain(); the queue stays.
DrainTimesOut(t) ==
    /\ pc[t] \in {"loop", "blocked", "woken"}
    /\ GoTo(t, "idle")
    /\ UNCHANGED <<state, acked, delivered, partial, writes, retransmits>>

\* An end of another make repeats a fragment it holds for unacknowledged.
Retransmit(p, n) ==
    /\ p \in Retransmitters
    /\ state[p] = "CONNECTED"
    /\ retransmits < MaxRetransmits
    /\ n \in acked[p] .. (sent[p] - 1)
    /\ chan' = [chan EXCEPT ![Peer(p)] = Append(@, Info(n, Received(p), moreOf[p][n + 1]))]
    /\ retransmits' = retransmits + 1
    /\ UNCHANGED <<state, queue, pc, sent, acked, moreOf, delivered, partial, writes>>

-----------------------------------------------------------------------------
\* The receiver: the frame at the head of p's channel.

Arrives(p, kind) ==
    /\ state[p] # "CLOSED"
    /\ chan[p] # <<>>
    /\ Head(chan[p]).kind = kind

\* The duplicate guard: is this the tx_seq that V(R) expects?  Without it,
\* every fragment is taken over.
AnyTxSeq(p) == TRUE
Expected(p) == Head(chan[p]).n % Modulus = VR(p)

\* _reassembly after one more fragment: full, it is dropped; the last fragment
\* of a message flushes it to the reader.  The first form, a mutant, flushes it
\* without clearing it.
ReassembledKept(p, more) ==
    IF more /\ partial[p] + 1 > MaxReassembly THEN 0 ELSE partial[p] + 1
Reassembled(p, more) ==
    IF ~more \/ partial[p] + 1 > MaxReassembly THEN 0 ELSE partial[p] + 1

\* handle_information, a tx_seq other than V(R): acknowledged again, dropped.
DuplicateInfo(p) ==
    /\ Arrives(p, "INFO")
    /\ ~Expected(p)
    /\ AdvanceVA(p, Head(chan[p]).ack)
    /\ Reply(p, InfoAck(Received(p)))
    /\ UNCHANGED <<state, queue, sent, moreOf, delivered, partial, writes, retransmits>>

\* handle_information, the expected tx_seq: taken over, and acknowledged
\* whether or not the reassembly buffer had room for it.
NextInfo(p) ==
    /\ Arrives(p, "INFO")
    /\ Expected(p)
    /\ partial' = [partial EXCEPT ![p] = Reassembled(p, Head(chan[p]).more)]
    /\ delivered' = [delivered EXCEPT ![p] = Append(@, Head(chan[p]).n)]
    /\ AdvanceVA(p, Head(chan[p]).ack)
    /\ Reply(p, InfoAck(Received(p) + 1))
    /\ UNCHANGED <<state, queue, sent, moreOf, writes, retransmits>>

\* handle_information_ack.
InformationAck(p) ==
    /\ Arrives(p, "INFO ACK")
    /\ AdvanceVA(p, Head(chan[p]).ack)
    /\ chan' = [chan EXCEPT ![p] = Tail(@)]
    /\ UNCHANGED <<state, queue, sent, moreOf, delivered, partial, writes, retransmits>>

\* handle_disconnect_request.
DisconnectRequest(p) ==
    /\ Arrives(p, "DISC REQ")
    /\ SetClosed(p)
    /\ Reply(p, DiscAck)
    /\ UNCHANGED <<queue, sent, acked, moreOf, delivered, partial, writes, retransmits>>

\* handle_disconnect_ack of a circuit that is DISCONNECTING.
DisconnectAck(p) ==
    /\ Arrives(p, "DISC ACK")
    /\ SetClosed(p)
    /\ chan' = [chan EXCEPT ![p] = Tail(@)]
    /\ UNCHANGED <<queue, sent, acked, moreOf, delivered, partial, writes, retransmits>>

\* The manager drops a frame for a circuit it has removed.
UnknownCircuit(p) ==
    /\ state[p] = "CLOSED"
    /\ chan[p] # <<>>
    /\ chan' = [chan EXCEPT ![p] = Tail(@)]
    /\ UNCHANGED <<state, queue, pc, sent, acked, moreOf, delivered, partial, writes, retransmits>>

-----------------------------------------------------------------------------
\* _NetromCircuitWriter.close() and _initiate_disconnect.  Writers blocked on
\* the window are not woken.
Close(p) ==
    /\ state[p] = "CONNECTED"
    /\ state' = [state EXCEPT ![p] = "DISCONNECTING"]
    /\ chan' = [chan EXCEPT ![Peer(p)] = Append(@, DiscReq)]
    /\ UNCHANGED <<queue, pc, sent, acked, moreOf, delivered, partial, writes, retransmits>>

\* The disconnect guard gives up waiting for the DISC ACK.
GuardFires(p) ==
    /\ state[p] = "DISCONNECTING"
    /\ SetClosed(p)
    /\ UNCHANGED <<queue, sent, acked, moreOf, delivered, partial, chan, writes, retransmits>>

Drain(t) == DrainLoop(t) \/ DrainResume(t)

Receive(p) ==
    \/ DuplicateInfo(p)
    \/ NextInfo(p)
    \/ InformationAck(p)
    \/ DisconnectRequest(p)
    \/ DisconnectAck(p)
    \/ UnknownCircuit(p)

Next ==
    \/ \E t \in Tasks : Write(t) \/ Drain(t) \/ DrainTimesOut(t)
    \/ \E p \in Ends :
          \/ \E n \in acked[p] .. (sent[p] - 1) : Retransmit(p, n)
          \/ Receive(p)
          \/ Close(p)
          \/ GuardFires(p)

Spec == Init /\ [][Next]_vars

\* The crosslink delivers what it carries, and the event loop resumes a task
\* whose wait is over.  Nobody is obliged to write, to close or to time out.
Fairness ==
    /\ \A p \in Ends : WF_vars(Receive(p))
    /\ \A t \in Tasks : WF_vars(Drain(t))

FairSpec == Spec /\ Fairness

-----------------------------------------------------------------------------
\* The abstract specification of the transfer: what an end has sent and
\* received there are the counts kept here; windows, sequence numbers, frames
\* and the disconnect are the means.
Stream == INSTANCE ReliableStream
    WITH Ends <- Ends, Window <- Window, sent <- sent, delivered <- delivered

\* The two ends are joined by a reliable stream with flow control, although
\* sequence numbers wrap, fragments are retransmitted, and acknowledgements
\* ride both on INFO ACK frames and on INFO frames going the other way
\* (handle_information, handle_information_ack, _wait_for_window).
ImplementsStream == Stream!Spec

\* What the code computes from two bytes is the true number of fragments in
\* flight, and it never exceeds the negotiated window.
WindowRespected ==
    \A p \in Ends : /\ FramesInFlight(p) = sent[p] - acked[p]
                    /\ sent[p] - acked[p] <= Window
                    /\ acked[p] <= Received(Peer(p))

\* No fragment follows the DISC REQ on the crosslink: a writer that was blocked
\* on the window looks at the state again before it sends.
NothingAfterDiscReq ==
    \A p \in Ends : \A i, j \in DOMAIN chan[p] :
        (i < j /\ chan[p][i] = DiscReq) => chan[p][j].kind # "INFO"

\* Every drain() returns: neither a lost wake-up nor a close that does not
\* wake the writers leaves a task blocked for ever.
DrainReturns ==
    \A t \in Tasks : (pc[t] = "loop") ~> (pc[t] \in {"idle", "failed"})

\* A drain() "blocks until either every queued fragment has been emitted onto
\* the AX.25 writer, or the circuit transitions out of CONNECTED": it does not
\* fail on a queue that another task has emptied.
DrainNeverFails == \A t \in Tasks : pc[t] # "failed"
=============================================================================
