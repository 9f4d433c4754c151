----------------------- MODULE CircuitTransferProofs -----------------------
(***************************************************************************)
(* Theorems about CircuitTransfer, for every modulus, every window smaller *)
(* than it, every number of writing tasks and any amount of traffic.       *)
(***************************************************************************)
EXTENDS CircuitTransfer, SequenceTheorems, TLAPS

\* The two ends are each other's peer.
LEMMA PeerFacts ==
    ASSUME NEW p \in Ends
    PROVE  /\ Peer(p) \in Ends
           /\ Peer(p) # p
           /\ Peer(Peer(p)) = p
           /\ \A r \in Ends : r = p \/ r = Peer(p)
<1>1. PICK a, b \in Ends : a # b /\ Ends = {a, b}
  BY TransferAssumption
<1>2. \A r \in Ends : Peer(r) \in Ends /\ Peer(r) # r
  <2> SUFFICES ASSUME NEW r \in Ends PROVE Peer(r) \in Ends /\ Peer(r) # r
    OBVIOUS
  <2>1. \E q \in Ends : q # r
    BY <1>1
  <2> QED
    BY <2>1 DEF Peer
<1> QED
  BY <1>1, <1>2

\* Division with remainder.
LEMMA Division ==
    ASSUME NEW m \in Nat \ {0}, NEW a \in Int
    PROVE  /\ a \div m \in Int
           /\ a % m \in 0 .. (m - 1)
           /\ a = m * (a \div m) + (a % m)
BY SMTT(20)

\* The remainder is the only one.
LEMMA Remainder ==
    ASSUME NEW m \in Nat \ {0}, NEW a \in Int, NEW k \in Int,
           NEW r \in 0 .. (m - 1), a = m * k + r
    PROVE  a % m = r
BY SMTT(20)

\* No multiple of m but 0 is nearer to 0 than m.
LEMMA SmallMultiple ==
    ASSUME NEW m \in Nat \ {0}, NEW k \in Int, m * k < m, -m < m * k
    PROVE  k = 0
BY SMTT(20)

\* Multiplication distributes over subtraction.
LEMMA Distribute ==
    ASSUME NEW m \in Int, NEW a \in Int, NEW b \in Int
    PROVE  m * (a - b) = m * a - m * b
BY SMTT(20)

\* A natural's residue names it within a span of m.
LEMMA ResidueNames ==
    ASSUME NEW m \in Nat \ {0}, NEW a \in Nat, NEW b \in Nat,
           a % m = b % m, a < b + m, b < a + m
    PROVE  a = b
<1>1. PICK i \in Int : a = m * i + (a % m)
  <2>1. a \div m \in Int /\ a = m * (a \div m) + (a % m)
    BY Division
  <2> QED
    BY <2>1
<1>2. PICK j \in Int : b = m * j + (b % m)
  <2>1. b \div m \in Int /\ b = m * (b \div m) + (b % m)
    BY Division
  <2> QED
    BY <2>1
<1>3. a % m \in Int
  BY Division
<1>4. m * i \in Int /\ m * j \in Int /\ i - j \in Int
  OBVIOUS
<1>5. a - b = m * i - m * j
  BY <1>1, <1>2, <1>3, <1>4
<1>6. m * (i - j) = a - b
  BY <1>5, Distribute
<1>7. i - j = 0
  BY <1>4, <1>6, SmallMultiple
<1> QED
  BY <1>6, <1>7

\* The distance computed from two residues is the distance between the
\* numbers, as long as that is shorter than m.
LEMMA ResidueDistance ==
    ASSUME NEW m \in Nat \ {0}, NEW a \in Nat, NEW b \in Nat, b <= a, a < b + m
    PROVE  ((a % m) - (b % m)) % m = a - b
<1>1. PICK i \in Int : a = m * i + (a % m)
  <2>1. a \div m \in Int /\ a = m * (a \div m) + (a % m)
    BY Division
  <2> QED
    BY <2>1
<1>2. PICK j \in Int : b = m * j + (b % m)
  <2>1. b \div m \in Int /\ b = m * (b \div m) + (b % m)
    BY Division
  <2> QED
    BY <2>1
<1>3. a % m \in Int /\ b % m \in Int
  BY Division
<1>4. m * i \in Int /\ m * j \in Int /\ j - i \in Int
  OBVIOUS
<1>5. (a % m) - (b % m) = (m * j - m * i) + (a - b)
  <2>1. \A x, y, u, v, c, d \in Int :
           c = x + u /\ d = y + v => u - v = (y - x) + (c - d)
    OBVIOUS
  <2> DEFINE x == m * i
             y == m * j
             u == a % m
             v == b % m
  <2>2. a = x + u /\ b = y + v
    BY <1>1, <1>2
  <2>3. x \in Int /\ y \in Int /\ u \in Int /\ v \in Int
    BY <1>3, <1>4
  <2> HIDE DEF x, y, u, v
  <2>4. u - v = (y - x) + (a - b)
    BY <2>1, <2>2, <2>3
  <2> QED
    BY <2>4 DEF x, y, u, v
<1>6. (a % m) - (b % m) = m * (j - i) + (a - b)
  BY <1>5, Distribute
<1>7. a - b \in 0 .. (m - 1) /\ (a % m) - (b % m) \in Int
  BY <1>3
<1> QED
  BY <1>4, <1>6, <1>7, Remainder

-----------------------------------------------------------------------------
\* Types, with the flag remembered for each fragment sent.
TypeInv ==
    /\ TypeOK
    /\ \A p \in Ends : Len(moreOf[p]) = sent[p]

\* What a frame carries has the type its kind says.
LEMMA FrameTypes ==
    ASSUME NEW f \in Frames
    PROVE  /\ f.kind = "INFO" => f.n \in Nat /\ f.ack \in Nat /\ f.more \in BOOLEAN
           /\ f.kind = "INFO ACK" => f.ack \in Nat
<1>1. CASE f \in [kind : {"INFO"}, n : Nat, ack : Nat, more : BOOLEAN]
  BY <1>1
<1>2. CASE f \in [kind : {"INFO ACK"}, ack : Nat]
  BY <1>2
<1>3. CASE f \in {DiscReq, DiscAck}
  <2>1. DiscReq.kind = "DISC REQ" /\ DiscAck.kind = "DISC ACK"
    BY DEF DiscReq, DiscAck
  <2> QED
    BY <1>3, <2>1
<1> QED
  BY <1>1, <1>2, <1>3 DEF Frames

\* An INFO frame is a frame.
LEMMA InfoType ==
    ASSUME NEW n \in Nat, NEW a \in Nat, NEW m \in BOOLEAN
    PROVE  Info(n, a, m) \in Frames
BY DEF Frames, Info

\* An INFO ACK is a frame.
LEMMA InfoAckType ==
    ASSUME NEW a \in Nat
    PROVE  InfoAck(a) \in Frames
BY DEF Frames, InfoAck

\* So are the frames of the disconnect handshake.
LEMMA DiscTypes == DiscReq \in Frames /\ DiscAck \in Frames
BY DEF Frames

\* A new circuit is well-typed.
LEMMA TypeInit == Init => TypeInv
BY TransferAssumption DEF Init, TypeInv, TypeOK, PCs

\* Waking tasks keeps the types.
LEMMA WakeType ==
    ASSUME TypeOK, NEW p \in Ends, Wake(p)
    PROVE  pc' \in [Tasks -> PCs]
BY DEF Wake, TypeOK, PCs

\* Taking an acknowledgement over keeps the types.
LEMMA AdvanceVAType ==
    ASSUME TypeOK, NEW p \in Ends, NEW ack \in Nat, AdvanceVA(p, ack)
    PROVE  acked' \in [Ends -> Nat] /\ pc' \in [Tasks -> PCs]
BY WakeType DEF AdvanceVA, TypeOK

\* So does an answer.
LEMMA ReplyType ==
    ASSUME TypeOK, NEW p \in Ends, NEW f \in Frames, chan[p] # <<>>, Reply(p, f)
    PROVE  chan' \in [Ends -> Seq(Frames)]
<1>1. Tail(chan[p]) \in Seq(Frames) /\ Append(chan[Peer(p)], f) \in Seq(Frames)
  BY PeerFacts DEF TypeOK
<1> QED
  BY <1>1, PeerFacts DEF Reply, TypeOK

\* So does a fragment sent.
LEMMA SendFragmentType ==
    ASSUME TypeInv, NEW t \in Tasks, SendFragment(EndOf[t], t)
    PROVE  /\ queue' \in [Ends -> Seq(BOOLEAN)]
           /\ chan' \in [Ends -> Seq(Frames)]
           /\ moreOf' \in [Ends -> Seq(BOOLEAN)]
           /\ sent' \in [Ends -> Nat]
           /\ pc' \in [Tasks -> PCs]
           /\ \A p \in Ends : Len(moreOf'[p]) = sent'[p]
<1> DEFINE p == EndOf[t]
<1> USE DEF TypeInv, TypeOK
<1>1. p \in Ends
  BY TransferAssumption
<1>2. Head(queue[p]) \in BOOLEAN /\ Tail(queue[p]) \in Seq(BOOLEAN)
  <2>1. queue[p] \in Seq(BOOLEAN) /\ queue[p] # <<>>
    BY <1>1 DEF SendFragment
  <2> QED
    BY <2>1, HeadTailProperties
<1>3. Info(sent[p], Received(p), Head(queue[p])) \in Frames
  BY <1>1, <1>2, InfoType DEF Received
<1>4. Append(chan[Peer(p)], Info(sent[p], Received(p), Head(queue[p]))) \in Seq(Frames)
  BY <1>1, <1>3, PeerFacts
<1>5. Append(moreOf[p], Head(queue[p])) \in Seq(BOOLEAN)
      /\ Len(Append(moreOf[p], Head(queue[p]))) = sent[p] + 1
  BY <1>1, <1>2, AppendProperties
<1>6. /\ queue' \in [Ends -> Seq(BOOLEAN)]
      /\ sent' \in [Ends -> Nat]
      /\ pc' \in [Tasks -> PCs]
  <2>1. /\ queue' = [queue EXCEPT ![p] = Tail(queue[p])]
        /\ sent' = [sent EXCEPT ![p] = sent[p] + 1]
        /\ pc' = [pc EXCEPT ![t] = "loop"]
    BY DEF SendFragment
  <2>2. /\ queue \in [Ends -> Seq(BOOLEAN)]
        /\ sent \in [Ends -> Nat]
        /\ pc \in [Tasks -> PCs]
    OBVIOUS
  <2> HIDE DEF TypeInv, TypeOK
  <2>3. queue' \in [Ends -> Seq(BOOLEAN)]
    BY <1>2, <2>1, <2>2
  <2>4. sent[p] + 1 \in Nat /\ "loop" \in PCs
    BY <1>1, <2>2 DEF PCs
  <2>5. sent' \in [Ends -> Nat]
    BY <2>1, <2>2, <2>4
  <2>6. pc' \in [Tasks -> PCs]
    BY <2>1, <2>2, <2>4
  <2> QED
    BY <2>3, <2>5, <2>6
<1>7. chan' \in [Ends -> Seq(Frames)]
  BY <1>1, <1>4 DEF SendFragment
<1>8. moreOf' \in [Ends -> Seq(BOOLEAN)] /\ \A r \in Ends : Len(moreOf'[r]) = sent'[r]
  BY <1>1, <1>5 DEF SendFragment
<1> QED
  BY <1>6, <1>7, <1>8

\* So does a drain() that blocks, returns or fails.
LEMMA GoToType ==
    ASSUME TypeInv, NEW t \in Tasks, NEW label \in PCs, GoTo(t, label)
    PROVE  /\ queue' \in [Ends -> Seq(BOOLEAN)]
           /\ chan' \in [Ends -> Seq(Frames)]
           /\ moreOf' \in [Ends -> Seq(BOOLEAN)]
           /\ sent' \in [Ends -> Nat]
           /\ pc' \in [Tasks -> PCs]
           /\ \A p \in Ends : Len(moreOf'[p]) = sent'[p]
BY DEF TypeInv, TypeOK, GoTo

\* So does a drain() that drops the queue.
LEMMA AbandonType ==
    ASSUME TypeInv, NEW t \in Tasks, Abandon(EndOf[t], t)
    PROVE  /\ queue' \in [Ends -> Seq(BOOLEAN)]
           /\ chan' \in [Ends -> Seq(Frames)]
           /\ moreOf' \in [Ends -> Seq(BOOLEAN)]
           /\ sent' \in [Ends -> Nat]
           /\ pc' \in [Tasks -> PCs]
           /\ \A p \in Ends : Len(moreOf'[p]) = sent'[p]
<1>1. EndOf[t] \in Ends /\ <<>> \in Seq(BOOLEAN)
  BY TransferAssumption
<1>2. queue' \in [Ends -> Seq(BOOLEAN)]
  BY <1>1 DEF TypeInv, TypeOK, Abandon
<1> QED
  BY <1>2 DEF TypeInv, TypeOK, Abandon, PCs

\* A write() queues a sequence of flags.
LEMMA WriteType ==
    ASSUME TypeInv, NEW t \in Tasks, Write(t)
    PROVE  TypeInv'
<1> DEFINE p == EndOf[t]
           k == Writes[t][writes[t] + 1]
           flags == [i \in 1 .. k |-> i < k]
<1> USE DEF TypeInv, TypeOK
<1>1. p \in Ends
  BY TransferAssumption
<1>2. k \in Nat
  <2>1. Writes[t] \in Seq(Nat \ {0}) /\ writes[t] \in Nat
    BY TransferAssumption
  <2>2. writes[t] + 1 \in 1 .. Len(Writes[t])
    BY <2>1 DEF Write
  <2> QED
    BY <2>1, <2>2, ElementOfSeq
<1>3. flags \in Seq(BOOLEAN)
  <2> HIDE DEF k
  <2>1. \A i \in 1 .. k : (i < k) \in BOOLEAN
    BY <1>2
  <2>2. flags \in [1 .. k -> BOOLEAN]
    BY <2>1
  <2> QED
    BY <1>2, <2>2, SeqDef
<1>4. queue[p] \o flags \in Seq(BOOLEAN)
  <2> HIDE DEF flags
  <2> QED
    BY <1>1, <1>3, ConcatProperties
<1>5. queue' \in [Ends -> Seq(BOOLEAN)]
  <2>1. queue' = [queue EXCEPT ![p] = @ \o flags]
    BY DEF Write
  <2> HIDE DEF flags
  <2> QED
    BY <1>1, <1>4, <2>1
<1>6. pc' \in [Tasks -> PCs]
  BY DEF Write, PCs
<1>7. writes' \in [Tasks -> Nat]
  BY DEF Write
<1>8. UNCHANGED <<state, sent, acked, moreOf, delivered, partial, chan, retransmits>>
  BY DEF Write
<1> HIDE DEF flags
<1> QED
  BY <1>5, <1>6, <1>7, <1>8

\* Every step keeps the types.
LEMMA TypeStep == TypeInv /\ [Next]_vars => TypeInv'
<1> SUFFICES ASSUME TypeInv, [Next]_vars
             PROVE  TypeInv'
  OBVIOUS
<1> USE DEF TypeInv, TypeOK
<1>1. CASE UNCHANGED vars
  BY <1>1 DEF vars
<1>2. ASSUME NEW t \in Tasks, Write(t) \/ Drain(t) \/ DrainTimesOut(t)
      PROVE  TypeInv'
  <2>1. CASE Write(t)
    BY <2>1, WriteType
  <2>2. ASSUME \/ GoTo(t, "idle") \/ GoTo(t, "blocked") \/ GoTo(t, "failed")
               \/ Abandon(EndOf[t], t) \/ SendFragment(EndOf[t], t),
               UNCHANGED <<state, acked, delivered, partial, writes, retransmits>>
        PROVE  TypeInv'
    <3>1. {"idle", "blocked", "failed"} \subseteq PCs
      BY DEF PCs
    <3> QED
      BY <2>2, <3>1, GoToType, AbandonType, SendFragmentType
  <2>3. CASE Drain(t)
    BY <2>2, <2>3 DEF Drain, DrainLoop, DrainResume
  <2>4. CASE DrainTimesOut(t)
    BY <2>2, <2>4 DEF DrainTimesOut
  <2> QED
    BY <1>2, <2>1, <2>3, <2>4
<1>3. ASSUME NEW p \in Ends, NEW n \in acked[p] .. (sent[p] - 1), Retransmit(p, n)
      PROVE  TypeInv'
  <2>1. n \in Nat /\ n + 1 \in 1 .. Len(moreOf[p])
    OBVIOUS
  <2>2. Info(n, Received(p), moreOf[p][n + 1]) \in Frames
    BY <2>1, InfoType, ElementOfSeq DEF Received
  <2>3. chan' \in [Ends -> Seq(Frames)]
    BY <1>3, <2>2, PeerFacts, AppendProperties DEF Retransmit
  <2>4. retransmits' \in Nat
    BY <1>3 DEF Retransmit
  <2>5. UNCHANGED <<state, queue, pc, sent, acked, moreOf, delivered, partial, writes>>
    BY <1>3 DEF Retransmit
  <2> QED
    BY <2>3, <2>4, <2>5
<1>4. ASSUME NEW p \in Ends, Receive(p) PROVE TypeInv'
  <2> DEFINE f == Head(chan[p])
  <2>1. chan[p] # <<>>
    BY <1>4 DEF Receive, DuplicateInfo, NextInfo, InformationAck, DisconnectRequest,
                DisconnectAck, UnknownCircuit, Arrives
  <2>2. f \in Frames /\ Tail(chan[p]) \in Seq(Frames)
    BY <2>1, HeadTailProperties
  <2>3. Received(p) \in Nat /\ InfoAck(Received(p)) \in Frames
        /\ InfoAck(Received(p) + 1) \in Frames /\ DiscAck \in Frames
    BY InfoAckType, DiscTypes DEF Received
  <2>4. /\ f.kind = "INFO" => f.n \in Nat /\ f.ack \in Nat /\ f.more \in BOOLEAN
        /\ f.kind = "INFO ACK" => f.ack \in Nat
    BY <2>2, FrameTypes
  <2> HIDE DEF f
  <2>5. CASE DuplicateInfo(p)
    <3>1. acked' \in [Ends -> Nat] /\ pc' \in [Tasks -> PCs]
      BY <2>4, <2>5, AdvanceVAType DEF DuplicateInfo, Arrives, f
    <3>2. chan' \in [Ends -> Seq(Frames)]
      BY <2>1, <2>3, <2>5, ReplyType DEF DuplicateInfo
    <3> QED
      BY <2>5, <3>1, <3>2 DEF DuplicateInfo
  <2>6. CASE NextInfo(p)
    <3>1. acked' \in [Ends -> Nat] /\ pc' \in [Tasks -> PCs]
      BY <2>4, <2>6, AdvanceVAType DEF NextInfo, Arrives, f
    <3>2. chan' \in [Ends -> Seq(Frames)]
      BY <2>1, <2>3, <2>6, ReplyType DEF NextInfo
    <3>3. Reassembled(p, f.more) \in 0 .. MaxReassembly
      BY TransferAssumption DEF Reassembled
    <3>4. Append(delivered[p], f.n) \in Seq(Nat)
      BY <2>4, <2>6, AppendProperties DEF NextInfo, Arrives, f
    <3>5. partial' \in [Ends -> 0 .. MaxReassembly] /\ delivered' \in [Ends -> Seq(Nat)]
      BY <2>6, <3>3, <3>4 DEF NextInfo, f
    <3> QED
      BY <2>6, <3>1, <3>2, <3>5 DEF NextInfo
  <2>7. CASE InformationAck(p)
    <3>1. acked' \in [Ends -> Nat] /\ pc' \in [Tasks -> PCs]
      BY <2>4, <2>7, AdvanceVAType DEF InformationAck, Arrives, f
    <3> QED
      BY <2>2, <2>7, <3>1 DEF InformationAck
  <2>8. CASE DisconnectRequest(p)
    <3>1. chan' \in [Ends -> Seq(Frames)]
      BY <2>1, <2>3, <2>8, ReplyType DEF DisconnectRequest
    <3>2. pc' \in [Tasks -> PCs]
      BY <2>8, WakeType DEF DisconnectRequest, SetClosed
    <3> QED
      BY <2>8, <3>1, <3>2 DEF DisconnectRequest, SetClosed
  <2>9. CASE DisconnectAck(p)
    <3>1. pc' \in [Tasks -> PCs]
      BY <2>9, WakeType DEF DisconnectAck, SetClosed
    <3> QED
      BY <2>2, <2>9, <3>1 DEF DisconnectAck, SetClosed
  <2>10. CASE UnknownCircuit(p)
    BY <2>2, <2>10 DEF UnknownCircuit
  <2> QED
    BY <1>4, <2>5, <2>6, <2>7, <2>8, <2>9, <2>10 DEF Receive
<1>5. ASSUME NEW p \in Ends, Close(p) PROVE TypeInv'
  <2>1. Append(chan[Peer(p)], DiscReq) \in Seq(Frames)
    BY PeerFacts, DiscTypes, AppendProperties
  <2> QED
    BY <1>5, <2>1 DEF Close
<1>6. ASSUME NEW p \in Ends, GuardFires(p) PROVE TypeInv'
  <2>1. pc' \in [Tasks -> PCs]
    BY <1>6, WakeType DEF GuardFires, SetClosed
  <2> QED
    BY <1>6, <2>1 DEF GuardFires, SetClosed
<1> QED
  BY <1>1, <1>2, <1>3, <1>4, <1>5, <1>6 DEF Next

\* Every variable of a circuit keeps its type for ever.
THEOREM TypeCorrect == Spec => []TypeOK
<1>1. Spec => []TypeInv
  BY TypeInit, TypeStep, PTL DEF Spec
<1>2. TypeInv => TypeOK
  BY DEF TypeInv
<1> QED
  BY <1>1, <1>2, PTL

-----------------------------------------------------------------------------
(***************************************************************************)
(* The inductive invariant.  The code compares residues only; that they    *)
(* name the right fragments and acknowledgements rests on what the counts  *)
(* behind them satisfy in every state: an end has sent at most Window      *)
(* fragments past the last acknowledgement, acknowledgements on the        *)
(* crosslink are in order and never ahead of what was received, and every  *)
(* fragment on it is within Window of what its receiver expects when it    *)
(* arrives, however often it was retransmitted.                            *)
(***************************************************************************)
HasAck(f) == f.kind \in {"INFO", "INFO ACK"}

\* The frames s on their way to an end: acknowledgements between lo, the last
\* one it took over, and hi, what its peer has received; fragments below snt,
\* what the peer has sent, and near rcv, what the end has received.
ChannelInv(s, lo, hi, snt, rcv) ==
    /\ \A i \in 1 .. Len(s) : HasAck(s[i]) => lo <= s[i].ack /\ s[i].ack <= hi
    /\ \A i, j \in 1 .. Len(s) :
          i < j /\ HasAck(s[i]) /\ HasAck(s[j]) => s[i].ack <= s[j].ack
    /\ \A i \in 1 .. Len(s) : s[i].kind = "INFO" => s[i].n < snt /\ rcv <= s[i].n + Window
    /\ \A i, j \in 1 .. Len(s) :
          i < j /\ s[i].kind = "INFO" /\ s[j].kind = "INFO" => s[i].n < s[j].n + Window

EndInv(p) ==
    /\ acked[p] <= Received(Peer(p))
    /\ Received(Peer(p)) <= sent[p]
    /\ sent[p] <= acked[p] + Window
    /\ ChannelInv(chan[p], acked[p], Received(Peer(p)), sent[Peer(p)], Received(p))

StreamInv == TypeInv /\ \A p \in Ends : EndInv(p)

\* A fragment joins the frames on their way.
LEMMA AppendInfo ==
    ASSUME NEW s \in Seq(Frames), NEW lo \in Nat, NEW hi \in Nat, NEW snt \in Nat,
           NEW rcv \in Nat, ChannelInv(s, lo, hi, snt, rcv), lo <= hi,
           NEW snt2 \in Nat, NEW n \in Nat, NEW more \in BOOLEAN,
           snt <= snt2, n < snt2, snt <= n + Window, rcv <= n + Window
    PROVE  ChannelInv(Append(s, Info(n, hi, more)), lo, hi, snt2, rcv)
<1> DEFINE f == Info(n, hi, more)
           s2 == Append(s, f)
<1>1. f \in Frames /\ f.kind = "INFO" /\ f.n = n /\ f.ack = hi /\ HasAck(f)
  BY InfoType DEF Info, HasAck
<1> HIDE DEF f
<1>2. /\ Len(s) \in Nat /\ Len(s2) = Len(s) + 1
      /\ \A i \in 1 .. Len(s) : s2[i] = s[i]
      /\ s2[Len(s) + 1] = f
  <2>1. s \in Seq(Frames) /\ f \in Frames
    BY <1>1
  <2> QED
    BY <2>1, AppendProperties, LenProperties
<1>3. \A i \in 1 .. Len(s) : /\ HasAck(s[i]) => s[i].ack \in Nat
                             /\ s[i].kind = "INFO" => s[i].n \in Nat
  BY FrameTypes, ElementOfSeq DEF HasAck
<1>4. Window \in Nat
  BY TransferAssumption
<1> HIDE DEF s2
<1>5. \A i \in 1 .. Len(s2) :
         \/ i \in 1 .. Len(s) /\ s2[i] = s[i]
         \/ i = Len(s) + 1 /\ s2[i] = f
  BY <1>2
<1>6. \A i \in 1 .. Len(s2) : HasAck(s2[i]) => lo <= s2[i].ack /\ s2[i].ack <= hi
  BY <1>1, <1>2, <1>3, <1>4, <1>5 DEF ChannelInv
<1>7. \A i, j \in 1 .. Len(s2) :
          i < j /\ HasAck(s2[i]) /\ HasAck(s2[j]) => s2[i].ack <= s2[j].ack
  BY <1>1, <1>2, <1>3, <1>4, <1>5 DEF ChannelInv
<1>8. \A i \in 1 .. Len(s2) :
          s2[i].kind = "INFO" => s2[i].n < snt2 /\ rcv <= s2[i].n + Window
  BY <1>1, <1>2, <1>3, <1>4, <1>5 DEF ChannelInv
<1>9. \A i, j \in 1 .. Len(s2) :
          i < j /\ s2[i].kind = "INFO" /\ s2[j].kind = "INFO" => s2[i].n < s2[j].n + Window
  BY <1>1, <1>2, <1>3, <1>4, <1>5 DEF ChannelInv
<1> QED
  BY <1>6, <1>7, <1>8, <1>9 DEF ChannelInv, s2, f

\* An acknowledgement of all that was received joins them.
LEMMA AppendInfoAck ==
    ASSUME NEW s \in Seq(Frames), NEW lo \in Nat, NEW hi \in Nat, NEW snt \in Nat,
           NEW rcv \in Nat, ChannelInv(s, lo, hi, snt, rcv),
           NEW hi2 \in Nat, lo <= hi, hi <= hi2
    PROVE  ChannelInv(Append(s, InfoAck(hi2)), lo, hi2, snt, rcv)
<1> DEFINE f == InfoAck(hi2)
           s2 == Append(s, f)
<1>1. f \in Frames /\ f.kind = "INFO ACK" /\ f.ack = hi2 /\ HasAck(f)
  BY InfoAckType DEF InfoAck, HasAck
<1> HIDE DEF f
<1>2. /\ Len(s) \in Nat /\ Len(s2) = Len(s) + 1
      /\ \A i \in 1 .. Len(s) : s2[i] = s[i]
      /\ s2[Len(s) + 1] = f
  <2>1. s \in Seq(Frames) /\ f \in Frames
    BY <1>1
  <2> QED
    BY <2>1, AppendProperties, LenProperties
<1>3. \A i \in 1 .. Len(s) : HasAck(s[i]) => s[i].ack \in Nat
  BY FrameTypes, ElementOfSeq DEF HasAck
<1> HIDE DEF s2
<1>5. \A i \in 1 .. Len(s2) :
         \/ i \in 1 .. Len(s) /\ s2[i] = s[i]
         \/ i = Len(s) + 1 /\ s2[i] = f
  BY <1>2
<1>6. \A i \in 1 .. Len(s) : HasAck(s[i]) => lo <= s[i].ack /\ s[i].ack <= hi2
  <2> SUFFICES ASSUME NEW i \in 1 .. Len(s), HasAck(s[i])
               PROVE  lo <= s[i].ack /\ s[i].ack <= hi2
    OBVIOUS
  <2>1. s[i].ack \in Nat /\ lo <= s[i].ack /\ s[i].ack <= hi
    BY <1>3 DEF ChannelInv
  <2> QED
    BY <2>1
<1>7. /\ \A i \in 1 .. Len(s2) : HasAck(s2[i]) => lo <= s2[i].ack /\ s2[i].ack <= hi2
      /\ \A i, j \in 1 .. Len(s2) :
            i < j /\ HasAck(s2[i]) /\ HasAck(s2[j]) => s2[i].ack <= s2[j].ack
  <2>1. lo <= hi2 /\ hi2 <= hi2
    OBVIOUS
  <2>2. \A i \in 1 .. Len(s2) : HasAck(s2[i]) => lo <= s2[i].ack /\ s2[i].ack <= hi2
    BY <1>1, <1>5, <1>6, <2>1
  <2>3. \A i, j \in 1 .. Len(s) :
            i < j /\ HasAck(s[i]) /\ HasAck(s[j]) => s[i].ack <= s[j].ack
    BY DEF ChannelInv
  <2>4. \A i, j \in 1 .. Len(s2) : i < j => i \in 1 .. Len(s)
    BY <1>2
  <2>5. \A i, j \in 1 .. Len(s2) :
            i < j /\ HasAck(s2[i]) /\ HasAck(s2[j]) => s2[i].ack <= s2[j].ack
    BY <1>1, <1>2, <1>5, <1>6, <2>3, <2>4
  <2> QED
    BY <2>2, <2>5
<1>8. \A i \in 1 .. Len(s2) :
          s2[i].kind = "INFO" => s2[i].n < snt /\ rcv <= s2[i].n + Window
  BY <1>1, <1>2, <1>3, <1>5 DEF ChannelInv
<1>9. \A i, j \in 1 .. Len(s2) :
          i < j /\ s2[i].kind = "INFO" /\ s2[j].kind = "INFO" => s2[i].n < s2[j].n + Window
  BY <1>1, <1>2, <1>3, <1>5 DEF ChannelInv
<1> QED
  BY <1>7, <1>8, <1>9 DEF ChannelInv, s2, f

\* A frame of the disconnect handshake joins them.
LEMMA AppendDisc ==
    ASSUME NEW s \in Seq(Frames), NEW lo \in Nat, NEW hi \in Nat, NEW snt \in Nat,
           NEW rcv \in Nat, ChannelInv(s, lo, hi, snt, rcv),
           NEW f \in {DiscReq, DiscAck}
    PROVE  ChannelInv(Append(s, f), lo, hi, snt, rcv)
<1> DEFINE s2 == Append(s, f)
<1>1. f \in Frames /\ f.kind # "INFO" /\ ~HasAck(f)
  <2>1. DiscReq.kind = "DISC REQ" /\ DiscAck.kind = "DISC ACK"
    BY DEF DiscReq, DiscAck
  <2> QED
    BY <2>1, DiscTypes DEF HasAck
<1>2. /\ Len(s) \in Nat /\ Len(s2) = Len(s) + 1
      /\ \A i \in 1 .. Len(s) : s2[i] = s[i]
      /\ s2[Len(s) + 1] = f
  <2>1. s \in Seq(Frames) /\ f \in Frames
    BY <1>1
  <2> QED
    BY <2>1, AppendProperties, LenProperties
<1> HIDE DEF s2
<1>5. \A i \in 1 .. Len(s2) :
         \/ i \in 1 .. Len(s) /\ s2[i] = s[i]
         \/ i = Len(s) + 1 /\ s2[i] = f
  BY <1>2
<1>6. \A i \in 1 .. Len(s2) : HasAck(s2[i]) => lo <= s2[i].ack /\ s2[i].ack <= hi
  BY <1>1, <1>2, <1>5 DEF ChannelInv
<1>7. \A i, j \in 1 .. Len(s2) :
          i < j /\ HasAck(s2[i]) /\ HasAck(s2[j]) => s2[i].ack <= s2[j].ack
  BY <1>1, <1>2, <1>5 DEF ChannelInv
<1>8. \A i \in 1 .. Len(s2) :
          s2[i].kind = "INFO" => s2[i].n < snt /\ rcv <= s2[i].n + Window
  BY <1>1, <1>2, <1>5 DEF ChannelInv
<1>9. \A i, j \in 1 .. Len(s2) :
          i < j /\ s2[i].kind = "INFO" /\ s2[j].kind = "INFO" => s2[i].n < s2[j].n + Window
  BY <1>1, <1>2, <1>5 DEF ChannelInv
<1> QED
  BY <1>6, <1>7, <1>8, <1>9 DEF ChannelInv, s2

\* The frame at the head arrives: its acknowledgement may be taken over, and
\* its fragment may be the next one received.
LEMMA TailOfChannel ==
    ASSUME NEW s \in Seq(Frames), NEW lo \in Nat, NEW hi \in Nat, NEW snt \in Nat,
           NEW rcv \in Nat, ChannelInv(s, lo, hi, snt, rcv), s # <<>>,
           NEW lo2 \in Nat, NEW rcv2 \in Nat,
           lo2 = lo \/ (HasAck(Head(s)) /\ lo2 = Head(s).ack),
           rcv2 = rcv \/ (Head(s).kind = "INFO" /\ rcv2 = Head(s).n + 1)
    PROVE  ChannelInv(Tail(s), lo2, hi, snt, rcv2)
<1> DEFINE s2 == Tail(s)
<1>1. /\ Len(s) \in Nat \ {0} /\ Len(s2) = Len(s) - 1
      /\ \A i \in 1 .. Len(s2) : s2[i] = s[i + 1]
      /\ Head(s) = s[1]
  BY HeadTailProperties, EmptySeq
<1>2. \A i \in 1 .. Len(s) : /\ HasAck(s[i]) => s[i].ack \in Nat
                             /\ s[i].kind = "INFO" => s[i].n \in Nat
  BY FrameTypes, ElementOfSeq DEF HasAck
<1>3. Window \in Nat
  BY TransferAssumption
<1> HIDE DEF s2
<1>4. \A i \in 1 .. Len(s2) : i + 1 \in 1 .. Len(s) /\ 1 \in 1 .. Len(s) /\ 1 < i + 1
  BY <1>1
<1>5. \A i \in 1 .. Len(s2) : HasAck(s2[i]) => lo2 <= s2[i].ack /\ s2[i].ack <= hi
  BY <1>1, <1>2, <1>4 DEF ChannelInv
<1>6. \A i, j \in 1 .. Len(s2) :
          i < j /\ HasAck(s2[i]) /\ HasAck(s2[j]) => s2[i].ack <= s2[j].ack
  BY <1>1, <1>4 DEF ChannelInv
<1>7. \A i \in 1 .. Len(s2) :
          s2[i].kind = "INFO" => s2[i].n < snt /\ rcv2 <= s2[i].n + Window
  <2> SUFFICES ASSUME NEW i \in 1 .. Len(s2), s2[i].kind = "INFO"
               PROVE  s2[i].n < snt /\ rcv2 <= s2[i].n + Window
    OBVIOUS
  <2>1. s2[i] = s[i + 1] /\ i + 1 \in 1 .. Len(s) /\ 1 \in 1 .. Len(s) /\ 1 < i + 1
    BY <1>1, <1>4
  <2>2. s2[i].n < snt /\ rcv <= s2[i].n + Window
    BY <2>1 DEF ChannelInv
  <2>3. Head(s).kind = "INFO" => Head(s).n < s2[i].n + Window
    BY <1>1, <2>1 DEF ChannelInv
  <2>4. s2[i].n \in Nat /\ (Head(s).kind = "INFO" => Head(s).n \in Nat)
    BY <1>1, <1>2, <2>1
  <2> QED
    BY <1>3, <2>2, <2>3, <2>4
<1>8. \A i, j \in 1 .. Len(s2) :
          i < j /\ s2[i].kind = "INFO" /\ s2[j].kind = "INFO" => s2[i].n < s2[j].n + Window
  <2> SUFFICES ASSUME NEW i \in 1 .. Len(s2), NEW j \in 1 .. Len(s2), i < j,
                      s2[i].kind = "INFO", s2[j].kind = "INFO"
               PROVE  s2[i].n < s2[j].n + Window
    OBVIOUS
  <2>1. i + 1 \in 1 .. Len(s) /\ j + 1 \in 1 .. Len(s) /\ i + 1 < j + 1
    BY <1>1
  <2> QED
    BY <1>1, <2>1 DEF ChannelInv
<1> QED
  BY <1>5, <1>6, <1>7, <1>8 DEF ChannelInv, s2

-----------------------------------------------------------------------------
\* The first frame of a channel lies within the bounds of the invariant.
LEMMA HeadOfChannel ==
    ASSUME StreamInv, NEW p \in Ends, chan[p] # <<>>
    PROVE  LET f == Head(chan[p])
           IN  /\ f \in Frames
               /\ HasAck(f) => /\ f.ack \in Nat
                               /\ acked[p] <= f.ack
                               /\ f.ack <= Received(Peer(p))
               /\ f.kind = "INFO" => /\ f.n \in Nat
                                     /\ f.n < sent[Peer(p)]
                                     /\ Received(p) <= f.n + Window
<1> DEFINE s == chan[p]
<1>1. s \in Seq(Frames)
  BY DEF StreamInv, TypeInv, TypeOK
<1>2. 1 \in 1 .. Len(s) /\ Head(s) = s[1] /\ s[1] \in Frames
  BY <1>1, EmptySeq, HeadTailProperties
<1>3. /\ HasAck(s[1]) => s[1].ack \in Nat
      /\ s[1].kind = "INFO" => s[1].n \in Nat
  BY <1>2, FrameTypes DEF HasAck
<1>4. ChannelInv(s, acked[p], Received(Peer(p)), sent[Peer(p)], Received(p))
  BY DEF StreamInv, EndInv
<1> HIDE DEF s
<1> QED
  BY <1>2, <1>3, <1>4 DEF ChannelInv, s

\* The counts of an end are naturals, ordered as the protocol promises.
LEMMA Counts ==
    ASSUME StreamInv, NEW p \in Ends
    PROVE  /\ acked[p] \in Nat /\ sent[p] \in Nat /\ Received(p) \in Nat
           /\ acked[p] <= Received(Peer(p))
           /\ Received(Peer(p)) <= sent[p]
           /\ sent[p] <= acked[p] + Window
           /\ Window \in Nat /\ Modulus \in Nat \ {0} /\ Window < Modulus
<1>1. delivered[p] \in Seq(Nat) /\ acked[p] \in Nat /\ sent[p] \in Nat
  BY DEF StreamInv, TypeInv, TypeOK
<1>2. Received(p) \in Nat
  BY <1>1, LenProperties DEF Received
<1>3. EndInv(p)
  BY DEF StreamInv
<1> QED
  BY <1>1, <1>2, <1>3, TransferAssumption DEF EndInv

\* _advance_va compares residues, yet takes over exactly the acknowledgement
\* that arrived.
LEMMA AckTaken ==
    ASSUME StreamInv, NEW p \in Ends, chan[p] # <<>>, HasAck(Head(chan[p])),
           AdvanceVA(p, Head(chan[p]).ack)
    PROVE  acked' = [acked EXCEPT ![p] = Head(chan[p]).ack]
<1> DEFINE a == Head(chan[p]).ack
<1>1. a \in Nat /\ acked[p] <= a /\ a <= Received(Peer(p))
  BY HeadOfChannel
<1>2. acked \in [Ends -> Nat]
  BY DEF StreamInv, TypeInv, TypeOK
<1>3. Peer(p) \in Ends
  BY PeerFacts
<1>4. a % Modulus = acked[p] % Modulus => a = acked[p]
  <2>1. a < acked[p] + Modulus /\ acked[p] < a + Modulus
    BY <1>1, <1>3, Counts
  <2> QED
    BY <1>1, <2>1, Counts, ResidueNames
<1> QED
  BY <1>2, <1>4 DEF AdvanceVA, VA

\* The duplicate guard compares residues, yet accepts exactly the fragment
\* that is next.
LEMMA ExpectedIsNext ==
    ASSUME StreamInv, NEW p \in Ends, chan[p] # <<>>,
           Head(chan[p]).kind = "INFO", Expected(p)
    PROVE  Head(chan[p]).n = Received(p)
<1> DEFINE n == Head(chan[p]).n
<1>1. n \in Nat /\ n < sent[Peer(p)] /\ Received(p) <= n + Window
  BY HeadOfChannel
<1>2. n < Received(p) + Modulus /\ Received(p) < n + Modulus
  <2>1. Peer(p) \in Ends /\ Peer(Peer(p)) = p
    BY PeerFacts
  <2> QED
    BY <1>1, <2>1, Counts
<1>3. n % Modulus = Received(p) % Modulus
  BY DEF Expected, VR
<1> QED
  BY <1>1, <1>2, <1>3, Counts, ResidueNames

\* _frames_in_flight is the number of fragments in flight.
LEMMA FramesInFlightIsExact ==
    ASSUME StreamInv, NEW p \in Ends
    PROVE  FramesInFlight(p) = sent[p] - acked[p]
<1>1. acked[p] <= sent[p] /\ sent[p] < acked[p] + Modulus
  BY Counts, PeerFacts
<1> QED
  BY <1>1, Counts, ResidueDistance DEF FramesInFlight, VS, VA

\* A fragment sent within the window keeps the invariant at both ends.
LEMMA SendFragmentStream ==
    ASSUME StreamInv, NEW t \in Tasks, ~WindowFull(EndOf[t]),
           SendFragment(EndOf[t], t), UNCHANGED <<acked, delivered>>
    PROVE  \A r \in Ends : EndInv(r)'
<1> DEFINE p == EndOf[t]
           q == Peer(p)
           f == Info(sent[p], Received(p), Head(queue[p]))
<1>1. p \in Ends /\ q \in Ends /\ q # p /\ Peer(q) = p
  BY TransferAssumption, PeerFacts
<1>2. /\ sent' = [sent EXCEPT ![p] = @ + 1]
      /\ chan' = [chan EXCEPT ![q] = Append(@, f)]
  BY DEF SendFragment
<1>3. /\ sent \in [Ends -> Nat] /\ chan \in [Ends -> Seq(Frames)]
      /\ Head(queue[p]) \in BOOLEAN
  <2>1. queue[p] \in Seq(BOOLEAN) /\ queue[p] # <<>>
    BY <1>1 DEF SendFragment, StreamInv, TypeInv, TypeOK
  <2> QED
    BY <2>1, HeadTailProperties DEF StreamInv, TypeInv, TypeOK
<1>4. \A r \in Ends : Received(r)' = Received(r)
  BY DEF Received
<1>5. sent[p] + 1 <= acked[p] + Window
  BY <1>1, FramesInFlightIsExact, Counts DEF WindowFull
<1>6. EndInv(p)'
  <2>1. sent'[p] = sent[p] + 1 /\ sent'[q] = sent[q] /\ chan'[p] = chan[p]
    BY <1>1, <1>2, <1>3
  <2>2. EndInv(p)
    BY <1>1 DEF StreamInv
  <2> HIDE DEF p, q
  <2> QED
    BY <1>1, <1>4, <1>5, <2>1, <2>2, Counts DEF EndInv, q
<1>7. EndInv(q)'
  <2>1. sent'[q] = sent[q] /\ sent'[p] = sent[p] + 1 /\ chan'[q] = Append(chan[q], f)
    BY <1>1, <1>2, <1>3
  <2>2. ChannelInv(chan[q], acked[q], Received(p), sent[p], Received(q))
    BY <1>1 DEF StreamInv, EndInv
  <2>3. ChannelInv(Append(chan[q], f), acked[q], Received(p), sent[p] + 1, Received(q))
    <3>1. chan[q] \in Seq(Frames)
      BY <1>1, <1>3
    <3>2. /\ acked[q] <= Received(p) /\ Received(q) <= sent[p] + Window
          /\ sent[p] <= sent[p] + Window
      BY <1>1, Counts
    <3>3. /\ acked[q] \in Nat /\ Received(p) \in Nat /\ sent[p] \in Nat /\ Received(q) \in Nat
          /\ sent[p] + 1 \in Nat /\ sent[p] <= sent[p] + 1 /\ sent[p] < sent[p] + 1
      BY <1>1, Counts
    <3> HIDE DEF p, q
    <3> QED
      BY <1>3, <2>2, <3>1, <3>2, <3>3, AppendInfo DEF f
  <2>4. EndInv(q)
    BY <1>1 DEF StreamInv
  <2> HIDE DEF f
  <2> QED
    BY <1>1, <1>4, <2>1, <2>3, <2>4 DEF EndInv
<1> QED
  BY <1>1, <1>6, <1>7, PeerFacts

\* The frame at the head of p's channel is consumed, p's counts become lo and
\* rcv, and what p answers keeps the invariant at both ends.
LEMMA ArrivalStream ==
    ASSUME StreamInv, NEW p \in Ends, chan[p] # <<>>, NEW lo \in Nat, NEW rcv \in Nat,
           lo = acked[p] \/ (HasAck(Head(chan[p])) /\ lo = Head(chan[p]).ack),
           \/ rcv = Received(p)
           \/ /\ Head(chan[p]).kind = "INFO"
              /\ Head(chan[p]).n = Received(p)
              /\ rcv = Received(p) + 1,
           acked' = [acked EXCEPT ![p] = lo],
           Received(p)' = rcv,
           Received(Peer(p))' = Received(Peer(p)),
           sent' = sent,
           chan'[p] = Tail(chan[p]),
           \/ chan'[Peer(p)] = Append(chan[Peer(p)], InfoAck(rcv))
           \/ chan'[Peer(p)] = Append(chan[Peer(p)], DiscAck) /\ rcv = Received(p)
           \/ chan'[Peer(p)] = chan[Peer(p)] /\ rcv = Received(p)
    PROVE  \A r \in Ends : EndInv(r)'
<1> DEFINE q == Peer(p)
           f == Head(chan[p])
<1>1. q \in Ends /\ q # p /\ Peer(q) = p
  BY PeerFacts
<1>2. acked'[p] = lo /\ acked'[q] = acked[q]
  BY <1>1 DEF StreamInv, TypeInv, TypeOK
<1>3. /\ HasAck(f) => f.ack \in Nat /\ acked[p] <= f.ack /\ f.ack <= Received(q)
      /\ f.kind = "INFO" => f.n \in Nat /\ f.n < sent[q]
  BY HeadOfChannel
<1>4. /\ acked[p] \in Nat /\ sent[p] \in Nat /\ Received(p) \in Nat
      /\ acked[q] \in Nat /\ sent[q] \in Nat /\ Received(q) \in Nat /\ Window \in Nat
  BY <1>1, Counts
<1>5. /\ acked[p] <= Received(q) /\ Received(q) <= sent[p] /\ sent[p] <= acked[p] + Window
      /\ acked[q] <= Received(p) /\ Received(p) <= sent[q] /\ sent[q] <= acked[q] + Window
  BY <1>1, Counts
<1>6. chan[p] \in Seq(Frames) /\ chan[q] \in Seq(Frames)
  BY <1>1 DEF StreamInv, TypeInv, TypeOK
<1>7. /\ ChannelInv(chan[p], acked[p], Received(q), sent[q], Received(p))
      /\ ChannelInv(chan[q], acked[q], Received(p), sent[p], Received(q))
  BY <1>1 DEF StreamInv, EndInv
<1>8. lo <= Received(q) /\ acked[p] <= lo /\ Received(p) <= rcv /\ rcv <= sent[q]
  <2> HIDE DEF q, f
  <2> QED
    BY <1>3, <1>4, <1>5 DEF f
<1>9. EndInv(p)'
  <2>1. ChannelInv(Tail(chan[p]), lo, Received(q), sent[q], rcv)
    <3> HIDE DEF q
    <3> QED
      BY <1>4, <1>6, <1>7, TailOfChannel
  <2>2. lo <= Received(q) /\ Received(q) <= sent[p] /\ sent[p] <= lo + Window
    BY <1>4, <1>5, <1>8
  <2> QED
    BY <1>2, <2>1, <2>2 DEF EndInv
<1>10. EndInv(q)'
  <2>1. ChannelInv(chan'[q], acked[q], rcv, sent[p], Received(q))
    <3>1. CASE chan'[q] = Append(chan[q], InfoAck(rcv))
      <4> HIDE DEF q
      <4>1. /\ chan[q] \in Seq(Frames) /\ acked[q] \in Nat /\ Received(p) \in Nat
            /\ sent[p] \in Nat /\ Received(q) \in Nat
            /\ acked[q] <= Received(p) /\ Received(p) <= rcv
            /\ ChannelInv(chan[q], acked[q], Received(p), sent[p], Received(q))
        BY <1>4, <1>5, <1>6, <1>7, <1>8
      <4>2. ChannelInv(Append(chan[q], InfoAck(rcv)), acked[q], rcv, sent[p], Received(q))
        BY <4>1, AppendInfoAck
      <4> QED
        BY <3>1, <4>2
    <3>2. CASE chan'[q] = Append(chan[q], DiscAck) /\ rcv = Received(p)
      <4> HIDE DEF q
      <4> QED
        BY <1>4, <1>6, <1>7, <3>2, AppendDisc
    <3>3. CASE chan'[q] = chan[q] /\ rcv = Received(p)
      BY <1>7, <3>3
    <3> QED
      BY <3>1, <3>2, <3>3
  <2>2. acked[q] <= rcv /\ rcv <= sent[q] /\ sent[q] <= acked[q] + Window
    BY <1>4, <1>5, <1>8
  <2> QED
    BY <1>1, <1>2, <2>1, <2>2 DEF EndInv
<1> QED
  BY <1>1, <1>9, <1>10, PeerFacts

\* So does a frame that joins the channel to p's peer while all counts stay.
LEMMA AppendStream ==
    ASSUME StreamInv, NEW p \in Ends, NEW f,
           \/ f = DiscReq
           \/ \E n \in acked[p] .. (sent[p] - 1), more \in BOOLEAN :
                 f = Info(n, Received(p), more),
           chan' = [chan EXCEPT ![Peer(p)] = Append(@, f)],
           UNCHANGED <<acked, sent, delivered>>
    PROVE  \A r \in Ends : EndInv(r)'
<1> DEFINE q == Peer(p)
<1>1. q \in Ends /\ q # p /\ Peer(q) = p
  BY PeerFacts
<1>2. /\ acked[p] \in Nat /\ sent[p] \in Nat /\ Received(p) \in Nat
      /\ acked[q] \in Nat /\ sent[q] \in Nat /\ Received(q) \in Nat /\ Window \in Nat
      /\ Received(q) <= sent[p] /\ sent[p] <= acked[p] + Window /\ acked[q] <= Received(p)
  BY <1>1, Counts
<1>3. chan \in [Ends -> Seq(Frames)]
  BY DEF StreamInv, TypeInv, TypeOK
<1>4. chan'[q] = Append(chan[q], f) /\ chan'[p] = chan[p] /\ chan[q] \in Seq(Frames)
  BY <1>1, <1>3
<1>5. \A r \in Ends : Received(r)' = Received(r)
  BY DEF Received
<1>6. ChannelInv(chan[q], acked[q], Received(p), sent[p], Received(q))
  BY <1>1 DEF StreamInv, EndInv
<1>7. ChannelInv(Append(chan[q], f), acked[q], Received(p), sent[p], Received(q))
  <2> HIDE DEF q
  <2>1. CASE f = DiscReq
    BY <1>2, <1>4, <1>6, <2>1, AppendDisc
  <2>2. ASSUME NEW n \in acked[p] .. (sent[p] - 1), NEW more \in BOOLEAN,
               f = Info(n, Received(p), more)
        PROVE  ChannelInv(Append(chan[q], f), acked[q], Received(p), sent[p], Received(q))
    <3>1. /\ n \in Nat /\ n < sent[p] /\ sent[p] <= sent[p]
          /\ sent[p] <= n + Window /\ Received(q) <= n + Window
      BY <1>2
    <3> QED
      BY <1>2, <1>4, <1>6, <2>2, <3>1, AppendInfo
  <2> QED
    BY <2>1, <2>2
<1>8. EndInv(q)'
  <2>1. EndInv(q)
    BY <1>1 DEF StreamInv
  <2> QED
    BY <1>1, <1>4, <1>5, <1>7, <2>1 DEF EndInv
<1>9. EndInv(p)'
  <2>1. EndInv(p)
    BY DEF StreamInv
  <2> QED
    BY <1>1, <1>4, <1>5, <2>1 DEF EndInv
<1> QED
  BY <1>1, <1>8, <1>9, PeerFacts

\* A new circuit satisfies the invariant.
LEMMA StreamInit == Init => StreamInv
<1> SUFFICES ASSUME Init PROVE StreamInv
  OBVIOUS
<1>1. ASSUME NEW p \in Ends PROVE EndInv(p)
  <2>1. /\ acked[p] = 0 /\ sent[p] = 0 /\ delivered[p] = <<>> /\ chan[p] = <<>>
        /\ delivered[Peer(p)] = <<>> /\ sent[Peer(p)] = 0
    BY PeerFacts DEF Init
  <2>2. Len(<<>>) = 0
    BY EmptySeq
  <2>3. Window \in Nat
    BY TransferAssumption
  <2> QED
    BY <2>1, <2>2, <2>3 DEF EndInv, Received, ChannelInv
<1> QED
  BY <1>1, TypeInit DEF StreamInv

\* Every step keeps the invariant.
LEMMA StreamStep == StreamInv /\ [Next]_vars => StreamInv'
<1> SUFFICES ASSUME StreamInv, [Next]_vars
             PROVE  \A r \in Ends : EndInv(r)'
  BY TypeStep DEF StreamInv
<1> DEFINE Goal == \A r \in Ends : EndInv(r)'
<1>1. CASE UNCHANGED <<acked, sent, delivered, chan>>
  BY <1>1 DEF StreamInv, EndInv, Received
<1>2. CASE UNCHANGED vars
  BY <1>1, <1>2 DEF vars
<1>3. ASSUME NEW t \in Tasks, Write(t) \/ Drain(t) \/ DrainTimesOut(t) PROVE Goal
  <2>1. CASE Write(t)
    BY <1>1, <2>1 DEF Write
  <2>2. CASE DrainTimesOut(t)
    BY <1>1, <2>2 DEF DrainTimesOut, GoTo
  <2>3. ASSUME ~WindowFull(EndOf[t]), SendFragment(EndOf[t], t), UNCHANGED <<acked, delivered>>
        PROVE  Goal
    BY <2>3, SendFragmentStream
  <2>4. CASE DrainLoop(t)
    BY <1>1, <2>3, <2>4 DEF DrainLoop, GoTo, Abandon
  <2>5. CASE DrainResume(t)
    BY <1>1, <2>3, <2>5 DEF DrainResume, GoTo, Abandon
  <2> QED
    BY <1>3, <2>1, <2>2, <2>4, <2>5 DEF Drain
<1>4. ASSUME NEW p \in Ends, NEW n \in acked[p] .. (sent[p] - 1), Retransmit(p, n)
      PROVE  Goal
  <2>1. moreOf[p][n + 1] \in BOOLEAN
    <3>1. /\ moreOf[p] \in Seq(BOOLEAN) /\ Len(moreOf[p]) = sent[p]
          /\ acked[p] \in Nat /\ sent[p] \in Nat
      BY DEF StreamInv, TypeInv, TypeOK
    <3>2. n + 1 \in 1 .. Len(moreOf[p])
      BY <3>1
    <3> QED
      BY <3>1, <3>2, ElementOfSeq
  <2> QED
    BY <1>4, <2>1, AppendStream DEF Retransmit
<1>5. ASSUME NEW p \in Ends, Close(p) PROVE Goal
  BY <1>5, AppendStream DEF Close
<1>6. ASSUME NEW p \in Ends, GuardFires(p) PROVE Goal
  BY <1>1, <1>6 DEF GuardFires, SetClosed
<1>7. ASSUME NEW p \in Ends, Receive(p) PROVE Goal
  <2> DEFINE q == Peer(p)
             f == Head(chan[p])
  <2>1. chan[p] # <<>>
    BY <1>7 DEF Receive, DuplicateInfo, NextInfo, InformationAck, DisconnectRequest,
                DisconnectAck, UnknownCircuit, Arrives
  <2>2. q \in Ends /\ q # p
    BY PeerFacts
  <2>3. /\ acked \in [Ends -> Nat] /\ delivered \in [Ends -> Seq(Nat)]
        /\ chan \in [Ends -> Seq(Frames)]
        /\ acked = [acked EXCEPT ![p] = acked[p]]
    BY DEF StreamInv, TypeInv, TypeOK
  <2>4. acked[p] \in Nat /\ Received(p) \in Nat /\ Received(p) + 1 \in Nat
    BY Counts
  <2>5. HasAck(f) => f.ack \in Nat
    BY <2>1, HeadOfChannel
  <2>6. ASSUME NEW frame, Reply(p, frame)
        PROVE  chan'[p] = Tail(chan[p]) /\ chan'[q] = Append(chan[q], frame)
    BY <2>2, <2>3, <2>6 DEF Reply
  <2>7. ASSUME delivered' = delivered
        PROVE  Received(p)' = Received(p) /\ Received(q)' = Received(q)
    BY <2>7 DEF Received
  <2>8. CASE DuplicateInfo(p)
    <3>1. HasAck(f) /\ acked' = [acked EXCEPT ![p] = f.ack]
      BY <2>1, <2>8, AckTaken DEF DuplicateInfo, Arrives, HasAck
    <3>2. chan'[p] = Tail(chan[p]) /\ chan'[q] = Append(chan[q], InfoAck(Received(p)))
      BY <2>6, <2>8 DEF DuplicateInfo
    <3>3. sent' = sent /\ Received(p)' = Received(p) /\ Received(q)' = Received(q)
      BY <2>7, <2>8 DEF DuplicateInfo
    <3> QED
      BY <2>1, <2>4, <2>5, <3>1, <3>2, <3>3, ArrivalStream
  <2>9. CASE NextInfo(p)
    <3>1. HasAck(f) /\ f.kind = "INFO" /\ acked' = [acked EXCEPT ![p] = f.ack]
      BY <2>1, <2>9, AckTaken DEF NextInfo, Arrives, HasAck
    <3>2. f.n = Received(p)
      BY <2>1, <2>9, ExpectedIsNext DEF NextInfo, Arrives
    <3>3. chan'[p] = Tail(chan[p]) /\ chan'[q] = Append(chan[q], InfoAck(Received(p) + 1))
      BY <2>6, <2>9 DEF NextInfo
    <3>4. Received(p)' = Received(p) + 1 /\ Received(q)' = Received(q)
      <4>1. delivered'[p] = Append(delivered[p], f.n) /\ delivered'[q] = delivered[q]
        BY <2>2, <2>3, <2>9 DEF NextInfo
      <4>2. Len(Append(delivered[p], f.n)) = Len(delivered[p]) + 1
        BY <2>3, <2>4, <3>2, AppendProperties
      <4> QED
        BY <4>1, <4>2 DEF Received
    <3>5. sent' = sent
      BY <2>9 DEF NextInfo
    <3> QED
      BY <2>1, <2>4, <2>5, <3>1, <3>2, <3>3, <3>4, <3>5, ArrivalStream
  <2>10. CASE InformationAck(p)
    <3>1. HasAck(f) /\ acked' = [acked EXCEPT ![p] = f.ack]
      BY <2>1, <2>10, AckTaken DEF InformationAck, Arrives, HasAck
    <3>2. chan'[p] = Tail(chan[p]) /\ chan'[q] = chan[q]
      BY <2>2, <2>3, <2>10 DEF InformationAck
    <3>3. sent' = sent /\ Received(p)' = Received(p) /\ Received(q)' = Received(q)
      BY <2>7, <2>10 DEF InformationAck
    <3> QED
      BY <2>1, <2>4, <2>5, <3>1, <3>2, <3>3, ArrivalStream
  <2>11. CASE DisconnectRequest(p)
    <3>1. chan'[p] = Tail(chan[p]) /\ chan'[q] = Append(chan[q], DiscAck)
      BY <2>6, <2>11 DEF DisconnectRequest
    <3>2. acked' = acked /\ sent' = sent /\ Received(p)' = Received(p) /\ Received(q)' = Received(q)
      BY <2>7, <2>11 DEF DisconnectRequest
    <3> QED
      BY <2>1, <2>3, <2>4, <3>1, <3>2, ArrivalStream
  <2>12. CASE DisconnectAck(p) \/ UnknownCircuit(p)
    <3>1. chan'[p] = Tail(chan[p]) /\ chan'[q] = chan[q]
      BY <2>2, <2>3, <2>12 DEF DisconnectAck, UnknownCircuit
    <3>2. acked' = acked /\ sent' = sent /\ Received(p)' = Received(p) /\ Received(q)' = Received(q)
      BY <2>7, <2>12 DEF DisconnectAck, UnknownCircuit
    <3> QED
      BY <2>1, <2>3, <2>4, <3>1, <3>2, ArrivalStream
  <2> QED
    BY <1>7, <2>8, <2>9, <2>10, <2>11, <2>12 DEF Receive
<1> QED
  BY <1>2, <1>3, <1>4, <1>5, <1>6, <1>7 DEF Next

\* The counts behind the one-byte sequence numbers stay within the window of
\* one another for ever.
THEOREM StreamInvariant == Spec => []StreamInv
BY StreamInit, StreamStep, PTL DEF Spec

\* _frames_in_flight never miscounts and the window is never exceeded, for
\* every window smaller than the range of the sequence numbers.
THEOREM WindowIsRespected == Spec => []WindowRespected
<1>1. StreamInv => WindowRespected
  <2> SUFFICES ASSUME StreamInv, NEW p \in Ends
               PROVE  /\ FramesInFlight(p) = sent[p] - acked[p]
                      /\ sent[p] - acked[p] <= Window
                      /\ acked[p] <= Received(Peer(p))
    BY DEF WindowRespected
  <2> QED
    BY FramesInFlightIsExact, Counts
<1> QED
  BY <1>1, StreamInvariant, PTL

-----------------------------------------------------------------------------
\* Sending a fragment is a Send of the abstract stream.
LEMMA SendStep ==
    ASSUME StreamInv, NEW t \in Tasks, ~WindowFull(EndOf[t]),
           SendFragment(EndOf[t], t), UNCHANGED delivered
    PROVE  Stream!Next
<1> DEFINE p == EndOf[t]
           q == Peer(p)
<1>1. p \in Ends /\ q \in Ends /\ p # q
  BY TransferAssumption, PeerFacts
<1>2. FramesInFlight(p) < Window
  BY <1>1, FramesInFlightIsExact, Counts DEF WindowFull
<1>3. sent[p] < Received(q) + Window
  <2>1. /\ FramesInFlight(p) = sent[p] - acked[p] /\ acked[p] <= Received(q)
        /\ acked[p] \in Nat /\ sent[p] \in Nat /\ Received(q) \in Nat /\ Window \in Nat
    BY <1>1, FramesInFlightIsExact, Counts
  <2> HIDE DEF p, q
  <2> QED
    BY <1>2, <2>1
<1>4. Stream!Send(p, q)
  BY <1>3 DEF SendFragment, Stream!Send, Received
<1> QED
  BY <1>1, <1>4 DEF Stream!Next

\* Taking a fragment over is a Deliver of the abstract stream.
LEMMA DeliverStep ==
    ASSUME StreamInv, NEW p \in Ends, NextInfo(p)
    PROVE  Stream!Next
<1> DEFINE q == Peer(p)
<1>1. q \in Ends /\ q # p
  BY PeerFacts
<1>2. chan[p] # <<>> /\ Head(chan[p]).kind = "INFO" /\ Expected(p)
  BY DEF NextInfo, Arrives
<1>3. Head(chan[p]).n = Received(p)
  BY <1>2, ExpectedIsNext
<1>4. Received(p) < sent[q]
  BY <1>2, <1>3, HeadOfChannel
<1>5. delivered' = [delivered EXCEPT ![p] = Append(@, Len(@))] /\ sent' = sent
  BY <1>3 DEF NextInfo, Received
<1>6. Stream!Deliver(q, p)
  BY <1>4, <1>5 DEF Stream!Deliver, Received
<1> QED
  BY <1>1, <1>6 DEF Stream!Next

\* The circuit implements the reliable stream: what the two ends send arrives
\* in order, once, and within the window, for every modulus and window.
THEOREM CircuitImplementsStream == Spec => ImplementsStream
<1>1. Init => Stream!Init
  BY DEF Init, Stream!Init
<1>2. StreamInv /\ [Next]_vars => [Stream!Next]_(Stream!vars)
  <2> SUFFICES ASSUME StreamInv, [Next]_vars
               PROVE  Stream!Next \/ UNCHANGED <<sent, delivered>>
    BY DEF Stream!vars
  <2>1. CASE UNCHANGED vars
    BY <2>1 DEF vars
  <2>2. ASSUME NEW t \in Tasks, Write(t) \/ Drain(t) \/ DrainTimesOut(t)
        PROVE  Stream!Next \/ UNCHANGED <<sent, delivered>>
    BY <2>2, SendStep
    DEF Write, Drain, DrainLoop, DrainResume, DrainTimesOut, GoTo, Abandon
  <2>3. ASSUME NEW p \in Ends, Receive(p)
        PROVE  Stream!Next \/ UNCHANGED <<sent, delivered>>
    BY <2>3, DeliverStep
    DEF Receive, DuplicateInfo, InformationAck, DisconnectRequest, DisconnectAck, UnknownCircuit
  <2>4. ASSUME NEW p \in Ends, Close(p) \/ GuardFires(p)
                               \/ \E n \in acked[p] .. (sent[p] - 1) : Retransmit(p, n)
        PROVE  UNCHANGED <<sent, delivered>>
    BY <2>4 DEF Close, GuardFires, Retransmit
  <2> QED
    BY <2>1, <2>2, <2>3, <2>4 DEF Next
<1> QED
  BY <1>1, <1>2, StreamInvariant, PTL DEF Spec, ImplementsStream, Stream!Spec

-----------------------------------------------------------------------------
\* A channel that carries a DISC REQ, and one that carries no fragment after it.
Sealed(s) == \E i \in 1 .. Len(s) : s[i] = DiscReq

Ordered(s) ==
    \A i, j \in 1 .. Len(s) : i < j /\ s[i] = DiscReq => s[j].kind # "INFO"

\* An end that has sent its DISC REQ is no longer CONNECTED.
ClosingInv ==
    /\ TypeInv
    /\ \A p \in Ends : /\ Ordered(chan[p])
                       /\ Sealed(chan[p]) => state[Peer(p)] # "CONNECTED"

\* A frame that is no fragment, or joins no DISC REQ, keeps the order.
LEMMA AppendOrdered ==
    ASSUME NEW s \in Seq(Frames), NEW f \in Frames, Ordered(s),
           f.kind # "INFO" \/ ~Sealed(s)
    PROVE  /\ Ordered(Append(s, f))
           /\ Sealed(Append(s, f)) => Sealed(s) \/ f = DiscReq
<1> DEFINE s2 == Append(s, f)
<1>1. /\ Len(s) \in Nat /\ Len(s2) = Len(s) + 1
      /\ \A i \in 1 .. Len(s) : s2[i] = s[i]
      /\ s2[Len(s) + 1] = f
  BY AppendProperties, LenProperties
<1> HIDE DEF s2
<1>2. \A i \in 1 .. Len(s2) :
         \/ i \in 1 .. Len(s) /\ s2[i] = s[i]
         \/ i = Len(s) + 1 /\ s2[i] = f
  BY <1>1
<1>3. Ordered(s2)
  BY <1>1, <1>2 DEF Ordered, Sealed
<1>4. Sealed(s2) => Sealed(s) \/ f = DiscReq
  BY <1>1, <1>2 DEF Sealed
<1> QED
  BY <1>3, <1>4 DEF s2

\* The order survives the arrival of the first frame.
LEMMA TailOrdered ==
    ASSUME NEW s \in Seq(Frames), s # <<>>, Ordered(s)
    PROVE  Ordered(Tail(s)) /\ (Sealed(Tail(s)) => Sealed(s))
<1> DEFINE s2 == Tail(s)
<1>1. /\ Len(s) \in Nat \ {0} /\ Len(s2) = Len(s) - 1
      /\ \A i \in 1 .. Len(s2) : s2[i] = s[i + 1]
  BY HeadTailProperties, EmptySeq
<1> HIDE DEF s2
<1>2. \A i \in 1 .. Len(s2) : i + 1 \in 1 .. Len(s)
  BY <1>1
<1>3. Ordered(s2)
  BY <1>1, <1>2 DEF Ordered
<1>4. Sealed(s2) => Sealed(s)
  BY <1>1, <1>2 DEF Sealed
<1> QED
  BY <1>3, <1>4 DEF s2

\* p sends a frame, a fragment only while it is CONNECTED, and closes if it is
\* the DISC REQ.
LEMMA ClosingAppend ==
    ASSUME ClosingInv, NEW p \in Ends, NEW f \in Frames,
           chan' = [chan EXCEPT ![Peer(p)] = Append(@, f)],
           f.kind # "INFO" \/ state[p] = "CONNECTED",
           f = DiscReq => state'[p] # "CONNECTED",
           \A r \in Ends : state[r] # "CONNECTED" => state'[r] # "CONNECTED"
    PROVE  \A r \in Ends : /\ Ordered(chan'[r])
                           /\ Sealed(chan'[r]) => state'[Peer(r)] # "CONNECTED"
<1> DEFINE q == Peer(p)
<1>1. q \in Ends /\ q # p /\ Peer(q) = p /\ \A r \in Ends : Peer(r) \in Ends
  BY PeerFacts
<1>2. chan \in [Ends -> Seq(Frames)]
  BY DEF ClosingInv, TypeInv, TypeOK
<1>3. chan'[q] = Append(chan[q], f) /\ chan[q] \in Seq(Frames)
      /\ \A r \in Ends : r # q => chan'[r] = chan[r]
  BY <1>1, <1>2
<1>4. Ordered(chan[q]) /\ (Sealed(chan[q]) => state[p] # "CONNECTED")
  BY <1>1 DEF ClosingInv
<1>5. Ordered(chan'[q]) /\ (Sealed(chan'[q]) => state'[p] # "CONNECTED")
  <2> HIDE DEF q
  <2> QED
    BY <1>3, <1>4, AppendOrdered
<1> QED
  BY <1>1, <1>3, <1>5 DEF ClosingInv

\* p consumes a frame and may answer it, with neither a fragment nor a DISC REQ.
LEMMA ClosingTail ==
    ASSUME ClosingInv, NEW p \in Ends, chan[p] # <<>>, chan'[p] = Tail(chan[p]),
           \/ chan'[Peer(p)] = chan[Peer(p)]
           \/ \E f \in Frames : /\ f.kind # "INFO" /\ f # DiscReq
                                /\ chan'[Peer(p)] = Append(chan[Peer(p)], f),
           \A r \in Ends : state[r] # "CONNECTED" => state'[r] # "CONNECTED"
    PROVE  \A r \in Ends : /\ Ordered(chan'[r])
                           /\ Sealed(chan'[r]) => state'[Peer(r)] # "CONNECTED"
<1> DEFINE q == Peer(p)
<1>1. q \in Ends /\ q # p /\ Peer(q) = p /\ \A r \in Ends : r = p \/ r = q
  BY PeerFacts
<1>2. chan[p] \in Seq(Frames) /\ chan[q] \in Seq(Frames)
  BY <1>1 DEF ClosingInv, TypeInv, TypeOK
<1>3. /\ Ordered(chan[p]) /\ (Sealed(chan[p]) => state[q] # "CONNECTED")
      /\ Ordered(chan[q]) /\ (Sealed(chan[q]) => state[p] # "CONNECTED")
  BY <1>1 DEF ClosingInv
<1>4. Ordered(chan'[p]) /\ (Sealed(chan'[p]) => state'[q] # "CONNECTED")
  BY <1>1, <1>2, <1>3, TailOrdered
<1>5. Ordered(chan'[q]) /\ (Sealed(chan'[q]) => state'[p] # "CONNECTED")
  <2>1. CASE chan'[q] = chan[q]
    BY <1>3, <2>1
  <2>2. ASSUME NEW f \in Frames, f.kind # "INFO", f # DiscReq,
               chan'[q] = Append(chan[q], f)
        PROVE  Ordered(chan'[q]) /\ (Sealed(chan'[q]) => state'[p] # "CONNECTED")
    <3> HIDE DEF q
    <3> QED
      BY <1>2, <1>3, <2>2, AppendOrdered
  <2> QED
    BY <2>1, <2>2
<1> QED
  BY <1>1, <1>4, <1>5

\* Every step keeps the channels of closing ends in order.
LEMMA ClosingStep == ClosingInv /\ [Next]_vars => ClosingInv'
<1> SUFFICES ASSUME ClosingInv, [Next]_vars
             PROVE  \A r \in Ends : /\ Ordered(chan'[r])
                                    /\ Sealed(chan'[r]) => state'[Peer(r)] # "CONNECTED"
  BY TypeStep DEF ClosingInv
<1> DEFINE Goal == \A r \in Ends : /\ Ordered(chan'[r])
                                   /\ Sealed(chan'[r]) => state'[Peer(r)] # "CONNECTED"
<1>1. TypeInv /\ \A r \in Ends : Peer(r) \in Ends
  BY PeerFacts DEF ClosingInv
<1>2. \A r \in Ends : state[r] # "CONNECTED" => state'[r] # "CONNECTED"
  <2>1. CASE UNCHANGED vars
    BY <2>1 DEF vars
  <2>2. ASSUME NEW t \in Tasks, Write(t) \/ Drain(t) \/ DrainTimesOut(t) PROVE state' = state
    BY <2>2 DEF Write, Drain, DrainLoop, DrainResume, DrainTimesOut
  <2>3. ASSUME NEW p \in Ends, NEW new \in {"DISCONNECTING", "CLOSED"},
               state' = [state EXCEPT ![p] = new]
        PROVE  \A r \in Ends : state[r] # "CONNECTED" => state'[r] # "CONNECTED"
    BY <1>1, <2>3 DEF TypeInv, TypeOK
  <2>4. ASSUME NEW p \in Ends, Receive(p)
        PROVE  state' = state \/ state' = [state EXCEPT ![p] = "CLOSED"]
    BY <2>4 DEF Receive, DuplicateInfo, NextInfo, InformationAck, DisconnectRequest,
                DisconnectAck, UnknownCircuit, SetClosed
  <2>5. ASSUME NEW p \in Ends, Close(p) \/ GuardFires(p)
                               \/ \E n \in acked[p] .. (sent[p] - 1) : Retransmit(p, n)
        PROVE  \/ state' = state
               \/ state' = [state EXCEPT ![p] = "CLOSED"]
               \/ state' = [state EXCEPT ![p] = "DISCONNECTING"]
    BY <2>5 DEF Close, GuardFires, Retransmit, SetClosed
  <2> QED
    BY <2>1, <2>2, <2>3, <2>4, <2>5 DEF Next
<1>3. CASE UNCHANGED chan
  BY <1>1, <1>2, <1>3 DEF ClosingInv
<1>4. CASE UNCHANGED vars
  BY <1>3, <1>4 DEF vars
<1>5. ASSUME NEW t \in Tasks, Write(t) \/ Drain(t) \/ DrainTimesOut(t) PROVE Goal
  <2>1. ASSUME state[EndOf[t]] = "CONNECTED", SendFragment(EndOf[t], t) PROVE Goal
    <3> DEFINE p == EndOf[t]
               f == Info(sent[p], Received(p), Head(queue[p]))
    <3>1. p \in Ends
      BY TransferAssumption
    <3>2. f \in Frames
      <4>1. queue[p] \in Seq(BOOLEAN) /\ queue[p] # <<>> /\ delivered[p] \in Seq(Nat)
            /\ sent[p] \in Nat
        BY <1>1, <2>1, <3>1 DEF SendFragment, TypeInv, TypeOK
      <4>2. Head(queue[p]) \in BOOLEAN /\ Received(p) \in Nat
        BY <4>1, HeadTailProperties, LenProperties DEF Received
      <4> QED
        BY <4>1, <4>2, InfoType
    <3>3. chan' = [chan EXCEPT ![Peer(p)] = Append(@, f)]
      BY <2>1 DEF SendFragment
    <3>4. f # DiscReq
      <4>1. f.kind = "INFO" /\ DiscReq.kind = "DISC REQ"
        BY DEF Info, DiscReq
      <4> QED
        BY <4>1
    <3> HIDE DEF f
    <3> QED
      BY <1>2, <2>1, <3>1, <3>2, <3>3, <3>4, ClosingAppend
  <2> QED
    BY <1>3, <1>5, <2>1
    DEF Write, Drain, DrainLoop, DrainResume, DrainTimesOut, GoTo, Abandon
<1>6. ASSUME NEW p \in Ends, NEW n \in acked[p] .. (sent[p] - 1), Retransmit(p, n)
      PROVE  Goal
  <2> DEFINE f == Info(n, Received(p), moreOf[p][n + 1])
  <2>1. /\ moreOf[p] \in Seq(BOOLEAN) /\ Len(moreOf[p]) = sent[p]
        /\ acked[p] \in Nat /\ sent[p] \in Nat /\ delivered[p] \in Seq(Nat)
    BY <1>1 DEF TypeInv, TypeOK
  <2>2. n \in Nat /\ n + 1 \in 1 .. Len(moreOf[p])
    BY <2>1
  <2>3. f \in Frames
    BY <2>1, <2>2, ElementOfSeq, LenProperties, InfoType DEF Received
  <2>4. f # DiscReq
    <3>1. f.kind = "INFO" /\ DiscReq.kind = "DISC REQ"
      BY DEF Info, DiscReq
    <3> QED
      BY <3>1
  <2>5. chan' = [chan EXCEPT ![Peer(p)] = Append(@, f)] /\ state[p] = "CONNECTED"
    BY <1>6 DEF Retransmit
  <2> HIDE DEF f
  <2> QED
    BY <1>2, <2>3, <2>4, <2>5, ClosingAppend
<1>7. ASSUME NEW p \in Ends, Close(p) PROVE Goal
  <2>1. DiscReq \in Frames /\ DiscReq.kind # "INFO"
    BY DiscTypes DEF DiscReq
  <2>2. state'[p] # "CONNECTED"
    BY <1>1, <1>7 DEF Close, TypeInv, TypeOK
  <2> QED
    BY <1>2, <1>7, <2>1, <2>2, ClosingAppend DEF Close
<1>8. ASSUME NEW p \in Ends, GuardFires(p) PROVE Goal
  BY <1>3, <1>8 DEF GuardFires
<1>9. ASSUME NEW p \in Ends, Receive(p) PROVE Goal
  <2>1. chan[p] # <<>>
    BY <1>9 DEF Receive, DuplicateInfo, NextInfo, InformationAck, DisconnectRequest,
                DisconnectAck, UnknownCircuit, Arrives
  <2>2. Peer(p) \in Ends /\ Peer(p) # p /\ chan \in [Ends -> Seq(Frames)]
    BY <1>1, PeerFacts DEF TypeInv, TypeOK
  <2>3. Received(p) \in Nat
    BY <1>1, LenProperties DEF Received, TypeInv, TypeOK
  <2>4. ASSUME NEW f \in Frames, f.kind # "INFO", f.kind # "DISC REQ", Reply(p, f) PROVE Goal
    <3>1. chan'[p] = Tail(chan[p]) /\ chan'[Peer(p)] = Append(chan[Peer(p)], f)
      BY <2>2, <2>4 DEF Reply
    <3>2. f # DiscReq
      <4>1. DiscReq.kind = "DISC REQ"
        BY DEF DiscReq
      <4> QED
        BY <2>4, <4>1
    <3> QED
      BY <1>2, <2>1, <2>4, <3>1, <3>2, ClosingTail
  <2>5. \A a \in Nat : InfoAck(a) \in Frames /\ InfoAck(a).kind = "INFO ACK"
    BY InfoAckType DEF InfoAck
  <2>6. DiscAck \in Frames /\ DiscAck.kind = "DISC ACK"
    BY DiscTypes DEF DiscAck
  <2>7. CASE DuplicateInfo(p)
    BY <2>3, <2>4, <2>5, <2>7 DEF DuplicateInfo
  <2>8. CASE NextInfo(p)
    <3>1. Received(p) + 1 \in Nat
      BY <2>3
    <3> QED
      BY <2>4, <2>5, <2>8, <3>1 DEF NextInfo
  <2>9. CASE DisconnectRequest(p)
    BY <2>4, <2>6, <2>9 DEF DisconnectRequest
  <2>10. CASE InformationAck(p) \/ DisconnectAck(p) \/ UnknownCircuit(p)
    <3>1. chan'[p] = Tail(chan[p]) /\ chan'[Peer(p)] = chan[Peer(p)]
      BY <2>2, <2>10 DEF InformationAck, DisconnectAck, UnknownCircuit
    <3> QED
      BY <1>2, <2>1, <3>1, ClosingTail
  <2> QED
    BY <1>9, <2>7, <2>8, <2>9, <2>10 DEF Receive
<1> QED
  BY <1>4, <1>5, <1>6, <1>7, <1>8, <1>9 DEF Next

\* No fragment follows the DISC REQ on the crosslink, for any number of tasks
\* blocked on the window when the circuit closes.
THEOREM NothingFollowsDiscReq == Spec => []NothingAfterDiscReq
<1>1. Init => ClosingInv
  <2> SUFFICES ASSUME Init PROVE ClosingInv
    OBVIOUS
  <2>1. \A p \in Ends : Len(chan[p]) = 0
    BY EmptySeq DEF Init
  <2> QED
    BY <2>1, TypeInit DEF ClosingInv, Ordered, Sealed
<1>2. ClosingInv => NothingAfterDiscReq
  <2> SUFFICES ASSUME ClosingInv, NEW p \in Ends,
                      NEW i \in DOMAIN chan[p], NEW j \in DOMAIN chan[p],
                      i < j, chan[p][i] = DiscReq
               PROVE  chan[p][j].kind # "INFO"
    BY DEF NothingAfterDiscReq
  <2>1. chan[p] \in Seq(Frames) /\ Ordered(chan[p])
    BY DEF ClosingInv, TypeInv, TypeOK
  <2>2. DOMAIN chan[p] = 1 .. Len(chan[p])
    BY <2>1, LenProperties
  <2> QED
    BY <2>1, <2>2 DEF Ordered
<1> QED
  BY <1>1, <1>2, ClosingStep, PTL DEF Spec
=============================================================================
