-------------------------- MODULE NetromNodeProofs --------------------------
(***************************************************************************)
(* What the node keeps true beside its circuits: the gateway guard's       *)
(* counters, and the routing tables.                                       *)
(*                                                                         *)
(* NodeGateway.  The guard counts its connects exactly, for every set of   *)
(* sessions and users and every cap.  The counters are cardinalities, so   *)
(* the invariant adds that only finitely many sessions hold a slot.  Three *)
(* lemmas say what the counting part needs of a step: that a session joins *)
(* the holders, leaves them, or that nobody does either.                   *)
(*                                                                         *)
(* NetromRouter.  The routing tables are well-formed for every network,    *)
(* every size of a list and any sequence of broadcasts, scans and          *)
(* restarts, and so is what is stored and on its way to be.  The first     *)
(* lemmas stand in for an induction over data: a set of numbers has a      *)
(* least element, so that a broadcast can be followed entry by entry, and  *)
(* the ranks of a finite set have no gap, so that sorting by rank permutes.*)
(***************************************************************************)
EXTENDS NodeGateway, NetromRouter, FiniteSetTheorems, WellFoundedInduction, TLAPS

Holding == {s \in Sessions : pc[s] \in Connecting}

\* The counters are the numbers of holders, and within the caps.
Counted ==
    /\ IsFiniteSet(Holding)
    /\ activeTotal = Cardinality(Holding)
    /\ activeTotal <= MaxCircuits
    /\ \A u \in Users : /\ activePerUser[u] = Cardinality(Holders(u))
                        /\ activePerUser[u] <= MaxPerUser

\* The node plugin's list holds the sessions in their command loop.
Listed == live = {s \in Sessions : pc[s] \in InLoop}

GuardInv == TypeOK /\ Counted /\ Listed

-----------------------------------------------------------------------------
\* The holders of one user are finite because all of them are.
LEMMA HoldersFinite ==
    ASSUME Counted, NEW u \in Users
    PROVE  IsFiniteSet(Holders(u))
<1>1. Holders(u) \subseteq Holding
  BY DEF Holders, Holding
<1>. QED  BY <1>1, FS_Subset DEF Counted

\* A step after which the same sessions hold slots, and which leaves the
\* counters alone, keeps the count.
LEMMA SameHolders ==
    ASSUME Counted, UNCHANGED <<activeTotal, activePerUser>>,
           \A s \in Sessions : pc'[s] \in Connecting <=> pc[s] \in Connecting
    PROVE  Counted'
<1>1. Holding' = Holding
  BY DEF Holding, Connecting
<1>2. \A u \in Users : Holders(u)' = Holders(u)
  BY DEF Holders, Connecting
<1>. QED  BY <1>1, <1>2 DEF Counted

\* acquire() by a session without a slot, under both caps, keeps the count.
LEMMA SlotTaken ==
    ASSUME TypeOK, Counted, NEW s \in Sessions, pc[s] \notin Connecting,
           SlotFree(s), Acquire(s), Goto(s, "telling")
    PROVE  Counted'
<1>1. Holding' = Holding \cup {s}
  BY DEF Holding, Goto, Connecting, TypeOK
<1>2. s \notin Holding
  BY DEF Holding
<1>3. /\ IsFiniteSet(Holding')
      /\ Cardinality(Holding') = Cardinality(Holding) + 1
  BY <1>1, <1>2, FS_AddElement DEF Counted
<1>4. activeTotal' = Cardinality(Holding') /\ activeTotal' <= MaxCircuits
  BY <1>3, GatewayAssumption DEF Counted, Acquire, SlotFree, TypeOK, GatewayAssumption
<1>5. ASSUME NEW u \in Users
      PROVE  /\ activePerUser'[u] = Cardinality(Holders(u)')
             /\ activePerUser'[u] <= MaxPerUser
  <2>1. CASE u = UserOf[s]
    <3>1. Holders(u)' = Holders(u) \cup {s} /\ s \notin Holders(u)
      BY <2>1 DEF Holders, Goto, Connecting, TypeOK
    <3>2. Cardinality(Holders(u)') = Cardinality(Holders(u)) + 1
      BY <3>1, HoldersFinite, FS_AddElement
    <3>3. activePerUser'[u] = activePerUser[u] + 1
      BY <2>1 DEF Acquire, TypeOK
    <3>. QED  BY <2>1, <3>2, <3>3, GatewayAssumption
              DEF Counted, SlotFree, TypeOK, GatewayAssumption
  <2>2. CASE u # UserOf[s]
    <3>1. Holders(u)' = Holders(u)
      BY <2>2 DEF Holders, Goto, Connecting, TypeOK
    <3>2. activePerUser'[u] = activePerUser[u]
      BY <2>2 DEF Acquire, TypeOK
    <3>. QED  BY <3>1, <3>2 DEF Counted
  <2>. QED  BY <2>1, <2>2
<1>. QED  BY <1>3, <1>4, <1>5 DEF Counted

\* release() by a session that holds a slot and then holds none keeps the
\* count; its tests for zero never come into play.
LEMMA SlotGivenBack ==
    ASSUME TypeOK, Counted, NEW s \in Sessions, pc[s] \in Connecting,
           Release(s), NEW where \in States, where \notin Connecting, Goto(s, where)
    PROVE  Counted'
<1>1. Holding' = Holding \ {s} /\ s \in Holding
  BY DEF Holding, Goto, Connecting, TypeOK
<1>2. /\ IsFiniteSet(Holding')
      /\ Cardinality(Holding') = Cardinality(Holding) - 1
      /\ Cardinality(Holding') \in Nat
  BY <1>1, FS_RemoveElement, FS_CardinalityType DEF Counted
<1>3. activeTotal' = Cardinality(Holding') /\ activeTotal' <= MaxCircuits
  BY <1>2, GatewayAssumption DEF Counted, Release, TypeOK, GatewayAssumption
<1>4. ASSUME NEW u \in Users
      PROVE  /\ activePerUser'[u] = Cardinality(Holders(u)')
             /\ activePerUser'[u] <= MaxPerUser
  <2>1. CASE u = UserOf[s]
    <3>1. Holders(u)' = Holders(u) \ {s} /\ s \in Holders(u)
      BY <2>1 DEF Holders, Goto, Connecting, TypeOK
    <3>2. /\ Cardinality(Holders(u)') = Cardinality(Holders(u)) - 1
          /\ IsFiniteSet(Holders(u)')
      BY <3>1, HoldersFinite, FS_RemoveElement
    <3>3. Cardinality(Holders(u)') \in Nat
      BY <3>2, FS_CardinalityType
    <3>4. activePerUser'[u] = IF activePerUser[u] <= 1 THEN 0 ELSE activePerUser[u] - 1
      BY <2>1 DEF Release, TypeOK
    <3>. QED  BY <3>2, <3>3, <3>4, GatewayAssumption DEF Counted, TypeOK, GatewayAssumption
  <2>2. CASE u # UserOf[s]
    <3>1. Holders(u)' = Holders(u)
      BY <2>2 DEF Holders, Goto, Connecting, TypeOK
    <3>2. activePerUser'[u] = activePerUser[u]
      BY <2>2 DEF Release, TypeOK
    <3>. QED  BY <3>1, <3>2 DEF Counted
  <2>. QED  BY <2>1, <2>2
<1>. QED  BY <1>2, <1>3, <1>4 DEF Counted

-----------------------------------------------------------------------------
\* The guard starts empty.
LEMMA GuardStarts == Init => GuardInv
<1>. SUFFICES ASSUME Init PROVE GuardInv
  OBVIOUS
<1>1. TypeOK /\ Listed
  BY DEF Init, TypeOK, Listed, States, InLoop, Connecting, Fars, InTable
<1>2. Holding = {} /\ \A u \in Users : Holders(u) = {}
  BY DEF Init, Holding, Holders, Connecting
<1>3. Counted
  BY <1>2, FS_EmptySet, GatewayAssumption DEF Init, Counted, GatewayAssumption
<1>. QED  BY <1>1, <1>3 DEF GuardInv

\* Every step keeps the types.
LEMMA TypesKept ==
    ASSUME TypeOK, [Next]_vars
    PROVE  TypeOK'
<1>. USE GatewayAssumption DEF GatewayAssumption, TypeOK, guard, bridge, Goto, LoopEnds,
         States, InLoop, Connecting, Fars, InTable
<1>1. ASSUME NEW s \in Sessions,
             \/ Enter(s) \/ Bye(s) \/ AppStarts(s) \/ AppEnds(s)
             \/ Refuse(s) \/ RefusalSent(s)
      PROVE  TypeOK'
  BY <1>1 DEF Enter, Bye, AppStarts, AppEnds, Refuse, RefusalSent
<1>2. ASSUME NEW s \in Sessions, NEW n \in Neighbours, Reserve(s, n)
      PROVE  TypeOK'
  BY <1>2 DEF Reserve, Acquire
<1>3. ASSUME NEW s \in Sessions,
             Told(s) \/ Linked(s) \/ ConnectFails(s) \/ Originated(s) \/ Announced(s)
      PROVE  TypeOK'
  BY <1>3 DEF Told, Linked, ConnectFails, Originated, Announced
<1>4. ASSUME NEW s \in Sessions, Release(s)
      PROVE  activeTotal' \in Nat /\ activePerUser' \in [Users -> Nat] /\ recent' = recent
  BY <1>4 DEF Release
<1>5. ASSUME NEW s \in Sessions, FailureSent(s) \/ CommandFails(s) \/ \E ended : BridgeEnds(s, ended)
      PROVE  TypeOK'
  BY <1>4, <1>5 DEF FailureSent, BridgeEnds, CloseCircuit, CommandFails, Exposed
<1>6. ASSUME NEW s \in Sessions, Unwind(s)
      PROVE  TypeOK'
  BY <1>4, <1>6 DEF Unwind, CloseCircuit, Exposed
<1>7. ASSUME NEW s \in Sessions,
             \/ HostEnds(s) \/ UserLeaves(s) \/ FarAnswers(s) \/ FarCloses(s)
             \/ JoinsAbandoned(s) \/ UserTypes(s) \/ PumpWrites(s) \/ DrainReturns(s)
      PROVE  TypeOK'
  <2>1. CASE FarAnswers(s) \/ FarCloses(s)
    BY <2>1 DEF FarAnswers, FarCloses
  <2>2. CASE HostEnds(s) \/ UserLeaves(s) \/ JoinsAbandoned(s)
    BY <2>2 DEF HostEnds, UserLeaves, JoinsAbandoned
  <2>3. CASE UserTypes(s) \/ PumpWrites(s) \/ DrainReturns(s)
    BY <2>3 DEF UserTypes, PumpWrites, DrainReturns
  <2>. QED  BY <1>7, <2>1, <2>2, <2>3
<1>8. ASSUME NEW u \in Users, MinutePasses(u)
      PROVE  TypeOK'
  BY <1>8 DEF MinutePasses
<1>9. CASE UNCHANGED vars
  BY <1>9 DEF vars, guard, bridge
<1>. QED  BY <1>1, <1>2, <1>3, <1>5, <1>6, <1>7, <1>8, <1>9 DEF Next, Cancelled, SendFails, PumpsEnd, PumpsFail

\* Every step keeps the dashboard's list.
LEMMA ListKept ==
    ASSUME TypeOK, Listed, [Next]_vars
    PROVE  Listed'
<1>. USE DEF TypeOK, Listed, Goto, LoopEnds, InLoop, Connecting
<1>1. ASSUME NEW s \in Sessions,
             \/ Enter(s) \/ Bye(s) \/ AppStarts(s) \/ AppEnds(s)
             \/ Refuse(s) \/ RefusalSent(s)
      PROVE  Listed'
  BY <1>1 DEF Enter, Bye, AppStarts, AppEnds, Refuse, RefusalSent
<1>2. ASSUME NEW s \in Sessions, NEW n \in Neighbours, Reserve(s, n)
      PROVE  Listed'
  BY <1>2 DEF Reserve
<1>3. ASSUME NEW s \in Sessions,
             Told(s) \/ Linked(s) \/ ConnectFails(s) \/ Originated(s) \/ Announced(s)
      PROVE  Listed'
  BY <1>3 DEF Told, Linked, ConnectFails, Originated, Announced
<1>4. ASSUME NEW s \in Sessions, FailureSent(s) \/ CommandFails(s) \/ \E ended : BridgeEnds(s, ended)
      PROVE  Listed'
  BY <1>4 DEF FailureSent, BridgeEnds, CommandFails
<1>5. ASSUME NEW s \in Sessions, Unwind(s)
      PROVE  Listed'
  BY <1>5 DEF Unwind
<1>6. ASSUME NEW s \in Sessions,
             \/ HostEnds(s) \/ UserLeaves(s) \/ FarAnswers(s) \/ FarCloses(s)
             \/ JoinsAbandoned(s) \/ UserTypes(s) \/ PumpWrites(s) \/ DrainReturns(s)
      PROVE  Listed'
  BY <1>6 DEF HostEnds, UserLeaves, FarAnswers, FarCloses, JoinsAbandoned, UserTypes,
              PumpWrites, DrainReturns, InTable
<1>7. ASSUME NEW u \in Users, MinutePasses(u)
      PROVE  Listed'
  BY <1>7 DEF MinutePasses
<1>8. CASE UNCHANGED vars
  BY <1>8 DEF vars
<1>. QED  BY <1>1, <1>2, <1>3, <1>4, <1>5, <1>6, <1>7, <1>8 DEF Next, Cancelled, SendFails, PumpsEnd, PumpsFail

\* Every step keeps the count: three kinds of step give a slot back, one
\* takes one, and the others leave the holders as they are.
LEMMA CountKept ==
    ASSUME TypeOK, Counted, [Next]_vars
    PROVE  Counted'
<1>1. ASSUME NEW s \in Sessions,
             \/ Enter(s) \/ Bye(s) \/ AppStarts(s) \/ AppEnds(s)
             \/ Refuse(s) \/ RefusalSent(s)
      PROVE  Counted'
  BY <1>1, SameHolders DEF Enter, Bye, AppStarts, AppEnds, Refuse, RefusalSent,
     guard, Goto, LoopEnds, Connecting, TypeOK
<1>2. ASSUME NEW s \in Sessions, NEW n \in Neighbours, Reserve(s, n)
      PROVE  Counted'
  <2>1. pc[s] \notin Connecting
    BY <1>2 DEF Reserve, Connecting
  <2>. QED  BY <1>2, <2>1, SlotTaken DEF Reserve
<1>3. ASSUME NEW s \in Sessions,
             Told(s) \/ Linked(s) \/ ConnectFails(s) \/ Originated(s) \/ Announced(s)
      PROVE  Counted'
  BY <1>3, SameHolders DEF Told, Linked, ConnectFails, Originated, Announced,
     guard, Goto, Connecting, TypeOK
<1>4. ASSUME NEW s \in Sessions, NEW where \in {"prompt", "leaving", "gone"},
             pc[s] \in Connecting, Release(s), Goto(s, where)
      PROVE  Counted'
  <2>1. where \in States /\ where \notin Connecting
    BY <1>4 DEF States, InLoop, Connecting
  <2>. QED  BY <1>4, <2>1, SlotGivenBack
<1>5. ASSUME NEW s \in Sessions, FailureSent(s)
      PROVE  Counted'
  BY <1>4, <1>5 DEF FailureSent, Connecting
<1>6. ASSUME NEW s \in Sessions, LoopEnds(s)
      PROVE  \E where \in {"leaving", "gone"} : Goto(s, where)
  BY <1>6 DEF LoopEnds
<1>7. ASSUME NEW s \in Sessions, NEW ended, BridgeEnds(s, ended)
      PROVE  Counted'
  <2>1. pc[s] \in Connecting /\ Release(s)
    BY <1>7 DEF BridgeEnds, Connecting
  <2>2. \E where \in {"prompt", "leaving", "gone"} : Goto(s, where)
    BY <1>6, <1>7 DEF BridgeEnds
  <2>. QED  BY <1>4, <2>1, <2>2
<1>8. ASSUME NEW s \in Sessions, Unwind(s)
      PROVE  Counted'
  <2>1. CASE pc[s] \in Connecting
    BY <1>4, <1>6, <1>8, <2>1 DEF Unwind
  <2>2. CASE pc[s] \notin Connecting
    BY <1>8, <2>2, SameHolders DEF Unwind, guard, LoopEnds, Goto, Connecting, TypeOK
  <2>. QED  BY <2>1, <2>2
<1>9. ASSUME NEW s \in Sessions, CommandFails(s)
      PROVE  Counted'
  <2>1. CASE pc[s] \in Connecting
    BY <1>4, <1>9, <2>1 DEF CommandFails
  <2>2. CASE pc[s] \notin Connecting
    BY <1>9, <2>2, SameHolders DEF CommandFails, guard, Goto, Connecting, TypeOK
  <2>. QED  BY <2>1, <2>2
<1>10. ASSUME NEW s \in Sessions,
             \/ HostEnds(s) \/ UserLeaves(s) \/ FarAnswers(s) \/ FarCloses(s)
             \/ JoinsAbandoned(s) \/ UserTypes(s) \/ PumpWrites(s) \/ DrainReturns(s)
       PROVE  Counted'
  BY <1>10, SameHolders DEF HostEnds, UserLeaves, FarAnswers, FarCloses, JoinsAbandoned, UserTypes,
              PumpWrites, DrainReturns, InTable, guard, Goto, Connecting, TypeOK
<1>11. ASSUME NEW u \in Users, MinutePasses(u)
       PROVE  Counted'
  BY <1>11, SameHolders DEF MinutePasses
<1>12. CASE UNCHANGED vars
  BY <1>12, SameHolders DEF vars, guard
<1>. QED  BY <1>1, <1>2, <1>3, <1>5, <1>7, <1>8, <1>9, <1>10, <1>11, <1>12
          DEF Next, Cancelled, SendFails, PumpsEnd, PumpsFail

\* The guard's counters, its caps and the dashboard's list are right in every
\* reachable state (gateway.py acquire, release; node.py cmd_connect, _bridge).
THEOREM GuardInvariant == Spec => []GuardInv
<1>1. Init => GuardInv
  BY GuardStarts
<1>2. GuardInv /\ [Next]_vars => GuardInv'
  BY TypesKept, CountKept, ListKept DEF GuardInv
<1>. QED  BY <1>1, <1>2, PTL DEF Spec

\* However connects fail, end or are cancelled, the slots in use are the
\* connects under way, and never more than the caps.
THEOREM SlotsAreExact == Spec => []SlotsExact
<1>1. GuardInv => SlotsExact
  BY DEF GuardInv, Counted, Listed, Holding, SlotsExact
<1>. QED  BY <1>1, GuardInvariant, PTL

-----------------------------------------------------------------------------
\* Every step keeps the account of the circuits in the table: one enters as its
\* session comes to wait for the CONNECT ACK; the session leaves that wait with
\* the circuit removed, open, or interrupted, an announcement only by being
\* heard or interrupted, and a bridge only by closing it.
LEMMA AccountKept ==
    ASSUME TypeOK, CircuitsAccounted, [Next]_vars
    PROVE  CircuitsAccounted'
<1>. USE DEF TypeOK, CircuitsAccounted, Goto, LoopEnds, InTable, bridge
<1>1. ASSUME NEW s \in Sessions,
             \/ Enter(s) \/ Bye(s) \/ AppStarts(s) \/ AppEnds(s)
             \/ Refuse(s) \/ RefusalSent(s)
      PROVE  CircuitsAccounted'
  BY <1>1 DEF Enter, Bye, AppStarts, AppEnds, Refuse, RefusalSent
<1>2. ASSUME NEW s \in Sessions, NEW n \in Neighbours, Reserve(s, n)
      PROVE  CircuitsAccounted'
  BY <1>2 DEF Reserve
<1>3. ASSUME NEW s \in Sessions,
             \/ Told(s) \/ Linked(s) \/ ConnectFails(s) \/ FailureSent(s)
             \/ Originated(s) \/ Announced(s)
      PROVE  CircuitsAccounted'
  BY <1>3 DEF Told, Linked, ConnectFails, FailureSent, Originated, Announced
<1>4. ASSUME NEW s \in Sessions, NEW ended, BridgeEnds(s, ended)
      PROVE  CircuitsAccounted'
  BY <1>4 DEF BridgeEnds, CloseCircuit
<1>5. ASSUME NEW s \in Sessions, Unwind(s)
      PROVE  CircuitsAccounted'
  <2>1. CASE pc[s] = "bridged"
    BY <1>5, <2>1 DEF Unwind, CloseCircuit, Exposed, Connecting
  <2>2. CASE pc[s] \in {"originating", "announcing"}
    BY <1>5, <2>2 DEF Unwind, Exposed, Connecting
  <2>3. CASE pc[s] \notin {"originating", "announcing", "bridged"}
    BY <1>5, <2>3 DEF Unwind, Exposed
  <2>. QED  BY <2>1, <2>2, <2>3
<1>6. ASSUME NEW s \in Sessions, CommandFails(s)
      PROVE  CircuitsAccounted'
  BY <1>6 DEF CommandFails, Exposed, Connecting
<1>7. ASSUME NEW s \in Sessions,
             \/ HostEnds(s) \/ UserLeaves(s) \/ FarAnswers(s) \/ FarCloses(s)
             \/ JoinsAbandoned(s) \/ UserTypes(s) \/ PumpWrites(s) \/ DrainReturns(s)
      PROVE  CircuitsAccounted'
  BY <1>7 DEF HostEnds, UserLeaves, FarAnswers, FarCloses, JoinsAbandoned, UserTypes,
              PumpWrites, DrainReturns, InTable
<1>8. ASSUME NEW u \in Users, MinutePasses(u)
      PROVE  CircuitsAccounted'
  BY <1>8 DEF MinutePasses
<1>9. CASE UNCHANGED vars
  BY <1>9 DEF vars, guard, bridge
<1>. QED  BY <1>1, <1>2, <1>3, <1>4, <1>5, <1>6, <1>7, <1>8, <1>9 DEF Next, Cancelled, SendFails, PumpsEnd, PumpsFail

\* A circuit in the table without a session that waits for it or bridges it is
\* one whose session was interrupted as it opened or announced it (node.py
\* cmd_connect, _bridge; circuit.py originate_circuit).
THEOREM CircuitsAreAccounted == Spec => []CircuitsAccounted
<1>1. Init => TypeOK /\ CircuitsAccounted
  BY GuardStarts DEF GuardInv, Init, CircuitsAccounted, InTable
<1>2. TypeOK /\ CircuitsAccounted /\ [Next]_vars => TypeOK' /\ CircuitsAccounted'
  BY TypesKept, AccountKept
<1>. QED  BY <1>1, <1>2, PTL DEF Spec

-----------------------------------------------------------------------------
\* Every set of naturals that is not empty has a least element.
LEMMA LeastNumber ==
    ASSUME NEW S \in SUBSET Nat, S # {}
    PROVE  \E x \in S : \A y \in S : x <= y
<1> DEFINE R == OpToRel(<, Nat)
<1>1. PICK x \in S : \A y \in S : <<y, x>> \notin R
  <2>1. IsWellFoundedOn(R, Nat)
    BY NatLessThanWellFounded
  <2> HIDE DEF R
  <2>. QED  BY <2>1, WFMin
<1>2. ASSUME NEW y \in S PROVE x <= y
  <2>1. x \in Nat /\ y \in Nat
    OBVIOUS
  <2>2. y < x => <<y, x>> \in R
    BY <2>1 DEF OpToRel
  <2> HIDE DEF R
  <2>. QED  BY <1>1, <2>1, <2>2
<1>. QED  BY <1>2

\* What holds of 0 and of the successor of what it holds of, holds up to n: the
\* least counterexample would follow one that is none.
LEMMA UpTo ==
    ASSUME NEW n \in Nat, NEW S, 0 \in S,
           \A k \in 0 .. n : k < n /\ k \in S => k + 1 \in S
    PROVE  0 .. n \subseteq S
<1> DEFINE T == (0 .. n) \ S
<1>. SUFFICES ASSUME T # {} PROVE FALSE
  OBVIOUS
<1>1. PICK x \in T : \A y \in T : x <= y
  <2>1. T \in SUBSET Nat
    OBVIOUS
  <2> HIDE DEF T
  <2>. QED  BY <2>1, LeastNumber
<1>2. x \in 1 .. n /\ x \notin S
  OBVIOUS
<1>3. x - 1 \in 0 .. n /\ x - 1 < n /\ x - 1 \in S
  BY <1>1, <1>2
<1>4. (x - 1) + 1 \in S
  BY <1>3
<1>. QED  BY <1>2, <1>4

\* g is what n steps from a compute.
Iterates(g, n, X, a, step) ==
    /\ g \in [0 .. n -> X]
    /\ g[0] = a
    /\ \A k \in 1 .. n : g[k] = step[k][g[k - 1]]

\* A recursive function on 0 .. n exists.
LEMMA Recursion ==
    ASSUME NEW n \in Nat, NEW X, NEW a \in X, NEW step \in [1 .. n -> [X -> X]]
    PROVE  \E g : Iterates(g, n, X, a, step)
<1> USE DEF Iterates
<1> DEFINE Computes(g, m) == Iterates(g, m, X, a, step)
           S == {m \in 0 .. n : \E g : Computes(g, m)}
<1>1. 0 \in S
  <2>1. \E g : Computes(g, 0)
    <3>1. Computes([k \in 0 .. 0 |-> a], 0)
      OBVIOUS
    <3> HIDE DEF Computes
    <3>. QED  BY <3>1
  <2>. QED  BY <2>1
<1>2. ASSUME NEW m \in 0 .. n, m < n, m \in S PROVE m + 1 \in S
  <2>1. PICK g : Computes(g, m)
    BY <1>2
  <2> DEFINE h == [k \in 0 .. m + 1 |-> IF k = m + 1 THEN step[k][g[m]] ELSE g[k]]
  <2>2. m + 1 \in 1 .. n /\ m \in 0 .. m /\ g[m] \in X
    BY <1>2, <2>1
  <2>3. step[m + 1][g[m]] \in X
    BY <2>2
  <2>4. h \in [0 .. m + 1 -> X]
    BY <2>1, <2>3
  <2>5. h[0] = a
    BY <2>1, <2>2
  <2>6. ASSUME NEW k \in 1 .. m + 1 PROVE h[k] = step[k][h[k - 1]]
    <3>1. CASE k = m + 1
      <4>1. k - 1 = m /\ k - 1 \in 0 .. m + 1 /\ k - 1 # m + 1
        BY <3>1, <2>2
      <4>2. h[k - 1] = g[m]
        BY <4>1
      <4>. QED  BY <3>1, <4>2
    <3>2. CASE k # m + 1
      <4>1. k \in 1 .. m /\ k - 1 \in 0 .. m + 1 /\ k - 1 # m + 1
        BY <3>2, <2>2
      <4>2. h[k - 1] = g[k - 1] /\ h[k] = g[k]
        BY <4>1, <3>2
      <4>. QED  BY <4>1, <4>2, <2>1
    <3>. QED  BY <3>1, <3>2
  <2>7. Computes(h, m + 1)
    <3> HIDE DEF h
    <3>. QED  BY <2>4, <2>5, <2>6
  <2>8. \E g2 : Computes(g2, m + 1)
    <3> HIDE DEF h, Computes
    <3>. QED  BY <2>7
  <2>9. m + 1 \in 0 .. n
    BY <2>2
  <2> HIDE DEF h, Computes
  <2>. QED  BY <2>8, <2>9
<1>3. n \in S
  <2>1. n \in 0 .. n
    OBVIOUS
  <2> HIDE DEF S
  <2>2. 0 .. n \subseteq S
    BY <1>1, <1>2, UpTo
  <2>. QED  BY <2>1, <2>2
<1>. QED  BY <1>3

\* f enumerates P by R: each element comes at the place that the number of
\* those not after it says.
Enumerates(f, P, R) ==
    /\ f \in [1 .. Cardinality(P) -> P]
    /\ \A k \in 1 .. Cardinality(P), i \in P :
           Cardinality({j \in P : <<j, i>> \in R}) = k <=> i = f[k]
    /\ \A k, l \in 1 .. Cardinality(P) : k < l => <<f[k], f[l]>> \in R /\ f[k] # f[l]
    /\ \A i \in P : \E k \in 1 .. Cardinality(P) : f[k] = i

\* Ranked by a total order, the elements of a finite set have the places 1, 2, ...
\* without a gap: the rank is injective, and so it takes every value.
LEMMA Ranking ==
    ASSUME NEW P, IsFiniteSet(P), NEW R,
           \A i, j \in P : <<i, j>> \in R \/ <<j, i>> \in R,
           \A i, j \in P : <<i, j>> \in R /\ <<j, i>> \in R => i = j,
           \A i, j, k \in P : <<i, j>> \in R /\ <<j, k>> \in R => <<i, k>> \in R
    PROVE  \E f : Enumerates(f, P, R)
<1> DEFINE Below(i) == {j \in P : <<j, i>> \in R}
           rank == [i \in P |-> Cardinality(Below(i))]
           n == Cardinality(P)
<1>1. n \in Nat
  BY FS_CardinalityType
<1>2. ASSUME NEW i \in P
      PROVE  IsFiniteSet(Below(i)) /\ rank[i] = Cardinality(Below(i)) /\ rank[i] \in 1 .. n
  <2>1. Below(i) \in SUBSET P /\ i \in Below(i)
    OBVIOUS
  <2>2. IsFiniteSet(Below(i)) /\ Cardinality(Below(i)) <= n
    BY <2>1, FS_Subset
  <2>3. Cardinality(Below(i)) \in Nat
    BY <2>2, FS_CardinalityType
  <2>4. Cardinality(Below(i)) # 0
    BY <2>1, <2>2, FS_EmptySet
  <2>. QED  BY <1>1, <2>2, <2>3, <2>4
<1>3. ASSUME NEW i \in P, NEW j \in P, <<i, j>> \in R, i # j PROVE rank[i] < rank[j]
  <2>1. Below(i) \in SUBSET Below(j)
    BY <1>3
  <2>2. j \in Below(j) /\ j \notin Below(i)
    BY <1>3
  <2>3. /\ Cardinality(Below(i)) <= Cardinality(Below(j))
        /\ Cardinality(Below(j)) = Cardinality(Below(i)) => Below(j) = Below(i)
    BY <2>1, <1>2, FS_Subset
  <2>4. rank[i] <= rank[j] /\ rank[i] # rank[j]
    BY <2>2, <2>3, <1>2
  <2>5. \A x, y \in 1 .. n : x <= y /\ x # y => x < y
    BY <1>1
  <2>6. rank[i] \in 1 .. n /\ rank[j] \in 1 .. n
    BY <1>2
  <2> HIDE DEF rank, n
  <2>. QED  BY <2>4, <2>5, <2>6
<1>4. \A i, j \in P : rank[i] = rank[j] => i = j
  <2>. SUFFICES ASSUME NEW i \in P, NEW j \in P, rank[i] = rank[j], i # j PROVE FALSE
    OBVIOUS
  <2>1. rank[i] < rank[j] \/ rank[j] < rank[i]
    BY <1>3
  <2>2. rank[i] \in Nat /\ rank[j] \in Nat
    BY <1>1, <1>2
  <2>. QED  BY <2>1, <2>2
<1>5. rank \in Injection(P, 1 .. n)
  <2>1. rank \in [P -> 1 .. n]
    BY <1>2
  <2> HIDE DEF rank
  <2>. QED  BY <2>1, <1>4 DEF Injection, IsInjective
<1>6. rank \in Surjection(P, 1 .. n)
  <2>1. IsFiniteSet(1 .. n) /\ Cardinality(1 .. n) = n
    BY <1>1, FS_Interval
  <2> HIDE DEF rank
  <2>. QED  BY <2>1, <1>5, FS_Injection
<1>7. \A k \in 1 .. n : \E i \in P : rank[i] = k
  <2> HIDE DEF rank
  <2>. QED  BY <1>6 DEF Surjection
<1> DEFINE f == [k \in 1 .. n |-> CHOOSE i \in P : rank[i] = k]
<1>8. \A k \in 1 .. n : f[k] \in P /\ rank[f[k]] = k
  <2> HIDE DEF rank
  <2>. QED  BY <1>7
<1>9. f \in [1 .. n -> P]
  BY <1>8
<1>10. ASSUME NEW k \in 1 .. n, NEW i \in P
       PROVE  Cardinality(Below(i)) = k <=> i = f[k]
  <2>1. rank[i] = k <=> i = f[k]
    <3> HIDE DEF f, rank
    <3>. QED  BY <1>4, <1>8
  <2>. QED  BY <2>1, <1>2
<1>11. ASSUME NEW k \in 1 .. n, NEW l \in 1 .. n, k < l
       PROVE  <<f[k], f[l]>> \in R /\ f[k] # f[l]
  <2> HIDE DEF f, rank
  <2>1. f[k] \in P /\ f[l] \in P /\ rank[f[k]] = k /\ rank[f[l]] = l
    BY <1>8
  <2>2. f[k] # f[l]
    BY <2>1, <1>11, <1>1
  <2>3. <<f[l], f[k]>> \notin R
    BY <2>1, <2>2, <1>3, <1>11, <1>1
  <2>. QED  BY <2>1, <2>2, <2>3
<1>12. \A i \in P : \E k \in 1 .. n : f[k] = i
  <2>1. \A i \in P : rank[i] \in 1 .. n
    BY <1>2
  <2> HIDE DEF f, rank
  <2>. QED  BY <2>1, <1>4, <1>8
<1>. QED
  <2> HIDE DEF f
  <2>1. Enumerates(f, P, R)
    BY <1>9, <1>10, <1>11, <1>12 DEF Enumerates
  <2>. QED  BY <2>1

-----------------------------------------------------------------------------
\* The fields of a route.
LEMMA RouteFields ==
    ASSUME NEW r \in Route
    PROVE  /\ r.via \in Calls /\ r.nbr \in Calls
           /\ r.quality \in 0 .. 255 /\ r.obs \in 0 .. ObsInit
           /\ r.quality \in Nat /\ r.obs \in Nat
<1>1. /\ r.via \in Calls /\ r.nbr \in Calls
      /\ r.quality \in 0 .. 255 /\ r.obs \in 0 .. ObsInit
  BY DEF Route
<1>2. \A x \in 0 .. 255 : x \in Nat
  OBVIOUS
<1>3. \A x \in 0 .. ObsInit : x \in Nat
  BY BoundsAssumption DEF BoundsAssumption
<1>. QED  BY <1>1, <1>2, <1>3

\* Picked() keeps the order of the positions.
LEMMA PickedInOrder ==
    ASSUME NEW s, NEW P \in SUBSET Nat, IsFiniteSet(P)
    PROVE  \E f \in [1 .. Cardinality(P) -> P] :
               /\ Picked(s, P) = [k \in 1 .. Cardinality(P) |-> s[f[k]]]
               /\ \A k, l \in 1 .. Cardinality(P) : k < l => f[k] < f[l]
<1> DEFINE R == {p \in P \X P : p[1] <= p[2]}
           n == Cardinality(P)
<1>1. \A i, j \in P : <<i, j>> \in R <=> i <= j
  OBVIOUS
<1>2. /\ \A i, j \in P : <<i, j>> \in R \/ <<j, i>> \in R
      /\ \A i, j \in P : <<i, j>> \in R /\ <<j, i>> \in R => i = j
      /\ \A i, j, k \in P : <<i, j>> \in R /\ <<j, k>> \in R => <<i, k>> \in R
  <2>1. \A i \in P : i \in Nat
    OBVIOUS
  <2> HIDE DEF R
  <2>. QED  BY <1>1, <2>1
<1>3. PICK f : Enumerates(f, P, R)
  <2> HIDE DEF R
  <2>. QED  BY <1>2, Ranking
<1>0. f \in [1 .. n -> P]
  BY <1>3 DEF Enumerates
<1>4. ASSUME NEW k \in 1 .. n
      PROVE  f[k] = CHOOSE i \in P : Cardinality({j \in P : j <= i}) = k
  <2>1. \A i \in P : {j \in P : <<j, i>> \in R} = {j \in P : j <= i}
    <3> HIDE DEF R
    <3>. QED  BY <1>1
  <2>2. \A i \in P : Cardinality({j \in P : j <= i}) = k <=> i = f[k]
    <3> HIDE DEF R
    <3>. QED  BY <1>3, <2>1 DEF Enumerates
  <2>3. f[k] \in P
    BY <1>0
  <2>. QED  BY <2>2, <2>3
<1>5. Picked(s, P) = [k \in 1 .. n |-> s[f[k]]]
  <2> DEFINE at(k) == CHOOSE i \in P : Cardinality({j \in P : j <= i}) = k
  <2>1. Picked(s, P) = [k \in 1 .. n |-> s[at(k)]]
    BY DEF Picked
  <2>2. \A k \in 1 .. n : f[k] = at(k)
    BY <1>4
  <2> HIDE DEF at, n
  <2>. QED  BY <2>1, <2>2
<1>6. ASSUME NEW k \in 1 .. n, NEW l \in 1 .. n, k < l PROVE f[k] < f[l]
  <2>1. f[k] \in P /\ f[l] \in P /\ <<f[k], f[l]>> \in R /\ f[k] # f[l]
    <3> HIDE DEF R
    <3>. QED  BY <1>3, <1>6 DEF Enumerates
  <2>2. f[k] \in Nat /\ f[l] \in Nat /\ f[k] <= f[l]
    BY <2>1, <1>1
  <2>. QED  BY <2>1, <2>2
<1>. QED  BY <1>0, <1>5, <1>6

\* ByQuality() is a permutation that sorts by falling quality.
LEMMA SortedByQuality ==
    ASSUME NEW s \in Seq(Route)
    PROVE  \E f \in [1 .. Len(s) -> 1 .. Len(s)] :
               /\ ByQuality(s) = [k \in 1 .. Len(s) |-> s[f[k]]]
               /\ \A k, l \in 1 .. Len(s) :
                      k < l => f[k] # f[l] /\ s[f[k]].quality >= s[f[l]].quality
               /\ \A i \in 1 .. Len(s) : \E k \in 1 .. Len(s) : f[k] = i
<1> DEFINE P == DOMAIN s
           Before(j, i) == \/ s[j].quality > s[i].quality
                           \/ (s[j].quality = s[i].quality /\ j <= i)
           R == {p \in P \X P : Before(p[1], p[2])}
           n == Len(s)
<1>1. P = 1 .. n /\ n \in Nat /\ IsFiniteSet(P) /\ Cardinality(P) = n
  <2>1. n \in Nat /\ P = 1 .. n
    OBVIOUS
  <2>2. IsFiniteSet(1 .. n) /\ Cardinality(1 .. n) = n
    BY <2>1, FS_Interval
  <2>. QED  BY <2>1, <2>2
<1>2. \A i, j \in P : <<i, j>> \in R <=> Before(i, j)
  OBVIOUS
<1>3. \A i \in P : i \in Nat /\ s[i].quality \in Nat
  <2>1. \A i \in 1 .. n : s[i] \in Route
    OBVIOUS
  <2>2. \A r \in Route : r.quality \in Nat
    BY RouteFields
  <2> HIDE DEF P, n
  <2>. QED  BY <2>1, <2>2, <1>1
<1>4. /\ \A i, j \in P : <<i, j>> \in R \/ <<j, i>> \in R
      /\ \A i, j \in P : <<i, j>> \in R /\ <<j, i>> \in R => i = j
      /\ \A i, j, k \in P : <<i, j>> \in R /\ <<j, k>> \in R => <<i, k>> \in R
  <2> HIDE DEF R, P
  <2>. QED  BY <1>2, <1>3
<1>5. PICK f : Enumerates(f, P, R)
  <2>1. IsFiniteSet(P)
    BY <1>1
  <2> HIDE DEF R, P
  <2>. QED  BY <2>1, <1>4, Ranking
<1>0. /\ f \in [1 .. n -> P]
      /\ \A k \in 1 .. n, i \in P :
             Cardinality({j \in P : <<j, i>> \in R}) = k <=> i = f[k]
      /\ \A k, l \in 1 .. n : k < l => <<f[k], f[l]>> \in R /\ f[k] # f[l]
      /\ \A i \in P : \E k \in 1 .. n : f[k] = i
  <2>1. Cardinality(P) = n
    BY <1>1
  <2> HIDE DEF R, P, n
  <2>. QED  BY <2>1, <1>5 DEF Enumerates
<1>6. ASSUME NEW k \in 1 .. n
      PROVE  f[k] = CHOOSE i \in P : Cardinality({j \in P : Before(j, i)}) = k
  <2>1. \A i \in P : {j \in P : <<j, i>> \in R} = {j \in P : Before(j, i)}
    <3> HIDE DEF R, Before
    <3>. QED  BY <1>2
  <2>2. \A i \in P : Cardinality({j \in P : Before(j, i)}) = k <=> i = f[k]
    <3> HIDE DEF R, Before, P, n
    <3>. QED  BY <1>0, <2>1
  <2>3. f[k] \in P
    BY <1>0
  <2> HIDE DEF Before, P, n, R
  <2>. QED  BY <2>2, <2>3
<1>7. ByQuality(s) = [k \in 1 .. n |-> s[f[k]]]
  <2>1. ByQuality(s) = [k \in P |-> s[CHOOSE i \in P : Cardinality({j \in P : Before(j, i)}) = k]]
    BY DEF ByQuality
  <2>. QED  BY <2>1, <1>1, <1>6
<1>8. ASSUME NEW k \in 1 .. n, NEW l \in 1 .. n, k < l
      PROVE  f[k] # f[l] /\ s[f[k]].quality >= s[f[l]].quality
  <2>1. f[k] \in P /\ f[l] \in P /\ <<f[k], f[l]>> \in R /\ f[k] # f[l]
    <3> HIDE DEF R
    <3>. QED  BY <1>0, <1>8
  <2>2. Before(f[k], f[l])
    BY <2>1, <1>2
  <2>3. s[f[k]].quality \in Nat /\ s[f[l]].quality \in Nat
    <3> HIDE DEF P
    <3>. QED  BY <2>1, <1>3
  <2>. QED  BY <2>1, <2>2, <2>3
<1>9. \A i \in 1 .. n : \E k \in 1 .. n : f[k] = i
  <2> HIDE DEF P, R
  <2>. QED  BY <1>1, <1>0
<1>10. f \in [1 .. n -> 1 .. n]
  BY <1>1, <1>0
<1>. QED
  <2> HIDE DEF P, R, Before
  <2>. QED  BY <1>7, <1>8, <1>9, <1>10

-----------------------------------------------------------------------------
\* A route that is worth keeping for destination d.
Worth(d, r) == /\ r.via = d \/ r.quality >= WorstQuality
               /\ ObsInit > 0 => r.obs > 0

OneEach(s) == \A i, j \in DOMAIN s : i # j => s[i].via # s[j].via

\* What RoutesWellFormed asks of the list of one destination.
GoodBucket(d, s) ==
    /\ s \in Seq(Route)
    /\ Len(s) <= MaxRoutes
    /\ Bucket(s)
    /\ \A i \in DOMAIN s : Worth(d, s[i])

\* No two routes of a list go by the same neighbour.
LEMMA BucketOneEach ==
    ASSUME NEW s \in Seq(Route), Bucket(s)
    PROVE  OneEach(s)
<1>1. \A i, j \in DOMAIN s : i # j => i < j \/ j < i
  OBVIOUS
<1>. QED  BY <1>1 DEF Bucket, OneEach

\* FirstRoutes() is a prefix; it leaves something out only when it is full.
LEMMA FirstRoutesOf ==
    ASSUME NEW s \in Seq(Route)
    PROVE  /\ FirstRoutes(s) \in Seq(Route)
           /\ Len(FirstRoutes(s)) <= MaxRoutes
           /\ DOMAIN FirstRoutes(s) \subseteq DOMAIN s
           /\ \A i \in DOMAIN FirstRoutes(s) : FirstRoutes(s)[i] = s[i]
           /\ s # <<>> => 1 \in DOMAIN FirstRoutes(s)
           /\ \A k \in DOMAIN s \ DOMAIN FirstRoutes(s) :
                  /\ Len(FirstRoutes(s)) = MaxRoutes
                  /\ \A j \in DOMAIN FirstRoutes(s) : j < k
<1> DEFINE m == IF Len(s) < MaxRoutes THEN Len(s) ELSE MaxRoutes
<1>1. m \in Nat /\ m <= Len(s) /\ m <= MaxRoutes /\ (Len(s) >= 1 => m >= 1)
  BY BoundsAssumption DEF BoundsAssumption
<1>2. FirstRoutes(s) = SubSeq(s, 1, m)
  BY DEF FirstRoutes
<1>3. s # <<>> => Len(s) >= 1
  OBVIOUS
<1> HIDE DEF m
<1>4. /\ SubSeq(s, 1, m) \in Seq(Route)
      /\ Len(SubSeq(s, 1, m)) = m
      /\ \A i \in 1 .. m : SubSeq(s, 1, m)[i] = s[i]
  BY <1>1
<1>5. DOMAIN SubSeq(s, 1, m) = 1 .. m /\ 1 .. m \subseteq DOMAIN s
  BY <1>1, <1>4
<1>6. ASSUME NEW k \in DOMAIN s \ 1 .. m
      PROVE  m = MaxRoutes /\ \A j \in 1 .. m : j < k
  <2>1. k \in Nat /\ k <= Len(s) /\ m < k /\ Len(s) \in Nat
    BY <1>1
  <2>2. ~(Len(s) <= m)
    BY <1>1, <2>1
  <2>3. m = MaxRoutes
    BY <2>1, <2>2 DEF m
  <2>. QED  BY <1>1, <2>1, <2>3
<1>. QED  BY <1>1, <1>2, <1>3, <1>4, <1>5, <1>6

\* Ranked() leaves a route out only when it is full of routes that are as good.
LEMMA RankedKeepsBest ==
    ASSUME NEW s \in Seq(Route), NEW i \in DOMAIN s
    PROVE  \/ \E k \in DOMAIN Ranked(s) : Ranked(s)[k] = s[i]
           \/ /\ Len(Ranked(s)) = MaxRoutes
              /\ \A k \in DOMAIN Ranked(s) : Ranked(s)[k].quality >= s[i].quality
<1> DEFINE t == ByQuality(s)
           r == Ranked(s)
           n == Len(s)
<1>0. n \in Nat /\ DOMAIN s = 1 .. n
  OBVIOUS
<1>1. PICK f \in [1 .. n -> 1 .. n] :
          /\ t = [k \in 1 .. n |-> s[f[k]]]
          /\ \A k, l \in 1 .. n : k < l => f[k] # f[l] /\ s[f[k]].quality >= s[f[l]].quality
          /\ \A j \in 1 .. n : \E k \in 1 .. n : f[k] = j
  BY SortedByQuality
<1> HIDE DEF n, t
<1>2. t \in Seq(Route) /\ DOMAIN t = 1 .. n
  <2>1. \A k \in 1 .. n : s[f[k]] \in Route
    BY <1>0
  <2>. QED  BY <1>0, <1>1, <2>1
<1>3. r = FirstRoutes(t)
  BY DEF Ranked, t
<1> HIDE DEF r
<1>4. PICK k \in 1 .. n : f[k] = i
  BY <1>0, <1>1
<1>5. /\ DOMAIN r \subseteq 1 .. n
      /\ \A j \in DOMAIN r : r[j] = s[f[j]]
      /\ k \notin DOMAIN r => Len(r) = MaxRoutes /\ \A j \in DOMAIN r : j < k
  BY <1>1, <1>2, <1>3, FirstRoutesOf
<1>6. CASE k \in DOMAIN r
  BY <1>4, <1>5, <1>6 DEF r
<1>7. CASE k \notin DOMAIN r
  <2>1. \A j \in DOMAIN r : r[j].quality >= s[i].quality
    BY <1>1, <1>4, <1>5, <1>7
  <2>. QED  BY <1>5, <1>7, <2>1 DEF r
<1>. QED  BY <1>6, <1>7

\* Of routes that are worth keeping, one per neighbour, Ranked() makes a good
\* list, led by one of the best.
LEMMA RankedIsGood ==
    ASSUME NEW d, NEW s \in Seq(Route), OneEach(s), \A i \in DOMAIN s : Worth(d, s[i])
    PROVE  /\ GoodBucket(d, Ranked(s))
           /\ s = <<>> => Ranked(s) = <<>>
           /\ s # <<>> => /\ Ranked(s) # <<>>
                          /\ \A i \in DOMAIN s : Ranked(s)[1].quality >= s[i].quality
                          /\ \E i \in DOMAIN s : Ranked(s)[1] = s[i]
<1> DEFINE t == ByQuality(s)
           r == Ranked(s)
           n == Len(s)
<1>0. n \in Nat /\ DOMAIN s = 1 .. n
  OBVIOUS
<1>1. PICK f \in [1 .. n -> 1 .. n] :
          /\ t = [k \in 1 .. n |-> s[f[k]]]
          /\ \A k, l \in 1 .. n : k < l => f[k] # f[l] /\ s[f[k]].quality >= s[f[l]].quality
          /\ \A i \in 1 .. n : \E k \in 1 .. n : f[k] = i
  BY SortedByQuality
<1> HIDE DEF n, t
<1>2. t \in Seq(Route) /\ DOMAIN t = 1 .. n /\ Len(t) = n
  <2>1. \A k \in 1 .. n : s[f[k]] \in Route
    BY <1>0
  <2>. QED  BY <1>0, <1>1, <2>1
<1>3. r = FirstRoutes(t)
  BY DEF Ranked, t
<1>4. /\ r \in Seq(Route) /\ Len(r) <= MaxRoutes
      /\ DOMAIN r \subseteq 1 .. n
      /\ \A i \in DOMAIN r : r[i] = s[f[i]] /\ f[i] \in DOMAIN s
      /\ n # 0 => 1 \in DOMAIN r
  <2>1. n # 0 => t # <<>>
    BY <1>2
  <2> HIDE DEF r
  <2>. QED  BY <1>0, <1>1, <1>2, <1>3, <2>1, FirstRoutesOf
<1> HIDE DEF r
<1>5. Bucket(r)
  <2>. SUFFICES ASSUME NEW i \in DOMAIN r, NEW j \in DOMAIN r, i < j
                PROVE  r[i].quality >= r[j].quality /\ r[i].via # r[j].via
    BY DEF Bucket
  <2>1. f[i] # f[j] /\ s[f[i]].quality >= s[f[j]].quality
    BY <1>1, <1>4
  <2>. QED  BY <2>1, <1>4 DEF OneEach
<1>6. GoodBucket(d, r)
  BY <1>4, <1>5 DEF GoodBucket
<1>7. ASSUME n # 0
      PROVE  /\ r # <<>>
             /\ \A i \in DOMAIN s : r[1].quality >= s[i].quality
             /\ \E i \in DOMAIN s : r[1] = s[i]
  <2>1. 1 \in DOMAIN r /\ r[1] = s[f[1]] /\ f[1] \in DOMAIN s /\ 1 \in 1 .. n
    BY <1>4, <1>7
  <2>2. r # <<>>
    BY <2>1
  <2>3. ASSUME NEW i \in DOMAIN s PROVE r[1].quality >= s[i].quality
    <3>1. PICK k \in 1 .. n : f[k] = i
      BY <1>0, <1>1
    <3>2. CASE k = 1
      <4>1. s[i] \in Route
        OBVIOUS
      <4>2. s[i].quality \in Nat
        BY <4>1, RouteFields
      <4>. QED  BY <2>1, <3>1, <3>2, <4>2
    <3>3. CASE k # 1
      <4>1. 1 < k
        BY <3>1, <3>3, <1>0
      <4>. QED  BY <1>1, <2>1, <3>1, <4>1
    <3>. QED  BY <3>2, <3>3
  <2>. QED  BY <2>1, <2>2, <2>3
<1>8. (s # <<>> => n # 0) /\ (s = <<>> => n = 0)
  BY DEF n
<1>9. n = 0 => r = <<>>
  BY <1>4
<1>. QED  BY <1>6, <1>7, <1>8, <1>9 DEF r

\* Of the routes of b but those via src, c has all or is full of better ones.
KeepsOrFills(b, c, src) ==
    \A i \in DOMAIN b :
        \/ b[i].via = src
        \/ \E j \in DOMAIN c : c[j] = b[i]
        \/ /\ Len(c) = MaxRoutes
           /\ \A j \in DOMAIN c : c[j].quality >= b[i].quality

\* _upsert_route() replaces the route via the same neighbour, and drops another
\* only from a list full of routes that are as good.
LEMMA UpsertKeepsOrFills ==
    ASSUME NEW b \in Seq(Route), NEW r \in Route
    PROVE  KeepsOrFills(b, Upsert(b, r), r.via)
<1> DEFINE same == {i \in DOMAIN b : b[i].via = r.via}
           t == IF same = {} THEN Append(b, r)
                ELSE [i \in DOMAIN b |-> IF i \in same THEN r ELSE b[i]]
<1>1. t \in Seq(Route)
  <2>1. Append(b, r) \in Seq(Route)
    OBVIOUS
  <2>2. \A i \in DOMAIN b : (IF i \in same THEN r ELSE b[i]) \in Route
    OBVIOUS
  <2>. QED  BY <2>1, <2>2
<1>2. \A i \in DOMAIN b : b[i].via # r.via => i \in DOMAIN t /\ t[i] = b[i]
  <2>1. CASE same = {}
    BY <2>1
  <2>2. CASE same # {}
    BY <2>2
  <2>. QED  BY <2>1, <2>2
<1>3. Upsert(b, r) = Ranked(t)
  BY DEF Upsert
<1> HIDE DEF t
<1>. QED  BY <1>1, <1>2, <1>3, RankedKeepsBest DEF KeepsOrFills

\* _upsert_route() keeps a list good.
LEMMA UpsertIsGood ==
    ASSUME NEW d, NEW b, GoodBucket(d, b), NEW r \in Route, Worth(d, r)
    PROVE  GoodBucket(d, Upsert(b, r))
<1> DEFINE same == {i \in DOMAIN b : b[i].via = r.via}
           t == IF same = {} THEN Append(b, r)
                ELSE [i \in DOMAIN b |-> IF i \in same THEN r ELSE b[i]]
<1>1. b \in Seq(Route) /\ OneEach(b) /\ \A i \in DOMAIN b : Worth(d, b[i])
  BY BucketOneEach DEF GoodBucket
<1>2. t \in Seq(Route) /\ OneEach(t) /\ \A i \in DOMAIN t : Worth(d, t[i])
  <2>1. CASE same = {}
    <3>1. t = Append(b, r)
      BY <2>1
    <3>2. /\ Append(b, r) \in Seq(Route)
          /\ DOMAIN Append(b, r) = 1 .. Len(b) + 1
          /\ Append(b, r)[Len(b) + 1] = r
          /\ \A i \in 1 .. Len(b) : Append(b, r)[i] = b[i]
          /\ \A i \in 1 .. Len(b) + 1 : i = Len(b) + 1 \/ i \in 1 .. Len(b)
      BY <1>1
    <3>3. \A i \in 1 .. Len(b) : b[i].via # r.via /\ i \in DOMAIN b
      BY <2>1, <1>1
    <3> HIDE DEF t, same
    <3>4. OneEach(t)
      BY <3>1, <3>2, <3>3, <1>1 DEF OneEach
    <3>. QED  BY <3>1, <3>2, <3>3, <3>4, <1>1
  <2>2. CASE same # {}
    <3>1. t = [i \in DOMAIN b |-> IF i \in same THEN r ELSE b[i]]
      BY <2>2
    <3> HIDE DEF t
    <3>2. \A i \in DOMAIN b : b[i] \in Route /\ t[i] \in Route /\ t[i].via = b[i].via
      BY <3>1, <1>1
    <3>3. t \in Seq(Route) /\ DOMAIN t = DOMAIN b
      BY <3>1, <3>2, <1>1
    <3>4. OneEach(t)
      BY <3>2, <3>3, <1>1 DEF OneEach
    <3>5. \A i \in DOMAIN t : Worth(d, t[i])
      BY <3>1, <3>3, <1>1
    <3>. QED  BY <3>3, <3>4, <3>5
  <2>. QED  BY <2>1, <2>2
<1>3. Upsert(b, r) = Ranked(t)
  BY DEF Upsert
<1> HIDE DEF t
<1>. QED  BY <1>2, <1>3, RankedIsGood

-----------------------------------------------------------------------------
\* The tables that RoutesWellFormed allows.
GoodTables == {table \in [Calls -> Seq(Route)] : \A d \in Calls : GoodBucket(d, table[d])}

\* Two qualities compose to a quality.
LEMMA ComposedQuality ==
    ASSUME NEW a \in 0 .. 255, NEW p \in 0 .. 255
    PROVE  RouteQuality(a, p) \in 0 .. 255
<1>1. a * p \in Nat /\ a * p <= 255 * 255
  <2>1. a \in Nat /\ p \in Nat /\ a <= 255 /\ p <= 255
    OBVIOUS
  <2>2. a * p \in Nat
    BY <2>1
  <2>3. a * p <= 255 * p
    BY <2>1
  <2>4. 255 * p <= 255 * 255
    BY <2>1
  <2>. QED  BY <2>1, <2>2, <2>3, <2>4
<1>2. \A x \in Nat : x <= 255 * 255 => (x + 128) \div 256 \in 0 .. 255
  OBVIOUS
<1> DEFINE x == a * p
<1>3. x \in Nat /\ x <= 255 * 255
  BY <1>1
<1> HIDE DEF x
<1>4. (x + 128) \div 256 \in 0 .. 255
  BY <1>2, <1>3
<1>. QED  BY <1>4 DEF x, RouteQuality

\* Learning an entry leaves the table as it is or upserts one route via the
\* source, worth keeping, to the entry's destination.
Learned(src, d, table, next) ==
    \/ next = table
    \/ \E r \in Route : /\ r.via = src /\ Worth(d, r)
                       /\ next = [table EXCEPT ![d] = Upsert(@, r)]

\* The loop's body in _process_nodes() upserts one route at most.
LEMMA EntryLearned ==
    ASSUME NEW n \in Routers, NEW src \in Calls, NEW path \in 0 .. 255,
           NEW table, NEW entry \in Entry
    PROVE  Learned(src, entry.dest, table, Learn(n, src, path, table, entry))
<1> DEFINE q == EntryQuality(n, entry, path)
           d == entry.dest
           r == [via |-> src, nbr |-> entry.nbr, quality |-> q, obs |-> ObsInit]
<1>0. d \in Calls /\ entry.nbr \in Calls /\ entry.quality \in 0 .. 255
  BY DEF Entry
<1>1. q \in 0 .. 255
  <2>1. RouteQuality(entry.quality, path) \in 0 .. 255
    BY <1>0, ComposedQuality
  <2>. QED  BY <2>1 DEF EntryQuality
<1>2. ObsInit \in 0 .. ObsInit /\ (ObsInit > 0 => r.obs > 0)
  BY BoundsAssumption DEF BoundsAssumption
<1> HIDE DEF q
<1>3. r \in Route /\ r.via = src
  BY <1>0, <1>1, <1>2 DEF Route
<1>4. q >= WorstQuality => Worth(d, r)
  BY <1>2 DEF Worth
<1> HIDE DEF r, d
<1>5. ~(q < WorstQuality) => q >= WorstQuality
  BY <1>1, BoundsAssumption DEF BoundsAssumption
<1>6. \/ Learn(n, src, path, table, entry) = table
      \/ /\ ~(q < WorstQuality)
         /\ Learn(n, src, path, table, entry) = [table EXCEPT ![d] = Upsert(@, r)]
  BY DEF Learn, q, d, r
<1>. QED  BY <1>3, <1>4, <1>5, <1>6 DEF Learned, d

\* A good table stays one when a route that is worth keeping is upserted.
LEMMA UpsertedIsGood ==
    ASSUME NEW table \in GoodTables, NEW d \in Calls, NEW r \in Route, Worth(d, r)
    PROVE  [table EXCEPT ![d] = Upsert(@, r)] \in GoodTables
<1>1. table \in [Calls -> Seq(Route)] /\ \A e \in Calls : GoodBucket(e, table[e])
  BY DEF GoodTables
<1>2. GoodBucket(d, Upsert(table[d], r))
  BY <1>1, UpsertIsGood
<1>3. Upsert(table[d], r) \in Seq(Route)
  BY <1>2 DEF GoodBucket
<1>. QED  BY <1>1, <1>2, <1>3 DEF GoodTables

\* An entry of a broadcast keeps the table good.
LEMMA LearnIsGood ==
    ASSUME NEW n \in Routers, NEW src \in Calls, NEW path \in 0 .. 255,
           NEW table \in GoodTables, NEW entry \in Entry
    PROVE  Learn(n, src, path, table, entry) \in GoodTables
<1>1. entry.dest \in Calls
  BY DEF Entry
<1>. QED  BY <1>1, EntryLearned, UpsertedIsGood DEF Learned

\* The direct route to the source is worth keeping, whatever its quality.
LEMMA DirectWorth ==
    ASSUME NEW src \in Calls, NEW path \in 0 .. 255
    PROVE  /\ DirectRoute(src, path) \in Route
           /\ DirectRoute(src, path).via = src
           /\ Worth(src, DirectRoute(src, path))
BY BoundsAssumption DEF BoundsAssumption, DirectRoute, Route, Worth

\* The tables a broadcast of src leads through, one per entry, at router n.
Leads(tables, n, src, entries) ==
    /\ tables \in [0 .. Len(entries) -> GoodTables]
    /\ tables[0] = [routes[n] EXCEPT ![src] = Upsert(@, DirectRoute(src, PathQuality[n][src]))]
    /\ \A k \in 1 .. Len(entries) :
           tables[k] = Learn(n, src, PathQuality[n][src], tables[k - 1], entries[k])
    /\ ProcessNodes(n, src, entries) = tables[Len(entries)]

\* _process_nodes() goes through good tables only, entry by entry.
LEMMA ProcessLeads ==
    ASSUME NEW n \in Routers, NEW src \in Calls, routes[n] \in GoodTables,
           NEW entries \in Seq(Entry)
    PROVE  \E tables : Leads(tables, n, src, entries)
<1> DEFINE path == PathQuality[n][src]
           direct == [routes[n] EXCEPT ![src] = Upsert(@, DirectRoute(src, path))]
           N == Len(entries)
           next(t, k) == Learn(n, src, path, t, entries[k])
           Computes(g) == g = [k \in 0 .. N |-> IF k = 0 THEN direct ELSE next(g[k - 1], k)]
           table == CHOOSE g : Computes(g)
<1>1. path \in 0 .. 255
  BY CallsAssumption DEF CallsAssumption
<1>2. N \in Nat /\ \A k \in 1 .. N : entries[k] \in Entry
  OBVIOUS
<1>3. ProcessNodes(n, src, entries) = table[N]
  BY DEF ProcessNodes
<1>4. direct \in GoodTables
  BY <1>1, DirectWorth, UpsertedIsGood
<1>5. \A k \in 1 .. N, t \in GoodTables : next(t, k) \in GoodTables
  BY <1>1, <1>2, LearnIsGood
<1> HIDE DEF direct, N, next, path
<1>6. \E g : Computes(g)
  <2> DEFINE step == [k \in 1 .. N |-> [t \in GoodTables |-> next(t, k)]]
  <2>1. step \in [1 .. N -> [GoodTables -> GoodTables]]
    BY <1>5
  <2>2. \A k \in 1 .. N, t \in GoodTables : step[k][t] = next(t, k)
    OBVIOUS
  <2> HIDE DEF step
  <2>0. PICK g : Iterates(g, N, GoodTables, direct, step)
    BY <1>2, <1>4, <2>1, Recursion
  <2>3. /\ g \in [0 .. N -> GoodTables]
        /\ g[0] = direct
        /\ \A k \in 1 .. N : g[k] = step[k][g[k - 1]]
    BY <2>0 DEF Iterates
  <2>4. ASSUME NEW k \in 0 .. N PROVE g[k] = IF k = 0 THEN direct ELSE next(g[k - 1], k)
    <3>1. k # 0 => k \in 1 .. N /\ k - 1 \in 0 .. N
      BY <1>2
    <3>2. k # 0 => g[k - 1] \in GoodTables
      BY <2>3, <3>1
    <3>. QED  BY <2>2, <2>3, <3>1, <3>2
  <2>5. Computes(g)
    BY <2>3, <2>4
  <2> HIDE DEF Computes
  <2>. QED  BY <2>5
<1>7. Computes(table)
  <2> HIDE DEF Computes
  <2>. QED  BY <1>6
<1>8. \A k \in 0 .. N : table[k] = IF k = 0 THEN direct ELSE next(table[k - 1], k)
  <2> HIDE DEF table
  <2>. QED  BY <1>7
<1> HIDE DEF table, Computes
<1> DEFINE S == {k \in 0 .. N : table[k] \in GoodTables}
<1>9. 0 \in S
  BY <1>2, <1>4, <1>8
<1>10. ASSUME NEW k \in 0 .. N, k < N, k \in S PROVE k + 1 \in S
  <2>1. k + 1 \in 0 .. N /\ k + 1 \in 1 .. N /\ k + 1 # 0 /\ (k + 1) - 1 = k
    BY <1>2, <1>10
  <2>2. table[k + 1] = next(table[k], k + 1)
    BY <1>8, <2>1
  <2>3. table[k] \in GoodTables
    BY <1>10
  <2>. QED  BY <1>5, <2>1, <2>2, <2>3
<1>11. 0 .. N \subseteq S
  <2> HIDE DEF S
  <2>. QED  BY <1>2, <1>9, <1>10, UpTo
<1>12. table \in [0 .. N -> GoodTables]
  <2>1. table = [k \in 0 .. N |-> IF k = 0 THEN direct ELSE next(table[k - 1], k)]
    BY <1>7 DEF Computes
  <2>2. \A k \in 0 .. N : table[k] \in GoodTables
    BY <1>11
  <2>. QED  BY <2>1, <2>2
<1>13. table[0] = direct /\ \A k \in 1 .. N : table[k] = next(table[k - 1], k)
  <2>1. 0 \in 0 .. N /\ \A k \in 1 .. N : k \in 0 .. N /\ k # 0
    BY <1>2
  <2>. QED  BY <1>8, <2>1
<1>14. Leads(table, n, src, entries)
  BY <1>3, <1>12, <1>13 DEF Leads, N, direct, next, path
<1>. QED  BY <1>14

\* A broadcast keeps the table good.
LEMMA ProcessIsGood ==
    ASSUME NEW n \in Routers, NEW src \in Calls, routes[n] \in GoodTables,
           NEW entries \in Seq(Entry)
    PROVE  ProcessNodes(n, src, entries) \in GoodTables
<1>1. PICK tables : Leads(tables, n, src, entries)
  BY ProcessLeads
<1>2. Len(entries) \in 0 .. Len(entries)
  OBVIOUS
<1>. QED  BY <1>1, <1>2 DEF Leads

\* A scan keeps a list good: of what is left, no count is 0.
LEMMA KeptIsGood ==
    ASSUME NEW d, NEW b, GoodBucket(d, b)
    PROVE  GoodBucket(d, Kept(b))
<1> DEFINE P == {i \in DOMAIN b : NotLast(b[i])}
           m == Cardinality(P)
           alive == Picked(b, P)
           older(r) == [r EXCEPT !.obs = IF @ = 0 THEN 0 ELSE @ - 1]
<1>1. b \in Seq(Route) /\ Len(b) \in Nat /\ DOMAIN b = 1 .. Len(b) /\ Len(b) <= MaxRoutes
  BY DEF GoodBucket
<1>2. P \in SUBSET (1 .. Len(b)) /\ P \in SUBSET Nat
  BY <1>1
<1>3. IsFiniteSet(P) /\ m \in Nat /\ m <= Len(b)
  <2>1. IsFiniteSet(1 .. Len(b)) /\ Cardinality(1 .. Len(b)) = Len(b)
    BY <1>1, FS_Interval
  <2> HIDE DEF P
  <2>2. IsFiniteSet(P) /\ Cardinality(P) <= Len(b)
    BY <1>2, <2>1, FS_Subset
  <2>. QED  BY <2>2, FS_CardinalityType
<1>4. PICK f \in [1 .. m -> P] :
          /\ alive = [k \in 1 .. m |-> b[f[k]]]
          /\ \A k, l \in 1 .. m : k < l => f[k] < f[l]
  <2> HIDE DEF P
  <2>. QED  BY <1>2, <1>3, PickedInOrder
<1>5. Kept(b) = [i \in DOMAIN alive |-> older(alive[i])]
  BY DEF Kept
<1> HIDE DEF m, alive
<1>6. DOMAIN alive = 1 .. m /\ \A k \in 1 .. m : alive[k] = b[f[k]]
  BY <1>4
<1>7. ASSUME NEW k \in 1 .. m
      PROVE  f[k] \in DOMAIN b /\ NotLast(b[f[k]]) /\ b[f[k]] \in Route
  BY <1>1
<1> HIDE DEF P
<1>8. ASSUME NEW r \in Route, NotLast(r)
      PROVE  /\ older(r) \in Route
             /\ older(r).via = r.via /\ older(r).quality = r.quality
             /\ Worth(d, r) => Worth(d, older(r))
  <2>1. r.obs \in 0 .. ObsInit /\ r.obs # 1 /\ ObsInit \in Nat
    BY <1>8, RouteFields, BoundsAssumption DEF NotLast, BoundsAssumption
  <2> DEFINE o == IF r.obs = 0 THEN 0 ELSE r.obs - 1
  <2>2. o \in 0 .. ObsInit /\ (r.obs > 0 => o > 0)
    BY <2>1
  <2>3. older(r) = [r EXCEPT !.obs = o]
    OBVIOUS
  <2> HIDE DEF o
  <2>4. [r EXCEPT !.obs = o] \in Route
    BY <2>2 DEF Route
  <2>5. /\ [r EXCEPT !.obs = o].via = r.via
        /\ [r EXCEPT !.obs = o].quality = r.quality
        /\ [r EXCEPT !.obs = o].obs = o
    BY DEF Route
  <2>. QED  BY <2>2, <2>3, <2>4, <2>5 DEF Worth
<1>9. /\ DOMAIN Kept(b) = 1 .. m
      /\ \A k \in 1 .. m : Kept(b)[k] = older(b[f[k]])
  BY <1>5, <1>6
<1> HIDE DEF older
<1>10. Kept(b) \in Seq(Route) /\ Len(Kept(b)) = m
  <2>1. Kept(b) = [k \in 1 .. m |-> older(b[f[k]])]
    BY <1>5, <1>6
  <2>2. \A k \in 1 .. m : older(b[f[k]]) \in Route
    BY <1>7, <1>8
  <2>. QED  BY <2>1, <2>2, <1>3
<1>11. Len(Kept(b)) <= MaxRoutes
  BY <1>1, <1>3, <1>10, BoundsAssumption DEF BoundsAssumption
<1>12. Bucket(Kept(b))
  <2>. SUFFICES ASSUME NEW k \in 1 .. m, NEW l \in 1 .. m, k < l
                PROVE  /\ Kept(b)[k].quality >= Kept(b)[l].quality
                       /\ Kept(b)[k].via # Kept(b)[l].via
    BY <1>9 DEF Bucket
  <2>1. f[k] < f[l] /\ f[k] \in DOMAIN b /\ f[l] \in DOMAIN b
    BY <1>4, <1>7
  <2>2. b[f[k]].quality >= b[f[l]].quality /\ b[f[k]].via # b[f[l]].via
    BY <2>1 DEF GoodBucket, Bucket
  <2>. QED  BY <2>2, <1>7, <1>8, <1>9
<1>13. \A k \in DOMAIN Kept(b) : Worth(d, Kept(b)[k])
  BY <1>7, <1>8, <1>9 DEF GoodBucket
<1>. QED  BY <1>10, <1>11, <1>12, <1>13 DEF GoodBucket

-----------------------------------------------------------------------------
\* Rows from which seed_from_db() makes a good list again.
GoodRows(d, rows) ==
    /\ rows \subseteq Route /\ IsFiniteSet(rows)
    /\ \A r, q \in rows : r.via = q.via => r = q
    /\ \A r \in rows : Worth(d, r)
GoodSnapshots == {x \in [rows : [Calls -> SUBSET Route], nbrs : SUBSET Calls] :
                      \A d \in Calls : GoodRows(d, x.rows[d])}

\* The rows of a good list hold its best route and nothing that is not in it.
LEMMA BestRowsAreGood ==
    ASSUME NEW d, NEW b, GoodBucket(d, b)
    PROVE  /\ GoodRows(d, BestRows(b))
           /\ \A r \in BestRows(b) : \E i \in DOMAIN b : r = b[i]
           /\ b # <<>> => b[1] \in BestRows(b)
<1> DEFINE first(i) == \A j \in 1 .. i - 1 : b[j].nbr # b[i].nbr
           F == {i \in DOMAIN b : first(i)}
           rows == {b[i] : i \in F}
<1>1. b \in Seq(Route) /\ Len(b) \in Nat /\ DOMAIN b = 1 .. Len(b) /\ OneEach(b)
  BY BucketOneEach DEF GoodBucket
<1>2. BestRows(b) = rows
  BY DEF BestRows
<1>3. F \subseteq DOMAIN b
  OBVIOUS
<1>4. IsFiniteSet(rows)
  <2>1. IsFiniteSet(1 .. Len(b))
    BY <1>1, FS_Interval
  <2>2. IsFiniteSet(F)
    <3>1. F \in SUBSET (1 .. Len(b))
      BY <1>1, <1>3
    <3> HIDE DEF F
    <3>. QED  BY <2>1, <3>1, FS_Subset
  <2> DEFINE f == [i \in F |-> b[i]]
  <2>3. f \in Surjection(F, rows)
    <3> HIDE DEF F
    <3>. QED  BY DEF Surjection
  <2> HIDE DEF f, rows, F
  <2>. QED  BY <2>2, <2>3, FS_Surjection
<1>5. \A r \in rows : \E i \in DOMAIN b : r = b[i]
  OBVIOUS
<1>6. b # <<>> => b[1] \in rows
  <2>1. b # <<>> => 1 \in DOMAIN b
    BY <1>1
  <2>2. first(1)
    OBVIOUS
  <2>. QED  BY <2>1, <2>2
<1> HIDE DEF rows
<1>7. rows \subseteq Route
  BY <1>1, <1>5
<1>8. \A r, q \in rows : r.via = q.via => r = q
  BY <1>1, <1>5 DEF OneEach
<1>9. \A r \in rows : Worth(d, r)
  BY <1>5 DEF GoodBucket
<1>. QED  BY <1>2, <1>4, <1>5, <1>6, <1>7, <1>8, <1>9 DEF GoodRows

\* SetToSeq() lists the elements of a finite set, each once.
LEMMA SetInSequence ==
    ASSUME NEW S, IsFiniteSet(S)
    PROVE  /\ SetToSeq(S) \in Seq(S)
           /\ \A i, j \in DOMAIN SetToSeq(S) : i # j => SetToSeq(S)[i] # SetToSeq(S)[j]
           /\ \A x \in S : \E i \in DOMAIN SetToSeq(S) : SetToSeq(S)[i] = x
<1> DEFINE n == Cardinality(S)
           s == SetToSeq(S)
<1>1. n \in Nat /\ ExistsBijection(1 .. n, S)
  BY FS_CardinalityType
<1>2. \E f \in [1 .. n -> S] : IsInjective(f)
  BY <1>1 DEF ExistsBijection, Bijection, Injection
<1>3. s \in [1 .. n -> S] /\ IsInjective(s)
  BY <1>2 DEF SetToSeq
<1> HIDE DEF s
<1>4. s \in Injection(1 .. n, S)
  BY <1>3 DEF Injection
<1>5. s \in Surjection(1 .. n, S)
  <2>1. IsFiniteSet(1 .. n) /\ Cardinality(1 .. n) = Cardinality(S)
    BY <1>1, FS_Interval
  <2> HIDE DEF n
  <2>. QED  BY <2>1, <1>4, FS_Injection
<1>6. s \in Seq(S) /\ DOMAIN s = 1 .. n
  BY <1>1, <1>3
<1>7. \A i, j \in DOMAIN s : i # j => s[i] # s[j]
  BY <1>3 DEF IsInjective
<1>8. \A x \in S : \E i \in DOMAIN s : s[i] = x
  BY <1>5, <1>6 DEF Surjection
<1>. QED  BY <1>6, <1>7, <1>8 DEF s

\* From good rows seed_from_db() makes a good list, led by one of the best.
LEMMA SeededIsGood ==
    ASSUME NEW d, NEW rows, GoodRows(d, rows)
    PROVE  /\ GoodBucket(d, Ranked(SetToSeq(rows)))
           /\ rows = {} => Ranked(SetToSeq(rows)) = <<>>
           /\ rows # {} => /\ Ranked(SetToSeq(rows)) # <<>>
                           /\ Ranked(SetToSeq(rows))[1] \in rows
                           /\ \A r \in rows : Ranked(SetToSeq(rows))[1].quality >= r.quality
<1> DEFINE s == SetToSeq(rows)
<1>1. /\ s \in Seq(rows)
      /\ \A i, j \in DOMAIN s : i # j => s[i] # s[j]
      /\ \A x \in rows : \E i \in DOMAIN s : s[i] = x
  BY SetInSequence DEF GoodRows
<1> HIDE DEF s
<1>2. \A i \in DOMAIN s : s[i] \in rows
  BY <1>1
<1>3. s \in Seq(Route)
  BY <1>1 DEF GoodRows
<1>4. OneEach(s)
  BY <1>1, <1>2 DEF OneEach, GoodRows
<1>5. \A i \in DOMAIN s : Worth(d, s[i])
  BY <1>2 DEF GoodRows
<1>6. (rows = {} => s = <<>>) /\ (rows # {} => s # <<>>)
  <2>1. rows = {} => DOMAIN s = {}
    BY <1>2
  <2>2. rows # {} => DOMAIN s # {}
    BY <1>1
  <2>. QED  BY <2>1, <2>2, <1>3
<1>7. /\ GoodBucket(d, Ranked(s))
      /\ s = <<>> => Ranked(s) = <<>>
      /\ s # <<>> => /\ Ranked(s) # <<>>
                     /\ \A i \in DOMAIN s : Ranked(s)[1].quality >= s[i].quality
                     /\ \E i \in DOMAIN s : Ranked(s)[1] = s[i]
  BY <1>3, <1>4, <1>5, RankedIsGood
<1>. QED  BY <1>1, <1>2, <1>6, <1>7 DEF s

\* A broadcast names every destination once, and the node itself only if that
\* has a route to itself.
LEMMA AdvertisedEntries ==
    ASSUME NEW n \in Routers, routes[n] \in GoodTables
    PROVE  /\ Advertised(n) \in Seq(Entry)
           /\ routes[n][n] = <<>> => Tidy(n, Advertised(n))
<1> DEFINE fresh(c) == /\ routes[n][c] # <<>>
                       /\ \/ routes[n][c][1].obs = 0
                          \/ routes[n][c][1].obs >= ObsMin
           P == {i \in DOMAIN CallOrder : fresh(CallOrder[i])}
           m == Cardinality(P)
           dests == Picked(CallOrder, P)
           entry(c) == [dest |-> c, nbr |-> routes[n][c][1].via,
                        quality |-> routes[n][c][1].quality]
<1>1. CallOrder \in Seq(Calls)
  BY CallsAssumption DEF CallsAssumption
<1>2. Len(CallOrder) \in Nat /\ DOMAIN CallOrder = 1 .. Len(CallOrder)
  BY <1>1
<1>3. P \in SUBSET (1 .. Len(CallOrder)) /\ P \in SUBSET Nat
  BY <1>2
<1>4. IsFiniteSet(P) /\ m \in Nat
  <2>1. IsFiniteSet(1 .. Len(CallOrder))
    BY <1>2, FS_Interval
  <2> HIDE DEF P
  <2>2. IsFiniteSet(P)
    BY <1>3, <2>1, FS_Subset
  <2>. QED  BY <2>2, FS_CardinalityType
<1>5. PICK f \in [1 .. m -> P] :
          /\ dests = [k \in 1 .. m |-> CallOrder[f[k]]]
          /\ \A k, l \in 1 .. m : k < l => f[k] < f[l]
  <2> HIDE DEF P
  <2>. QED  BY <1>3, <1>4, PickedInOrder
<1>6. Advertised(n) = [i \in DOMAIN dests |-> entry(dests[i])]
  BY DEF Advertised
<1> HIDE DEF dests, m
<1>7. ASSUME NEW c \in Calls, routes[n][c] # <<>> PROVE entry(c) \in Entry
  <2>1. routes[n][c] \in Seq(Route)
    BY DEF GoodTables
  <2>2. routes[n][c][1] \in Route
    BY <1>7, <2>1
  <2>. QED  BY <2>2, RouteFields DEF Entry
<1>8. ASSUME NEW k \in 1 .. m PROVE dests[k] \in Calls /\ routes[n][dests[k]] # <<>>
  <2>1. f[k] \in P /\ dests[k] = CallOrder[f[k]]
    BY <1>5
  <2>. QED  BY <1>1, <2>1
<1> HIDE DEF P, entry
<1>9. Advertised(n) = [k \in 1 .. m |-> entry(dests[k])]
  BY <1>5, <1>6
<1>10. \A k \in 1 .. m : entry(dests[k]) \in Entry
  BY <1>7, <1>8
<1>11. Advertised(n) \in Seq(Entry) /\ DOMAIN Advertised(n) = 1 .. m
  BY <1>4, <1>9, <1>10
<1>12. ASSUME NEW k \in 1 .. m, NEW l \in 1 .. m, k # l PROVE dests[k] # dests[l]
  <2>1. /\ dests[k] = CallOrder[f[k]] /\ dests[l] = CallOrder[f[l]]
        /\ f[k] \in DOMAIN CallOrder /\ f[l] \in DOMAIN CallOrder
    BY <1>2, <1>3, <1>5
  <2>2. k < l \/ l < k
    BY <1>12, <1>4
  <2>3. f[k] < f[l] \/ f[l] < f[k]
    BY <1>5, <2>2
  <2>4. f[k] # f[l]
    BY <1>2, <2>1, <2>3
  <2>. QED  BY <2>1, <2>4, CallsAssumption DEF CallsAssumption, IsInjective
<1>13. \A k \in 1 .. m : Advertised(n)[k].dest = dests[k]
  BY <1>9 DEF entry
<1>14. routes[n][n] = <<>> => Tidy(n, Advertised(n))
  BY <1>8, <1>11, <1>12, <1>13 DEF Tidy
<1>. QED  BY <1>11, <1>14

\* A snapshot of a good table is good.
LEMMA SnapshotIsGood ==
    ASSUME NEW table \in GoodTables, NEW nbrs \in SUBSET Calls
    PROVE  [rows |-> [d \in Calls |-> BestRows(table[d])], nbrs |-> nbrs] \in GoodSnapshots
<1> DEFINE rows == [d \in Calls |-> BestRows(table[d])]
<1>1. \A d \in Calls : GoodRows(d, BestRows(table[d]))
  BY BestRowsAreGood DEF GoodTables
<1>2. rows \in [Calls -> SUBSET Route] /\ \A d \in Calls : GoodRows(d, rows[d])
  BY <1>1 DEF GoodRows
<1> HIDE DEF rows
<1>3. [rows |-> rows, nbrs |-> nbrs] \in GoodSnapshots
  BY <1>2 DEF GoodSnapshots
<1>. QED  BY <1>3 DEF rows

\* The empty database and the empty table are good.
LEMMA EmptyIsGood == EmptySnapshot \in GoodSnapshots /\ NoRoutes \in GoodTables
<1>1. \A d : GoodRows(d, {})
  BY FS_EmptySet DEF GoodRows
<1>2. \A d : GoodBucket(d, <<>>)
  BY BoundsAssumption DEF BoundsAssumption, GoodBucket, Bucket
<1>3. EmptySnapshot \in GoodSnapshots
  BY <1>1 DEF EmptySnapshot, GoodSnapshots
<1>4. NoRoutes \in GoodTables
  BY <1>2 DEF NoRoutes, GoodTables
<1>. QED  BY <1>3, <1>4

\* A restart makes a good table.
LEMMA TableSeeded ==
    ASSUME NEW x \in GoodSnapshots
    PROVE  Seeded(x.rows) \in GoodTables
<1>1. \A d \in Calls : GoodRows(d, x.rows[d])
  BY DEF GoodSnapshots
<1>2. \A d \in Calls : GoodBucket(d, Ranked(SetToSeq(x.rows[d])))
  BY <1>1, SeededIsGood
<1>3. \A d \in Calls : Ranked(SetToSeq(x.rows[d])) \in Seq(Route)
  BY <1>2 DEF GoodBucket
<1>. QED  BY <1>2, <1>3 DEF Seeded, GoodTables

\* A scan makes a good table.
LEMMA TableDecayed ==
    ASSUME NEW table \in GoodTables
    PROVE  Decayed(table) \in GoodTables
<1>1. \A d \in Calls : GoodBucket(d, Kept(table[d]))
  BY KeptIsGood DEF GoodTables
<1>2. \A d \in Calls : Kept(table[d]) \in Seq(Route)
  BY <1>1 DEF GoodBucket
<1>. QED  BY <1>1, <1>2 DEF Decayed, GoodTables

-----------------------------------------------------------------------------
\* At most one snapshot is on its way to the database per task.
SavingOK ==
    /\ saving \in [Routers -> [Savers -> SUBSET GoodSnapshots]]
    /\ \A n \in Routers, t \in Savers : \A x, y \in saving[n][t] : x = y

RouterInv ==
    /\ routes \in [Routers -> GoodTables]
    /\ neighbours \in [Routers -> SUBSET Calls]
    /\ crosslinks \in [Routers -> SUBSET Calls]
    /\ heard \in [Routers -> SUBSET Calls]
    /\ owed \in [Routers -> BOOLEAN]
    /\ SavingOK
    /\ stored \in [Routers -> GoodSnapshots]
    /\ crashes \in [Routers -> 0 .. MaxCrashes]

\* One task's snapshot on its way, if any, is replaced by another or by none.
LEMMA SavingKept ==
    ASSUME SavingOK, NEW n \in Routers, NEW t \in Savers,
           NEW v \in SUBSET GoodSnapshots, \A x, y \in v : x = y,
           saving' = [saving EXCEPT ![n][t] = v]
    PROVE  SavingOK'
<1>1. saving \in [Routers -> [Savers -> SUBSET GoodSnapshots]]
  BY DEF SavingOK
<1>2. [saving[n] EXCEPT ![t] = v] \in [Savers -> SUBSET GoodSnapshots]
  BY <1>1
<1>3. saving' = [saving EXCEPT ![n] = [saving[n] EXCEPT ![t] = v]]
  BY <1>1
<1>4. saving' \in [Routers -> [Savers -> SUBSET GoodSnapshots]]
  BY <1>1, <1>2, <1>3
<1>5. ASSUME NEW m \in Routers, NEW u \in Savers PROVE \A x, y \in saving'[m][u] : x = y
  <2>1. saving'[m][u] = IF m = n /\ u = t THEN v ELSE saving[m][u]
    BY <1>1, <1>3
  <2>. QED  BY <2>1 DEF SavingOK
<1>. QED  BY <1>4, <1>5 DEF SavingOK

\* The invariant holds of the empty tables.
LEMMA RouterStarts == RouterInit => RouterInv
<1>. SUFFICES ASSUME RouterInit PROVE RouterInv
  OBVIOUS
<1>1. routes \in [Routers -> GoodTables] /\ stored \in [Routers -> GoodSnapshots]
  BY EmptyIsGood DEF RouterInit
<1>2. SavingOK
  BY DEF RouterInit, SavingOK
<1>3. crashes \in [Routers -> 0 .. MaxCrashes]
  BY BoundsAssumption DEF RouterInit, BoundsAssumption
<1>. QED  BY <1>1, <1>2, <1>3 DEF RouterInit, RouterInv

\* The routers that receive a broadcast keep the invariant.
LEMMA ReceivedKeeps ==
    ASSUME RouterInv, NEW src \in Calls, NEW entries \in Seq(Entry), NEW R,
           Received(src, entries, R)
    PROVE  RouterInv'
<1> DEFINE takes == {n \in R : WorstQuality > 0}
           learns == {n \in takes : PathQuality[n][src] > 0}
<1>1. /\ neighbours' = [n \in Routers |->
               IF n \in takes THEN neighbours[n] \cup {src} ELSE neighbours[n]]
      /\ routes' = [n \in Routers |->
               IF n \in learns THEN ProcessNodes(n, src, entries) ELSE routes[n]]
      /\ owed' = [n \in Routers |-> owed[n] \/ n \in R \cap Stores]
      /\ UNCHANGED <<crosslinks, heard, saving, stored, crashes>>
  BY DEF Received
<1> HIDE DEF takes, learns
<1>2. routes' \in [Routers -> GoodTables]
  <2>1. \A n \in Routers : ProcessNodes(n, src, entries) \in GoodTables /\ routes[n] \in GoodTables
    BY ProcessIsGood DEF RouterInv
  <2>. QED  BY <1>1, <2>1
<1>3. neighbours' \in [Routers -> SUBSET Calls]
  BY <1>1 DEF RouterInv
<1>4. owed' \in [Routers -> BOOLEAN]
  BY <1>1 DEF RouterInv
<1>5. SavingOK'
  BY <1>1 DEF RouterInv, SavingOK
<1>. QED  BY <1>1, <1>2, <1>3, <1>4, <1>5 DEF RouterInv

\* Whoever broadcasts, a router or a leaf, sends what ReceivedKeeps asks for.
LEMMA BroadcastsKeep ==
    ASSUME RouterInv, NEW src \in Calls, Broadcasts(src)
    PROVE  RouterInv'
<1>1. CASE src \in Routers /\ RouterBroadcasts(src)
  <2>1. <<>> \in Seq(Entry) /\ Advertised(src) \in Seq(Entry)
    BY <1>1, AdvertisedEntries DEF RouterInv
  <2>2. PICK R \in SUBSET Hears[src] :
            Received(src, IF src \in SelfOnly THEN <<>> ELSE Advertised(src), R)
    BY <1>1 DEF RouterBroadcasts
  <2> DEFINE entries == IF src \in SelfOnly THEN <<>> ELSE Advertised(src)
  <2>3. entries \in Seq(Entry)
    BY <2>1
  <2> HIDE DEF entries
  <2>. QED  BY <2>2, <2>3, ReceivedKeeps DEF entries
<1>2. CASE src \in Leaves /\ LeafBroadcasts(src)
  <2>1. PICK R \in SUBSET Hears[src], entries \in LeafLists[src] : Received(src, entries, R)
    BY <1>2 DEF LeafBroadcasts
  <2>2. entries \in Seq(Entry)
    BY <1>2, <2>1, CallsAssumption DEF CallsAssumption
  <2>. QED  BY <2>1, <2>2, ReceivedKeeps
<1>. QED  BY <1>1, <1>2 DEF Broadcasts

\* The scan and the snapshot it takes keep the invariant.
LEMMA DecayKeeps ==
    ASSUME RouterInv, NEW n \in Routers, Decay(n)
    PROVE  RouterInv'
<1>1. /\ routes' = [routes EXCEPT ![n] = Decayed(@)]
      /\ neighbours' = [neighbours EXCEPT ![n] = Reconcile(@, routes'[n], crosslinks[n])]
      /\ saving' = [saving EXCEPT ![n]["decay"] = IF n \in Stores THEN {Snapshot(n)'} ELSE {}]
      /\ UNCHANGED <<crosslinks, heard, owed, stored, crashes>>
  BY DEF Decay
<1>2. routes' \in [Routers -> GoodTables]
  <2>1. Decayed(routes[n]) \in GoodTables
    BY TableDecayed DEF RouterInv
  <2>. QED  BY <1>1, <2>1 DEF RouterInv
<1>3. neighbours' \in [Routers -> SUBSET Calls]
  BY <1>1 DEF RouterInv, Reconcile
<1>4. SavingOK'
  <2> DEFINE x == [rows |-> [d \in Calls |-> BestRows(routes'[n][d])], nbrs |-> neighbours'[n]]
             v == IF n \in Stores THEN {x} ELSE {}
  <2>1. routes'[n] \in GoodTables /\ neighbours'[n] \in SUBSET Calls
    BY <1>2, <1>3
  <2>2. x \in GoodSnapshots
    BY <2>1, SnapshotIsGood
  <2>3. Snapshot(n)' = x
    BY DEF Snapshot
  <2> HIDE DEF x
  <2>4. saving' = [saving EXCEPT ![n]["decay"] = v]
    BY <1>1, <2>3
  <2>5. v \in SUBSET GoodSnapshots /\ \A y, z \in v : y = z
    BY <2>2
  <2>6. "decay" \in Savers /\ SavingOK
    BY DEF Savers, RouterInv
  <2> HIDE DEF v
  <2>. QED  BY <2>4, <2>5, <2>6, SavingKept
<1>. QED  BY <1>1, <1>2, <1>3, <1>4 DEF RouterInv

\* A snapshot is taken.
LEMMA SaveBeginsKeeps ==
    ASSUME RouterInv, NEW n \in Routers, SaveBegins(n)
    PROVE  RouterInv'
<1>1. /\ owed' = [owed EXCEPT ![n] = FALSE]
      /\ saving' = [saving EXCEPT ![n]["frame"] = {Snapshot(n)}]
      /\ UNCHANGED <<routes, neighbours, crosslinks, heard, stored, crashes>>
  BY DEF SaveBegins
<1>2. Snapshot(n) \in GoodSnapshots
  BY SnapshotIsGood DEF RouterInv, Snapshot
<1>3. SavingOK'
  <2>1. "frame" \in Savers /\ SavingOK
    BY DEF Savers, RouterInv
  <2>. QED  BY <1>1, <1>2, <2>1, SavingKept
<1>. QED  BY <1>1, <1>3 DEF RouterInv

\* A transaction commits or fails.
LEMMA SavedKeeps ==
    ASSUME RouterInv, NEW n \in Routers, NEW t \in Savers, SaveEnds(n, t) \/ SaveFails(n, t)
    PROVE  RouterInv'
<1>1. /\ saving' = [saving EXCEPT ![n][t] = {}]
      /\ UNCHANGED <<routes, neighbours, crosslinks, heard, owed, crashes>>
  BY DEF SaveEnds, SaveFails
<1>2. SavingOK'
  <2>1. {} \in SUBSET GoodSnapshots /\ \A x, y \in {} : x = y
    OBVIOUS
  <2>2. SavingOK
    BY DEF RouterInv
  <2>. QED  BY <1>1, <2>1, <2>2, SavingKept
<1>3. stored' \in [Routers -> GoodSnapshots]
  <2>1. CASE SaveEnds(n, t)
    <3>1. PICK x \in saving[n][t] : stored' = [stored EXCEPT ![n] = x]
      BY <2>1 DEF SaveEnds
    <3>2. x \in GoodSnapshots
      BY <3>1 DEF RouterInv, SavingOK
    <3>. QED  BY <3>1, <3>2 DEF RouterInv
  <2>2. CASE SaveFails(n, t)
    BY <2>2 DEF SaveFails, RouterInv
  <2>. QED  BY <2>1, <2>2
<1>. QED  BY <1>1, <1>2, <1>3 DEF RouterInv

\* A restart keeps the invariant, whatever it finds in the database.
LEMMA RestartKeeps ==
    ASSUME RouterInv, NEW n \in Routers, Restart(n)
    PROVE  RouterInv'
<1>1. PICK x \in {stored[n], EmptySnapshot} :
          /\ routes' = [routes EXCEPT ![n] = Seeded(x.rows)]
          /\ neighbours' = [neighbours EXCEPT ![n] = x.nbrs]
  BY DEF Restart
<1>2. /\ crashes[n] < MaxCrashes
      /\ crashes' = [crashes EXCEPT ![n] = @ + 1]
      /\ crosslinks' = [crosslinks EXCEPT ![n] = {}]
      /\ heard' = [heard EXCEPT ![n] = {}]
      /\ owed' = [owed EXCEPT ![n] = FALSE]
      /\ saving' = [saving EXCEPT ![n] = [t \in Savers |-> {}]]
      /\ UNCHANGED stored
  BY DEF Restart
<1>3. x \in GoodSnapshots
  BY EmptyIsGood DEF RouterInv
<1>4. routes' \in [Routers -> GoodTables]
  <2>1. Seeded(x.rows) \in GoodTables
    BY <1>3, TableSeeded
  <2>. QED  BY <1>1, <2>1 DEF RouterInv
<1>5. neighbours' \in [Routers -> SUBSET Calls]
  <2>1. x.nbrs \in SUBSET Calls
    BY <1>3 DEF GoodSnapshots
  <2>. QED  BY <1>1, <2>1 DEF RouterInv
<1>6. SavingOK'
  <2>1. saving \in [Routers -> [Savers -> SUBSET GoodSnapshots]]
    BY DEF RouterInv, SavingOK
  <2>2. saving' \in [Routers -> [Savers -> SUBSET GoodSnapshots]]
    BY <1>2, <2>1
  <2>3. \A m \in Routers, t \in Savers : saving'[m][t] = IF m = n THEN {} ELSE saving[m][t]
    BY <1>2, <2>1
  <2>. QED  BY <2>2, <2>3 DEF SavingOK, RouterInv
<1>7. crashes' \in [Routers -> 0 .. MaxCrashes]
  <2>1. crashes[n] + 1 \in 0 .. MaxCrashes
    BY <1>2, BoundsAssumption DEF RouterInv, BoundsAssumption
  <2>. QED  BY <1>2, <2>1 DEF RouterInv
<1>. QED  BY <1>2, <1>4, <1>5, <1>6, <1>7 DEF RouterInv

\* Crosslinks and direct hearings touch no route.
LEMMA AdjacencyKeeps ==
    ASSUME RouterInv, NEW n \in Routers, NEW c \in Crosslinkable[n],
           \/ NoteCrosslinkUp(n, c) \/ NoteCrosslinkDown(n, c)
           \/ NoteHeardDirect(n, c) \/ HeardExpires(n, c)
    PROVE  RouterInv'
<1>0. c \in Calls
  BY CallsAssumption DEF CallsAssumption
<1>1. UNCHANGED <<routes, owed, saving, stored, crashes>>
  BY DEF NoteCrosslinkUp, NoteCrosslinkDown, NoteHeardDirect, HeardExpires
<1>2. SavingOK'
  BY <1>1 DEF RouterInv, SavingOK
<1>3. /\ neighbours' \in [Routers -> SUBSET Calls]
      /\ crosslinks' \in [Routers -> SUBSET Calls]
      /\ heard' \in [Routers -> SUBSET Calls]
  <2>1. CASE NoteCrosslinkUp(n, c)
    BY <1>0, <2>1 DEF NoteCrosslinkUp, RouterInv
  <2>2. CASE NoteCrosslinkDown(n, c)
    BY <2>2 DEF NoteCrosslinkDown, RouterInv, Reconcile
  <2>3. CASE NoteHeardDirect(n, c)
    BY <1>0, <2>3 DEF NoteHeardDirect, RouterInv
  <2>4. CASE HeardExpires(n, c)
    BY <2>4 DEF HeardExpires, RouterInv
  <2>. QED  BY <2>1, <2>2, <2>3, <2>4
<1>. QED  BY <1>1, <1>2, <1>3 DEF RouterInv

\* Every step keeps the invariant.
LEMMA RouterStep == RouterInv /\ [RouterNext]_routerVars => RouterInv'
<1>. SUFFICES ASSUME RouterInv, [RouterNext]_routerVars PROVE RouterInv'
  OBVIOUS
<1>1. ASSUME NEW c \in Calls, Broadcasts(c) PROVE RouterInv'
  BY <1>1, BroadcastsKeep
<1>2. ASSUME NEW n \in Routers, NEW c \in Crosslinkable[n],
             \/ NoteCrosslinkUp(n, c) \/ NoteCrosslinkDown(n, c)
             \/ NoteHeardDirect(n, c) \/ HeardExpires(n, c)
      PROVE  RouterInv'
  BY <1>2, AdjacencyKeeps
<1>3. ASSUME NEW n \in Routers, NEW t \in Savers, SaveEnds(n, t) \/ SaveFails(n, t)
      PROVE  RouterInv'
  BY <1>3, SavedKeeps
<1>4. ASSUME NEW n \in Routers, Decay(n) PROVE RouterInv'
  BY <1>4, DecayKeeps
<1>5. ASSUME NEW n \in Routers, SaveBegins(n) PROVE RouterInv'
  BY <1>5, SaveBeginsKeeps
<1>6. ASSUME NEW n \in Routers, Restart(n) PROVE RouterInv'
  BY <1>6, RestartKeeps
<1>7. CASE UNCHANGED routerVars
  BY <1>7 DEF routerVars, mem, RouterInv, SavingOK
<1>. QED  BY <1>1, <1>2, <1>3, <1>4, <1>5, <1>6, <1>7 DEF RouterNext

\* The invariant implies the property of the tables.
LEMMA InvWellFormed == RouterInv => RoutesWellFormed
<1>. SUFFICES ASSUME RouterInv PROVE RoutesWellFormed
  OBVIOUS
<1>1. ASSUME NEW n \in Routers, NEW d \in Calls
      PROVE  GoodBucket(d, routes[n][d])
  BY DEF RouterInv, GoodTables
<1>2. routes \in [Routers -> [Calls -> Seq(Route)]]
  BY DEF RouterInv, GoodTables
<1>3. ASSUME NEW n \in Routers, NEW t \in Savers PROVE Cardinality(saving[n][t]) <= 1
  <2>1. \A x, y \in saving[n][t] : x = y
    BY DEF RouterInv, SavingOK
  <2>2. saving[n][t] = {} \/ \E x : saving[n][t] = {x}
    BY <2>1
  <2>3. Cardinality(saving[n][t]) \in {0, 1}
    BY <2>2, FS_EmptySet, FS_Singleton
  <2>. QED  BY <2>3
<1>4. RouterTypeOK
  BY <1>1, <1>2, <1>3 DEF RouterTypeOK, RouterInv, GoodBucket
<1>. QED  BY <1>1, <1>4 DEF RoutesWellFormed, GoodBucket, Worth

\* The invariant implies the property of the snapshots.
LEMMA InvFaithful == RouterInv => SnapshotFaithful
<1>. SUFFICES ASSUME RouterInv, NEW n \in Routers, NEW d \in Calls
              PROVE  BestQuality(Seeded(Snapshot(n).rows)[d]) = BestQuality(routes[n][d])
  BY DEF SnapshotFaithful
<1> DEFINE b == routes[n][d]
           rows == BestRows(b)
           s == Ranked(SetToSeq(rows))
<1>1. GoodBucket(d, b)
  BY DEF RouterInv, GoodTables
<1>2. Snapshot(n).rows[d] = rows
  BY DEF Snapshot
<1>3. Seeded(Snapshot(n).rows)[d] = s
  BY <1>2 DEF Seeded
<1> HIDE DEF b
<1>4. /\ GoodRows(d, rows)
      /\ \A r \in rows : \E i \in DOMAIN b : r = b[i]
      /\ b # <<>> => b[1] \in rows
  BY <1>1, BestRowsAreGood
<1> HIDE DEF rows
<1>5. /\ rows = {} => s = <<>>
      /\ rows # {} => /\ s # <<>>
                      /\ s[1] \in rows
                      /\ \A r \in rows : s[1].quality >= r.quality
  BY <1>4, SeededIsGood
<1> HIDE DEF s
<1>6. b \in Seq(Route) /\ Bucket(b)
  BY <1>1 DEF GoodBucket
<1>7. CASE b = <<>>
  <2>1. rows = {}
    BY <1>4, <1>7
  <2>2. s = <<>>
    BY <2>1, <1>5
  <2>3. BestQuality(s) = BestQuality(b)
    BY <1>7, <2>2 DEF BestQuality
  <2>. QED  BY <1>3, <2>3 DEF b
<1>8. CASE b # <<>>
  <2>1. /\ b[1] \in rows /\ s # <<>> /\ s[1] \in rows
        /\ s[1].quality >= b[1].quality
    BY <1>4, <1>5, <1>8
  <2>2. PICK i \in DOMAIN b : s[1] = b[i]
    BY <1>4, <2>1
  <2>3. 1 \in DOMAIN b /\ b[1] \in Route /\ b[i] \in Route /\ (i = 1 \/ 1 < i)
    BY <1>6, <1>8
  <2>4. b[1].quality \in Nat /\ b[i].quality \in Nat
    BY <2>3, RouteFields
  <2>5. b[1].quality >= b[i].quality
    BY <1>6, <2>3, <2>4 DEF Bucket
  <2>6. s[1].quality = b[1].quality
    BY <2>1, <2>2, <2>4, <2>5
  <2>7. BestQuality(s) = BestQuality(b)
    BY <1>8, <2>1, <2>6 DEF BestQuality
  <2>. QED  BY <1>3, <2>7 DEF b
<1>. QED  BY <1>7, <1>8

\* However broadcasts, scans, crosslinks, overlapping transactions and restarts
\* alternate, the lists of routes are best first, bounded, with one route per
\* neighbour, none of them worthless or run down (_upsert_route,
\* decay_obsolescence, seed_from_db).
THEOREM RoutersWellFormed == RouterSpec => []RoutesWellFormed
<1>. QED  BY RouterStarts, RouterStep, InvWellFormed, PTL DEF RouterSpec

\* A restart would find a route of the best quality for every destination that
\* has one, although rows are keyed by neighbor_call (persist, seed_from_db).
THEOREM SnapshotsFaithful == RouterSpec => []SnapshotFaithful
<1>. QED  BY RouterStarts, RouterStep, InvFaithful, PTL DEF RouterSpec

-----------------------------------------------------------------------------
\* The list of destination d is as it was, or one route via src was upserted.
OnceUpserted(src, b, c) ==
    c = b \/ \E r \in Route : r.via = src /\ c = Upsert(b, r)

\* A broadcast that names everything once upserts each list once at most.
LEMMA TidyUpsertsOnce ==
    ASSUME NEW n \in Routers, NEW src \in Calls, routes[n] \in GoodTables,
           NEW entries \in Seq(Entry), Tidy(src, entries), NEW d \in Calls
    PROVE  OnceUpserted(src, routes[n][d], ProcessNodes(n, src, entries)[d])
<1> DEFINE N == Len(entries)
           b == routes[n][d]
           path == PathQuality[n][src]
           Named(k) == d = src \/ \E i \in 1 .. k : entries[i].dest = d
<1>0. /\ N \in Nat /\ DOMAIN entries = 1 .. N
      /\ \A k \in 1 .. N : entries[k] \in Entry /\ entries[k].dest \in Calls
  <2>1. N \in Nat /\ DOMAIN entries = 1 .. N /\ \A k \in 1 .. N : entries[k] \in Entry
    OBVIOUS
  <2>2. \A e \in Entry : e.dest \in Calls
    BY DEF Entry
  <2>. QED  BY <2>1, <2>2
<1>1. path \in 0 .. 255
  BY CallsAssumption DEF CallsAssumption
<1>2. PICK tables : Leads(tables, n, src, entries)
  BY ProcessLeads
<1>3. /\ tables \in [0 .. N -> GoodTables]
      /\ tables[0] = [routes[n] EXCEPT ![src] = Upsert(@, DirectRoute(src, path))]
      /\ \A k \in 1 .. N : tables[k] = Learn(n, src, path, tables[k - 1], entries[k])
      /\ ProcessNodes(n, src, entries) = tables[N]
  BY <1>2 DEF Leads
<1> HIDE DEF N, path
<1> DEFINE S == {k \in 0 .. N : /\ OnceUpserted(src, b, tables[k][d])
                                /\ ~Named(k) => tables[k][d] = b}
<1>4. 0 \in S
  <2>1. routes[n] \in [Calls -> Seq(Route)]
    BY DEF GoodTables
  <2>2. tables[0][d] = IF d = src THEN Upsert(b, DirectRoute(src, path)) ELSE b
    BY <1>3, <2>1
  <2>3. OnceUpserted(src, b, tables[0][d])
    BY <1>1, <2>2, DirectWorth DEF OnceUpserted
  <2>. QED  BY <1>0, <2>2, <2>3
<1>5. ASSUME NEW k \in 0 .. N, k < N, k \in S PROVE k + 1 \in S
  <2> DEFINE e == entries[k + 1].dest
             old == tables[k]
             new == tables[k + 1]
  <2>1. k + 1 \in 0 .. N /\ k + 1 \in 1 .. N /\ (k + 1) - 1 = k
    BY <1>0, <1>5
  <2>2. Learned(src, e, old, new)
    <3>1. new = Learn(n, src, path, tables[k], entries[k + 1])
      BY <1>3, <2>1
    <3>. QED  BY <1>0, <1>1, <2>1, <3>1, EntryLearned
  <2>3. old \in [Calls -> Seq(Route)] /\ e \in Calls
    BY <1>0, <1>3, <2>1 DEF GoodTables
  <2>4. OnceUpserted(src, b, old[d]) /\ (~Named(k) => old[d] = b)
    BY <1>5
  <2>5. Named(k) => Named(k + 1)
    BY <1>0, <2>1
  <2>6. e = d => Named(k + 1)
    BY <2>1
  <2>7. e = d => ~Named(k)
    <3>1. \A i \in 1 .. k : i \in DOMAIN entries /\ i # k + 1
      BY <1>0, <2>1
    <3>. QED  BY <1>0, <2>1, <3>1 DEF Tidy
  <2> HIDE DEF Named, e, old, new
  <2>8. CASE e # d
    <3>1. new[d] = old[d]
      BY <2>2, <2>3, <2>8 DEF Learned
    <3>2. OnceUpserted(src, b, new[d]) /\ (~Named(k + 1) => new[d] = b)
      BY <2>4, <2>5, <3>1
    <3>. QED  BY <2>1, <3>2 DEF new
  <2>9. CASE e = d
    <3>1. old[d] = b /\ Named(k + 1)
      BY <2>4, <2>6, <2>7, <2>9
    <3>2. new[d] = b \/ \E r \in Route : r.via = src /\ new[d] = Upsert(b, r)
      BY <2>2, <2>3, <2>9, <3>1 DEF Learned
    <3>3. OnceUpserted(src, b, new[d]) /\ (~Named(k + 1) => new[d] = b)
      BY <3>1, <3>2 DEF OnceUpserted
    <3>. QED  BY <2>1, <3>3 DEF new
  <2>. QED  BY <2>8, <2>9
<1>6. N \in S
  <2>1. N \in 0 .. N
    BY <1>0
  <2> HIDE DEF S
  <2>2. 0 .. N \subseteq S
    BY <1>0, <1>4, <1>5, UpTo
  <2>. QED  BY <2>1, <2>2
<1>. QED  BY <1>3, <1>6

\* Such a list keeps its routes or is full of better ones.
LEMMA UpsertedOnceKeepsOrFills ==
    ASSUME NEW src, NEW b \in Seq(Route), NEW c, OnceUpserted(src, b, c)
    PROVE  KeepsOrFills(b, c, src)
<1>1. CASE c = b
  BY <1>1 DEF KeepsOrFills
<1>2. CASE \E r \in Route : r.via = src /\ c = Upsert(b, r)
  BY <1>2, UpsertKeepsOrFills
<1>. QED  BY <1>1, <1>2 DEF OnceUpserted

\* What NoBetterDropped says of one route of one list.
Replaced(b, c, src, i) ==
    \/ b[i].via = src
    \/ \E j \in DOMAIN c : c[j] = b[i]
    \/ Cardinality({j \in DOMAIN c : c[j].quality >= b[i].quality}) = MaxRoutes

\* A full list whose routes are all as good has as many as a list holds.
LEMMA FilledByBetter ==
    ASSUME NEW b, NEW c \in Seq(Route), NEW src, KeepsOrFills(b, c, src), NEW i \in DOMAIN b
    PROVE  Replaced(b, c, src, i)
<1>1. ASSUME Len(c) = MaxRoutes, \A j \in DOMAIN c : c[j].quality >= b[i].quality
      PROVE  Cardinality({j \in DOMAIN c : c[j].quality >= b[i].quality}) = MaxRoutes
  <2>1. {j \in DOMAIN c : c[j].quality >= b[i].quality} = 1 .. MaxRoutes
    BY <1>1
  <2>2. Cardinality(1 .. MaxRoutes) = MaxRoutes
    BY BoundsAssumption, FS_Interval DEF BoundsAssumption
  <2>. QED  BY <2>1, <2>2
<1>. QED  BY <1>1 DEF KeepsOrFills, Replaced

\* What a router does with the tidy broadcasts it receives.
LEMMA TidyDropsNothingBetter ==
    ASSUME RouterInv, NEW src \in Calls, NEW entries \in Seq(Entry), Tidy(src, entries),
           NEW R, Received(src, entries, R),
           NEW n \in Routers, NEW d \in Calls, NEW i \in DOMAIN routes[n][d]
    PROVE  Replaced(routes[n][d], routes'[n][d], src, i)
<1>1. routes'[n] = routes[n] \/ routes'[n] = ProcessNodes(n, src, entries)
  BY DEF Received
<1>2. routes[n] \in GoodTables /\ ProcessNodes(n, src, entries) \in GoodTables
  BY ProcessIsGood DEF RouterInv
<1>3. OnceUpserted(src, routes[n][d], routes'[n][d])
  BY <1>1, <1>2, TidyUpsertsOnce DEF OnceUpserted
<1>4. routes[n][d] \in Seq(Route) /\ routes'[n][d] \in Seq(Route)
  BY <1>1, <1>2 DEF GoodTables
<1>. QED  BY <1>3, <1>4, UpsertedOnceKeepsOrFills, FilledByBetter

\* A broadcast that names each destination once pushes a route out of a list
\* only when it is full of routes that are at least as good (_upsert_route,
\* _process_nodes).
THEOREM NothingBetterDropped == RouterSpec => NoBetterDropped
<1> DEFINE Dropless ==
      \A src \in Calls : Broadcasts(src) /\ NamesOnce(src) =>
         \A n \in Routers, d \in Calls :
           \A i \in DOMAIN routes[n][d] :
             LET r == routes[n][d][i] IN
             \/ r.via = src
             \/ \E j \in DOMAIN routes'[n][d] : routes'[n][d][j] = r
             \/ Cardinality({j \in DOMAIN routes'[n][d] :
                    routes'[n][d][j].quality >= r.quality}) = MaxRoutes
<1>1. ASSUME RouterInv, NEW src \in Calls, Broadcasts(src), NamesOnce(src),
             NEW n \in Routers, NEW d \in Calls, NEW i \in DOMAIN routes[n][d]
      PROVE  Replaced(routes[n][d], routes'[n][d], src, i)
  <2>1. CASE src \in Routers /\ RouterBroadcasts(src)
    <3> DEFINE entries == IF src \in SelfOnly THEN <<>> ELSE Advertised(src)
    <3>1. <<>> \in Seq(Entry) /\ Tidy(src, <<>>)
      BY DEF Tidy
    <3>2. entries \in Seq(Entry) /\ Tidy(src, entries)
      BY <1>1, <2>1, <3>1, AdvertisedEntries DEF RouterInv, NamesOnce
    <3>3. PICK R \in SUBSET Hears[src] : Received(src, entries, R)
      BY <2>1 DEF RouterBroadcasts
    <3> HIDE DEF entries
    <3>. QED  BY <1>1, <3>2, <3>3, TidyDropsNothingBetter
  <2>2. CASE src \in Leaves /\ LeafBroadcasts(src)
    <3>1. PICK R \in SUBSET Hears[src], entries \in LeafLists[src] : Received(src, entries, R)
      BY <2>2 DEF LeafBroadcasts
    <3>2. Tidy(src, entries)
      BY <1>1, <2>2, <3>1 DEF NamesOnce, Leaves
    <3>3. entries \in Seq(Entry)
      BY <2>2, <3>1, CallsAssumption DEF CallsAssumption
    <3>. QED  BY <1>1, <3>1, <3>2, <3>3, TidyDropsNothingBetter
  <2>. QED  BY <1>1, <2>1, <2>2 DEF Broadcasts
<1>2. RouterInv => Dropless
  BY <1>1 DEF Replaced
<1> HIDE DEF Dropless
<1>3. RouterSpec => [][Dropless]_routerVars
  BY RouterStarts, RouterStep, <1>2, PTL DEF RouterSpec
<1>. QED  BY <1>3 DEF NoBetterDropped, Dropless

-----------------------------------------------------------------------------
\* Sets of routes: G[n][d] are those that router n may have to destination d.
\* Ageing, which changes nothing but the count, does not lead out of one.
Lasting(G) ==
    /\ G \in [Routers -> [Calls -> SUBSET Route]]
    /\ \A n \in Routers, d \in Calls : \A r \in G[n][d], q \in Route :
           q.via = r.via /\ q.quality = r.quality => q \in G[n][d]

\* What a table and what rows may hold.
TableIn(G, n, table) == \A d \in Calls : \A i \in DOMAIN table[d] : table[d][i] \in G[n][d]
RowsIn(G, n, rows) == \A d \in Calls : rows[d] \subseteq G[n][d]

RoutesIn(G) ==
    /\ \A n \in Routers : TableIn(G, n, routes[n])
    /\ \A n \in Routers : RowsIn(G, n, stored[n].rows)
    /\ \A n \in Routers, t \in Savers : \A x \in saving[n][t] : RowsIn(G, n, x.rows)

\* The routes that a broadcast of src gives to n are in G.
LearntRoute(n, src, entry) ==
    [via |-> src, nbr |-> entry.nbr,
     quality |-> EntryQuality(n, entry, PathQuality[n][src]), obs |-> ObsInit]
Admits(G, n, src, entries) ==
    /\ DirectRoute(src, PathQuality[n][src]) \in G[n][src]
    /\ \A k \in DOMAIN entries : LearntRoute(n, src, entries[k]) \in G[n][entries[k].dest]

\* The lists that src may broadcast.
Sends(src, entries) ==
    \/ src \in Routers /\ entries = IF src \in SelfOnly THEN <<>> ELSE Advertised(src)
    \/ src \in Leaves /\ entries \in LeafLists[src]

\* Ranked() invents nothing.
LEMMA RankedOnly ==
    ASSUME NEW s \in Seq(Route), NEW k \in DOMAIN Ranked(s)
    PROVE  \E i \in DOMAIN s : Ranked(s)[k] = s[i]
<1> DEFINE t == ByQuality(s)
           n == Len(s)
<1>0. n \in Nat /\ DOMAIN s = 1 .. n
  OBVIOUS
<1>1. PICK f \in [1 .. n -> 1 .. n] : t = [j \in 1 .. n |-> s[f[j]]]
  BY SortedByQuality
<1> HIDE DEF n, t
<1>2. t \in Seq(Route) /\ DOMAIN t = 1 .. n
  <2>1. \A j \in 1 .. n : s[f[j]] \in Route
    BY <1>0
  <2>. QED  BY <1>0, <1>1, <2>1
<1>3. Ranked(s) = FirstRoutes(t)
  BY DEF Ranked, t
<1>4. k \in 1 .. n /\ Ranked(s)[k] = t[k]
  BY <1>2, <1>3, FirstRoutesOf
<1>. QED  BY <1>0, <1>1, <1>4

\* Upsert() adds one route and no other.
LEMMA UpsertOnly ==
    ASSUME NEW b \in Seq(Route), NEW r \in Route, NEW k \in DOMAIN Upsert(b, r)
    PROVE  Upsert(b, r)[k] = r \/ \E i \in DOMAIN b : Upsert(b, r)[k] = b[i]
<1> DEFINE same == {i \in DOMAIN b : b[i].via = r.via}
           t == IF same = {} THEN Append(b, r)
                ELSE [i \in DOMAIN b |-> IF i \in same THEN r ELSE b[i]]
<1>1. t \in Seq(Route)
  <2>1. Append(b, r) \in Seq(Route)
    OBVIOUS
  <2>2. \A i \in DOMAIN b : (IF i \in same THEN r ELSE b[i]) \in Route
    OBVIOUS
  <2>. QED  BY <2>1, <2>2
<1>2. \A j \in DOMAIN t : t[j] = r \/ \E i \in DOMAIN b : t[j] = b[i]
  <2>1. CASE same = {}
    <3>1. t = Append(b, r)
      BY <2>1
    <3>2. \A j \in DOMAIN Append(b, r) :
              Append(b, r)[j] = r \/ \E i \in DOMAIN b : Append(b, r)[j] = b[i]
      OBVIOUS
    <3>. QED  BY <3>1, <3>2
  <2>2. CASE same # {}
    BY <2>2
  <2>. QED  BY <2>1, <2>2
<1>3. Upsert(b, r) = Ranked(t)
  BY DEF Upsert
<1> HIDE DEF t
<1>4. PICK j \in DOMAIN t : Ranked(t)[k] = t[j]
  BY <1>1, <1>3, RankedOnly
<1>. QED  BY <1>2, <1>3, <1>4

\* Upserting a route of G keeps a table in G.
LEMMA UpsertedIn ==
    ASSUME NEW G, Lasting(G), NEW n \in Routers, NEW table \in GoodTables,
           TableIn(G, n, table), NEW d \in Calls, NEW r \in G[n][d]
    PROVE  TableIn(G, n, [table EXCEPT ![d] = Upsert(@, r)])
<1> DEFINE new == [table EXCEPT ![d] = Upsert(@, r)]
<1>1. table \in [Calls -> Seq(Route)] /\ r \in Route
  BY DEF GoodTables, Lasting
<1>2. ASSUME NEW k \in DOMAIN Upsert(table[d], r) PROVE Upsert(table[d], r)[k] \in G[n][d]
  <2>1. table[d] \in Seq(Route)
    BY <1>1
  <2>2. Upsert(table[d], r)[k] = r \/ \E i \in DOMAIN table[d] : Upsert(table[d], r)[k] = table[d][i]
    BY <1>1, <2>1, UpsertOnly
  <2>. QED  BY <2>2 DEF TableIn
<1>3. \A e \in Calls : new[e] = IF e = d THEN Upsert(table[d], r) ELSE table[e]
  BY <1>1
<1> HIDE DEF new
<1>4. TableIn(G, n, new)
  BY <1>2, <1>3 DEF TableIn
<1>. QED  BY <1>4 DEF new

\* A broadcast that G admits keeps a table in G.
LEMMA ProcessedIn ==
    ASSUME NEW G, Lasting(G), NEW n \in Routers, NEW src \in Calls,
           routes[n] \in GoodTables, TableIn(G, n, routes[n]),
           NEW entries \in Seq(Entry), Admits(G, n, src, entries)
    PROVE  TableIn(G, n, ProcessNodes(n, src, entries))
<1> DEFINE N == Len(entries)
           path == PathQuality[n][src]
<1>0. /\ N \in Nat /\ DOMAIN entries = 1 .. N
      /\ \A k \in 1 .. N : entries[k].dest \in Calls
  <2>1. N \in Nat /\ DOMAIN entries = 1 .. N /\ \A k \in 1 .. N : entries[k] \in Entry
    OBVIOUS
  <2>2. \A e \in Entry : e.dest \in Calls
    BY DEF Entry
  <2>. QED  BY <2>1, <2>2
<1>1. PICK tables : Leads(tables, n, src, entries)
  BY ProcessLeads
<1>2. /\ tables \in [0 .. N -> GoodTables]
      /\ tables[0] = [routes[n] EXCEPT ![src] = Upsert(@, DirectRoute(src, path))]
      /\ \A k \in 1 .. N : tables[k] = Learn(n, src, path, tables[k - 1], entries[k])
      /\ ProcessNodes(n, src, entries) = tables[N]
  BY <1>1 DEF Leads
<1> HIDE DEF N
<1> DEFINE S == {k \in 0 .. N : TableIn(G, n, tables[k])}
<1>3. 0 \in S
  <2> DEFINE r == DirectRoute(src, path)
  <2>1. r \in G[n][src]
    BY DEF Admits
  <2>2. tables[0] = [routes[n] EXCEPT ![src] = Upsert(@, r)]
    BY <1>2
  <2> HIDE DEF r
  <2>3. TableIn(G, n, [routes[n] EXCEPT ![src] = Upsert(@, r)])
    BY <2>1, UpsertedIn
  <2>4. TableIn(G, n, tables[0])
    BY <2>2, <2>3
  <2>. QED  BY <1>0, <2>4
<1>4. ASSUME NEW k \in 0 .. N, k < N, k \in S PROVE k + 1 \in S
  <2>1. k + 1 \in 0 .. N /\ k + 1 \in 1 .. N /\ (k + 1) - 1 = k
    BY <1>0, <1>4
  <2> DEFINE e == entries[k + 1]
             r == LearntRoute(n, src, e)
  <2>2. tables[k + 1] = Learn(n, src, path, tables[k], e)
    BY <1>2, <2>1
  <2>3. e.dest \in Calls /\ r \in G[n][e.dest]
    BY <1>0, <2>1 DEF Admits
  <2>4. \/ tables[k + 1] = tables[k]
        \/ tables[k + 1] = [tables[k] EXCEPT ![e.dest] = Upsert(@, r)]
    BY <2>2 DEF Learn, LearntRoute
  <2>5. tables[k] \in GoodTables /\ TableIn(G, n, tables[k])
    BY <1>2, <1>4
  <2> DEFINE old == tables[k]
             d == e.dest
  <2> HIDE DEF e, r, d, old
  <2>6. TableIn(G, n, [old EXCEPT ![d] = Upsert(@, r)])
    BY <2>3, <2>5, UpsertedIn DEF d, old
  <2>7. TableIn(G, n, tables[k + 1])
    BY <2>4, <2>5, <2>6 DEF d, old
  <2>. QED  BY <2>1, <2>7
<1>5. N \in S
  <2>1. N \in 0 .. N
    BY <1>0
  <2> HIDE DEF S
  <2>2. 0 .. N \subseteq S
    BY <1>0, <1>3, <1>4, UpTo
  <2>. QED  BY <2>1, <2>2
<1>. QED  BY <1>2, <1>5

\* A scan changes neither neighbour nor quality.
LEMMA KeptOnly ==
    ASSUME NEW b \in Seq(Route), NEW k \in DOMAIN Kept(b)
    PROVE  \E i \in DOMAIN b : /\ Kept(b)[k].via = b[i].via
                               /\ Kept(b)[k].quality = b[i].quality
<1> DEFINE P == {i \in DOMAIN b : NotLast(b[i])}
           m == Cardinality(P)
           alive == Picked(b, P)
           older(r) == [r EXCEPT !.obs = IF @ = 0 THEN 0 ELSE @ - 1]
<1>1. P \in SUBSET (1 .. Len(b)) /\ P \in SUBSET Nat
  OBVIOUS
<1>2. IsFiniteSet(P)
  <2>1. IsFiniteSet(1 .. Len(b))
    BY FS_Interval
  <2> HIDE DEF P
  <2>. QED  BY <1>1, <2>1, FS_Subset
<1>3. PICK f \in [1 .. m -> P] :
          /\ alive = [j \in 1 .. m |-> b[f[j]]]
          /\ \A j, l \in 1 .. m : j < l => f[j] < f[l]
  <2> HIDE DEF P
  <2>. QED  BY <1>1, <1>2, PickedInOrder
<1>4. Kept(b) = [i \in DOMAIN alive |-> older(alive[i])]
  BY DEF Kept
<1> HIDE DEF m, alive
<1>5. k \in 1 .. m /\ Kept(b)[k] = older(b[f[k]])
  BY <1>3, <1>4
<1>6. f[k] \in DOMAIN b /\ b[f[k]] \in Route
  BY <1>5
<1>7. \A r \in Route : older(r).via = r.via /\ older(r).quality = r.quality
  BY DEF Route
<1> HIDE DEF older
<1>. QED  BY <1>5, <1>6, <1>7

\* A scan keeps a table in G.
LEMMA DecayedIn ==
    ASSUME NEW G, Lasting(G), NEW n \in Routers, NEW table \in GoodTables, TableIn(G, n, table)
    PROVE  TableIn(G, n, Decayed(table))
<1>. SUFFICES ASSUME NEW d \in Calls, NEW k \in DOMAIN Kept(table[d])
              PROVE  Kept(table[d])[k] \in G[n][d]
  BY DEF TableIn, Decayed
<1>1. table[d] \in Seq(Route) /\ GoodBucket(d, table[d])
  BY DEF GoodTables
<1>2. Kept(table[d])[k] \in Route
  <2>1. Kept(table[d]) \in Seq(Route)
    BY <1>1, KeptIsGood DEF GoodBucket
  <2>. QED  BY <2>1
<1>3. PICK i \in DOMAIN table[d] : /\ Kept(table[d])[k].via = table[d][i].via
                                   /\ Kept(table[d])[k].quality = table[d][i].quality
  BY <1>1, KeptOnly
<1>4. table[d][i] \in G[n][d]
  BY DEF TableIn
<1>. QED  BY <1>2, <1>3, <1>4 DEF Lasting

\* The rows of a table in G are in G.
LEMMA SnapshotIn ==
    ASSUME NEW G, NEW n \in Routers, NEW table \in GoodTables, TableIn(G, n, table)
    PROVE  RowsIn(G, n, [d \in Calls |-> BestRows(table[d])])
<1>. SUFFICES ASSUME NEW d \in Calls PROVE BestRows(table[d]) \subseteq G[n][d]
  BY DEF RowsIn
<1>1. GoodBucket(d, table[d])
  BY DEF GoodTables
<1>2. \A r \in BestRows(table[d]) : \E i \in DOMAIN table[d] : r = table[d][i]
  BY <1>1, BestRowsAreGood
<1>. QED  BY <1>2 DEF TableIn

\* What is seeded from rows in G is in G.
LEMMA SeededIn ==
    ASSUME NEW G, NEW n \in Routers, NEW x \in GoodSnapshots, RowsIn(G, n, x.rows)
    PROVE  TableIn(G, n, Seeded(x.rows))
<1>. SUFFICES ASSUME NEW d \in Calls, NEW k \in DOMAIN Ranked(SetToSeq(x.rows[d]))
              PROVE  Ranked(SetToSeq(x.rows[d]))[k] \in G[n][d]
  BY DEF TableIn, Seeded
<1> DEFINE s == SetToSeq(x.rows[d])
<1>1. x.rows[d] \subseteq Route /\ IsFiniteSet(x.rows[d])
  BY DEF GoodSnapshots, GoodRows
<1>2. s \in Seq(x.rows[d])
  BY <1>1, SetInSequence
<1> HIDE DEF s
<1>3. s \in Seq(Route)
  BY <1>1, <1>2
<1>4. PICK i \in DOMAIN s : Ranked(s)[k] = s[i]
  BY <1>3, RankedOnly DEF s
<1>5. s[i] \in x.rows[d]
  BY <1>2
<1>. QED  BY <1>4, <1>5 DEF RowsIn, s

-----------------------------------------------------------------------------
\* If G admits what is sent, broadcasts keep the routes in G.
LEMMA BroadcastIn ==
    ASSUME NEW G, Lasting(G), RouterInv, RoutesIn(G), NEW src \in Calls, Broadcasts(src),
           \A n \in Routers, entries \in Seq(Entry) :
               Sends(src, entries) => Admits(G, n, src, entries)
    PROVE  RoutesIn(G)'
<1>1. PICK entries \in Seq(Entry), R \in SUBSET Hears[src] :
          Sends(src, entries) /\ Received(src, entries, R)
  <2>1. CASE src \in Routers /\ RouterBroadcasts(src)
    <3> DEFINE e == IF src \in SelfOnly THEN <<>> ELSE Advertised(src)
    <3>1. <<>> \in Seq(Entry) /\ Advertised(src) \in Seq(Entry)
      BY <2>1, AdvertisedEntries DEF RouterInv
    <3>2. e \in Seq(Entry) /\ Sends(src, e)
      BY <2>1, <3>1 DEF Sends
    <3>3. PICK R \in SUBSET Hears[src] : Received(src, e, R)
      BY <2>1 DEF RouterBroadcasts
    <3> HIDE DEF e
    <3>. QED  BY <3>2, <3>3
  <2>2. CASE src \in Leaves /\ LeafBroadcasts(src)
    <3>1. PICK R \in SUBSET Hears[src], e \in LeafLists[src] : Received(src, e, R)
      BY <2>2 DEF LeafBroadcasts
    <3>2. e \in Seq(Entry) /\ Sends(src, e)
      BY <2>2, <3>1, CallsAssumption DEF CallsAssumption, Sends
    <3>. QED  BY <3>1, <3>2
  <2>. QED  BY <2>1, <2>2 DEF Broadcasts
<1>2. UNCHANGED <<saving, stored>>
  BY <1>1 DEF Received
<1>3. ASSUME NEW n \in Routers PROVE TableIn(G, n, routes'[n])
  <2>1. routes[n] \in GoodTables /\ TableIn(G, n, routes[n])
    BY DEF RouterInv, RoutesIn
  <2>2. routes'[n] = routes[n] \/ routes'[n] = ProcessNodes(n, src, entries)
    BY <1>1 DEF Received
  <2>3. TableIn(G, n, ProcessNodes(n, src, entries))
    BY <1>1, <2>1, ProcessedIn
  <2>. QED  BY <2>1, <2>2, <2>3
<1>4. /\ \A n \in Routers : RowsIn(G, n, stored'[n].rows)
      /\ \A n \in Routers, t \in Savers : \A x \in saving'[n][t] : RowsIn(G, n, x.rows)
  BY <1>2 DEF RoutesIn
<1>. QED  BY <1>3, <1>4 DEF RoutesIn, TableIn, RowsIn

\* The same of a snapshot on its way.
LEMMA SavingIn ==
    ASSUME NEW G, SavingOK, RoutesIn(G), NEW n \in Routers, NEW t \in Savers, NEW v,
           \A x \in v : RowsIn(G, n, x.rows), saving' = [saving EXCEPT ![n][t] = v]
    PROVE  \A m \in Routers, u \in Savers : \A x \in saving'[m][u] : RowsIn(G, m, x.rows)
<1>. SUFFICES ASSUME NEW m \in Routers, NEW u \in Savers, NEW x \in saving'[m][u]
              PROVE  RowsIn(G, m, x.rows)
  OBVIOUS
<1>1. saving'[m][u] = IF m = n /\ u = t THEN v ELSE saving[m][u]
  BY DEF SavingOK
<1>. QED  BY <1>1 DEF RoutesIn

\* If G admits what is sent, every step keeps the routes in G.
LEMMA StepIn ==
    ASSUME NEW G, Lasting(G), RouterInv, RoutesIn(G), [RouterNext]_routerVars,
           \A n \in Routers, src \in Calls, entries \in Seq(Entry) :
               Sends(src, entries) => Admits(G, n, src, entries)
    PROVE  RoutesIn(G)'
<1> DEFINE R == \A n \in Routers : TableIn(G, n, routes'[n])
           D == \A n \in Routers : RowsIn(G, n, stored'[n].rows)
           S == \A n \in Routers, t \in Savers : \A x \in saving'[n][t] : RowsIn(G, n, x.rows)
<1>0. R /\ D /\ S => RoutesIn(G)'
  BY DEF RoutesIn, TableIn, RowsIn
<1>1. ASSUME NEW c \in Calls, Broadcasts(c) PROVE RoutesIn(G)'
  BY <1>1, BroadcastIn
<1>2. ASSUME UNCHANGED <<routes, saving, stored>> PROVE RoutesIn(G)'
  BY <1>0, <1>2 DEF RoutesIn
<1>3. ASSUME NEW n \in Routers, NEW c \in Crosslinkable[n],
             \/ NoteCrosslinkUp(n, c) \/ NoteCrosslinkDown(n, c)
             \/ NoteHeardDirect(n, c) \/ HeardExpires(n, c)
      PROVE  RoutesIn(G)'
  BY <1>2, <1>3 DEF NoteCrosslinkUp, NoteCrosslinkDown, NoteHeardDirect, HeardExpires
<1>4. ASSUME NEW n \in Routers, NEW t \in Savers, SaveEnds(n, t) \/ SaveFails(n, t)
      PROVE  RoutesIn(G)'
  <2>1. saving' = [saving EXCEPT ![n][t] = {}] /\ UNCHANGED routes
    BY <1>4 DEF SaveEnds, SaveFails
  <2>2. S
    <3> DEFINE v == {}
    <3>1. \A x \in v : RowsIn(G, n, x.rows)
      OBVIOUS
    <3>2. saving' = [saving EXCEPT ![n][t] = v] /\ SavingOK
      BY <2>1 DEF RouterInv
    <3> HIDE DEF v
    <3>. QED  BY <3>1, <3>2, SavingIn
  <2>3. D
    <3>1. CASE SaveEnds(n, t)
      <4>1. PICK x \in saving[n][t] : stored' = [stored EXCEPT ![n] = x]
        BY <3>1 DEF SaveEnds
      <4>2. RowsIn(G, n, x.rows)
        BY DEF RoutesIn
      <4>3. \A m \in Routers : stored'[m] = IF m = n THEN x ELSE stored[m]
        BY <4>1 DEF RouterInv
      <4>. QED  BY <4>2, <4>3 DEF RoutesIn
    <3>2. CASE SaveFails(n, t)
      BY <3>2 DEF SaveFails, RoutesIn
    <3>. QED  BY <1>4, <3>1, <3>2
  <2>4. R
    BY <2>1 DEF RoutesIn
  <2>. QED  BY <1>0, <2>2, <2>3, <2>4
<1>5. ASSUME NEW n \in Routers, Decay(n) PROVE RoutesIn(G)'
  <2>1. /\ routes' = [routes EXCEPT ![n] = Decayed(@)]
        /\ saving' = [saving EXCEPT ![n]["decay"] = IF n \in Stores THEN {Snapshot(n)'} ELSE {}]
        /\ UNCHANGED stored
    BY <1>5 DEF Decay
  <2>2. routes[n] \in GoodTables /\ TableIn(G, n, routes[n])
    BY DEF RouterInv, RoutesIn
  <2>3. routes'[n] = Decayed(routes[n]) /\ routes'[n] \in GoodTables
    BY <2>1, <2>2, TableDecayed DEF RouterInv
  <2>4. TableIn(G, n, routes'[n])
    BY <2>2, <2>3, DecayedIn
  <2>5. R
    <3>1. \A m \in Routers \ {n} : routes'[m] = routes[m]
      BY <2>1 DEF RouterInv
    <3>. QED  BY <2>4, <3>1 DEF RoutesIn
  <2>6. Snapshot(n)'.rows = [d \in Calls |-> BestRows(routes'[n][d])]
    BY DEF Snapshot
  <2>7. RowsIn(G, n, Snapshot(n)'.rows)
    BY <2>3, <2>4, <2>6, SnapshotIn
  <2>8. S
    <3> DEFINE v == IF n \in Stores THEN {Snapshot(n)'} ELSE {}
    <3>1. \A x \in v : RowsIn(G, n, x.rows)
      BY <2>7
    <3>2. saving' = [saving EXCEPT ![n]["decay"] = v] /\ "decay" \in Savers /\ SavingOK
      BY <2>1 DEF Savers, RouterInv
    <3> HIDE DEF v
    <3>. QED  BY <3>1, <3>2, SavingIn
  <2>9. D
    BY <2>1 DEF RoutesIn
  <2>. QED  BY <1>0, <2>5, <2>8, <2>9
<1>6. ASSUME NEW n \in Routers, SaveBegins(n) PROVE RoutesIn(G)'
  <2>1. /\ saving' = [saving EXCEPT ![n]["frame"] = {Snapshot(n)}]
        /\ UNCHANGED <<routes, stored>>
    BY <1>6 DEF SaveBegins
  <2>2. RowsIn(G, n, Snapshot(n).rows)
    <3>1. routes[n] \in GoodTables /\ TableIn(G, n, routes[n])
      BY DEF RouterInv, RoutesIn
    <3>. QED  BY <3>1, SnapshotIn DEF Snapshot
  <2>3. S
    <3> DEFINE v == {Snapshot(n)}
    <3>1. \A x \in v : RowsIn(G, n, x.rows)
      BY <2>2
    <3>2. saving' = [saving EXCEPT ![n]["frame"] = v] /\ "frame" \in Savers /\ SavingOK
      BY <2>1 DEF Savers, RouterInv
    <3> HIDE DEF v
    <3>. QED  BY <3>1, <3>2, SavingIn
  <2>4. R /\ D
    BY <2>1 DEF RoutesIn
  <2>. QED  BY <1>0, <2>3, <2>4
<1>7. ASSUME NEW n \in Routers, Restart(n) PROVE RoutesIn(G)'
  <2>1. PICK x \in {stored[n], EmptySnapshot} : routes' = [routes EXCEPT ![n] = Seeded(x.rows)]
    BY <1>7 DEF Restart
  <2>2. saving' = [saving EXCEPT ![n] = [t \in Savers |-> {}]] /\ UNCHANGED stored
    BY <1>7 DEF Restart
  <2>3. x \in GoodSnapshots /\ RowsIn(G, n, x.rows)
    <3>1. x \in GoodSnapshots
      BY <2>1, EmptyIsGood DEF RouterInv
    <3>2. RowsIn(G, n, EmptySnapshot.rows)
      BY DEF EmptySnapshot, RowsIn
    <3>. QED  BY <3>1, <3>2 DEF RoutesIn
  <2>4. TableIn(G, n, Seeded(x.rows))
    BY <2>3, SeededIn
  <2>5. R
    <3>1. \A m \in Routers : routes'[m] = IF m = n THEN Seeded(x.rows) ELSE routes[m]
      BY <2>1 DEF RouterInv
    <3>. QED  BY <2>4, <3>1 DEF RoutesIn
  <2>6. S
    <3>1. \A m \in Routers, t \in Savers : saving'[m][t] = IF m = n THEN {} ELSE saving[m][t]
      BY <2>2 DEF RouterInv, SavingOK
    <3>. QED  BY <3>1 DEF RoutesIn
  <2>7. D
    BY <2>2 DEF RoutesIn
  <2>. QED  BY <1>0, <2>5, <2>6, <2>7
<1>8. CASE UNCHANGED routerVars
  BY <1>2, <1>8 DEF routerVars, mem
<1>. QED  BY <1>1, <1>3, <1>4, <1>5, <1>6, <1>7, <1>8 DEF RouterNext

\* There are no routes at first.
LEMMA StartsIn ==
    ASSUME NEW G, RouterInit
    PROVE  RoutesIn(G)
BY DEF RouterInit, RoutesIn, TableIn, RowsIn, NoRoutes, EmptySnapshot

-----------------------------------------------------------------------------
\* The routes that are no better than their link.
ByLink == [n \in Routers |-> [d \in Calls |->
              {r \in Route : r.quality <= PathQuality[n][r.via]}]]

\* Ageing leads to no better quality.
LEMMA ByLinkLasts == Lasting(ByLink)
<1>1. ByLink \in [Routers -> [Calls -> SUBSET Route]]
  BY DEF ByLink
<1>2. \A n \in Routers, d \in Calls : \A r \in ByLink[n][d], q \in Route :
          q.via = r.via /\ q.quality = r.quality => q \in ByLink[n][d]
  BY DEF ByLink
<1>. QED  BY <1>1, <1>2 DEF Lasting

\* A composed quality is at most that of the path.
LEMMA ComposedIsLess ==
    ASSUME NEW a \in 0 .. 255, NEW p \in 0 .. 255
    PROVE  RouteQuality(a, p) <= p
<1>1. a \in Nat /\ p \in Nat /\ a <= 255
  OBVIOUS
<1>2. a * p \in Nat /\ a * p <= 255 * p
  BY <1>1
<1> DEFINE x == a * p
<1>3. x \in Nat /\ x <= 255 * p
  BY <1>2
<1> HIDE DEF x
<1>4. (x + 128) \div 256 <= p
  BY <1>1, <1>3
<1>. QED  BY <1>4 DEF x, RouteQuality

\* No broadcast gives a route that is better than its link.
LEMMA ByLinkAdmits ==
    ASSUME NEW n \in Routers, NEW src \in Calls, NEW entries \in Seq(Entry)
    PROVE  Admits(ByLink, n, src, entries)
<1> DEFINE path == PathQuality[n][src]
<1>1. path \in 0 .. 255 /\ ObsInit \in 0 .. ObsInit
  <2>1. path \in 0 .. 255
    BY CallsAssumption DEF CallsAssumption
  <2>2. ObsInit \in 0 .. ObsInit
    BY BoundsAssumption DEF BoundsAssumption
  <2>. QED  BY <2>1, <2>2
<1>0. 0 \in 0 .. 255 /\ 0 <= path /\ path <= path
  <2>1. \A p \in 0 .. 255 : 0 <= p /\ p <= p
    OBVIOUS
  <2> HIDE DEF path
  <2>. QED  BY <1>1, <2>1
<1>2. DirectRoute(src, path) \in ByLink[n][src]
  <2> DEFINE r == DirectRoute(src, path)
  <2>1. r \in Route
    BY <1>1, DirectWorth
  <2>2. r.quality = PathQuality[n][src] /\ r.via = src /\ r.quality <= PathQuality[n][src]
    BY <1>0 DEF DirectRoute
  <2> HIDE DEF r
  <2>3. r \in ByLink[n][src]
    BY <2>1, <2>2 DEF ByLink
  <2>. QED  BY <2>3 DEF r
<1>3. ASSUME NEW k \in DOMAIN entries
      PROVE  LearntRoute(n, src, entries[k]) \in ByLink[n][entries[k].dest]
  <2> DEFINE e == entries[k]
             q == EntryQuality(n, e, path)
             r == LearntRoute(n, src, e)
  <2>1. e \in Entry
    OBVIOUS
  <2>2. e.dest \in Calls /\ e.nbr \in Calls /\ e.quality \in 0 .. 255
    BY <2>1 DEF Entry
  <2>3. q \in 0 .. 255 /\ q <= path
    <3>1. RouteQuality(e.quality, path) \in 0 .. 255 /\ RouteQuality(e.quality, path) <= path
      BY <1>1, <2>2, ComposedQuality, ComposedIsLess
    <3>2. q = 0 \/ q = RouteQuality(e.quality, path)
      BY DEF EntryQuality
    <3> HIDE DEF q, path
    <3>. QED  BY <1>0, <3>1, <3>2
  <2>4. r = [via |-> src, nbr |-> e.nbr, quality |-> q, obs |-> ObsInit]
    BY DEF LearntRoute
  <2> HIDE DEF q, e, r
  <2>5. r \in Route
    BY <1>1, <2>2, <2>3, <2>4 DEF Route
  <2>6. r.via = src /\ r.quality = q
    BY <2>4
  <2>7. r \in ByLink[n][e.dest]
    BY <2>2, <2>3, <2>5, <2>6 DEF ByLink
  <2>. QED  BY <2>7 DEF e, r
<1>. QED  BY <1>2, <1>3 DEF Admits

\* No route is better than the link of its first hop, however long routers tell
\* each other of it and whatever they restore (_route_quality, _process_nodes).
THEOREM NoRouteBeatsItsLink == RouterSpec => []NoBetterThanLink
<1>1. RouterInit => RouterInv /\ RoutesIn(ByLink)
  BY RouterStarts, StartsIn
<1>2. RouterInv /\ RoutesIn(ByLink) /\ [RouterNext]_routerVars
          => RouterInv' /\ RoutesIn(ByLink)'
  BY RouterStep, StepIn, ByLinkLasts, ByLinkAdmits
<1>3. RouterInv /\ RoutesIn(ByLink) => NoBetterThanLink
  BY DEF RoutesIn, TableIn, ByLink, NoBetterThanLink
<1>. QED  BY <1>1, <1>2, <1>3, PTL DEF RouterSpec

-----------------------------------------------------------------------------
\* The routes that, if direct, have the quality of their path.
Verbatim == [n \in Routers |-> [d \in Calls |->
                {r \in Route : r.via = d => r.quality = PathQuality[n][d]}]]

\* Ageing leaves the quality of a direct route alone.
LEMMA VerbatimLasts == Lasting(Verbatim)
<1>1. Verbatim \in [Routers -> [Calls -> SUBSET Route]]
  BY DEF Verbatim
<1>2. \A n \in Routers, d \in Calls : \A r \in Verbatim[n][d], q \in Route :
          q.via = r.via /\ q.quality = r.quality => q \in Verbatim[n][d]
  BY DEF Verbatim
<1>. QED  BY <1>1, <1>2 DEF Lasting

\* A broadcast that does not name its source gives direct routes verbatim.
LEMMA VerbatimAdmits ==
    ASSUME NEW n \in Routers, NEW src \in Calls, NEW entries \in Seq(Entry),
           \A k \in DOMAIN entries : entries[k].dest # src
    PROVE  Admits(Verbatim, n, src, entries)
<1> DEFINE path == PathQuality[n][src]
<1>1. path \in 0 .. 255 /\ ObsInit \in 0 .. ObsInit
  <2>1. path \in 0 .. 255
    BY CallsAssumption DEF CallsAssumption
  <2>2. ObsInit \in 0 .. ObsInit
    BY BoundsAssumption DEF BoundsAssumption
  <2>. QED  BY <2>1, <2>2
<1>2. DirectRoute(src, path) \in Verbatim[n][src]
  <2>1. DirectRoute(src, path) \in Route
    BY <1>1, DirectWorth
  <2>2. DirectRoute(src, path).quality = path /\ DirectRoute(src, path).via = src
    BY DEF DirectRoute
  <2>. QED  BY <1>1, <2>1, <2>2 DEF Verbatim
<1>3. ASSUME NEW k \in DOMAIN entries
      PROVE  LearntRoute(n, src, entries[k]) \in Verbatim[n][entries[k].dest]
  <2> DEFINE e == entries[k]
             q == EntryQuality(n, e, path)
             r == LearntRoute(n, src, e)
  <2>1. e \in Entry /\ e.dest # src
    OBVIOUS
  <2>2. e.dest \in Calls /\ e.nbr \in Calls /\ e.quality \in 0 .. 255
    BY <2>1 DEF Entry
  <2>3. q \in 0 .. 255
    <3>1. RouteQuality(e.quality, path) \in 0 .. 255
      BY <1>1, <2>2, ComposedQuality
    <3>. QED  BY <3>1 DEF EntryQuality
  <2>4. r = [via |-> src, nbr |-> e.nbr, quality |-> q, obs |-> ObsInit]
    BY DEF LearntRoute
  <2> HIDE DEF q, e, r
  <2>5. r \in Route
    BY <1>1, <2>2, <2>3, <2>4 DEF Route
  <2>6. r.via = src
    BY <2>4
  <2>7. r \in Verbatim[n][e.dest]
    BY <2>1, <2>2, <2>5, <2>6 DEF Verbatim
  <2>. QED  BY <2>7 DEF e, r
<1>. QED  BY <1>2, <1>3 DEF Admits

\* If every router is a polite client and no leaf names itself in its own
\* broadcast, a direct route has the path quality verbatim, as NETROM.md has it
\* (_process_nodes).
THEOREM PoliteDirectVerbatim ==
    ASSUME SelfOnly = Routers,
           \A l \in Leaves : \A entries \in LeafLists[l] :
               \A k \in DOMAIN entries : entries[k].dest # l
    PROVE  RouterSpec => []DirectVerbatim
<1>1. RouterInit => RouterInv /\ RoutesIn(Verbatim)
  BY RouterStarts, StartsIn
<1>2. \A n \in Routers, src \in Calls, entries \in Seq(Entry) :
          Sends(src, entries) => Admits(Verbatim, n, src, entries)
  <2>. SUFFICES ASSUME NEW n \in Routers, NEW src \in Calls, NEW entries \in Seq(Entry),
                       Sends(src, entries)
                PROVE  \A k \in DOMAIN entries : entries[k].dest # src
    BY VerbatimAdmits
  <2>1. CASE entries = <<>>
    BY <2>1
  <2>2. CASE src \in Leaves /\ entries \in LeafLists[src]
    BY <2>2
  <2>. QED  BY <2>1, <2>2 DEF Sends
<1>3. RouterInv /\ RoutesIn(Verbatim) /\ [RouterNext]_routerVars
          => RouterInv' /\ RoutesIn(Verbatim)'
  BY <1>2, RouterStep, StepIn, VerbatimLasts
<1>4. RouterInv /\ RoutesIn(Verbatim) => DirectVerbatim
  BY DEF RoutesIn, TableIn, Verbatim, DirectVerbatim
<1>. QED  BY <1>1, <1>3, <1>4, PTL DEF RouterSpec
=============================================================================
