--------------------- MODULE NetromCircuitManagerProofs ---------------------
(***************************************************************************)
(* Theorems about NetromCircuitManager, for every set of circuits, every   *)
(* table size, every id width and every choice of environment events.      *)
(***************************************************************************)
EXTENDS NetromCircuitManager, WellFoundedInduction, FiniteSetTheorems, TLAPS

\* The lowest free index exists, and is free: a set of naturals that is not
\* empty has a least element.
LEMMA LowestFree ==
    ASSUME usedIdx \subseteq LocalIdxs, ~TableFull
    PROVE  LowestFreeIdx \in LocalIdxs \ usedIdx
<1> DEFINE Free == LocalIdxs \ usedIdx
           R == OpToRel(<, Nat)
<1>1. LocalIdxs \subseteq Nat
  BY ManagerAssumption DEF LocalIdxs
<1>2. Free \subseteq Nat /\ Free # {}
  BY <1>1 DEF TableFull
<1>3. PICK i \in Free : \A j \in Free : <<j, i>> \notin R
  <2>1. IsWellFoundedOn(R, Nat)
    BY NatLessThanWellFounded
  <2> HIDE DEF Free, R
  <2> QED
    BY <1>2, <2>1, WFMin
<1>4. \A j \in Free : i <= j
  <2> SUFFICES ASSUME NEW j \in Free PROVE i <= j
    OBVIOUS
  <2>1. i \in Nat /\ j \in Nat
    BY <1>2
  <2>2. j < i => <<j, i>> \in R
    BY <2>1 DEF OpToRel
  <2> HIDE DEF Free, R
  <2> QED
    BY <1>3, <2>1, <2>2
<1> QED
  BY <1>4 DEF LowestFreeIdx

\* Cancelling tasks keeps the users well-typed.
LEMMA CancelTasksType ==
    ASSUME NEW u \in [Circuits -> UserStates], NEW S
    PROVE  CancelTasks(u, S) \in [Circuits -> UserStates]
BY DEF CancelTasks, UserStates

\* What _remove_circuit leaves behind has the right types.
LEMMA RemoveCircuitType ==
    ASSUME TypeOK, NEW c \in Circuits, NEW u \in [Circuits -> UserStates],
           RemoveCircuit(c, u)
    PROVE  /\ byLocal' \subseteq Circuits
           /\ byRemote' \subseteq Circuits
           /\ usedIdx' \subseteq LocalIdxs
           /\ user' \in [Circuits -> UserStates]
           /\ userTasks' \subseteq Circuits
           /\ idleArmed' \in BOOLEAN
<1>1. user' \in [Circuits -> UserStates]
  BY CancelTasksType DEF RemoveCircuit, FreeIdx, DropRemoteKey, ArmIdleTimer
<1> QED
  BY <1>1, ManagerAssumption DEF TypeOK, RemoveCircuit, FreeIdx, DropRemoteKey, ArmIdleTimer

\* So has what an allocation leaves behind.
LEMMA AllocateType ==
    ASSUME TypeOK, NEW c \in Circuits, Allocate(c)
    PROVE  /\ idleArmed' \in BOOLEAN
           /\ usedIdx' \subseteq LocalIdxs
           /\ nextId' \in LocalIds
           /\ local' \in [Circuits -> LocalIdxs \X LocalIds]
           /\ byLocal' \subseteq Circuits
<1>1. LowestFreeIdx \in LocalIdxs
  BY LowestFree DEF TypeOK, Allocate
<1>2. NextLocalId \in LocalIds
  BY ManagerAssumption DEF TypeOK, NextLocalId, LocalIds
<1> QED
  BY <1>1, <1>2 DEF TypeOK, Allocate

\* A DISC REQ of ours keeps the types of what it changes.
LEMMA InitiateDisconnectType ==
    ASSUME TypeOK, NEW c \in Circuits, InitiateDisconnect(c)
    PROVE  /\ state' \in [Circuits -> States]
           /\ guarded' \subseteq Circuits
           /\ discOwed' \subseteq Circuits
<1>1. CASE state[c] \in {"DISCONNECTING", "CLOSED"}
  BY <1>1 DEF InitiateDisconnect, TypeOK
<1>2. CASE state[c] \notin {"DISCONNECTING", "CLOSED"}
  <2>1. state' = [state EXCEPT ![c] = "DISCONNECTING"] /\ guarded' = ArmGuard(c)
    BY <1>2 DEF InitiateDisconnect
  <2>2. state' \in [Circuits -> States] /\ guarded' \subseteq Circuits
    BY <2>1 DEF ArmGuard, States, TypeOK
  <2>3. discOwed' \subseteq Circuits
    BY <1>2 DEF InitiateDisconnect, TypeOK
  <2> QED
    BY <2>2, <2>3
<1> QED
  BY <1>1, <1>2

\* A new manager is well-typed.
LEMMA TypeInit == Init => TypeOK
<1>1. <<0, 0>> \in LocalIdxs \X LocalIds
  BY ManagerAssumption DEF LocalIdxs, LocalIds
<1>2. 0 \in LocalIds
  BY ManagerAssumption DEF LocalIds
<1>3. Init => state \in [Circuits -> States] /\ user \in [Circuits -> UserStates]
  BY DEF Init, States, UserStates
<1> QED
  BY <1>1, <1>2, <1>3, ManagerAssumption DEF Init, TypeOK

\* Every step keeps the types.
LEMMA TypeStep == TypeOK /\ [Next]_vars => TypeOK'
<1> SUFFICES ASSUME TypeOK, [Next]_vars
             PROVE  TypeOK'
  OBVIOUS
<1> USE DEF TypeOK, tableVars, circuitVars, linkVars
<1>1. CASE UNCHANGED vars
  BY <1>1 DEF vars
<1>2. ASSUME NEW c \in Circuits, Frame(c) PROVE TypeOK'
  <2>1. CASE RepeatedConnectRequest(c)
    BY <2>1 DEF RepeatedConnectRequest, States
  <2>2. ASSUME NEW key \in RemoteKeys, ConnectRequest(c, key) PROVE TypeOK'
    <3>1. Allocate(c)
      BY <2>2 DEF ConnectRequest
    <3> QED
      BY <2>2, <3>1, AllocateType DEF ConnectRequest, States, UserStates
  <2>3. CASE DisconnectRequest(c)
    <3>1. RemoveCircuit(c, user)
      BY <2>3 DEF DisconnectRequest
    <3> QED
      BY <2>3, <3>1, RemoveCircuitType DEF DisconnectRequest, SetClosed, States
  <2>4. CASE DisconnectAck(c)
    <3>1. RemoveCircuit(c, user)
      BY <2>4 DEF DisconnectAck
    <3> QED
      BY <2>4, <3>1, RemoveCircuitType DEF DisconnectAck, SetClosed, States
  <2>5. CASE ConnectRefused(c)
    BY <2>5 DEF ConnectRefused, SetClosed, States
  <2>6. ASSUME NEW key \in RemoteKeys, ConnectAccepted(c, key) PROVE TypeOK'
    BY <2>6 DEF ConnectAccepted, States
  <2> QED
    BY <1>2, <2>1, <2>2, <2>3, <2>4, <2>5, <2>6 DEF Frame
<1>3. ASSUME NEW c \in Circuits, Session(c) PROVE TypeOK'
  <2>1. CASE SessionStarts(c)
    BY <2>1 DEF SessionStarts, UserStates
  <2>2. CASE WriterClose(c)
    BY <2>2, InitiateDisconnectType DEF WriterClose
  <2>3. CASE SessionEnds(c)
    <3>1. /\ state' \in [Circuits -> States]
          /\ guarded' \subseteq Circuits
          /\ discOwed' \subseteq Circuits
      BY <2>3, InitiateDisconnectType DEF SessionEnds
    <3>2. user' \in [Circuits -> UserStates] /\ userTasks' \subseteq Circuits
      BY <2>3 DEF SessionEnds, UserStates
    <3> QED
      BY <2>3, <3>1, <3>2 DEF SessionEnds
  <2> QED
    BY <1>3, <2>1, <2>2, <2>3 DEF Session
<1>4. ASSUME NEW c \in Circuits, Originator(c) PROVE TypeOK'
  <2>1. CASE Originate(c)
    <3>1. Allocate(c)
      BY <2>1 DEF Originate
    <3> QED
      BY <2>1, <3>1, AllocateType DEF Originate, States, UserStates
  <2>2. CASE OriginateAborted(c) \/ OriginateTimesOut(c)
    <3>1. [user EXCEPT ![c] = "failed"] \in [Circuits -> UserStates]
      BY DEF UserStates
    <3>2. RemoveCircuit(c, [user EXCEPT ![c] = "failed"])
      BY <2>2 DEF OriginateAborted, OriginateTimesOut
    <3> QED
      BY <2>2, <3>1, <3>2, RemoveCircuitType DEF OriginateAborted, OriginateTimesOut
  <2>3. CASE OriginateReturns(c) \/ OriginateCancelled(c)
    BY <2>3 DEF OriginateReturns, OriginateCancelled, UserStates
  <2>4. CASE ReapNowIfIdle(c)
    BY <2>4 DEF ReapNowIfIdle, UserStates
  <2>5. CASE OwnerCloses(c)
    <3>1. /\ state' \in [Circuits -> States]
          /\ guarded' \subseteq Circuits
          /\ discOwed' \subseteq Circuits
      BY <2>5, InitiateDisconnectType DEF OwnerCloses
    <3> QED
      BY <2>5, <3>1 DEF OwnerCloses, UserStates
  <2> QED
    BY <1>4, <2>1, <2>2, <2>3, <2>4, <2>5 DEF Originator
<1>5. ASSUME NEW c \in Circuits, GuardFires(c) PROVE TypeOK'
  <2>1. CASE state[c] = "DISCONNECTING"
    <3>1. RemoveCircuit(c, user)
      BY <1>5, <2>1 DEF GuardFires
    <3> QED
      BY <1>5, <2>1, <3>1, RemoveCircuitType DEF GuardFires, SetClosed, States
  <2>2. CASE state[c] # "DISCONNECTING"
    BY <1>5, <2>2 DEF GuardFires
  <2> QED
    BY <2>1, <2>2
<1>6. CASE OriginateTableFull \/ IdleFires \/ WriterFails
  BY <1>6 DEF OriginateTableFull, IdleFires, WriterFails
<1>7. CASE Shutdown
  <2>1. user' \in [Circuits -> UserStates]
    BY <1>7, CancelTasksType DEF Shutdown
  <2> QED
    BY <1>7, <2>1 DEF Shutdown, SetClosed, States
<1> QED
  BY <1>1, <1>2, <1>3, <1>4, <1>5, <1>6, <1>7 DEF Next

\* Every variable of the manager keeps its type for ever.
THEOREM TypeCorrect == Spec => []TypeOK
BY TypeInit, TypeStep, PTL DEF Spec

-----------------------------------------------------------------------------
(***************************************************************************)
(* The inductive invariant.  NoIndexLeak needs that no circuit is in a     *)
(* table before it is opened (its key is about to change); IdleTimerExact  *)
(* needs NoIndexLeak, since originate_circuit() cancels the idle timer     *)
(* before it finds the table full; ClosedIsTerminal and RemoteIndexOpen    *)
(* need each other's ground: what is in _by_remote_key is open.            *)
(***************************************************************************)
Entered == \A c \in byLocal \cup byRemote : state[c] # "unopened"

Tables == NoIndexLeak /\ IdleTimerExact

Lifecycle == Entered /\ RemoteIndexOpen /\ HalfClosedGuarded

ManagerInv == TypeOK /\ Tables /\ Lifecycle

\* _remove_circuit frees an index no circuit it leaves in the table relies
\* on alone, and arms the idle timer when it leaves none.
LEMMA RemoveCircuitTables ==
    ASSUME TypeOK, Tables, NEW c \in Circuits, NEW u, RemoveCircuit(c, u),
           UNCHANGED <<local, closed, axClosing>>
    PROVE  Tables'
<1>1. NoIndexLeak'
  <2> SUFFICES ASSUME NEW i \in usedIdx' PROVE \E d \in byLocal' : i = local[d][1]
    BY DEF NoIndexLeak
  <2>1. i \in usedIdx /\ i # local[c][1]
    BY DEF RemoveCircuit, FreeIdx, DropRemoteKey, ArmIdleTimer
  <2>2. PICK d \in byLocal : i = local[d][1]
    BY <2>1 DEF Tables, NoIndexLeak
  <2>3. local[d] # local[c]
    BY <2>1, <2>2
  <2> QED
    BY <2>2, <2>3 DEF RemoveCircuit, FreeIdx, DropRemoteKey, ArmIdleTimer, SameLocal
<1>2. IdleTimerExact'
  BY DEF Tables, IdleTimerExact, RemoveCircuit, FreeIdx, DropRemoteKey, ArmIdleTimer, TypeOK
<1> QED
  BY <1>1, <1>2 DEF Tables

\* An allocation enters the circuit under the index it marks as used.
LEMMA AllocateTables ==
    ASSUME TypeOK, Tables, Entered, NEW c \in Circuits, Allocate(c),
           UNCHANGED <<closed, axClosing>>
    PROVE  Tables'
<1> DEFINE key == <<LowestFreeIdx, NextLocalId>>
<1>1. c \notin byLocal
  BY DEF Entered, Allocate
<1>2. local'[c] = key /\ \A d \in byLocal : local'[d] = local[d]
  BY <1>1 DEF TypeOK, Allocate
<1>3. NoIndexLeak'
  <2> SUFFICES ASSUME NEW i \in usedIdx' PROVE \E d \in byLocal' : i = local'[d][1]
    BY DEF NoIndexLeak
  <2>1. c \in byLocal' /\ local'[c][1] = LowestFreeIdx
    BY <1>2 DEF Allocate
  <2>2. CASE i = LowestFreeIdx
    BY <2>1, <2>2
  <2>3. CASE i # LowestFreeIdx
    <3>1. i \in usedIdx
      BY <2>3 DEF Allocate
    <3>2. PICK d \in byLocal : i = local[d][1]
      BY <3>1 DEF Tables, NoIndexLeak
    <3>3. local[d] # key
      BY <2>3, <3>2
    <3> QED
      BY <1>2, <3>2, <3>3 DEF Allocate
  <2> QED
    BY <2>2, <2>3
<1>4. IdleTimerExact'
  BY DEF IdleTimerExact, Allocate
<1> QED
  BY <1>3, <1>4 DEF Tables

\* A table that is full is not empty.
LEMMA FullIsNotEmpty ==
    ASSUME NoIndexLeak, TableFull PROVE byLocal # {}
<1>1. 0 \in LocalIdxs
  BY ManagerAssumption DEF LocalIdxs
<1> QED
  BY <1>1 DEF TableFull, NoIndexLeak

\* Every step keeps the tables and the idle timer in order.
LEMMA TablesStep ==
    ASSUME ManagerInv, [Next]_vars
    PROVE  Tables'
<1> USE DEF ManagerInv, Lifecycle
<1>1. CASE UNCHANGED <<local, byLocal, usedIdx, idleArmed, closed, axClosing>>
  BY <1>1 DEF Tables, NoIndexLeak, IdleTimerExact
<1>2. ASSUME NEW c \in Circuits, NEW u, RemoveCircuit(c, u),
             UNCHANGED <<local, closed, axClosing>>
      PROVE  Tables'
  BY <1>2, RemoveCircuitTables
<1>3. ASSUME NEW c \in Circuits, Allocate(c), UNCHANGED <<closed, axClosing>>
      PROVE  Tables'
  BY <1>3, AllocateTables
<1>4. CASE UNCHANGED vars
  BY <1>1, <1>4 DEF vars, circuitVars, tableVars, linkVars
<1>5. ASSUME NEW c \in Circuits, Frame(c) PROVE Tables'
  <2>1. CASE RepeatedConnectRequest(c) \/ ConnectRefused(c)
    BY <1>1, <2>1 DEF RepeatedConnectRequest, ConnectRefused, tableVars, linkVars
  <2>2. ASSUME NEW key \in RemoteKeys, ConnectRequest(c, key) PROVE Tables'
    BY <1>3, <2>2 DEF ConnectRequest
  <2>3. CASE DisconnectRequest(c)
    BY <1>2, <2>3 DEF DisconnectRequest
  <2>4. CASE DisconnectAck(c)
    BY <1>2, <2>4 DEF DisconnectAck
  <2>5. ASSUME NEW key \in RemoteKeys, ConnectAccepted(c, key) PROVE Tables'
    BY <1>1, <2>5 DEF ConnectAccepted, tableVars, linkVars
  <2> QED
    BY <1>5, <2>1, <2>2, <2>3, <2>4, <2>5 DEF Frame
<1>6. ASSUME NEW c \in Circuits, Session(c) PROVE Tables'
  BY <1>1, <1>6 DEF Session, SessionStarts, WriterClose, SessionEnds, tableVars, linkVars
<1>7. ASSUME NEW c \in Circuits, Originator(c) PROVE Tables'
  <2>1. CASE Originate(c)
    BY <1>3, <2>1 DEF Originate
  <2>2. CASE OriginateAborted(c) \/ OriginateTimesOut(c)
    BY <1>2, <2>2 DEF OriginateAborted, OriginateTimesOut
  <2>3. CASE OriginateReturns(c) \/ OriginateCancelled(c) \/ OwnerCloses(c)
    BY <1>1, <2>3 DEF OriginateReturns, OriginateCancelled, OwnerCloses, tableVars, linkVars
  <2>4. CASE ReapNowIfIdle(c)
    BY <2>4 DEF ReapNowIfIdle, tableVars, Tables, NoIndexLeak, IdleTimerExact
  <2> QED
    BY <1>7, <2>1, <2>2, <2>3, <2>4 DEF Originator
<1>8. ASSUME NEW c \in Circuits, GuardFires(c) PROVE Tables'
  BY <1>1, <1>2, <1>8 DEF GuardFires
<1>9. CASE OriginateTableFull
  BY <1>9, FullIsNotEmpty
  DEF OriginateTableFull, circuitVars, tableVars, Tables, NoIndexLeak, IdleTimerExact
<1>10. CASE IdleFires
  BY <1>10 DEF IdleFires, circuitVars, tableVars, Tables, NoIndexLeak, IdleTimerExact
<1>11. CASE WriterFails
  BY <1>11 DEF WriterFails, circuitVars, tableVars, Tables, NoIndexLeak, IdleTimerExact
<1>12. CASE Shutdown
  BY <1>12 DEF Shutdown, Tables, NoIndexLeak, IdleTimerExact
<1> QED
  BY <1>4, <1>5, <1>6, <1>7, <1>8, <1>9, <1>10, <1>11, <1>12 DEF Next

\* Every step keeps the lifecycle in order, and CLOSED is never left.
LEMMA LifecycleStep ==
    ASSUME ManagerInv, [Next]_vars
    PROVE  /\ Lifecycle'
           /\ \A c \in Circuits : state[c] = "CLOSED" => state'[c] = "CLOSED"
<1> DEFINE Goal == /\ Lifecycle'
                   /\ \A c \in Circuits : state[c] = "CLOSED" => state'[c] = "CLOSED"
<1> USE DEF ManagerInv, Lifecycle, TypeOK, States, Entered, RemoteIndexOpen, HalfClosedGuarded
<1>1. CASE UNCHANGED <<state, remote, guarded, byLocal, byRemote>>
  BY <1>1
<1>2. ASSUME NEW c \in Circuits, NEW u, RemoveCircuit(c, u),
             \/ SetClosed({c})
             \/ UNCHANGED <<state, guarded>>
      PROVE  Goal
  BY <1>2 DEF RemoveCircuit, FreeIdx, DropRemoteKey, ArmIdleTimer, SetClosed
<1>3. CASE UNCHANGED vars
  BY <1>1, <1>3 DEF vars, circuitVars, tableVars
<1>4. ASSUME NEW c \in Circuits, Frame(c) PROVE Goal
  <2>1. CASE RepeatedConnectRequest(c)
    BY <2>1 DEF RepeatedConnectRequest, tableVars
  <2>2. ASSUME NEW key \in RemoteKeys, ConnectRequest(c, key) PROVE Goal
    BY <2>2 DEF ConnectRequest, Allocate
  <2>3. CASE DisconnectRequest(c)
    BY <1>2, <2>3 DEF DisconnectRequest
  <2>4. CASE DisconnectAck(c)
    BY <1>2, <2>4 DEF DisconnectAck
  <2>5. CASE ConnectRefused(c)
    BY <2>5 DEF ConnectRefused, SetClosed, tableVars
  <2>6. ASSUME NEW key \in RemoteKeys, ConnectAccepted(c, key) PROVE Goal
    BY <2>6 DEF ConnectAccepted, tableVars
  <2> QED
    BY <1>4, <2>1, <2>2, <2>3, <2>4, <2>5, <2>6 DEF Frame
<1>5. ASSUME NEW c \in Circuits,
             InitiateDisconnect(c),
             UNCHANGED <<remote, byLocal, byRemote>>
      PROVE  Goal
  BY <1>5 DEF InitiateDisconnect, ArmGuard
<1>6. ASSUME NEW c \in Circuits, Session(c) PROVE Goal
  <2>1. CASE SessionStarts(c)
    BY <1>1, <2>1 DEF SessionStarts, tableVars
  <2>2. CASE WriterClose(c)
    BY <1>5, <2>2 DEF WriterClose, tableVars
  <2>3. CASE SessionEnds(c)
    BY <1>1, <1>5, <2>3 DEF SessionEnds
  <2> QED
    BY <1>6, <2>1, <2>2, <2>3 DEF Session
<1>7. ASSUME NEW c \in Circuits, Originator(c) PROVE Goal
  <2>1. CASE Originate(c)
    BY <2>1 DEF Originate, Allocate
  <2>2. CASE OriginateAborted(c) \/ OriginateTimesOut(c)
    BY <1>2, <2>2 DEF OriginateAborted, OriginateTimesOut
  <2>3. CASE OriginateReturns(c) \/ OriginateCancelled(c) \/ ReapNowIfIdle(c)
    BY <1>1, <2>3 DEF OriginateReturns, OriginateCancelled, ReapNowIfIdle, tableVars
  <2>4. CASE OwnerCloses(c)
    BY <1>5, <2>4 DEF OwnerCloses, tableVars
  <2> QED
    BY <1>7, <2>1, <2>2, <2>3, <2>4 DEF Originator
<1>8. ASSUME NEW c \in Circuits, GuardFires(c) PROVE Goal
  <2>1. CASE state[c] = "DISCONNECTING"
    BY <1>2, <1>8, <2>1 DEF GuardFires
  <2>2. CASE state[c] # "DISCONNECTING"
    BY <1>8, <2>2 DEF GuardFires
  <2> QED
    BY <2>1, <2>2
<1>9. CASE OriginateTableFull \/ IdleFires \/ WriterFails
  BY <1>1, <1>9 DEF OriginateTableFull, IdleFires, WriterFails, circuitVars, tableVars
<1>10. CASE Shutdown
  BY <1>10 DEF Shutdown, SetClosed
<1> QED
  BY <1>3, <1>4, <1>6, <1>7, <1>8, <1>9, <1>10 DEF Next

\* A new manager satisfies the inductive invariant.
LEMMA ManagerInvInit == Init => ManagerInv
BY TypeInit
DEF Init, ManagerInv, Tables, NoIndexLeak, IdleTimerExact,
    Lifecycle, Entered, RemoteIndexOpen, HalfClosedGuarded

\* The inductive invariant holds for ever.
THEOREM ManagerInvariant == Spec => []ManagerInv
<1>1. ManagerInv /\ [Next]_vars => ManagerInv'
  BY TypeStep, TablesStep, LifecycleStep DEF ManagerInv
<1> QED
  BY <1>1, ManagerInvInit, PTL DEF Spec

\* An index marked as used always belongs to a circuit in the table: the
\* crosslink never loses capacity, whatever the peer sends and in whatever
\* order coroutines resume, time out or are cancelled.
THEOREM IndexesDoNotLeak == Spec => []NoIndexLeak
BY ManagerInvariant, PTL DEF ManagerInv, Tables

\* The idle timer runs when, and only when, there is no circuit to keep the
\* crosslink up for.
THEOREM IdleTimerIsExact == Spec => []IdleTimerExact
BY ManagerInvariant, PTL DEF ManagerInv, Tables

\* A repeated CONNECT REQ is never answered on behalf of a closed circuit.
THEOREM RemoteIndexIsOpen == Spec => []RemoteIndexOpen
BY ManagerInvariant, PTL DEF ManagerInv, Lifecycle

\* A circuit that waits for a DISC ACK always has its guard timer.
THEOREM HalfClosedIsGuarded == Spec => []HalfClosedGuarded
BY ManagerInvariant, PTL DEF ManagerInv, Lifecycle

\* No step leads out of CLOSED.
THEOREM ClosedStaysClosed == Spec => ClosedIsTerminal
<1>1. ManagerInv /\ [Next]_vars
        => [\A c \in Circuits : state[c] = "CLOSED" => state'[c] = "CLOSED"]_vars
  BY LifecycleStep
<1> QED
  BY <1>1, ManagerInvariant, PTL DEF Spec, ClosedIsTerminal

-----------------------------------------------------------------------------
(***************************************************************************)
(* The session of a circuit.  The tables know a circuit by its key alone,  *)
(* (local_idx, local_id), and a session that was cancelled but has not     *)
(* returned yet still pops its own key from _user_tasks when it does.  A   *)
(* session is therefore safe from the end of another only while no two of  *)
(* them share a key: FreshKeys says so of the key an allocation hands out. *)
(***************************************************************************)
Live == {c \in Circuits : user[c] \in {"scheduled", "running", "cancelling"}}

Opened == {c \in Circuits : state[c] # "unopened"}

\* An allocation never hands out the key of a session that has not returned.
FreshKeys ==
    \A c \in Circuits \ Opened :
        state'[c] # "unopened" => \A d \in Live : local'[c] # local[d]

\* A session that frames can reach can be cancelled, too: the same key finds
\* the circuit and the task, and no two sessions have it.
SessionsHeld ==
    \A c \in Circuits :
        user[c] \in {"scheduled", "running"} => c \in byLocal /\ c \in userTasks

LiveKeysDiffer == \A c, d \in Live : c # d => local[c] # local[d]

Unused == \A c \in Circuits \ Opened : user[c] = "none" /\ c \notin userTasks

SessionInv == SessionsHeld /\ LiveKeysDiffer /\ Unused

\* What cancel() leaves of the users: it wakes none, and starts none.
LEMMA CancelTasksFacts ==
    ASSUME NEW u, NEW S, NEW d \in Circuits
    PROVE  /\ CancelTasks(u, S)[d] \in {"scheduled", "running"}
                => d \notin S /\ u[d] = CancelTasks(u, S)[d]
           /\ CancelTasks(u, S)[d] = "cancelling" => u[d] \in {"running", "cancelling"}
           /\ u[d] = "none" => CancelTasks(u, S)[d] = "none"
BY DEF CancelTasks

\* A step that opens no circuit, wakes no session and keeps the tables of
\* those it leaves alone keeps the sessions in order.
LEMMA SessionsKept ==
    ASSUME SessionInv, local' = local,
           \A d \in Circuits \ Opened' : d \in Circuits \ Opened,
           \A d \in Circuits \ Opened : user'[d] = "none",
           userTasks' \subseteq userTasks,
           Live' \subseteq Live,
           \A d \in Circuits : user'[d] \in {"scheduled", "running"}
              => d \in byLocal' /\ d \in userTasks'
    PROVE  SessionInv'
<1>1. SessionsHeld'
  BY DEF SessionsHeld
<1>2. LiveKeysDiffer'
  BY DEF SessionInv, LiveKeysDiffer
<1>3. Unused'
  BY DEF SessionInv, Unused
<1> QED
  BY <1>1, <1>2, <1>3 DEF SessionInv

\* _remove_circuit cancels the one session it takes from the tables.
LEMMA RemoveCircuitSessions ==
    ASSUME TypeOK, SessionInv, NEW c \in Circuits, NEW u, RemoveCircuit(c, u),
           \/ u = user
           \/ u = [user EXCEPT ![c] = "failed"] /\ user[c] = "connecting",
           Opened \subseteq Opened', local' = local
    PROVE  SessionInv'
<1> DEFINE S == SameLocal(userTasks, c)
<1>1. user' = CancelTasks(u, S)
  BY DEF RemoveCircuit
<1>2. \A d \in Circuits : u[d] # "failed" => u[d] = user[d]
  BY DEF TypeOK
<1>3. \A d \in Circuits \ Opened : u[d] = "none"
  <2> SUFFICES ASSUME NEW d \in Circuits \ Opened PROVE u[d] = "none"
    OBVIOUS
  <2>1. user[d] = "none"
    BY DEF SessionInv, Unused
  <2> QED
    BY <2>1 DEF TypeOK
<1> HIDE DEF S
<1>4. \A d \in Circuits \ Opened : user'[d] = "none"
  BY <1>1, <1>3, CancelTasksFacts
<1>5. Live' \subseteq Live
  <2> SUFFICES ASSUME NEW d \in Circuits,
                      user'[d] \in {"scheduled", "running", "cancelling"}
               PROVE  user[d] \in {"scheduled", "running", "cancelling"}
    BY DEF Live
  <2>1. u[d] \in {"scheduled", "running", "cancelling"}
    BY <1>1, CancelTasksFacts
  <2> QED
    BY <1>2, <2>1
<1>6. \A d \in Circuits : user'[d] \in {"scheduled", "running"}
        => d \in byLocal' /\ d \in userTasks'
  <2> SUFFICES ASSUME NEW d \in Circuits, user'[d] \in {"scheduled", "running"}
               PROVE  d \in byLocal' /\ d \in userTasks'
    OBVIOUS
  <2>1. d \notin S /\ u[d] \in {"scheduled", "running"}
    BY <1>1, CancelTasksFacts
  <2>2. user[d] \in {"scheduled", "running"}
    BY <1>2, <2>1
  <2>3. d \in byLocal /\ d \in userTasks
    BY <2>2 DEF SessionInv, SessionsHeld
  <2>4. local[d] # local[c]
    BY <2>1, <2>3 DEF S, SameLocal
  <2> QED
    BY <2>3, <2>4 DEF RemoveCircuit, SameLocal
<1>7. userTasks' \subseteq userTasks
  BY DEF RemoveCircuit
<1>8. \A d \in Circuits \ Opened' : d \in Circuits \ Opened
  OBVIOUS
<1> QED
  BY <1>4, <1>5, <1>6, <1>7, <1>8, SessionsKept

\* A step that only touches the circuit, never its key or the tables.
LEMMA SessionsUntouched ==
    ASSUME TypeOK, SessionInv, UNCHANGED <<local, byLocal, userTasks>>,
           Opened \subseteq Opened',
           \/ user' = user
           \/ \E c \in Opened : \E x \in UserStates :
                 /\ user' = [user EXCEPT ![c] = x]
                 /\ x \in {"scheduled", "running", "cancelling"}
                       => user[c] = "scheduled"
    PROVE  SessionInv'
<1>1. \A d \in Circuits \ Opened : user'[d] = "none"
  BY DEF SessionInv, Unused, TypeOK
<1>2. \A d \in Circuits :
         user'[d] \in {"scheduled", "running", "cancelling"}
           => user[d] \in {"scheduled", "running", "cancelling"}
  BY DEF TypeOK
<1>3. \A d \in Circuits :
         user'[d] \in {"scheduled", "running"} => user[d] \in {"scheduled", "running"}
  BY DEF TypeOK
<1>4. Live' \subseteq Live
  BY <1>2 DEF Live
<1>5. \A d \in Circuits : user'[d] \in {"scheduled", "running"}
         => d \in byLocal' /\ d \in userTasks'
  BY <1>3 DEF SessionInv, SessionsHeld
<1>6. \A d \in Circuits \ Opened' : d \in Circuits \ Opened
  OBVIOUS
<1> QED
  BY <1>1, <1>4, <1>5, <1>6, SessionsKept

\* A DISC REQ and a close open nothing, and unopen nothing.
LEMMA OpenedKept ==
    ASSUME TypeOK, NEW S \in SUBSET Opened,
           \/ SetClosed(S)
           \/ UNCHANGED state
           \/ \E c \in Opened : InitiateDisconnect(c)
    PROVE  Opened' = Opened
BY DEF SetClosed, InitiateDisconnect, Opened, TypeOK

\* A circuit that has a user, a guard or a place in a table has been opened.
LEMMA UsedIsOpened ==
    ASSUME ManagerInv, SessionInv, NEW c \in Circuits,
           \/ user[c] # "none"
           \/ c \in byLocal \cup byRemote \cup userTasks
    PROVE  c \in Opened
BY DEF ManagerInv, Lifecycle, Entered, SessionInv, Unused, Opened

\* The two steps that open a circuit.
Opens(c) == Originate(c) \/ \E key \in RemoteKeys : ConnectRequest(c, key)

\* Every other step keeps the sessions in order and opens nothing.
LEMMA PlainSessionStep ==
    ASSUME ManagerInv, SessionInv, [Next]_vars,
           \A c \in Circuits : ~Opens(c)
    PROVE  SessionInv' /\ Opened' = Opened /\ UNCHANGED <<local, nextId>>
<1> DEFINE Goal == SessionInv' /\ Opened' = Opened /\ UNCHANGED <<local, nextId>>
<1> USE DEF ManagerInv
<1>1. CASE UNCHANGED vars
  <2>1. Opened' = Opened /\ UNCHANGED <<local, nextId, byLocal, userTasks, user>>
    BY <1>1 DEF vars, circuitVars, tableVars, Opened
  <2> QED
    BY <2>1, SessionsUntouched
<1>2. ASSUME NEW c \in Circuits, Frame(c) PROVE Goal
  <2>1. CASE RepeatedConnectRequest(c)
    <3>1. c \in Opened
      BY <2>1, UsedIsOpened DEF RepeatedConnectRequest
    <3>2. Opened' = Opened
      BY <2>1, <3>1 DEF RepeatedConnectRequest, Opened, TypeOK
    <3>3. UNCHANGED <<local, nextId, byLocal, userTasks, user>>
      BY <2>1 DEF RepeatedConnectRequest, tableVars
    <3> QED
      BY <3>2, <3>3, SessionsUntouched
  <2>2. CASE \E key \in RemoteKeys : ConnectRequest(c, key)
    BY <2>2 DEF Opens
  <2>3. CASE DisconnectRequest(c)
    <3>1. {c} \in SUBSET Opened
      BY <2>3, UsedIsOpened DEF DisconnectRequest
    <3>2. Opened' = Opened
      BY <2>3, <3>1, OpenedKept DEF DisconnectRequest
    <3> QED
      BY <2>3, <3>2, RemoveCircuitSessions DEF DisconnectRequest
  <2>4. CASE DisconnectAck(c)
    <3>1. {c} \in SUBSET Opened
      BY <2>4, UsedIsOpened DEF DisconnectAck
    <3>2. Opened' = Opened
      BY <2>4, <3>1, OpenedKept DEF DisconnectAck
    <3> QED
      BY <2>4, <3>2, RemoveCircuitSessions DEF DisconnectAck
  <2>5. CASE ConnectRefused(c)
    <3>1. {c} \in SUBSET Opened
      BY <2>5, UsedIsOpened DEF ConnectRefused
    <3>2. Opened' = Opened
      BY <2>5, <3>1, OpenedKept DEF ConnectRefused
    <3>3. UNCHANGED <<local, nextId, byLocal, userTasks, user>>
      BY <2>5 DEF ConnectRefused, tableVars
    <3> QED
      BY <3>2, <3>3, SessionsUntouched
  <2>6. ASSUME NEW key \in RemoteKeys, ConnectAccepted(c, key) PROVE Goal
    <3>1. Opened' = Opened
      BY <2>6 DEF ConnectAccepted, Opened, TypeOK
    <3>2. UNCHANGED <<local, nextId, byLocal, userTasks, user>>
      BY <2>6 DEF ConnectAccepted, tableVars
    <3> QED
      BY <3>1, <3>2, SessionsUntouched
  <2> QED
    BY <1>2, <2>1, <2>2, <2>3, <2>4, <2>5, <2>6 DEF Frame
<1>3. ASSUME NEW c \in Circuits, Session(c) PROVE Goal
  <2>1. c \in Opened
    BY <1>3, UsedIsOpened DEF Session, SessionStarts, WriterClose, SessionEnds
  <2>2. CASE SessionStarts(c)
    <3>1. Opened' = Opened
      BY <2>2 DEF SessionStarts, Opened
    <3>2. UNCHANGED <<local, nextId, byLocal, userTasks>>
      BY <2>2 DEF SessionStarts, tableVars
    <3>3. user' = [user EXCEPT ![c] = "running"] /\ user[c] = "scheduled"
      BY <2>2 DEF SessionStarts
    <3>4. "running" \in UserStates
      BY DEF UserStates
    <3> QED
      BY <2>1, <3>1, <3>2, <3>3, <3>4, SessionsUntouched
  <2>3. CASE WriterClose(c)
    <3>1. Opened' = Opened
      BY <2>1, <2>3, OpenedKept DEF WriterClose
    <3>2. UNCHANGED <<local, nextId, byLocal, userTasks, user>>
      BY <2>3 DEF WriterClose, tableVars
    <3> QED
      BY <3>1, <3>2, SessionsUntouched
  <2>4. CASE SessionEnds(c)
    <3>1. Opened' = Opened
      BY <2>1, <2>4, OpenedKept DEF SessionEnds
    <3>2. c \in Live /\ user' = [user EXCEPT ![c] = "done"]
      BY <2>4 DEF SessionEnds, Live
    <3>3. Live' \subseteq Live
      BY <3>2 DEF Live, TypeOK
    <3>4. \A d \in Circuits \ Opened : user'[d] = "none"
      BY <2>1, <3>2 DEF SessionInv, Unused, TypeOK
    <3>5. \A d \in Circuits : user'[d] \in {"scheduled", "running"}
             => d \in byLocal' /\ d \in userTasks'
      <4> SUFFICES ASSUME NEW d \in Circuits, user'[d] \in {"scheduled", "running"}
                   PROVE  d \in byLocal' /\ d \in userTasks'
        OBVIOUS
      <4>1. d # c /\ user[d] \in {"scheduled", "running"}
        BY <3>2 DEF TypeOK
      <4>2. local[d] # local[c]
        BY <3>2, <4>1 DEF SessionInv, LiveKeysDiffer, Live
      <4>3. d \in byLocal /\ d \in userTasks
        BY <4>1 DEF SessionInv, SessionsHeld
      <4> QED
        BY <2>4, <4>2, <4>3 DEF SessionEnds, SameLocal
    <3>6. userTasks' \subseteq userTasks /\ UNCHANGED <<local, nextId>>
      BY <2>4 DEF SessionEnds
    <3>7. \A d \in Circuits \ Opened' : d \in Circuits \ Opened
      BY <3>1
    <3> QED
      BY <3>1, <3>3, <3>4, <3>5, <3>6, <3>7, SessionsKept
  <2> QED
    BY <1>3, <2>2, <2>3, <2>4 DEF Session
<1>4. ASSUME NEW c \in Circuits, Originator(c) PROVE Goal
  <2>1. CASE Originate(c)
    BY <2>1 DEF Opens
  <2>2. CASE OriginateAborted(c) \/ OriginateTimesOut(c)
    <3>1. Opened' = Opened
      BY <2>2 DEF OriginateAborted, OriginateTimesOut, Opened
    <3>2. user[c] = "connecting" /\ RemoveCircuit(c, [user EXCEPT ![c] = "failed"])
      BY <2>2 DEF OriginateAborted, OriginateTimesOut
    <3>3. UNCHANGED <<local, nextId>>
      BY <2>2 DEF OriginateAborted, OriginateTimesOut
    <3> QED
      BY <3>1, <3>2, <3>3, RemoveCircuitSessions
  <2>3. CASE OriginateReturns(c) \/ OriginateCancelled(c) \/ ReapNowIfIdle(c)
    <3>1. c \in Opened
      BY <2>3, UsedIsOpened DEF OriginateReturns, OriginateCancelled, ReapNowIfIdle
    <3>2. Opened' = Opened
      BY <2>3 DEF OriginateReturns, OriginateCancelled, ReapNowIfIdle, Opened
    <3>3. UNCHANGED <<local, nextId, byLocal, userTasks>>
      BY <2>3 DEF OriginateReturns, OriginateCancelled, ReapNowIfIdle, tableVars
    <3>4. \E x \in {"owner", "done"} : user' = [user EXCEPT ![c] = x]
      BY <2>3 DEF OriginateReturns, OriginateCancelled, ReapNowIfIdle
    <3>5. {"owner", "done"} \subseteq UserStates \ {"scheduled", "running", "cancelling"}
      BY DEF UserStates
    <3> QED
      BY <3>1, <3>2, <3>3, <3>4, <3>5, SessionsUntouched
  <2>4. CASE OwnerCloses(c)
    <3>1. c \in Opened
      BY <2>4, UsedIsOpened DEF OwnerCloses
    <3>2. Opened' = Opened
      BY <2>4, <3>1, OpenedKept DEF OwnerCloses
    <3>3. UNCHANGED <<local, nextId, byLocal, userTasks>>
      BY <2>4 DEF OwnerCloses, tableVars
    <3>4. user' = [user EXCEPT ![c] = "done"]
      BY <2>4 DEF OwnerCloses
    <3>5. "done" \in UserStates \ {"scheduled", "running", "cancelling"}
      BY DEF UserStates
    <3> QED
      BY <3>1, <3>2, <3>3, <3>4, <3>5, SessionsUntouched
  <2> QED
    BY <1>4, <2>1, <2>2, <2>3, <2>4 DEF Originator
<1>5. ASSUME NEW c \in Circuits, GuardFires(c) PROVE Goal
  <2>1. CASE state[c] = "DISCONNECTING"
    <3>1. {c} \in SUBSET Opened
      BY <2>1 DEF Opened
    <3>2. SetClosed({c}) /\ RemoveCircuit(c, user) /\ UNCHANGED <<local, nextId>>
      BY <1>5, <2>1 DEF GuardFires
    <3>3. Opened' = Opened
      BY <3>1, <3>2, OpenedKept
    <3> QED
      BY <3>2, <3>3, RemoveCircuitSessions
  <2>2. CASE state[c] # "DISCONNECTING"
    <3>1. UNCHANGED <<state, local, nextId, byLocal, userTasks, user>>
      BY <1>5, <2>2 DEF GuardFires
    <3>2. Opened' = Opened
      BY <3>1 DEF Opened
    <3> QED
      BY <3>1, <3>2, SessionsUntouched
  <2> QED
    BY <2>1, <2>2
<1>6. CASE OriginateTableFull \/ IdleFires \/ WriterFails
  <2>1. UNCHANGED <<state, local, nextId, byLocal, userTasks, user>>
    BY <1>6 DEF OriginateTableFull, IdleFires, WriterFails, circuitVars, tableVars
  <2>2. Opened' = Opened
    BY <2>1 DEF Opened
  <2> QED
    BY <2>1, <2>2, SessionsUntouched
<1>7. CASE Shutdown
  <2>1. byLocal \in SUBSET Opened
    BY UsedIsOpened DEF TypeOK
  <2>2. Opened' = Opened
    BY <1>7, <2>1, OpenedKept DEF Shutdown
  <2>3. user' = CancelTasks(user, userTasks) /\ UNCHANGED <<local, nextId>>
    BY <1>7 DEF Shutdown
  <2>4. \A d \in Circuits : user'[d] \notin {"scheduled", "running"}
    BY <2>3, CancelTasksFacts DEF SessionInv, SessionsHeld
  <2>5. Live' \subseteq Live
    BY <2>3, CancelTasksFacts DEF Live
  <2>6. \A d \in Circuits \ Opened : user'[d] = "none"
    BY <2>3, CancelTasksFacts DEF SessionInv, Unused
  <2>7. userTasks' \subseteq userTasks
    BY <1>7 DEF Shutdown
  <2> QED
    BY <2>2, <2>3, <2>4, <2>5, <2>6, <2>7, SessionsKept
<1> QED
  BY <1>1, <1>2, <1>3, <1>4, <1>5, <1>6, <1>7 DEF Next

\* An allocation opens one circuit, under the key it hands out, and leaves
\* every other circuit under its own.
LEMMA AllocateFacts ==
    ASSUME ManagerInv, SessionInv, NEW c \in Circuits, Opens(c)
    PROVE  /\ c \notin Opened /\ Opened' = Opened \cup {c}
           /\ nextId' = NextLocalId
           /\ local'[c] = <<LowestFreeIdx, NextLocalId>>
           /\ \A d \in Circuits \ {c} : local'[d] = local[d]
           /\ byLocal' = {d \in byLocal : local[d] # local'[c]} \cup {c}
<1>1. Allocate(c)
  BY DEF Opens, Originate, ConnectRequest
<1>2. c \notin Opened
  BY <1>1 DEF Allocate, Opened
<1>3. Opened' = Opened \cup {c}
  BY DEF Opens, Originate, ConnectRequest, Opened, ManagerInv, TypeOK
<1> QED
  BY <1>1, <1>2, <1>3 DEF Allocate, ManagerInv, TypeOK

\* Under a key that no live session has, an allocation disturbs none.
LEMMA OpeningSessionStep ==
    ASSUME ManagerInv, SessionInv, NEW c \in Circuits, Opens(c),
           \A d \in Live : local'[c] # local[d]
    PROVE  SessionInv'
<1>1. c \notin Opened /\ Opened' = Opened \cup {c}
  BY AllocateFacts
<1>2. \A d \in Circuits \ {c} : local'[d] = local[d]
  BY AllocateFacts
<1>3. byLocal' = {d \in byLocal : local[d] # local'[c]} \cup {c}
  BY AllocateFacts
<1>4. c \notin Live
  BY <1>1 DEF SessionInv, Unused, Live
<1>5. \A d \in Circuits \ {c} : user'[d] = user[d]
  BY DEF Opens, Originate, ConnectRequest, ManagerInv, TypeOK
<1>6. \/ user'[c] = "connecting" /\ userTasks' = userTasks
      \/ userTasks' = {d \in userTasks : local[d] # local'[c]} \cup {c}
  BY DEF Opens, Originate, ConnectRequest, ManagerInv, TypeOK
<1>7. \A d \in Live \ {c} : d \in Live' => local'[d] = local[d] /\ local[d] # local'[c]
  BY <1>2 DEF Live
<1>8. Live' \subseteq Live \cup {c}
  BY <1>5 DEF Live
<1>9. SessionsHeld'
  <2> SUFFICES ASSUME NEW d \in Circuits, user'[d] \in {"scheduled", "running"}
               PROVE  d \in byLocal' /\ d \in userTasks'
    BY DEF SessionsHeld
  <2>1. CASE d = c
    BY <1>3, <1>6, <2>1
  <2>2. CASE d # c
    <3>1. user[d] \in {"scheduled", "running"}
      BY <1>5, <2>2
    <3>2. d \in byLocal /\ d \in userTasks
      BY <3>1 DEF SessionInv, SessionsHeld
    <3>3. local[d] # local'[c]
      BY <3>1 DEF Live
    <3> QED
      BY <1>3, <1>6, <3>2, <3>3
  <2> QED
    BY <2>1, <2>2
<1>10. LiveKeysDiffer'
  <2> SUFFICES ASSUME NEW d \in Live', NEW e \in Live', d # e
               PROVE  local'[d] # local'[e]
    BY DEF LiveKeysDiffer
  <2>1. CASE d # c /\ e # c
    BY <1>2, <1>8, <2>1 DEF SessionInv, LiveKeysDiffer, Live
  <2>2. CASE d = c
    BY <1>7, <1>8, <2>2
  <2>3. CASE e = c
    BY <1>7, <1>8, <2>3
  <2> QED
    BY <2>1, <2>2, <2>3
<1>11. Unused'
  BY <1>1, <1>5, <1>6 DEF SessionInv, Unused
<1> QED
  BY <1>9, <1>10, <1>11 DEF SessionInv

\* Every step that hands out fresh keys only keeps the sessions in order.
LEMMA SessionStep ==
    ASSUME ManagerInv, SessionInv, [Next]_vars, [FreshKeys]_vars
    PROVE  SessionInv'
<1>1. CASE \A c \in Circuits : ~Opens(c)
  BY <1>1, PlainSessionStep
<1>2. ASSUME NEW c \in Circuits, Opens(c) PROVE SessionInv'
  <2>1. c \in Circuits \ Opened /\ state'[c] # "unopened"
    BY <1>2, AllocateFacts DEF Opened
  <2>2. FreshKeys
    BY <2>1 DEF vars, circuitVars, Opened
  <2> QED
    BY <1>2, <2>1, <2>2, OpeningSessionStep DEF FreshKeys
<1> QED
  BY <1>1, <1>2

\* A new manager has no session.
LEMMA SessionInit == Init => SessionInv
BY DEF Init, SessionInv, SessionsHeld, LiveKeysDiffer, Live, Unused

\* While a session runs, frames of its user reach its circuit: as long as no
\* key is handed out that a session still has, for any number of circuits.
THEOREM FreshKeysReach == Spec /\ [][FreshKeys]_vars => []SessionReachable
<1>1. ManagerInv /\ SessionInv /\ [Next]_vars /\ [FreshKeys]_vars => SessionInv'
  BY SessionStep
<1>2. SessionInv => SessionReachable
  BY DEF SessionInv, SessionsHeld, SessionReachable
<1> QED
  BY <1>1, <1>2, SessionInit, ManagerInvariant, PTL DEF Spec

-----------------------------------------------------------------------------
(***************************************************************************)
(* The ids of _allocate_local_id are fresh until the byte has wrapped: the *)
(* first IdModulus circuits of a crosslink have an id each.                *)
(***************************************************************************)
IdsCount ==
    Cardinality(Opened) < IdModulus =>
        /\ nextId = Cardinality(Opened)
        /\ \A c \in Opened : local[c][2] \in 1 .. nextId

\* What the counter hands out before it has wrapped: the number of circuits
\* opened so far, or 0 for the very last.
LEMMA NextIdIsNew ==
    ASSUME nextId \in Nat, nextId < IdModulus
    PROVE  /\ NextLocalId \notin 1 .. nextId
           /\ nextId + 1 < IdModulus => NextLocalId = nextId + 1
<1>1. IdModulus \in Nat \ {0}
  BY ManagerAssumption
<1>2. CASE nextId + 1 < IdModulus
  <2>1. (nextId + 1) % IdModulus = nextId + 1
    BY <1>1, <1>2
  <2> QED
    BY <2>1 DEF NextLocalId
<1>3. CASE nextId + 1 = IdModulus
  <2>1. (nextId + 1) % IdModulus = 0
    BY <1>1, <1>3
  <2> QED
    BY <1>3, <2>1 DEF NextLocalId
<1> QED
  BY <1>1, <1>2, <1>3

\* With no more circuits than ids, every key is fresh.
LEMMA IdsStep ==
    ASSUME IsFiniteSet(Circuits), Cardinality(Circuits) <= IdModulus,
           ManagerInv, SessionInv, IdsCount, [Next]_vars
    PROVE  SessionInv' /\ IdsCount'
<1> DEFINE n == Cardinality(Opened)
<1>1. IsFiniteSet(Opened)
  BY FS_Subset DEF Opened
<1>2. n \in Nat /\ IdModulus \in Nat
  BY <1>1, FS_CardinalityType, ManagerAssumption
<1>3. CASE \A c \in Circuits : ~Opens(c)
  <2>1. SessionInv' /\ Opened' = Opened /\ UNCHANGED <<local, nextId>>
    BY <1>3, PlainSessionStep
  <2> QED
    BY <2>1 DEF IdsCount
<1>4. ASSUME NEW c \in Circuits, Opens(c) PROVE SessionInv' /\ IdsCount'
  <2>1. c \notin Opened /\ Opened' = Opened \cup {c}
    BY <1>4, AllocateFacts
  <2>2. Cardinality(Opened') = n + 1
    BY <1>1, <2>1, FS_AddElement
  <2>3. n + 1 <= IdModulus
    <3>1. Cardinality(Opened') <= Cardinality(Circuits)
      BY FS_Subset DEF Opened
    <3>2. Cardinality(Circuits) \in Nat
      BY FS_CardinalityType
    <3> HIDE DEF n
    <3> QED
      BY <1>2, <2>2, <3>1, <3>2
  <2> HIDE DEF n
  <2>4. n < IdModulus
    BY <1>2, <2>3
  <2>5. nextId = n /\ \A d \in Opened : local[d][2] \in 1 .. nextId
    BY <2>4 DEF IdsCount, n
  <2>6. /\ NextLocalId \notin 1 .. nextId
        /\ nextId + 1 < IdModulus => NextLocalId = nextId + 1
    BY <1>2, <2>4, <2>5, NextIdIsNew
  <2>7. nextId' = NextLocalId /\ local'[c] = <<LowestFreeIdx, NextLocalId>>
    BY <1>4, AllocateFacts
  <2>8. \A d \in Live : local'[c] # local[d]
    <3> SUFFICES ASSUME NEW d \in Live PROVE local'[c] # local[d]
      OBVIOUS
    <3>1. d \in Opened
      BY UsedIsOpened DEF Live
    <3>2. local[d][2] # NextLocalId
      BY <2>5, <2>6, <3>1
    <3> QED
      BY <2>7, <3>2
  <2>9. SessionInv'
    BY <1>4, <2>8, OpeningSessionStep
  <2>10. IdsCount'
    <3> SUFFICES ASSUME n + 1 < IdModulus
                 PROVE  /\ nextId' = n + 1
                        /\ \A d \in Opened' : local'[d][2] \in 1 .. nextId'
      BY <2>2 DEF IdsCount
    <3>1. nextId' = n + 1
      BY <2>5, <2>6, <2>7
    <3>2. local'[c][2] \in 1 .. nextId'
      BY <1>2, <2>5, <2>6, <2>7, <3>1
    <3>3. ASSUME NEW d \in Opened PROVE local'[d][2] \in 1 .. nextId'
      <4>1. local'[d] = local[d]
        BY <1>4, <2>1, AllocateFacts DEF Opened
      <4>2. local[d][2] \in 1 .. n
        BY <2>5
      <4> QED
        BY <1>2, <3>1, <4>1, <4>2
    <3> QED
      BY <2>1, <3>1, <3>2, <3>3
  <2> QED
    BY <2>9, <2>10
<1> QED
  BY <1>3, <1>4

\* A new manager has opened nothing, and the counter stands at 0.
LEMMA IdsInit == Init => IdsCount
<1> SUFFICES ASSUME Init PROVE IdsCount
  OBVIOUS
<1>1. Opened = {}
  BY DEF Init, Opened
<1>2. Cardinality(Opened) = 0
  BY <1>1, FS_EmptySet
<1> QED
  BY <1>1, <1>2 DEF IdsCount, Init

\* Of the first IdModulus circuits of a crosslink, 256 in the code, each
\* session is reached by the frames of its user until it ends or is cancelled.
THEOREM SessionsAreReachable ==
    ASSUME IsFiniteSet(Circuits), Cardinality(Circuits) <= IdModulus
    PROVE  Spec => []SessionReachable
<1>1. ManagerInv /\ SessionInv /\ IdsCount /\ [Next]_vars => SessionInv' /\ IdsCount'
  BY IdsStep
<1>2. SessionInv => SessionReachable
  BY DEF SessionInv, SessionsHeld, SessionReachable
<1> QED
  BY <1>1, <1>2, SessionInit, IdsInit, ManagerInvariant, PTL DEF Spec
=============================================================================
