------------------------ MODULE AgwpeTransportProofs ------------------------
(***************************************************************************)
(* Theorems about AgwpeTransport, for any stations, sessions and callers,  *)
(* any bound on the frames on their way, and any environment events.       *)
(***************************************************************************)
EXTENDS AgwpeTransport, SequenceTheorems, TLAPS

\* A session writes only after it was created, so that a 'd' names a station.
Wired == \A s \in onWire : peer[s] # None

\* Taking a frame off the inbox leaves an inbox.
LEMMA TakeType ==
    ASSUME TypeOK, NEW kind, NEW st, Take(kind, st)
    PROVE  tcp' = tcp /\ link' = link /\ inbox' \in Seq(Frames)
BY DEF Take, TypeOK

\* Adding one, too.
LEMMA AppendType ==
    ASSUME TypeOK, NEW kind \in {"C", "d", "NETROM"}, NEW st \in Stations,
           inbox' = Append(inbox, Frame(kind, st))
    PROVE  inbox' \in Seq(Frames)
<1>1. Frame(kind, st) \in Frames
  BY DEF Frame, Frames
<1> QED
  BY <1>1, AppendProperties DEF TypeOK

\* Writing a 'd' keeps the types of what the packet engine has.
LEMMA SendDisconnectType ==
    ASSUME TypeOK, Wired, NEW s \in Sessions, SendDisconnect(s)
    PROVE  /\ link' \in [Stations -> {"down", "calling", "up"}]
           /\ inbox' \in Seq(Frames)
<1>1. CASE s \in onWire
  <2>1. peer[s] \in Stations
    BY <1>1 DEF TypeOK, Wired
  <2>2. inbox' \in Seq(Frames)
    BY <1>1, <2>1, AppendType DEF SendDisconnect
  <2> QED
    BY <1>1, <2>1, <2>2 DEF SendDisconnect, TypeOK
<1>2. CASE s \notin onWire
  BY <1>2 DEF SendDisconnect, TypeOK
<1> QED
  BY <1>1, <1>2

\* Cancelling tasks, shutting managers down and settling futures keep the
\* types of tasks, managers and futures.
LEMMA HelperTypes ==
    ASSUME TypeOK
    PROVE  /\ \A S : Unstarted(S) \in
                 [Sessions -> {"none", "scheduled", "running", "closed", "done"}]
           /\ \A S : ShutDown(S) \in [Sessions -> {"none", "live", "shut"}]
           /\ \A c, r : r \in {"result", "exception", "cancelled"} =>
                 Settle(c, r) \in
                    [Callers -> {"none", "pending", "result", "exception", "cancelled"}]
           /\ \A f : Awaited(f) \in {"manager", "ConnectionError", "CancelledError"}
BY DEF TypeOK, Unstarted, ShutDown, Settle, Awaited

\* The end of a call to connect_out() keeps the types of its caller.
LEMMA EndType ==
    ASSUME TypeOK, NEW c \in Callers,
           NEW how \in {"manager", "ConnectionError", "TimeoutError", "CancelledError"},
           End(c, how)
    PROVE  /\ pc' \in [Callers -> {"idle", "sending", "waiting", "coalesced", "ended"}]
           /\ target' \in [Callers -> Stations \cup {None}]
           /\ waitsOn' \in [Callers -> Callers \cup {None}]
           /\ outcome' \in [Callers -> {"none", "manager", "ConnectionError",
                                        "TimeoutError", "CancelledError"}]
BY DEF End, TypeOK

\* The transport starts with empty tables.
LEMMA TypeInit == Init => TypeOK /\ Wired
<1>1. <<>> \in Seq(Frames)
  BY EmptySeq
<1> QED
  BY <1>1, AgwpeAssumption DEF Init, TypeOK, Wired

\* Every step keeps the types.
LEMMA TypeStep == TypeOK /\ Wired /\ [Next]_vars => TypeOK' /\ Wired'
<1> SUFFICES ASSUME TypeOK, Wired, [Next]_vars
             PROVE  TypeOK' /\ Wired'
  OBVIOUS
<1> USE HelperTypes
<1> USE DEF Wired, tables, sessionVars, callerVars, history
<1>1. CASE UNCHANGED vars
  BY <1>1 DEF vars, TypeOK
<1>2. ASSUME NEW st \in Stations, Dispatch(st) PROVE TypeOK' /\ Wired'
  <2>1. ASSUME NEW s \in Sessions, OutboundConfirmed(st, s) PROVE TypeOK' /\ Wired'
    <3>1. tcp' = tcp /\ link' = link /\ inbox' \in Seq(Frames)
      BY <2>1, TakeType DEF OutboundConfirmed
    <3> QED
      BY <2>1, <3>1, AgwpeAssumption DEF OutboundConfirmed, NewSession, PopPending, Old, TypeOK
  <2>2. ASSUME NEW s \in Sessions, InboundCrosslink(st, s) PROVE TypeOK' /\ Wired'
    <3>1. tcp' = tcp /\ link' = link /\ inbox' \in Seq(Frames)
      BY <2>2, TakeType DEF InboundCrosslink
    <3>2. eof' \subseteq Sessions /\ cancelled' \subseteq Sessions
      BY <2>2 DEF InboundCrosslink, Cancel, Replaced, Old, OldTask, TypeOK
    <3> QED
      BY <2>2, <3>1, <3>2, AgwpeAssumption DEF InboundCrosslink, NewSession, TypeOK
  <2>3. ASSUME NEW s \in Sessions, InboundUser(st, s) PROVE TypeOK' /\ Wired'
    <3>1. tcp' = tcp /\ link' = link /\ inbox' \in Seq(Frames)
      BY <2>3, TakeType DEF InboundUser
    <3>2. eof' \subseteq Sessions /\ cancelled' \subseteq Sessions
      BY <2>3 DEF InboundUser, Cancel, Replaced, Old, OldTask, TypeOK
    <3> QED
      BY <2>3, <3>1, <3>2, AgwpeAssumption DEF InboundUser, NewSession, NoteDown, TypeOK
  <2>4. CASE Promote(st)
    <3>1. tcp' = tcp /\ link' = link /\ inbox' \in Seq(Frames)
      BY <2>4, TakeType DEF Promote
    <3>2. eof' \subseteq Sessions /\ cancelled' \subseteq Sessions /\ suppressed' \subseteq Sessions
      BY <2>4 DEF Promote, Cancel, Old, OldTask, TypeOK
    <3> QED
      BY <2>4, <3>1, <3>2 DEF Promote, TypeOK
  <2>5. CASE NetromFrame(st)
    BY <2>5, TakeType DEF NetromFrame, TypeOK
  <2>6. CASE ConnectFailed(st)
    <3>1. tcp' = tcp /\ link' = link /\ inbox' \in Seq(Frames)
      BY <2>6, TakeType DEF ConnectFailed
    <3> QED
      BY <2>6, <3>1 DEF ConnectFailed, PopPending, Old, TypeOK
  <2>7. CASE Disconnected(st)
    <3>1. tcp' = tcp /\ link' = link /\ inbox' \in Seq(Frames)
      BY <2>7, TakeType DEF Disconnected
    <3> QED
      BY <2>7, <3>1 DEF Disconnected, DropSession, NoteDown, Old, TypeOK
  <2> QED
    BY <1>2, <2>1, <2>2, <2>3, <2>4, <2>5, <2>6, <2>7 DEF Dispatch
<1>3. ASSUME NEW st \in Stations, Environment(st) PROVE TypeOK' /\ Wired'
  <2>1. inbox' \in Seq(Frames)
    BY <1>3, AppendType
    DEF Environment, StationConnects, StationDisconnects, StationSendsNetrom
  <2> QED
    BY <1>3, <2>1
    DEF Environment, StationConnects, StationDisconnects, StationSendsNetrom, TypeOK
<1>4. ASSUME NEW s \in Sessions, Task(s) PROVE TypeOK' /\ Wired'
  <2>1. CASE TaskStarts(s) \/ WriteTimesOut(s)
    BY <2>1 DEF TaskStarts, WriteTimesOut, TypeOK
  <2>2. CASE TaskCloses(s)
    <3>1. /\ link' \in [Stations -> {"down", "calling", "up"}]
          /\ inbox' \in Seq(Frames)
      BY <2>2, SendDisconnectType DEF TaskCloses, TypeOK
    <3> QED
      BY <2>2, <3>1 DEF TaskCloses, TypeOK
  <2>3. CASE TaskEnds(s)
    BY <2>3 DEF TaskEnds, TypeOK
  <2> QED
    BY <1>4, <2>1, <2>2, <2>3 DEF Task
<1>5. ASSUME NEW s \in Sessions, ManagerCloses(s) PROVE TypeOK' /\ Wired'
  <2>1. /\ link' \in [Stations -> {"down", "calling", "up"}]
        /\ inbox' \in Seq(Frames)
    BY <1>5, SendDisconnectType DEF ManagerCloses, TypeOK
  <2> QED
    BY <1>5, <2>1 DEF ManagerCloses, TypeOK
<1>6. ASSUME NEW c \in Callers, Call(c) PROVE TypeOK' /\ Wired'
  <2>1. CASE Sent(c)
    BY <2>1 DEF Sent, TypeOK
  <2>2. CASE SendFails(c)
    BY <2>2, EndType DEF SendFails, PopPending, TypeOK
  <2>3. CASE Resume(c)
    <3>1. UNCHANGED <<tcp, link, inbox, tables, sessionVars, onWire, future, history>>
      BY <2>3 DEF Resume
    <3>2. End(c, Awaited(waitsOn[c]))
      BY <2>3 DEF Resume
    <3> QED
      BY <3>1, <3>2, EndType DEF TypeOK
  <2>4. CASE TimesOut(c)
    BY <2>4, EndType DEF TimesOut, CancelFuture, PopPending, TypeOK
  <2>5. CASE CallerCancelled(c)
    BY <2>5, EndType DEF CallerCancelled, TypeOK
  <2> QED
    BY <1>6, <2>1, <2>2, <2>3, <2>4, <2>5 DEF Call
<1>7. ASSUME NEW c \in Callers, NEW st \in Stations, ConnectOut(c, st)
      PROVE  TypeOK' /\ Wired'
  <2>1. CASE Reuse(c, st) \/ NotConnected(c, st)
    BY <1>7, <2>1, EndType DEF ConnectOut, Reuse, NotConnected, TypeOK
  <2>2. CASE Coalesce(c, st)
    BY <1>7, <2>2 DEF ConnectOut, Coalesce, TypeOK
  <2>3. CASE SendConnect(c, st)
    BY <1>7, <2>3 DEF ConnectOut, SendConnect, TypeOK
  <2> QED
    BY <1>7, <2>1, <2>2, <2>3 DEF ConnectOut
<1>8. CASE TcpUp
  BY <1>8 DEF TcpUp, TypeOK
<1>9. CASE TcpLost
  <2>1. inbox' \in Seq(Frames)
    BY <1>9, EmptySeq DEF TcpLost
  <2> QED
    BY <1>9, <2>1 DEF TcpLost, TypeOK
<1>10. CASE TcpCleanup
  <2>1. eof' \subseteq Sessions /\ cancelled' \subseteq Sessions
    BY <1>10 DEF TcpCleanup, Cancel, Old, OldTask, TypeOK
  <2> QED
    BY <1>10, <2>1 DEF TcpCleanup, TypeOK
<1> QED
  BY <1>1, <1>2, <1>3, <1>4, <1>5, <1>6, <1>7, <1>8, <1>9, <1>10 DEF Next

\* Every variable of the transport keeps its type for ever.
THEOREM TypeCorrect == Spec => []TypeOK
<1>1. Spec => [](TypeOK /\ Wired)
  BY TypeInit, TypeStep, PTL DEF Spec
<1> QED
  BY <1>1, PTL

-----------------------------------------------------------------------------
(***************************************************************************)
(* The tables.  What is filed under a station belongs to that station, and *)
(* a session object that has not been created has neither manager nor      *)
(* task: without this, one entry could change under two stations at once.  *)
(***************************************************************************)
Filed ==
    /\ \A st \in Stations : sessions[st] # None => peer[sessions[st]] = st
    /\ \A st \in Stations : tasks[st] # None => peer[tasks[st]] = st
    /\ \A s \in Sessions : peer[s] = None => manager[s] = "none" /\ task[s] = "none"

TablesInv == TypeOK /\ Wired /\ Filed /\ CrosslinkNoted

\* Every step keeps entries under their stations, and the router informed.
LEMMA TablesStep ==
    ASSUME TablesInv, [Next]_vars
    PROVE  Filed' /\ CrosslinkNoted'
<1> USE AgwpeAssumption DEF TablesInv, Filed, CrosslinkNoted, IsCrosslink, TypeOK
<1>1. CASE UNCHANGED <<sessions, tasks, noted, peer, task, manager>>
  BY <1>1
<1>2. CASE UNCHANGED vars
  BY <1>1, <1>2 DEF vars, tables, sessionVars
<1>3. ASSUME NEW st \in Stations, Dispatch(st) PROVE Filed' /\ CrosslinkNoted'
  <2>1. ASSUME NEW s \in Sessions, OutboundConfirmed(st, s)
        PROVE  Filed' /\ CrosslinkNoted'
    BY <2>1 DEF OutboundConfirmed, NewSession
  <2>2. ASSUME NEW s \in Sessions, InboundCrosslink(st, s)
        PROVE  Filed' /\ CrosslinkNoted'
    BY <2>2 DEF InboundCrosslink, NewSession, ShutDown, Unstarted, Old, OldTask, Replaced
  <2>3. ASSUME NEW s \in Sessions, InboundUser(st, s)
        PROVE  Filed' /\ CrosslinkNoted'
    BY <2>3 DEF InboundUser, NewSession, NoteDown, ShutDown, Unstarted, Old, OldTask, Replaced
  <2>4. CASE Promote(st)
    BY <2>4 DEF Promote, Unstarted, OldTask
  <2>5. CASE NetromFrame(st)
    BY <1>1, <2>5 DEF NetromFrame, tables, sessionVars
  <2>6. CASE ConnectFailed(st)
    BY <1>1, <2>6 DEF ConnectFailed, sessionVars
  <2>7. CASE Disconnected(st)
    BY <2>7 DEF Disconnected, DropSession, NoteDown, ShutDown, Old
  <2> QED
    BY <1>3, <2>1, <2>2, <2>3, <2>4, <2>5, <2>6, <2>7 DEF Dispatch
<1>4. ASSUME NEW st \in Stations, Environment(st) PROVE Filed' /\ CrosslinkNoted'
  BY <1>1, <1>4 DEF Environment, StationConnects, StationDisconnects, StationSendsNetrom,
                    tables, sessionVars
<1>5. ASSUME NEW s \in Sessions, Task(s) PROVE Filed' /\ CrosslinkNoted'
  <2>1. CASE TaskStarts(s) \/ TaskCloses(s)
    BY <2>1 DEF TaskStarts, TaskCloses, tables
  <2>2. CASE TaskEnds(s)
    BY <2>2 DEF TaskEnds, OwnEntry
  <2>3. CASE WriteTimesOut(s)
    BY <1>1, <2>3 DEF WriteTimesOut, tables
  <2> QED
    BY <1>5, <2>1, <2>2, <2>3 DEF Task
<1>6. ASSUME NEW s \in Sessions, ManagerCloses(s) PROVE Filed' /\ CrosslinkNoted'
  BY <1>1, <1>6 DEF ManagerCloses, tables
<1>7. ASSUME NEW c \in Callers, Call(c) PROVE Filed' /\ CrosslinkNoted'
  BY <1>1, <1>7 DEF Call, Sent, SendFails, Resume, TimesOut, CallerCancelled,
                    tables, sessionVars
<1>8. ASSUME NEW c \in Callers, NEW st \in Stations, ConnectOut(c, st)
      PROVE  Filed' /\ CrosslinkNoted'
  BY <1>1, <1>8 DEF ConnectOut, sessionVars
<1>9. CASE TcpUp \/ TcpLost
  BY <1>1, <1>9 DEF TcpUp, TcpLost, tables, sessionVars
<1>10. CASE TcpCleanup
  BY <1>10 DEF TcpCleanup, Unstarted, ShutDown
<1> QED
  BY <1>2, <1>3, <1>4, <1>5, <1>6, <1>7, <1>8, <1>9, <1>10 DEF Next

\* The tables are in order for ever.
THEOREM TablesInvariant == Spec => []TablesInv
<1>1. Init => TablesInv
  BY TypeInit DEF Init, TablesInv, Filed, CrosslinkNoted, IsCrosslink
<1>2. TablesInv /\ [Next]_vars => TablesInv'
  BY TypeStep, TablesStep DEF TablesInv
<1> QED
  BY <1>1, <1>2, PTL DEF Spec

\* The router's picture of the live crosslinks is exact, whichever way each
\* crosslink came and went, whatever the TCP connection does.
THEOREM CrosslinksAreNoted == Spec => []CrosslinkNoted
BY TablesInvariant, PTL DEF TablesInv

-----------------------------------------------------------------------------
(***************************************************************************)
(* Pending connects.  A future is under one station only and its creator   *)
(* has made its call, so that settling it under one entry leaves no other  *)
(* entry with a result.                                                    *)
(***************************************************************************)
Placed ==
    /\ \A st \in Stations : pending[st] # None => pc[pending[st]] # "idle"
    /\ \A st1, st2 \in Stations :
          (pending[st1] # None /\ pending[st1] = pending[st2]) => st1 = st2

PendingInv == TypeOK /\ Wired /\ Placed /\ NoStaleAnswer

\* Every step keeps answered futures out of the table.
LEMMA PendingStep ==
    ASSUME PendingInv, [Next]_vars
    PROVE  Placed' /\ NoStaleAnswer'
<1> USE AgwpeAssumption DEF PendingInv, Placed, NoStaleAnswer, TypeOK
<1>1. CASE UNCHANGED <<pending, pc, future>>
  BY <1>1
<1>2. CASE UNCHANGED vars
  BY <1>1, <1>2 DEF vars, tables, callerVars
<1>3. ASSUME NEW st \in Stations, Dispatch(st) PROVE Placed' /\ NoStaleAnswer'
  <2>1. ASSUME NEW s \in Sessions, OutboundConfirmed(st, s)
        PROVE  Placed' /\ NoStaleAnswer'
    BY <2>1 DEF OutboundConfirmed, PopPending, Settle
  <2>2. ASSUME NEW s \in Sessions, InboundCrosslink(st, s) \/ InboundUser(st, s)
        PROVE  Placed' /\ NoStaleAnswer'
    BY <1>1, <2>2 DEF InboundCrosslink, InboundUser, callerVars
  <2>3. CASE ConnectFailed(st)
    BY <2>3 DEF ConnectFailed, PopPending, Settle
  <2>4. CASE Promote(st) \/ NetromFrame(st) \/ Disconnected(st)
    BY <1>1, <2>4 DEF Promote, NetromFrame, Disconnected, tables, callerVars
  <2> QED
    BY <1>3, <2>1, <2>2, <2>3, <2>4 DEF Dispatch
<1>4. ASSUME NEW st \in Stations, Environment(st) PROVE Placed' /\ NoStaleAnswer'
  BY <1>1, <1>4 DEF Environment, StationConnects, StationDisconnects, StationSendsNetrom,
                    tables, callerVars
<1>5. ASSUME NEW s \in Sessions, Task(s) \/ ManagerCloses(s)
      PROVE  Placed' /\ NoStaleAnswer'
  BY <1>1, <1>5 DEF Task, TaskStarts, TaskCloses, TaskEnds, WriteTimesOut, ManagerCloses,
                    tables, callerVars
<1>6. ASSUME NEW c \in Callers, Call(c) PROVE Placed' /\ NoStaleAnswer'
  <2>1. CASE Sent(c)
    BY <2>1 DEF Sent, tables
  <2>2. CASE SendFails(c)
    BY <2>2 DEF SendFails, PopPending, Settle, End
  <2>3. CASE Resume(c)
    BY <2>3 DEF Resume, End, tables
  <2>4. CASE TimesOut(c)
    BY <2>4 DEF TimesOut, PopPending, CancelFuture, Settle, End
  <2>5. CASE CallerCancelled(c)
    <3>1. \A x \in Callers :
             future'[x] \in {"result", "exception"} => future[x] = future'[x]
      BY <2>5 DEF CallerCancelled, Settle
    <3>2. pending' = pending /\ \A x \in Callers : pc[x] # "idle" => pc'[x] # "idle"
      BY <2>5 DEF CallerCancelled, End, tables
    <3> QED
      BY <3>1, <3>2
  <2> QED
    BY <1>6, <2>1, <2>2, <2>3, <2>4, <2>5 DEF Call
<1>7. ASSUME NEW c \in Callers, NEW st \in Stations, ConnectOut(c, st)
      PROVE  Placed' /\ NoStaleAnswer'
  <2>1. CASE Reuse(c, st) \/ NotConnected(c, st)
    <3>1. pending' = pending /\ future' = future
      BY <2>1 DEF Reuse, NotConnected
    <3>2. \A x \in Callers : pc[x] # "idle" => pc'[x] # "idle"
      BY <2>1 DEF Reuse, NotConnected, End
    <3> QED
      BY <3>1, <3>2
  <2>2. CASE Coalesce(c, st)
    <3>1. pending' = pending /\ future' = future /\ pc' = [pc EXCEPT ![c] = "coalesced"]
      BY <2>2 DEF Coalesce
    <3>2. \A x \in Callers : pc[x] # "idle" => pc'[x] # "idle"
      BY <3>1
    <3> QED
      BY <3>1, <3>2
  <2>3. CASE SendConnect(c, st)
    <3>1. pc[c] = "idle"
      BY <1>7 DEF ConnectOut
    <3>2. pending' = [pending EXCEPT ![st] = c]
      BY <2>3 DEF SendConnect
    <3>3. future' = [future EXCEPT ![c] = "pending"] /\ pc' = [pc EXCEPT ![c] = "sending"]
      BY <2>3 DEF SendConnect
    <3>4. \A x \in Stations : pending[x] # c
      BY <3>1
    <3>5. Placed'
      BY <3>2, <3>3, <3>4
    <3>6. NoStaleAnswer'
      BY <3>2, <3>3, <3>4
    <3> QED
      BY <3>5, <3>6
  <2> QED
    BY <1>7, <2>1, <2>2, <2>3 DEF ConnectOut
<1>8. CASE TcpUp \/ TcpCleanup
  BY <1>1, <1>8 DEF TcpUp, TcpCleanup, tables, callerVars
<1>9. CASE TcpLost
  BY <1>9 DEF TcpLost
<1> QED
  BY <1>2, <1>3, <1>4, <1>5, <1>6, <1>7, <1>8, <1>9 DEF Next

\* No connect_out() ever joins a future that has been answered already.
THEOREM AnswersAreFresh == Spec => []NoStaleAnswer
<1>1. Init => PendingInv
  BY TypeInit DEF Init, PendingInv, Placed, NoStaleAnswer
<1>2. PendingInv /\ [Next]_vars => PendingInv'
  BY TypeStep, PendingStep DEF PendingInv
<1>3. Spec => []PendingInv
  BY <1>1, <1>2, PTL DEF Spec
<1> QED
  BY <1>3, PTL DEF PendingInv

-----------------------------------------------------------------------------
(***************************************************************************)
(* Who owns a link.  A new entry of the table either tells the session it  *)
(* replaces to end and shuts its manager down, or is an outbound           *)
(* confirmation and displaces it; whatever was neither told nor displaced  *)
(* still owns the entries of its station.                                  *)
(***************************************************************************)
Ownership == OneManager /\ UserReachable

\* The session x runs and was not told to end.
Untold(x) == task[x] \in {"scheduled", "running"} /\ x \notin eof \cup cancelled

\* What the invariant says of one session, with the station it belongs to.
LEMMA OwnerFacts ==
    ASSUME TablesInv, Ownership, NEW x \in Sessions \ displaced
    PROVE  /\ manager[x] = "live" => peer[x] \in Stations /\ sessions[peer[x]] = x
           /\ Untold(x) => /\ peer[x] \in Stations
                           /\ sessions[peer[x]] = x
                           /\ tasks[peer[x]] = x
<1>1. manager[x] = "live" => sessions[peer[x]] = x
  BY DEF Ownership, OneManager
<1>2. Untold(x) => sessions[peer[x]] = x /\ tasks[peer[x]] = x
  BY DEF Ownership, UserReachable, Untold
<1>3. (manager[x] = "live" \/ Untold(x)) => peer[x] # None
  BY DEF TablesInv, Filed, Untold
<1> QED
  BY <1>1, <1>2, <1>3 DEF TablesInv, TypeOK

\* A new session is filed under its station.
LEMMA Entered ==
    ASSUME TypeOK, NEW st \in Stations, NEW s \in Sessions, NewSession(st, s)
    PROVE  peer'[s] = st /\ sessions'[st] = s
BY DEF NewSession, TypeOK

\* The part of the type invariant that ownership depends on.
TableTypes ==
    /\ sessions \in [Stations -> Sessions \cup {None}]
    /\ tasks \in [Stations -> Sessions \cup {None}]
    /\ pending \in [Stations -> Callers \cup {None}]
    /\ peer \in [Sessions -> Stations \cup {None}]
    /\ task \in [Sessions -> {"none", "scheduled", "running", "closed", "done"}]
    /\ manager \in [Sessions -> {"none", "live", "shut"}]

\* Every step leaves each link to one owner.
LEMMA OwnershipStep ==
    ASSUME TablesInv, Ownership, [Next]_vars
    PROVE  Ownership'
<1> DEFINE Owns(x) == /\ manager'[x] = "live" => sessions'[peer'[x]] = x
                      /\ Untold(x)' => sessions'[peer'[x]] = x /\ tasks'[peer'[x]] = x
<1> USE AgwpeAssumption, OwnerFacts
<1> TypeOK /\ Filed
  BY DEF TablesInv
<1> TableTypes
  BY DEF TypeOK, TableTypes
<1>0. (\A x \in Sessions \ displaced' : Owns(x)) => Ownership'
  BY DEF Ownership, OneManager, UserReachable, Untold
<1>1. CASE UNCHANGED <<sessions, tasks, peer, task, eof, cancelled, manager, displaced>>
  BY <1>1 DEF Ownership, OneManager, UserReachable
<1>2. CASE UNCHANGED vars
  BY <1>1, <1>2 DEF vars, tables, sessionVars, history
<1>3. ASSUME NEW st \in Stations, Dispatch(st) PROVE Ownership'
  <2>1. ASSUME NEW s \in Sessions, OutboundConfirmed(st, s) PROVE Ownership'
    <3>0. peer'[s] = st /\ sessions'[st] = s
      <4>1. NewSession(st, s)
        BY <2>1 DEF OutboundConfirmed
      <4> QED
        BY <4>1, Entered
    <3>1. ASSUME NEW x \in Sessions \ displaced' PROVE Owns(x)
      <4>1. CASE x = s
        <5>1. sessions'[peer'[x]] = x
          BY <3>0, <4>1
        <5>2. ~Untold(x)'
          BY <2>1, <4>1 DEF OutboundConfirmed, NewSession, Untold, Filed
        <5> QED
          BY <5>1, <5>2
      <4>2. CASE x # s
        <5>1. peer'[x] = peer[x] /\ manager'[x] = manager[x] /\ (Untold(x)' => Untold(x))
          BY <2>1, <4>2 DEF OutboundConfirmed, NewSession, Untold, TableTypes
        <5>2. x \notin displaced /\ x \notin Old(st)
          BY <2>1 DEF OutboundConfirmed
        <5>3. sessions[st] # x
          BY <5>2 DEF Old
        <5>4. \A y \in Stations : sessions[y] = x => sessions'[y] = x /\ tasks'[y] = tasks[y]
          BY <2>1, <5>3 DEF OutboundConfirmed, NewSession, TableTypes
        <5> QED
          BY <5>1, <5>2, <5>4
      <4> QED
        BY <4>1, <4>2
    <3> QED
      BY <1>0, <3>1
  <2>2. ASSUME NEW s \in Sessions, InboundCrosslink(st, s) PROVE Ownership'
    <3>0. peer'[s] = st /\ sessions'[st] = s
      <4>1. NewSession(st, s)
        BY <2>2 DEF InboundCrosslink
      <4> QED
        BY <4>1, Entered
    <3>1. displaced' = displaced
      BY <2>2 DEF InboundCrosslink, history
    <3>2. ASSUME NEW x \in Sessions \ displaced PROVE Owns(x)
      <4>1. CASE x = s
        <5>1. sessions'[peer'[x]] = x
          BY <3>0, <4>1
        <5>2. ~Untold(x)'
          BY <2>2, <4>1 DEF InboundCrosslink, NewSession, Unstarted, Untold, Filed, TableTypes
        <5> QED
          BY <5>1, <5>2
      <4>2. CASE x # s
        <5>1. peer'[x] = peer[x] /\ (manager'[x] = "live" => manager[x] = "live")
          BY <2>2, <4>2 DEF InboundCrosslink, NewSession, ShutDown, TableTypes
        <5>2. Untold(x)' => Untold(x)
          BY <2>2, <4>2 DEF InboundCrosslink, Unstarted, Cancel, Untold, TableTypes
        <5>3. sessions[st] = x => manager'[x] # "live" /\ ~Untold(x)'
          <6>1. sessions[st] = x => x \in Old(st)
            BY DEF Old
          <6>2. x \in Old(st) => manager'[x] # "live"
            BY <2>2, <4>2 DEF InboundCrosslink, ShutDown, TableTypes
          <6>3. x \in Old(st) => ~Untold(x)'
            BY <2>2 DEF InboundCrosslink, Untold
          <6> QED
            BY <6>1, <6>2, <6>3
        <5>4. \A y \in Stations : y # st => sessions'[y] = sessions[y] /\ tasks'[y] = tasks[y]
          BY <2>2 DEF InboundCrosslink, NewSession, TableTypes
        <5> QED
          BY <5>1, <5>2, <5>3, <5>4
      <4> QED
        BY <4>1, <4>2
    <3> QED
      BY <1>0, <3>1, <3>2
  <2>3. ASSUME NEW s \in Sessions, InboundUser(st, s) PROVE Ownership'
    <3>0. peer'[s] = st /\ sessions'[st] = s /\ tasks'[st] = s
      <4>1. NewSession(st, s) /\ tasks' = [tasks EXCEPT ![st] = s]
        BY <2>3 DEF InboundUser
      <4>2. tasks \in [Stations -> Sessions \cup {None}]
        BY DEF TypeOK
      <4>3. tasks'[st] = s
        BY <4>1, <4>2
      <4> QED
        BY <4>1, <4>3, Entered
    <3>1. displaced' = displaced
      BY <2>3 DEF InboundUser, history
    <3>2. ASSUME NEW x \in Sessions \ displaced PROVE Owns(x)
      <4>1. CASE x = s
        <5>1. sessions'[peer'[x]] = x
          BY <3>0, <4>1
        <5>2. tasks'[peer'[x]] = x
          BY <3>0, <4>1
        <5> QED
          BY <5>1, <5>2
      <4>2. CASE x # s
        <5>1. peer'[x] = peer[x] /\ (manager'[x] = "live" => manager[x] = "live")
          BY <2>3, <4>2 DEF InboundUser, NewSession, ShutDown, TableTypes
        <5>2. Untold(x)' => Untold(x)
          BY <2>3, <4>2 DEF InboundUser, Unstarted, Cancel, Untold, TableTypes
        <5>3. sessions[st] = x => manager'[x] # "live" /\ ~Untold(x)'
          <6>1. sessions[st] = x => x \in Old(st)
            BY DEF Old
          <6>2. x \in Old(st) => manager'[x] # "live"
            BY <2>3, <4>2 DEF InboundUser, ShutDown, TableTypes
          <6>3. x \in Old(st) => ~Untold(x)'
            BY <2>3 DEF InboundUser, Untold
          <6> QED
            BY <6>1, <6>2, <6>3
        <5>4. \A y \in Stations : y # st => sessions'[y] = sessions[y] /\ tasks'[y] = tasks[y]
          BY <2>3 DEF InboundUser, NewSession, TableTypes
        <5> QED
          BY <5>1, <5>2, <5>3, <5>4
      <4> QED
        BY <4>1, <4>2
    <3> QED
      BY <1>0, <3>1, <3>2
  <2>4. CASE Promote(st)
    <3>1. displaced' = displaced
      BY <2>4 DEF Promote, history
    <3>2. ASSUME NEW x \in Sessions \ displaced PROVE Owns(x)
      <4>1. sessions' = sessions /\ peer' = peer
        BY <2>4 DEF Promote
      <4>2. CASE x = sessions[st]
        <5>1. peer[x] = st /\ x \in Old(st)
          BY <2>4, <4>2 DEF Promote, Old, Filed
        <5>2. ~Untold(x)'
          BY <2>4, <5>1 DEF Promote, Untold
        <5> QED
          BY <4>1, <4>2, <5>1, <5>2
      <4>3. CASE x # sessions[st]
        <5>1. manager'[x] = manager[x]
          BY <2>4, <4>3 DEF Promote, TableTypes
        <5>2. Untold(x)' => Untold(x)
          BY <2>4 DEF Promote, Unstarted, Cancel, Untold, TableTypes
        <5>3. \A y \in Stations : y # st => tasks'[y] = tasks[y]
          BY <2>4 DEF Promote, TableTypes
        <5> QED
          BY <4>1, <4>3, <5>1, <5>2, <5>3
      <4> QED
        BY <4>2, <4>3
    <3> QED
      BY <1>0, <3>1, <3>2
  <2>5. CASE NetromFrame(st)
    BY <1>1, <2>5 DEF NetromFrame, tables, sessionVars, history
  <2>6. CASE ConnectFailed(st)
    <3>1. displaced' = displaced
      BY <2>6 DEF ConnectFailed
    <3>2. ASSUME NEW x \in Sessions \ displaced PROVE Owns(x)
      BY <2>6 DEF ConnectFailed, sessionVars, Untold
    <3> QED
      BY <1>0, <3>1, <3>2
  <2>7. CASE Disconnected(st)
    <3>1. displaced' = displaced
      BY <2>7 DEF Disconnected, history
    <3>2. ASSUME NEW x \in Sessions \ displaced PROVE Owns(x)
      BY <2>7 DEF Disconnected, DropSession, ShutDown, Old, Untold, Filed, TableTypes
    <3> QED
      BY <1>0, <3>1, <3>2
  <2> QED
    BY <1>3, <2>1, <2>2, <2>3, <2>4, <2>5, <2>6, <2>7 DEF Dispatch
<1>4. ASSUME NEW st \in Stations, Environment(st) PROVE Ownership'
  BY <1>1, <1>4 DEF Environment, StationConnects, StationDisconnects, StationSendsNetrom,
                    tables, sessionVars, history
<1>5. ASSUME NEW s \in Sessions, Task(s) PROVE Ownership'
  <2>1. CASE TaskStarts(s) \/ TaskCloses(s)
    <3>1. displaced' = displaced
      BY <2>1 DEF TaskStarts, TaskCloses, history
    <3>2. ASSUME NEW x \in Sessions \ displaced PROVE Owns(x)
      <4>1. UNCHANGED <<sessions, tasks, peer, eof, cancelled, manager>>
        BY <2>1 DEF TaskStarts, TaskCloses, tables
      <4>2. task'[x] \in {"scheduled", "running"} => task[x] \in {"scheduled", "running"}
        <5>1. CASE TaskStarts(s)
          BY <5>1 DEF TaskStarts, TableTypes
        <5>2. CASE TaskCloses(s)
          BY <5>2 DEF TaskCloses, TableTypes
        <5> QED
          BY <2>1, <5>1, <5>2
      <4>3. Untold(x)' => Untold(x)
        BY <4>1, <4>2 DEF Untold
      <4> QED
        BY <4>1, <4>3
    <3> QED
      BY <1>0, <3>1, <3>2
  <2>2. CASE TaskEnds(s)
    <3>1. displaced' = displaced
      BY <2>2 DEF TaskEnds, history
    <3>2. ASSUME NEW x \in Sessions \ displaced PROVE Owns(x)
      BY <2>2 DEF TaskEnds, OwnEntry, Untold, TableTypes
    <3> QED
      BY <1>0, <3>1, <3>2
  <2>3. CASE WriteTimesOut(s)
    BY <1>1, <2>3 DEF WriteTimesOut, tables, history
  <2> QED
    BY <1>5, <2>1, <2>2, <2>3 DEF Task
<1>6. ASSUME NEW s \in Sessions, ManagerCloses(s) PROVE Ownership'
  BY <1>1, <1>6 DEF ManagerCloses, tables, history
<1>7. ASSUME NEW c \in Callers, Call(c) PROVE Ownership'
  BY <1>1, <1>7 DEF Call, Sent, SendFails, Resume, TimesOut, CallerCancelled,
                    tables, sessionVars, history
<1>8. ASSUME NEW c \in Callers, NEW st \in Stations, ConnectOut(c, st) PROVE Ownership'
  BY <1>1, <1>8 DEF ConnectOut, sessionVars, history
<1>9. CASE TcpUp \/ TcpLost
  BY <1>1, <1>9 DEF TcpUp, TcpLost, tables, sessionVars, history
<1>10. CASE TcpCleanup
  <2>1. displaced' = displaced
    BY <1>10 DEF TcpCleanup, history
  <2>2. ASSUME NEW x \in Sessions \ displaced PROVE Owns(x)
    <3>1. \A y \in Stations : sessions[y] = x => x \in UNION {Old(st) : st \in Stations}
      <4>1. \A y \in Stations : sessions[y] = x => x \in Old(y)
        BY DEF Old
      <4> QED
        BY <4>1
    <3>2. manager'[x] # "live"
      BY <1>10, <3>1 DEF TcpCleanup, ShutDown
    <3>3. ~Untold(x)'
      BY <1>10, <3>1 DEF TcpCleanup, Unstarted, Cancel, Untold
    <3> QED
      BY <3>2, <3>3
  <2> QED
    BY <1>0, <2>1, <2>2
<1> QED
  BY <1>2, <1>3, <1>4, <1>5, <1>6, <1>7, <1>8, <1>9, <1>10 DEF Next

\* Each link has one owner for ever.
LEMMA OwnershipInvariant == Spec => []Ownership
<1>1. Init => Ownership
  <2> SUFFICES ASSUME Init PROVE Ownership
    OBVIOUS
  <2>1. OneManager
    BY DEF Init, OneManager
  <2>2. UserReachable
    <3>1. \A s \in Sessions : task[s] \notin {"scheduled", "running"}
      BY DEF Init
    <3> QED
      BY <3>1 DEF UserReachable
  <2> QED
    BY <2>1, <2>2 DEF Ownership
<1>2. TablesInv /\ Ownership /\ [Next]_vars => Ownership'
  BY OwnershipStep
<1> QED
  BY <1>1, <1>2, TablesInvariant, PTL DEF Spec

\* No circuit manager survives the loss of its link, so none can close, on its
\* idle timer, a link that has been handed to another: except the manager of a
\* user's session that an outbound confirmation displaced.
THEOREM ManagersAreUnique == Spec => []OneManager
BY OwnershipInvariant, PTL DEF Ownership

\* A session that runs and was not told to end is reached by the frames of its
\* station and cancelled with its TCP connection, unless an outbound
\* confirmation displaced it.
THEOREM UsersAreReachable == Spec => []UserReachable
BY OwnershipInvariant, PTL DEF Ownership
=============================================================================
