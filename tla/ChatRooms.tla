------------------------------ MODULE ChatRooms ------------------------------
(***************************************************************************)
(* The chat plugin (bbs/plugins/chat/chat.py) and the room deletion of its *)
(* web interface (server/routes/chat.py): the room registry, the members   *)
(* and their inboxes, the reader task of every session, whispers and the   *)
(* table that holds them, and the saving of history.                       *)
(*                                                                         *)
(* A session id is one visit of a station to chat; a station that comes    *)
(* back, or is connected twice, has several.  A room object is a name and  *)
(* the number of rooms of that name deleted before it.  A queue is only    *)
(* ever in use for the last room its session joined, so there is one inbox *)
(* per session.  Of the history only what a restart makes of it is kept:   *)
(* whether a room that is not configured has stored lines; saves of one    *)
(* room that overlap end together.                                         *)
(***************************************************************************)
EXTENDS Naturals, Sequences, FiniteSetsExt, SequencesExt

CONSTANTS
    Sessions,      \* visits to chat
    Calls,         \* callsigns
    Identities,    \* the callsigns the sessions may have identified with
    Sysops,        \* the sessions that may delete rooms
    Names,         \* room names, ...
    Configured,    \* ... the ones of default_rooms, in order, ...
    Main,          \* ... and "main", made when there is no room at all
    Nobody,        \* not a session: no entry in a members dict
    QueueMax,      \* asyncio.Queue(maxsize=100)
    MaxWhispers,   \* bound: whispers sent
    MaxJoins,      \* bound: rooms a session joins, the first one too
    MaxDeletes,    \* bound: deletions of a name, and of all once one got there
    MaxRestarts    \* bound: restarts of the program

ASSUME ChatAssumption ==
    /\ Identities \subseteq [Sessions -> Calls]
    /\ Nobody \notin Sessions
    /\ Sysops \subseteq Sessions
    /\ Main \in Names /\ Configured \in Seq(Names) /\ IsInjective(Configured)
    /\ QueueMax \in Nat \ {0} /\ MaxJoins \in Nat \ {0}
    /\ {MaxWhispers, MaxDeletes, MaxRestarts} \subseteq Nat

Objects == Names \X (0..MaxDeletes)

VARIABLES
    rooms,       \* _rooms: names in the order of insertion
    deletes,     \* rooms of each name deleted so far
    members,     \* room object -> callsign -> session whose queue is entered
    wired,       \* room objects with a _persist_cb
    silenced,    \* room objects taken from the registry by /DELROOM
    call,        \* the callsign of the session
    pc,          \* where handle_session() is
    room,        \* the room of _chat_loop()
    first,       \* current_room of handle_session()
    joins,       \* rooms the session has joined
    box,         \* inbox: lines, whispers and the None sentinel
    reader,      \* the reader task
    missed,      \* sessions that lost something to a full queue
    whispers,    \* /MSG commands so far: addressee and what became of them
    asking,      \* the whisper a session is finding a place for
    held,        \* chat_offline_msgs
    rows,        \* held whispers a session has read from the table
    shown,       \* held whispers that were printed
    target,      \* the room /DELROOM is deleting
    stored,      \* not configured names with rows in chat_history
    saves,       \* not configured names with a save under way
    restarts

roomVars    == <<rooms, deletes, members, wired, silenced>>
sessionVars == <<call, pc, room, first, joins>>
inboxVars   == <<box, reader, missed>>
whisperVars == <<whispers, asking, held, rows, shown>>
storeVars   == <<stored, saves, restarts>>
vars == <<roomVars, sessionVars, inboxVars, whisperVars, target, storeVars>>

Line == <<"line", 0>>
Sentinel == <<"None", 0>>
Private(i) == <<"whisper", i>>
Entering == {"joined", "fetched", "cleared"}
Looping  == {"prompt", "busy", "asking", "deleting"}
\* A reader ends by the sentinel, or by an exception.
Ended == {"done", "failed"}
NoRoom == <<>>

TypeOK ==
    /\ rooms \in Seq(Names) /\ IsInjective(rooms)
    /\ deletes \in [Names -> 0..MaxDeletes]
    /\ members \in [Objects -> [Calls -> Sessions \cup {Nobody}]]
    /\ wired \subseteq Objects /\ silenced \subseteq Objects
    /\ call \in [Sessions -> Calls]
    /\ pc \in [Sessions -> {"away", "gone", "cut"} \cup Entering \cup Looping]
    /\ \A s \in Sessions : /\ {room[s], first[s]} \subseteq Objects \cup {NoRoom}
                           /\ Len(box[s]) <= QueueMax
                           /\ asking[s] \in 0..MaxWhispers
                           /\ rows[s] \subseteq 1..MaxWhispers
                           /\ target[s] \in Names
    /\ joins \in [Sessions -> 0..MaxJoins]
    /\ reader \in [Sessions -> {"off", "reads"} \cup Ended]
    /\ missed \subseteq Sessions
    /\ held \cup shown \subseteq 1..Len(whispers)
    /\ stored \cup saves \subseteq Names
-----------------------------------------------------------------------------
\* The room object a name stands for in the registry.
Object(n) == <<n, deletes[n]>>
Open(o) == o[1] \in Range(rooms) /\ o = Object(o[1])

\* get_or_create_room(): a new room goes to the end of the registry.
Entered(n) == IF n \in Range(rooms) THEN rooms ELSE Append(rooms, n)

\* The sessions whose queue a broadcast in a room reaches, but for one callsign.
Reached(m, o, skip) == {m[o][c] : c \in Calls \ skip} \ {Nobody}

\* put_nowait() on each of them; a full queue drops the item.
Put(b, to, item) ==
    [s \in Sessions |-> IF s \in to /\ Len(b[s]) < QueueMax
                        THEN Append(b[s], item) ELSE b[s]]

Overflow(b, to) == {s \in to : Len(b[s]) = QueueMax}

\* The members once a session joined, or a callsign left, a room object.
Joined(m, o, s) == [m EXCEPT ![o][call[s]] = s]

\* A mutant: a session that leaves stays a member.
StaysEntered(m, o, s) == m

Left(m, o, s)   == [m EXCEPT ![o][call[s]] = Nobody]

\* Every broadcast of a room with a callback starts a save of its line.
Saved(o) == IF o \in wired' THEN {o[1]} \ Range(Configured) ELSE {}
-----------------------------------------------------------------------------
Init ==
    /\ rooms = Configured
    /\ deletes = [n \in Names |-> 0]
    /\ members = [o \in Objects |-> [c \in Calls |-> Nobody]]
    /\ wired = {<<n, 0>> : n \in Range(Configured)}
    /\ silenced = {}
    /\ call \in Identities
    /\ pc = [s \in Sessions |-> "away"]
    /\ room = [s \in Sessions |-> NoRoom]
    /\ first = [s \in Sessions |-> NoRoom]
    /\ joins = [s \in Sessions |-> 0]
    /\ box = [s \in Sessions |-> <<>>]
    /\ reader = [s \in Sessions |-> "off"]
    /\ missed = {}
    /\ whispers = <<>>
    /\ asking = [s \in Sessions |-> 0]
    /\ held = {}
    /\ rows = [s \in Sessions |-> {}]
    /\ shown = {}
    /\ target = [s \in Sessions |-> Main]
    /\ stored = {} /\ saves = {} /\ restarts = 0

\* handle_session(): the first room of the registry, or a new "main" that has
\* no callback yet.
Enter(s) ==
    LET n == IF rooms = <<>> THEN Main ELSE Head(rooms)
        o == Object(n)
        m == Joined(members, o, s)
        to == Reached(m, o, {call[s]})
    IN  /\ pc[s] = "away"
        /\ rooms' = Entered(n)
        /\ members' = m
        /\ pc' = [pc EXCEPT ![s] = "joined"]
        /\ room' = [room EXCEPT ![s] = o]
        /\ first' = [first EXCEPT ![s] = o]
        /\ joins' = [joins EXCEPT ![s] = 1]
        /\ box' = Put(box, to, Line)
        /\ missed' = missed \cup Overflow(box, to)
        /\ UNCHANGED <<deletes, wired, silenced, call, reader, whisperVars, target,
                       stored, restarts>>
        /\ saves' = saves \cup Saved(o)

\* _flush_offline_msgs(): the rows are read, deleted and only then printed.
Fetch(s) ==
    LET mine == {i \in held : whispers[i].to = call[s]}
    IN  /\ pc[s] = "joined"
        /\ rows' = [rows EXCEPT ![s] = mine]
        /\ IF mine = {} THEN /\ pc' = [pc EXCEPT ![s] = "prompt"]
                             /\ reader' = [reader EXCEPT ![s] = "reads"]
                        ELSE /\ pc' = [pc EXCEPT ![s] = "fetched"]
                             /\ UNCHANGED reader
        /\ UNCHANGED <<roomVars, call, room, first, joins, box, missed, whispers,
                       asking, held, shown, target, storeVars>>

Clear(s) ==
    /\ pc[s] = "fetched"
    /\ held' = {i \in held : whispers[i].to # call[s]}
    /\ pc' = [pc EXCEPT ![s] = "cleared"]
    /\ UNCHANGED <<roomVars, call, room, first, joins, inboxVars, whispers, asking,
                   rows, shown, target, storeVars>>

\* A mutant: what was fetched is deleted before it is printed.
DeletedUnseen(s) ==
    /\ pc[s] = "fetched"
    /\ held' = {i \in held : whispers[i].to # call[s]}
    /\ rows' = [rows EXCEPT ![s] = {}]
    /\ pc' = [pc EXCEPT ![s] = "prompt"]
    /\ reader' = [reader EXCEPT ![s] = "reads"]
    /\ UNCHANGED <<roomVars, call, room, first, joins, box, missed, whispers, asking,
                   shown, target, storeVars>>

\* The database fails: nothing is deleted and nothing is printed.
ClearFails(s) ==
    /\ pc[s] = "fetched"
    /\ rows' = [rows EXCEPT ![s] = {}]
    /\ pc' = [pc EXCEPT ![s] = "prompt"]
    /\ reader' = [reader EXCEPT ![s] = "reads"]
    /\ UNCHANGED <<roomVars, call, room, first, joins, box, missed, whispers, asking,
                   held, shown, target, storeVars>>

Show(s) ==
    /\ pc[s] = "cleared"
    /\ shown' = shown \cup rows[s]
    /\ rows' = [rows EXCEPT ![s] = {}]
    /\ pc' = [pc EXCEPT ![s] = "prompt"]
    /\ reader' = [reader EXCEPT ![s] = "reads"]
    /\ UNCHANGED <<roomVars, call, room, first, joins, box, missed, whispers, asking,
                   held, target, storeVars>>

\* A cancellation before the try clause: nothing takes the member out.
CutEntering(s) ==
    /\ pc[s] \in Entering
    /\ pc' = [pc EXCEPT ![s] = "cut"]
    /\ rows' = [rows EXCEPT ![s] = {}]
    /\ UNCHANGED <<roomVars, call, room, first, joins, inboxVars, whispers, asking,
                   held, shown, target, storeVars>>

\* The finally clauses: the reader is cancelled and the callsign leaves the
\* room the session entered first.
Exits(s) ==
    LET o == first[s]
        m == Left(members, o, s)
        to == Reached(m, o, {call[s]})
    IN  /\ pc' = [pc EXCEPT ![s] = "gone"]
        /\ reader' = [reader EXCEPT ![s] = "off"]
        /\ asking' = [asking EXCEPT ![s] = 0]
        /\ members' = m
        /\ box' = Put(box, to, Line)
        /\ missed' = (missed \cup Overflow(box, to)) \ {s}
        /\ UNCHANGED <<rooms, deletes, wired, silenced, call, room, first, joins,
                       whispers, held, rows, shown, target, stored, restarts>>
        /\ saves' = saves \cup Saved(o)

\* /QUIT, and a cancellation or a lost connection anywhere in the loop.
Quit(s) == pc[s] = "prompt" /\ Exits(s)
CutLooping(s) == pc[s] \in Looping /\ Exits(s)

\* The top of the loop: a reader that has ended, for whatever reason, is taken
\* to mean that the room was deleted.
LoopTop(s) ==
    /\ pc[s] = "busy"
    /\ \/ reader[s] \in Ended /\ Exits(s)
       \/ /\ reader[s] \notin Ended
          /\ pc' = [pc EXCEPT ![s] = "prompt"]
          /\ UNCHANGED <<roomVars, call, room, first, joins, inboxVars, whisperVars,
                         target, storeVars>>

\* The reader prints a line, or ends without a word if the write fails or times
\* out; it puts a sentinel back for nobody to read and ends.
Read(s) ==
    /\ reader[s] = "reads" /\ box[s] # <<>>
    /\ IF Head(box[s]) = Sentinel
       THEN /\ reader' = [reader EXCEPT ![s] = "done"]
            /\ box' = [box EXCEPT ![s] = Append(Tail(box[s]), Sentinel)]
       ELSE /\ box' = [box EXCEPT ![s] = Tail(box[s])]
            /\ reader' \in {reader, [reader EXCEPT ![s] = "failed"]}
    /\ UNCHANGED <<roomVars, sessionVars, missed, whisperVars, target, storeVars>>
-----------------------------------------------------------------------------
\* ChatRoom.broadcast(): a line of text goes to every member, its author too.
Say(s) ==
    LET to == Reached(members, room[s], {})
    IN  /\ pc[s] = "prompt"
        /\ pc' = [pc EXCEPT ![s] = "busy"]
        /\ box' = Put(box, to, Line)
        /\ missed' = missed \cup Overflow(box, to)
        /\ UNCHANGED <<roomVars, call, room, first, joins, reader, whisperVars, target,
                       stored, restarts>>
        /\ saves' = saves \cup Saved(room[s])

\* /JOIN: out of the old room, into the new one, with a new and empty queue.
Join(s, n) ==
    LET o == Object(n)
        out == Left(members, room[s], s)
        bye == Reached(out, room[s], {call[s]})
        in == Joined(out, o, s)
        hi == Reached(in, o, {call[s]})
        b == Put(box, bye, Line)
    IN  /\ pc[s] = "prompt" /\ joins[s] < MaxJoins
        /\ rooms' = Entered(n)
        /\ wired' = wired \cup {o}
        /\ members' = in
        /\ room' = [room EXCEPT ![s] = o]
        /\ joins' = [joins EXCEPT ![s] = @ + 1]
        /\ box' = [Put(b, hi, Line) EXCEPT ![s] = <<>>]
        /\ missed' = missed \cup Overflow(box, bye) \cup Overflow(b, hi)
        /\ pc' = [pc EXCEPT ![s] = "busy"]
        /\ UNCHANGED <<deletes, silenced, call, first, reader, whisperVars, target,
                       stored, restarts>>
        /\ saves' = saves \cup Saved(room[s]) \cup Saved(o)

\* find_member_room() after a look in the sender's own room: the queue that a
\* whisper goes to, if there is one.
Holder(s, c) ==
    LET own == members[room[s]][c]
        at == {k \in 1..Len(rooms) : members[Object(rooms[k])][c] # Nobody}
    IN  IF own # Nobody THEN own
        ELSE IF at = {} THEN Nobody
        ELSE members[Object(rooms[CHOOSE k \in at : \A j \in at : k <= j])][c]

\* /MSG and /R: into the queue found and acknowledged, or a place is looked for.
Whisper(s, c) ==
    LET q == Holder(s, c)
        live == q # Nobody /\ Len(box[q]) < QueueMax
        i == Len(whispers) + 1
    IN  /\ pc[s] = "prompt" /\ c # call[s]
        /\ Len(whispers) < MaxWhispers
        /\ whispers' = Append(whispers, [to |-> c, how |-> IF live THEN "live" ELSE "asked"])
        /\ box' = IF live THEN Put(box, {q}, Private(i)) ELSE box
        /\ missed' = IF q = Nobody THEN missed ELSE missed \cup Overflow(box, {q})
        /\ pc' = [pc EXCEPT ![s] = IF live THEN "busy" ELSE "asking"]
        /\ asking' = [asking EXCEPT ![s] = IF live THEN 0 ELSE i]
        /\ UNCHANGED <<roomVars, call, room, first, joins, reader, held, rows, shown,
                       target, storeVars>>

\* The rest of _deliver_private_msg(): the whisper is held, or not: an unknown
\* addressee is refused, it becomes a bulletin, or it cannot be stored.
Place(s, how) ==
    /\ pc[s] = "asking"
    /\ whispers' = [whispers EXCEPT ![asking[s]].how = how]
    /\ held' = IF how = "held" THEN held \cup {asking[s]} ELSE held
    /\ asking' = [asking EXCEPT ![s] = 0]
    /\ pc' = [pc EXCEPT ![s] = "busy"]
    /\ UNCHANGED <<roomVars, call, room, first, joins, inboxVars, rows, shown, target,
                   storeVars>>
-----------------------------------------------------------------------------
\* The bound on deletions.
MayDelete == \A n \in Names : deletes[n] < MaxDeletes

\* _rooms.pop(): what is left of the registry without one of its names.
Popped(n) == RemoveAt(rooms, CHOOSE k \in 1..Len(rooms) : rooms[k] = n)

\* What the members of a deleted room find in their queues: the notice, ...
Notice(o) == Put(box, Reached(members, o, {}), Line)

\* A mutant: no sentinel.
NoticeOnly(o) == Notice(o)

\* ... and, after /DELROOM, the sentinel if it still fits.
Signalled(o) == Put(Notice(o), Reached(members, o, {}), Sentinel)

\* _delete_room(): the stored history goes first, ...
DelRoomBegins(s, n) ==
    /\ pc[s] = "prompt" /\ s \in Sysops
    /\ n # room[s][1]
    /\ MayDelete
    /\ stored' = stored \ {n}
    /\ target' = [target EXCEPT ![s] = n]
    /\ pc' = [pc EXCEPT ![s] = "deleting"]
    /\ UNCHANGED <<roomVars, call, room, first, joins, inboxVars, whisperVars, saves, restarts>>

\* ... then the room, whose last broadcast starts one more save.
DelRoomEnds(s) ==
    LET n == target[s]
        o == Object(n)
        to == Reached(members, o, {})
    IN  /\ pc[s] = "deleting"
        /\ pc' = [pc EXCEPT ![s] = "busy"]
        /\ IF n \in Range(rooms) /\ MayDelete
           THEN /\ rooms' = Popped(n)
                /\ deletes' = [deletes EXCEPT ![n] = @ + 1]
                /\ silenced' = silenced \cup {o}
                /\ box' = Signalled(o)
                /\ missed' = missed \cup Overflow(Notice(o), to)
                /\ UNCHANGED <<members, wired>>
                /\ saves' = saves \cup Saved(o)
           ELSE UNCHANGED <<roomVars, box, missed, saves>>
        /\ target' = [target EXCEPT ![s] = Main]
        /\ UNCHANGED <<call, room, first, joins, reader, whisperVars, stored, restarts>>

\* DELETE /api/chat/rooms/<room>: another thread, so there is no loop to save
\* the notice on; and no sentinel.
RestDelete(n) ==
    LET o == Object(n)
    IN  /\ n \in Range(rooms) /\ MayDelete
        /\ stored' = stored \ {n}
        /\ rooms' = Popped(n)
        /\ deletes' = [deletes EXCEPT ![n] = @ + 1]
        /\ box' = Notice(o)
        /\ missed' = missed \cup Overflow(box, Reached(members, o, {}))
        /\ UNCHANGED <<members, wired, silenced, sessionVars, reader, whisperVars,
                       target, saves, restarts>>

\* _persist(): the insert and the trim are committed together, or fail.
SaveEnds(n) ==
    /\ n \in saves
    /\ saves' = saves \ {n}
    /\ stored' \in {stored, stored \cup {n}}
    /\ UNCHANGED <<roomVars, sessionVars, inboxVars, whisperVars, target, restarts>>

\* The program restarts: initialize() makes the configured rooms and one for
\* every name with stored lines.  Only the restarts that find some are taken.
Restart ==
    /\ restarts < MaxRestarts /\ stored # {}
    /\ restarts' = restarts + 1
    /\ \E order \in SetToSeqs(stored) : rooms' = Configured \o order
    /\ wired' = wired \cup {Object(n) : n \in Range(rooms')}
    /\ members' = [o \in Objects |-> [c \in Calls |-> Nobody]]
    /\ pc' = [s \in Sessions |-> IF pc[s] = "away" THEN "away" ELSE "gone"]
    /\ reader' = [s \in Sessions |-> "off"]
    /\ box' = [s \in Sessions |-> <<>>]
    /\ asking' = [s \in Sessions |-> 0]
    /\ rows' = [s \in Sessions |-> {}]
    /\ saves' = {}
    /\ UNCHANGED <<deletes, silenced, call, room, first, joins, missed, whispers, held,
                   shown, target, stored>>
-----------------------------------------------------------------------------
Flushes(s) == Fetch(s) \/ Clear(s) \/ ClearFails(s) \/ Show(s)

Command(s) ==
    \/ Say(s) \/ Quit(s) \/ DelRoomEnds(s)
    \/ \E n \in Names : Join(s, n) \/ DelRoomBegins(s, n)
    \/ \E c \in Calls : Whisper(s, c)
    \/ \E how \in {"held", "unheld"} : Place(s, how)

Next ==
    \/ \E s \in Sessions :
          \/ Enter(s) \/ Flushes(s) \/ LoopTop(s) \/ Read(s) \/ Command(s)
          \/ CutEntering(s) \/ CutLooping(s)
    \/ \E n \in Names : RestDelete(n) \/ SaveEnds(n)
    \/ Restart

Spec == Init /\ [][Next]_vars
-----------------------------------------------------------------------------
InChat(s) == pc[s] \in Entering \cup Looping

\* Another visit under the same callsign has had its hands on the dict entry.
Rival(s) == \E t \in Sessions \ {s} : call[t] = call[s] /\ pc[t] # "away"

\* A session in chat is entered in the room it is in, so that broadcasts and
\* whispers find it, unless a second session of its callsign joined or left:
\* and an entry without a session is only ever left by a cancellation on the
\* way in or by a session that had used /JOIN (ChatRoom.join(), leave() and the
\* finally clause of handle_session()).
MembershipTrue ==
    /\ TypeOK
    /\ \A s \in Sessions :
          InChat(s) /\ ~Rival(s) => members[room[s]][call[s]] = s
    /\ \A o \in Objects, c \in Calls :
          LET s == members[o][c] IN
          s # Nobody => /\ o = room[s]
                        /\ pc[s] = "gone" => o # first[s]

\* A session whose room /DELROOM took away has the sentinel waiting or its
\* reader has taken it, so that it leaves at its next line, unless its queue was
\* full or its entry was not its own any more; and a reader that ends otherwise
\* than by an exception does so because the room it reads, or one it read before
\* a /JOIN, was deleted (_delete_room() and _reader()).
DeletionTold ==
    \A s \in Sessions : pc[s] \in Looping =>
        /\ room[s] \in silenced /\ s \notin missed /\ ~Rival(s)
              => reader[s] = "done" \/ Sentinel \in Range(box[s])
        /\ reader[s] = "done" => room[s] \in silenced \/ joins[s] > 1

\* A whisper that a session has read from the table is printed to it before it
\* is forgotten, or is in the table still, unless the session was cut off
\* between the deletion and the printing, or its own deletion failed after a
\* second session of its callsign had deleted the same rows
\* (_flush_offline_msgs()).
HeldShown ==
    [][\A s \in Sessions : \A i \in rows[s] \ rows'[s] :
          \/ i \in shown' \/ i \in held' \/ ~InChat(s)'
          \/ pc[s] = "fetched" /\ Rival(s)]_vars

\* What the module's docstring says: to a station that is not in chat at all a
\* whisper is stored rather than dropped, so one that was acknowledged as
\* delivered is in the queue of a session that is there.
DeliveredToSomebody ==
    \A s \in Sessions, i \in 1..Len(whispers) :
        whispers[i].how = "live" /\ Private(i) \in Range(box[s]) => InChat(s)

\* What the docstring of _delete_room() says: it removes all stored history, so
\* that a room that is not there gets no stored lines.
DeletedForGood ==
    [][\A n \in Names \ Range(rooms) : n \in stored' => n \in stored]_vars
=============================================================================
