------------------------------ MODULE Bulletins ------------------------------
(***************************************************************************)
(* The bulletin board (bbs/plugins/bulletins/bulletin.py) and the area     *)
(* management of its web interface (server/routes/bulletins.py).           *)
(*                                                                         *)
(* Every session has an SQLite connection of its own.  What the model      *)
(* keeps of SQLite is what the code relies on: ids that are never used     *)
(* again (AUTOINCREMENT), the unique indices, foreign keys that only the    *)
(* web interface's connections enforce (PRAGMA foreign_keys=ON), and a     *)
(* transaction that a refused statement leaves open, with the write lock,  *)
(* until the connection commits or is closed.  Texts, dates and the layout *)
(* are left out.                                                           *)
(***************************************************************************)
EXTENDS Integers, FiniteSetsExt

CONSTANTS
    Sessions,       \* places for a session, of one caller after the other
    Callers,        \* callsigns, ...
    Sysops,         \* ... of sysops, ...
    Authentic,      \* ... of stations that authenticate
    All,            \* the addressee of a public message
    Nobody,         \* no caller, nobody who holds the write lock
    Names,          \* area names, as numbers: ORDER BY name
    Seeded,         \* the names of default_areas
    DefaultName,    \* default_area of the configuration, 0 for none
    MsgArea,        \* msg_area of the chat's configuration, 0 for none
    Addressees,     \* bound: the callsigns that messages are sent to
    MaxAreas,       \* bound: areas ever made
    MaxMessages     \* bound: messages ever posted

ASSUME BulletinsAssumption ==
    /\ Sysops \subseteq Authentic /\ Authentic \subseteq Callers
    /\ Addressees \subseteq Callers
    /\ Nobody \notin Callers \cup Sessions
    /\ Names \subseteq Nat \ {0} /\ Seeded \subseteq Names
    /\ DefaultName \in Names \cup {0} /\ MsgArea \in Names \cup {0}
    /\ MaxAreas \in Nat /\ MaxMessages \in Nat
    /\ IsFiniteSet(Seeded) /\ Cardinality(Seeded) <= MaxAreas

Areas == 1..MaxAreas
Messages == 1..MaxMessages

VARIABLES
    areas,      \* bulletin_areas: the ids that exist
    name,       \* the name of each area
    default,    \* the areas with is_default = 1
    made,       \* the last area id given out
    rows,       \* bulletin_messages: the ids that exist
    message,    \* area, number, sender, addressee, deleted flag; and whether
                \* the area was gone when it was posted
    posted,     \* the last message id given out
    receipts,   \* read_receipts: callsign and message
    writer,     \* the session whose open transaction holds the write lock
    call,       \* the caller of each session
    pc,         \* what a session is doing
    area,       \* the area it has selected, 0 for none
    draft       \* the area it writes to, or the message it reads

boardVars   == <<areas, name, default, made>>
messageVars == <<rows, message, posted, receipts>>
sessionVars == <<call, pc, area, draft>>
vars == <<boardVars, messageVars, writer, sessionVars>>

Writing == {"write", "hand"}

TypeOK ==
    /\ areas \subseteq 1..made /\ made <= MaxAreas
    /\ default \subseteq areas
    /\ name \in [Areas -> Names \cup {0}]
    /\ rows \subseteq 1..posted /\ posted <= MaxMessages
    /\ receipts \subseteq Callers \X Messages
    /\ writer \in Sessions \cup {Nobody}
    /\ call \in [Sessions -> Callers \cup {Nobody}]
    /\ pc \in [Sessions -> {"out", "menu", "read"} \cup Writing]
    /\ area \in [Sessions -> Areas \cup {0}]
    /\ draft \in [Sessions -> Nat]
-----------------------------------------------------------------------------
\* _resolve_default_area(): the flagged area, else the configured name.
DefaultArea ==
    IF default # {} THEN Min(default)
    ELSE LET named == {a \in areas : name[a] = DefaultName}
         IN  IF named = {} THEN 0 ELSE Min(named)

\* _resolve_area_for_post(): the area that is asked for, else the default area,
\* else the first by name.
AreaForPost ==
    LET asked == {a \in areas : name[a] = MsgArea}
    IN  IF asked # {} THEN Min(asked)
        ELSE IF DefaultArea # 0 \/ areas = {} THEN DefaultArea
        ELSE CHOOSE a \in areas : \A b \in areas : name[a] <= name[b]

\* The number a new message gets, and the id a new area gets.
NextNumber(a) == 1 + Max({0} \cup {message[m].num : m \in {r \in rows : message[r].area = a}})

\* A mutant: the id of a deleted area is given again.
ReusedId == 1 + Max({0} \cup areas)

NextArea == 1 + made

\* _fetch_messages(): what a session may see of an area.
VisibleTo(s, a) ==
    {m \in rows : /\ message[m].area = a /\ ~message[m].deleted
                  /\ call[s] \in Sysops \/ call[s] \in {message[m].from, message[m].to}
                                  \/ message[m].to = All}

\* A connection may write, or waits for the write lock until it times out.
MayWrite(s) == writer \in {Nobody, s}
Committed == writer' = Nobody
-----------------------------------------------------------------------------
Init ==
    /\ made = Cardinality(Seeded)
    /\ areas = 1..made
    /\ name \in [Areas -> Names \cup {0}]
    /\ {name[a] : a \in areas} = Seeded /\ \A a \in Areas \ areas : name[a] = 0
    /\ default = {}
    /\ rows = {} /\ posted = 0 /\ receipts = {}
    /\ message = [m \in Messages |-> [area |-> 0, num |-> 0, from |-> All, to |-> All,
                                      deleted |-> FALSE, late |-> FALSE]]
    /\ writer = Nobody
    /\ call = [s \in Sessions |-> Nobody]
    /\ pc = [s \in Sessions |-> "out"]
    /\ area = [s \in Sessions |-> 0]
    /\ draft = [s \in Sessions |-> 0]

\* The session is at a prompt again.
Prompts(s, p) ==
    /\ pc' = [pc EXCEPT ![s] = p]
    /\ draft' = [draft EXCEPT ![s] = 0]

\* The connection is closed: an open transaction is rolled back.
Closes(s) ==
    /\ Prompts(s, "out")
    /\ call' = [call EXCEPT ![s] = Nobody]
    /\ area' = [area EXCEPT ![s] = 0]
    /\ writer' = IF writer = s THEN Nobody ELSE writer

\* The session begins; it opens the board with the selection of an earlier
\* visit, else with the default area, and may leave and open it again.
Connects(s) ==
    /\ pc[s] = "out"
    /\ pc' = [pc EXCEPT ![s] = "menu"]
    /\ \E c \in Callers : call' = [call EXCEPT ![s] = c]
    /\ UNCHANGED <<boardVars, messageVars, writer, area, draft>>

Opens(s) ==
    /\ pc[s] = "menu" /\ area[s] = 0
    /\ area' = [area EXCEPT ![s] = DefaultArea]
    /\ UNCHANGED <<call, boardVars, messageVars, writer, pc, draft>>

\* The session ends, wherever it is; and a statement that waits too long for
\* the lock or is refused ends it too, unless the code catches the exception.
Ends(s) ==
    /\ pc[s] # "out"
    /\ Closes(s)
    /\ UNCHANGED <<boardVars, messageVars>>
-----------------------------------------------------------------------------
\* A: picked from the index of _list_areas(); that the area may be gone by
\* then is the same as that it goes right after.
Selects(s, a) ==
    /\ pc[s] = "menu" /\ a \in areas
    /\ area' = [area EXCEPT ![s] = a]
    /\ UNCHANGED <<call, boardVars, messageVars, writer, pc, draft>>

\* E, K and D of the sysop's area menu: as soon as there is an area to show,
\* _show_areas_index() fails on a name it does not have, and the session ends.
ShowsAreas(s) ==
    /\ pc[s] = "menu" /\ call[s] \in Sysops /\ areas # {}
    /\ Closes(s)
    /\ UNCHANGED <<boardVars, messageVars>>

Cancels(s) ==
    /\ pc[s] \in Writing
    /\ Prompts(s, "menu")
    /\ UNCHANGED <<call, boardVars, messageVars, writer, area>>

Taken(n, a) == \E b \in areas \ {a} : name[b] = n

\* A new row of bulletin_areas.
Makes(n) ==
    /\ made < MaxAreas
    /\ areas' = areas \cup {NextArea}
    /\ name' = [name EXCEPT ![NextArea] = n]
    /\ made' = IF NextArea > made THEN NextArea ELSE made

\* _sysop_new_area(): a refused INSERT is reported, and its transaction left.
Creates(s, n) ==
    /\ pc[s] = "menu" /\ call[s] \in Sysops /\ MayWrite(s)
    /\ \/ /\ Taken(n, 0)
          /\ writer' = s
          /\ UNCHANGED boardVars
       \/ /\ ~Taken(n, 0)
          /\ Makes(n) /\ Committed
          /\ UNCHANGED default
    /\ UNCHANGED <<messageVars, sessionVars>>
-----------------------------------------------------------------------------
\* _post_message(): the area is fixed, then the text is written, for as long as
\* that takes.
Writes(s) ==
    /\ pc[s] = "menu" /\ area[s] # 0
    /\ pc' = [pc EXCEPT ![s] = "write"]
    /\ draft' = [draft EXCEPT ![s] = area[s]]
    /\ UNCHANGED <<call, boardVars, messageVars, writer, area>>

\* post_private_message(): a whisper to a station that is not in chat.
Hands(s) ==
    /\ pc[s] = "menu" /\ AreaForPost # 0
    /\ pc' = [pc EXCEPT ![s] = "hand"]
    /\ draft' = [draft EXCEPT ![s] = AreaForPost]
    /\ UNCHANGED <<call, boardVars, messageVars, writer, area>>

\* A mutant: the commit is missing.
StaysOpen(s) == writer' = s

\* The end of a transaction.
Settles(s) == Committed

\* The INSERT, which computes the number, and the commit.
Posts(s, to) ==
    LET a == draft[s]
        m == posted + 1
    IN  /\ pc[s] \in Writing /\ MayWrite(s)
        /\ pc[s] = "hand" => to \notin {All, call[s]}
        /\ posted < MaxMessages
        /\ posted' = m /\ rows' = rows \cup {m}
        /\ message' = [message EXCEPT ![m] =
               [area |-> a, num |-> NextNumber(a), from |-> call[s],
                to |-> to, deleted |-> FALSE, late |-> a \notin areas]]
        /\ Prompts(s, "menu") /\ Settles(s)
        /\ UNCHANGED <<call, receipts, area, boardVars>>

\* _do_read(): a message of the selected area, looked up by its number.
Reads(s, m) ==
    /\ pc[s] = "menu" /\ area[s] # 0 /\ m \in VisibleTo(s, area[s])
    /\ pc' = [pc EXCEPT ![s] = "read"]
    /\ draft' = [draft EXCEPT ![s] = m]
    /\ UNCHANGED <<call, boardVars, messageVars, writer, area>>

\* _display_message_body(): the receipt is written once the text was paged
\* through, though the message may be gone by then; a failure is ignored.
Receives(s) ==
    /\ pc[s] = "read"
    /\ IF MayWrite(s) THEN receipts' = receipts \cup {<<call[s], draft[s]>>} /\ Committed
                      ELSE UNCHANGED <<receipts, writer>>
    /\ Prompts(s, "menu")
    /\ UNCHANGED <<call, boardVars, rows, message, posted, area>>

\* _delete_message(): its author, when authenticated, or the sysop.
Deletes(s, m) ==
    /\ pc[s] = "menu" /\ call[s] \in Authentic /\ MayWrite(s)
    /\ m \in rows /\ message[m].area = area[s] /\ ~message[m].deleted
    /\ call[s] \in Sysops \/ message[m].from = call[s]
    /\ message' = [message EXCEPT ![m].deleted = TRUE]
    /\ Committed
    /\ UNCHANGED <<boardVars, rows, posted, receipts, sessionVars>>
-----------------------------------------------------------------------------
\* The web interface: connections of its own, each for one request, which a
\* held write lock makes fail.
Flagged(a, flag) == CASE flag = "set" -> {a} [] flag = "clear" -> default \ {a}
                      [] OTHER -> default

WebCreates(n, flag) ==
    /\ writer = Nobody /\ ~Taken(n, 0)
    /\ Makes(n)
    /\ default' = IF flag THEN {NextArea} ELSE default
    /\ UNCHANGED <<messageVars, writer, sessionVars>>

WebUpdates(a, n, flag) ==
    /\ writer = Nobody /\ a \in areas /\ ~Taken(n, a)
    /\ name' = [name EXCEPT ![a] = n]
    /\ default' = Flagged(a, flag)
    /\ UNCHANGED <<areas, made, messageVars, writer, sessionVars>>

\* A mutant: foreign keys are not enforced.
RowsLeft(a) ==
    /\ areas' = areas \ {a} /\ default' = default \ {a}
    /\ name' = [name EXCEPT ![a] = 0]
    /\ UNCHANGED <<made, messageVars>>

\* What goes with an area: by ON DELETE CASCADE its messages and their receipts;
\* of a message that is gone only the area and the number are remembered.
Removed(a) ==
    LET lost == {m \in rows : message[m].area = a}
    IN  /\ areas' = areas \ {a} /\ default' = default \ {a}
        /\ rows' = rows \ lost
        /\ receipts' = {r \in receipts : r[2] \notin lost}
        /\ name' = [name EXCEPT ![a] = 0]
        /\ message' = [m \in Messages |->
              IF m \in lost THEN [message[m] EXCEPT !.from = All, !.to = All, !.deleted = FALSE]
                            ELSE message[m]]
        /\ UNCHANGED <<made, posted>>

WebDeletes(a) ==
    /\ writer = Nobody /\ a \in areas
    /\ Removed(a)
    /\ UNCHANGED <<writer, sessionVars>>
-----------------------------------------------------------------------------
Board(s) ==
    \/ Connects(s) \/ Opens(s) \/ Ends(s) \/ ShowsAreas(s) \/ Cancels(s)
    \/ \E a \in Areas : Selects(s, a)
    \/ \E n \in Names : Creates(s, n)

Mail(s) ==
    \/ Writes(s) \/ Hands(s) \/ Receives(s)
    \/ \E to \in Addressees \cup {All} : Posts(s, to)
    \/ \E m \in Messages : Reads(s, m) \/ Deletes(s, m)

Web ==
    \/ \E n \in Names, flag \in BOOLEAN : WebCreates(n, flag)
    \/ \E a \in Areas, n \in Names, flag \in {"set", "clear", "keep"} : WebUpdates(a, n, flag)
    \/ \E a \in Areas : WebDeletes(a)

Next == Web \/ \E s \in Sessions : Board(s) \/ Mail(s)

Spec == Init /\ [][Next]_vars
-----------------------------------------------------------------------------
\* The area and number a station was shown stand for one message for ever,
\* whatever is deleted in between, except in an area that is gone; a receipt
\* stands for a message its reader was allowed to see, and there is at most one
\* default area (the INSERT of _post_message(), _fetch_messages(), and the web
\* interface).
BoardSound ==
    /\ TypeOK
    /\ Cardinality(default) <= 1
    /\ \A m, n \in 1..posted :
          m # n /\ message[m].area = message[n].area /\ ~message[m].late /\ ~message[n].late
              => message[m].num # message[n].num
    /\ \A r \in receipts :
          LET m == message[r[2]]
          IN  \/ m.to = All \/ r[1] \in {m.from, m.to}
              \/ r[1] \in Sysops

\* An area that is deleted takes all its messages along, and a message that a
\* session posts to it afterwards, because it had it selected, stays without an
\* area for ever: it never turns up in an area that is made later
\* (delete_bulletin_area() and _post_message()).
OrphansAreLate ==
    \A m \in rows : message[m].area \in areas <=> ~message[m].late

\* No session sits at a prompt with the write lock, which stops every other
\* writer of the program, but the sysop's.
LockNotKept ==
    writer # Nobody => call[writer] \in Sysops
=============================================================================
