--------------------------- MODULE BulletinsProofs ---------------------------
(***************************************************************************)
(* The board keeps its messages apart, its receipts honest and its write   *)
(* lock free, for every number of sessions, areas and messages.  The       *)
(* invariant says what a session at each prompt may be and hold, and why   *)
(* the number computed by the INSERT is new: ids of areas are not used     *)
(* again, and a message that was not late is gone only with its area.      *)
(***************************************************************************)
EXTENDS Bulletins, FiniteSetTheorems, WellFoundedInduction, TLAPS

\* The domains, beyond those that TypeOK needs.
Records == [area : Nat, num : Nat, from : Callers \cup {All}, to : Callers \cup {All},
            deleted : BOOLEAN, late : BOOLEAN]
Types ==
    /\ TypeOK
    /\ made \in Nat /\ posted \in Nat
    /\ message \in [Messages -> Records]

\* Whom a message was for.
MayRead(c, m) ==
    c \in Sysops \/ c \in {message[m].from, message[m].to} \/ message[m].to = All

\* What a session is and holds: only a sysop is left with the write lock.
SessionSound(s) ==
    /\ pc[s] = "out" => writer # s
    /\ pc[s] # "out" => call[s] \in Callers
    /\ writer = s => call[s] \in Sysops
    /\ pc[s] = "read" => draft[s] \in 1..posted /\ MayRead(call[s], draft[s])
SessionsInv == \A s \in Sessions : SessionSound(s)

\* An area that is selected, or written to, was made once.
AreasInv == \A s \in Sessions : /\ area[s] \in 0..made
                                /\ pc[s] \in Writing => draft[s] \in 1..made

\* What a message is: numbered no higher than it is old, of an area that was
\* made and, unless it was late, still in it if the area exists.
MessagesInv ==
    /\ \A m \in 1..posted : message[m].num \in 1..m /\ message[m].area \in 1..made
    /\ \A m \in 1..posted : ~message[m].late /\ message[m].area \in areas => m \in rows
    /\ \A m, n \in 1..posted :
          m # n /\ message[m].area = message[n].area /\ ~message[m].late /\ ~message[n].late
              => message[m].num # message[n].num

ReceiptsInv == \A r \in receipts : r[2] \in 1..posted /\ MayRead(r[1], r[2])

DefaultInv == \A a, b \in default : a = b

BoardInv ==
    Types /\ SessionsInv /\ AreasInv /\ MessagesInv /\ ReceiptsInv /\ DefaultInv /\ OrphansAreLate

-----------------------------------------------------------------------------
\* A set of naturals has a least member, and a bounded one a greatest.
LEMMA Least ==
    ASSUME NEW S \in SUBSET Nat, S # {}
    PROVE  Min(S) \in S /\ \A y \in S : Min(S) <= y
<1> DEFINE R == OpToRel(<, Nat)
<1>1. PICK x \in S : \A y \in S : <<y, x>> \notin R
  <2>1. IsWellFoundedOn(R, Nat)
    BY NatLessThanWellFounded
  <2> HIDE DEF R
  <2>. QED  BY <2>1, WFMin
<1>2. \A y \in S : x <= y
  <2>. SUFFICES ASSUME NEW y \in S PROVE x <= y
    OBVIOUS
  <2>1. x \in Nat /\ y \in Nat
    OBVIOUS
  <2>2. y < x => <<y, x>> \in R
    BY <2>1 DEF OpToRel
  <2> HIDE DEF R
  <2>. QED  BY <1>1, <2>1, <2>2
<1>. QED  BY <1>2 DEF Min

LEMMA Greatest ==
    ASSUME NEW n \in Nat, NEW S \in SUBSET (0..n), S # {}
    PROVE  Max(S) \in S /\ \A y \in S : y <= Max(S)
<1> DEFINE T == {n - y : y \in S}
<1>1. T \in SUBSET Nat /\ T # {}
  <2>1. \A y \in S : n - y \in Nat
    OBVIOUS
  <2>. QED  BY <2>1
<1>2. Min(T) \in T /\ \A t \in T : Min(T) <= t
  <2> HIDE DEF T
  <2>. QED  BY <1>1, Least
<1>3. PICK x \in S : Min(T) = n - x
  BY <1>2
<1>4. \A y \in S : x >= y
  <2>. SUFFICES ASSUME NEW y \in S PROVE x >= y
    OBVIOUS
  <2>1. n - x <= n - y
    BY <1>2, <1>3
  <2>. QED  BY <2>1
<1>. QED  BY <1>4 DEF Max

\* Ids of areas are numbers within the bound.
LEMMA AreaIds ==
    ASSUME Types
    PROVE  /\ areas \subseteq Areas /\ areas \subseteq Nat /\ default \subseteq areas
           /\ Areas \subseteq Nat
<1>1. areas \subseteq 1..made /\ made <= MaxAreas /\ made \in Nat /\ default \subseteq areas
  BY DEF Types, TypeOK
<1>2. MaxAreas \in Nat
  BY BulletinsAssumption DEF BulletinsAssumption
<1>3. 1..made \subseteq 1..MaxAreas /\ 1..MaxAreas \subseteq Nat
  BY <1>1, <1>2
<1>. QED  BY <1>1, <1>3 DEF Areas

\* The default area exists; so does the area a private message goes to.
LEMMA DefaultAreaType ==
    ASSUME Types
    PROVE  DefaultArea \in areas \cup {0}
<1> DEFINE Named == {a \in areas : name[a] = DefaultName}
<1>1. default \subseteq areas /\ areas \subseteq Nat
  BY AreaIds
<1>2. default \in SUBSET Nat /\ Named \in SUBSET Nat
  BY <1>1
<1>3. default # {} => Min(default) \in default
  BY <1>2, Least
<1>4. Named # {} => Min(Named) \in Named
  BY <1>2, Least
<1>5. default \subseteq areas /\ Named \subseteq areas
  BY <1>1
<1> DEFINE D == IF default # {} THEN Min(default) ELSE IF Named = {} THEN 0 ELSE Min(Named)
<1>6. DefaultArea = D
  BY DEF DefaultArea
<1> HIDE DEF Named
<1>7. D \in areas \cup {0}
  BY <1>3, <1>4, <1>5
<1>. QED  BY <1>6, <1>7

LEMMA AreaForPostType ==
    ASSUME Types
    PROVE  AreaForPost \in areas \cup {0}
<1> DEFINE Asked == {a \in areas : name[a] = MsgArea}
<1> DEFINE First == CHOOSE a \in areas : \A b \in areas : name[a] <= name[b]
<1>0. AreaForPost = IF Asked # {} THEN Min(Asked)
                    ELSE IF DefaultArea # 0 \/ areas = {} THEN DefaultArea ELSE First
  BY DEF AreaForPost
<1>1. Asked # {} => Min(Asked) \in areas
  <2>1. Asked \in SUBSET Nat /\ Asked \subseteq areas
    BY AreaIds
  <2> HIDE DEF Asked
  <2>. QED  BY <2>1, Least
<1>2. CASE ~(DefaultArea # 0 \/ areas = {})
  <2> DEFINE N == {name[a] : a \in areas}
  <2>1. N \in SUBSET Nat /\ N # {}
    <3>1. name \in [Areas -> Names \cup {0}] /\ Names \subseteq Nat
      BY BulletinsAssumption DEF Types, TypeOK, BulletinsAssumption
    <3>2. areas \subseteq Areas
      BY AreaIds
    <3>3. \A a \in Areas : name[a] \in Names \cup {0}
      BY <3>1
    <3>4. \A n \in Names \cup {0} : n \in Nat
      BY <3>1
    <3>. QED  BY <1>2, <3>2, <3>3, <3>4
  <2>2. Min(N) \in N /\ \A n \in N : Min(N) <= n
    <3> HIDE DEF N
    <3>. QED  BY <2>1, Least
  <2>3. \E a \in areas : \A b \in areas : name[a] <= name[b]
    BY <2>2
  <2>4. First \in areas
    BY <2>3
  <2> HIDE DEF Asked, First
  <2>. QED  BY <1>0, <1>1, <1>2, <2>4
<1> HIDE DEF Asked, First
<1>. QED  BY <1>0, <1>1, <1>2, DefaultAreaType

\* The number that the INSERT computes is above those of the area's messages,
\* and no higher than the id of the new message.
LEMMA NewNumber ==
    ASSUME Types, MessagesInv, NEW a
    PROVE  /\ NextNumber(a) \in 1 .. posted + 1
           /\ \A m \in rows : message[m].area = a => message[m].num < NextNumber(a)
<1> DEFINE N == {0} \cup {message[m].num : m \in {r \in rows : message[r].area = a}}
<1>1. rows \subseteq 1..posted /\ posted \in Nat
  BY DEF Types, TypeOK
<1>2. \A m \in rows : message[m].num \in 0..posted
  BY <1>1 DEF MessagesInv
<1>3. N \in SUBSET (0..posted) /\ N # {}
  BY <1>1, <1>2
<1>4. Max(N) \in N /\ \A n \in N : n <= Max(N)
  <2> HIDE DEF N
  <2>. QED  BY <1>1, <1>3, Greatest
<1>5. NextNumber(a) = 1 + Max(N)
  BY DEF NextNumber
<1>6. Max(N) \in 0..posted
  BY <1>3, <1>4
<1>7. \A m \in rows : message[m].area = a => message[m].num <= Max(N)
  BY <1>4
<1> HIDE DEF N
<1>. QED  BY <1>1, <1>2, <1>5, <1>6, <1>7

-----------------------------------------------------------------------------
\* Every step keeps the domains.
LEMMA TypesKept ==
    ASSUME Types, SessionsInv, MessagesInv, [Next]_vars
    PROVE  Types'
<1>0. DefaultArea \in Areas \cup {0} /\ AreaForPost \in Nat
  BY DefaultAreaType, AreaForPostType, AreaIds
<1>. USE BulletinsAssumption DEF BulletinsAssumption, Types, TypeOK, boardVars, messageVars,
     sessionVars, Writing, Areas, Prompts, Closes, Committed
<1>1. ASSUME NEW s \in Sessions, Connects(s) \/ Opens(s) \/ Ends(s) \/ ShowsAreas(s) \/ Cancels(s)
      PROVE  Types'
  <2>1. CASE Connects(s)
    BY <2>1 DEF Connects
  <2>2. CASE Opens(s)
    BY <2>2, <1>0 DEF Opens
  <2>3. CASE Ends(s)
    BY <2>3 DEF Ends
  <2>4. CASE Cancels(s)
    BY <2>4 DEF Cancels
  <2>5. CASE ShowsAreas(s)
    BY <2>5 DEF ShowsAreas
  <2>. QED  BY <1>1, <2>1, <2>2, <2>3, <2>4, <2>5
<1>3. ASSUME NEW s \in Sessions, NEW a \in Areas, Selects(s, a)
      PROVE  Types'
  BY <1>3 DEF Selects
<1>6. ASSUME NEW a \in Areas, WebDeletes(a)
      PROVE  Types'
  <2>0. Removed(a) /\ UNCHANGED <<writer, sessionVars>>
    BY <1>6 DEF WebDeletes
  <2>1. message' \in [Messages -> Records]
    <3>1. \A r \in Records : [r EXCEPT !.from = All, !.to = All, !.deleted = FALSE] \in Records
      BY DEF Records
    <3>2. \A m \in Messages : message[m] \in Records
      OBVIOUS
    <3>. QED  BY <2>0, <3>1, <3>2 DEF Removed
  <2>2. receipts' \subseteq receipts /\ rows' \subseteq rows
    BY <2>0 DEF Removed
  <2>3. areas' \subseteq areas /\ default' = default \ {a} /\ areas' = areas \ {a}
    BY <2>0 DEF Removed
  <2>4. name' = [name EXCEPT ![a] = 0] /\ UNCHANGED <<made, posted>>
    BY <2>0 DEF Removed
  <2>. QED  BY <2>0, <2>1, <2>2, <2>3, <2>4
<1>8. ASSUME NEW n \in Names, Makes(n)
      PROVE  /\ areas' \subseteq 1..made' /\ made' <= MaxAreas /\ made' \in Nat
             /\ name' \in [Areas -> Names \cup {0}]
             /\ NextArea \in areas' /\ areas \subseteq areas'
  BY <1>8 DEF Makes, NextArea
<1>9. ASSUME NEW s \in Sessions, NEW n \in Names, Creates(s, n)
      PROVE  Types'
  BY <1>8, <1>9 DEF Creates
<1>10. ASSUME NEW n \in Names, NEW flag \in BOOLEAN, WebCreates(n, flag)
       PROVE  Types'
  BY <1>8, <1>10 DEF WebCreates
<1>11. ASSUME NEW a \in Areas, NEW n \in Names, NEW flag \in {"set", "clear", "keep"},
              WebUpdates(a, n, flag)
       PROVE  Types'
  BY <1>11 DEF WebUpdates, Flagged
<1>12. ASSUME NEW s \in Sessions, Writes(s) \/ Hands(s)
       PROVE  Types'
  <2>1. CASE Writes(s)
    BY <2>1 DEF Writes
  <2>2. CASE Hands(s)
    BY <2>2, <1>0 DEF Hands
  <2>. QED  BY <1>12, <2>1, <2>2
<1>13. ASSUME NEW s \in Sessions, NEW to \in Addressees \cup {All}, Posts(s, to)
       PROVE  Types'
  <2>1. call[s] \in Callers
    BY <1>13 DEF Posts, SessionsInv, SessionSound
  <2> DEFINE m == posted + 1
             new == [area |-> draft[s], num |-> NextNumber(draft[s]), from |-> call[s],
                     to |-> to, deleted |-> FALSE, late |-> draft[s] \notin areas]
  <2>2. m \in Messages
    BY <1>13 DEF Posts, Messages
  <2>3. new \in Records
    <3>1. NextNumber(draft[s]) \in Nat /\ draft[s] \in Nat /\ to \in Callers \cup {All}
      BY NewNumber
    <3>. QED  BY <2>1, <3>1 DEF Records
  <2>4. /\ message' = [message EXCEPT ![m] = new] /\ posted' = m /\ rows' = rows \cup {m}
        /\ UNCHANGED <<boardVars, call, receipts, area>> /\ Prompts(s, "menu")
        /\ writer' = Nobody
    BY <1>13 DEF Posts, Settles
  <2>5. message' \in [Messages -> Records]
    <3> HIDE DEF new
    <3>. QED  BY <2>2, <2>3, <2>4
  <2>. QED  BY <1>13, <2>4, <2>5 DEF Posts
<1>14. ASSUME NEW s \in Sessions, NEW m \in Messages, Reads(s, m)
       PROVE  Types'
  BY <1>14 DEF Reads, Messages
<1>15. ASSUME NEW s \in Sessions, NEW m \in Messages, Deletes(s, m)
       PROVE  Types'
  <2>1. \A r \in Records : [r EXCEPT !.deleted = TRUE] \in Records
    BY DEF Records
  <2>2. message' \in [Messages -> Records]
    BY <1>15, <2>1 DEF Deletes
  <2>. QED  BY <1>15, <2>2 DEF Deletes
<1>16. ASSUME NEW s \in Sessions, Receives(s)
       PROVE  Types'
  <2>1. call[s] \in Callers /\ draft[s] \in Messages
    BY <1>16 DEF Receives, SessionsInv, SessionSound, Messages
  <2>. QED  BY <1>16, <2>1 DEF Receives
<1>17. CASE UNCHANGED vars
  BY <1>17 DEF vars
<1> HIDE BulletinsAssumption DEF Types
<1>18. CASE Web
  BY <1>6, <1>10, <1>11, <1>18 DEF Web
<1>19. ASSUME NEW s \in Sessions, Board(s)
       PROVE  Types'
  BY <1>1, <1>3, <1>9, <1>19 DEF Board
<1>20. ASSUME NEW s \in Sessions, Mail(s)
       PROVE  Types'
  BY <1>12, <1>13, <1>14, <1>15, <1>16, <1>20 DEF Mail
<1>. QED  BY <1>17, <1>18, <1>19, <1>20 DEF Next
-----------------------------------------------------------------------------
\* Whoever was allowed to read a message still is, and ids only grow.
LEMMA ReadersStay ==
    ASSUME Types, [Next]_vars
    PROVE  posted <= posted' /\ \A c : \A m \in 1..posted : MayRead(c, m) => MayRead(c, m)'
<1>. USE DEF MayRead
<1>1. posted \in Nat /\ message \in [Messages -> Records] /\ 1..posted \subseteq Messages
  BY BulletinsAssumption DEF Types, TypeOK, Messages, BulletinsAssumption
<1>2. ASSUME UNCHANGED <<posted, message>>
      PROVE  posted <= posted' /\ \A c : \A m \in 1..posted : MayRead(c, m) => MayRead(c, m)'
  BY <1>1, <1>2
<1>3. ASSUME NEW a, Removed(a)
      PROVE  posted <= posted' /\ \A c : \A m \in 1..posted : MayRead(c, m) => MayRead(c, m)'
  <2> DEFINE lost == {m \in rows : message[m].area = a}
  <2>1. posted' = posted
    BY <1>3 DEF Removed
  <2>2. message' = [m \in Messages |->
          IF m \in lost THEN [message[m] EXCEPT !.from = All, !.to = All, !.deleted = FALSE]
                        ELSE message[m]]
    BY <1>3 DEF Removed
  <2>3. \A r \in Records : [r EXCEPT !.from = All, !.to = All, !.deleted = FALSE].to = All
    BY DEF Records
  <2> HIDE DEF lost
  <2>4. \A m \in Messages : message'[m] = message[m] \/ message'[m].to = All
    BY <1>1, <2>2, <2>3
  <2>. QED  BY <1>1, <2>1, <2>4
<1>4. ASSUME NEW s \in Sessions, NEW to, Posts(s, to)
      PROVE  posted <= posted' /\ \A c : \A m \in 1..posted : MayRead(c, m) => MayRead(c, m)'
  <2>1. posted' = posted + 1 /\ \E new : message' = [message EXCEPT ![posted + 1] = new]
    BY <1>4 DEF Posts
  <2>2. \A m \in 1..posted : message'[m] = message[m]
    BY <1>1, <2>1
  <2>. QED  BY <1>1, <2>1, <2>2
<1>5. ASSUME NEW s, NEW d \in Messages, Deletes(s, d)
      PROVE  posted <= posted' /\ \A c : \A m \in 1..posted : MayRead(c, m) => MayRead(c, m)'
  <2>1. \A r \in Records : /\ [r EXCEPT !.deleted = TRUE].from = r.from
                           /\ [r EXCEPT !.deleted = TRUE].to = r.to
    BY DEF Records
  <2>2. \A m \in Messages : message'[m].from = message[m].from /\ message'[m].to = message[m].to
    BY <1>1, <1>5, <2>1 DEF Deletes
  <2>. QED  BY <1>1, <1>5, <2>2 DEF Deletes
<1>6. CASE Web
  <2>1. ASSUME NEW n, NEW flag, WebCreates(n, flag)
        PROVE  UNCHANGED <<posted, message>>
    BY <2>1 DEF WebCreates, messageVars
  <2>2. ASSUME NEW a, NEW n, NEW flag, WebUpdates(a, n, flag)
        PROVE  UNCHANGED <<posted, message>>
    BY <2>2 DEF WebUpdates, messageVars
  <2>. QED  BY <1>2, <1>3, <1>6, <2>1, <2>2 DEF Web, WebDeletes
<1>7. ASSUME NEW s \in Sessions, Board(s)
      PROVE  posted <= posted' /\ \A c : \A m \in 1..posted : MayRead(c, m) => MayRead(c, m)'
  <2>1. UNCHANGED <<posted, message>>
    BY <1>7 DEF Board, Connects, Opens, Ends, ShowsAreas, Cancels, Selects, Creates, messageVars
  <2>. QED  BY <1>2, <2>1
<1>8. ASSUME NEW s \in Sessions, Mail(s)
      PROVE  posted <= posted' /\ \A c : \A m \in 1..posted : MayRead(c, m) => MayRead(c, m)'
  <2>1. CASE Writes(s) \/ Hands(s) \/ Receives(s) \/ \E m \in Messages : Reads(s, m)
    BY <1>2, <2>1 DEF Writes, Hands, Receives, Reads, messageVars
  <2>. QED  BY <1>4, <1>5, <1>8, <2>1 DEF Mail
<1>. QED  BY <1>2, <1>6, <1>7, <1>8 DEF Next, vars, messageVars

\* A session keeps what it is and holds through the steps of others.
LEMMA OthersStay ==
    ASSUME Types, Types', [Next]_vars, NEW t \in Sessions, SessionSound(t),
           pc'[t] = pc[t], call'[t] = call[t], draft'[t] = draft[t],
           writer' = t => writer = t
    PROVE  SessionSound(t)'
<1>1. posted \in Nat /\ posted <= posted'
  BY ReadersStay DEF Types
<1>2. posted' \in Nat
  BY DEF Types
<1>. QED  BY <1>1, <1>2, ReadersStay DEF SessionSound

\* Every step keeps what each session is and holds.
LEMMA SessionsKept ==
    ASSUME Types, Types', SessionsInv, [Next]_vars
    PROVE  SessionsInv'
<1> DEFINE Alone(s) == \A t \in Sessions \ {s} :
               /\ pc'[t] = pc[t] /\ call'[t] = call[t] /\ draft'[t] = draft[t]
               /\ writer' = t => writer = t
<1>1. ASSUME NEW s \in Sessions, Alone(s), SessionSound(s)'
      PROVE  SessionsInv'
  BY <1>1, OthersStay DEF SessionsInv
<1>2. ASSUME UNCHANGED <<pc, call, draft, writer>>
      PROVE  SessionsInv'
  BY <1>2, OthersStay DEF SessionsInv
<1>3. /\ pc \in [Sessions -> {"out", "menu", "read"} \cup Writing]
      /\ call \in [Sessions -> Callers \cup {Nobody}] /\ draft \in [Sessions -> Nat]
      /\ Sysops \subseteq Callers /\ Nobody \notin Sessions /\ posted \in Nat
  BY BulletinsAssumption DEF BulletinsAssumption, Types, TypeOK
\* The prompt, and the end of a session, are safe to return to.
<1>4. ASSUME NEW s \in Sessions, Closes(s)
      PROVE  SessionsInv'
  <2>1. Alone(s)
    BY <1>3, <1>4 DEF Closes, Prompts
  <2>2. SessionSound(s)'
    BY <1>3, <1>4 DEF Closes, Prompts, SessionSound
  <2>. QED  BY <1>1, <2>1, <2>2
<1>5. ASSUME NEW s \in Sessions, pc[s] # "out", Prompts(s, "menu"),
             writer' \in {writer, Nobody}, UNCHANGED call
      PROVE  SessionsInv'
  <2>1. Alone(s)
    BY <1>3, <1>5 DEF Prompts
  <2>2. SessionSound(s)'
    BY <1>3, <1>5 DEF Prompts, SessionSound, SessionsInv
  <2>. QED  BY <1>1, <2>1, <2>2
<1>6. ASSUME NEW s \in Sessions, Connects(s)
      PROVE  SessionsInv'
  <2>1. Alone(s)
    BY <1>3, <1>6 DEF Connects
  <2>2. SessionSound(s)'
    BY <1>3, <1>6 DEF Connects, SessionSound, SessionsInv
  <2>. QED  BY <1>1, <2>1, <2>2
<1>7. ASSUME NEW s \in Sessions, Opens(s) \/ \E a \in Areas : Selects(s, a)
      PROVE  SessionsInv'
  BY <1>2, <1>7 DEF Opens, Selects
<1>8. ASSUME NEW s \in Sessions, Ends(s) \/ ShowsAreas(s) \/ Cancels(s)
      PROVE  SessionsInv'
  BY <1>4, <1>5, <1>8 DEF Ends, ShowsAreas, Cancels, Writing
<1>12. ASSUME NEW s \in Sessions, NEW n \in Names, Creates(s, n)
       PROVE  SessionsInv'
  <2>1. /\ pc[s] = "menu" /\ call[s] \in Sysops /\ UNCHANGED <<pc, call, draft>>
        /\ writer' \in {s, Nobody}
    BY <1>12 DEF Creates, Committed, sessionVars
  <2>2. Alone(s)
    BY <1>3, <2>1
  <2>3. SessionSound(s)'
    BY <1>3, <2>1 DEF SessionSound, SessionsInv
  <2>. QED  BY <1>1, <2>2, <2>3
<1>13. ASSUME NEW s \in Sessions, Writes(s) \/ Hands(s)
       PROVE  SessionsInv'
  <2>1. /\ pc[s] = "menu" /\ \E p \in Writing : pc' = [pc EXCEPT ![s] = p]
        /\ \E d : draft' = [draft EXCEPT ![s] = d]
        /\ UNCHANGED <<call, writer>>
    BY <1>13 DEF Writes, Hands, Writing
  <2>2. Alone(s)
    BY <1>3, <2>1
  <2>3. SessionSound(s)'
    BY <1>3, <2>1 DEF SessionSound, SessionsInv, Writing
  <2>. QED  BY <1>1, <2>2, <2>3
<1>14. ASSUME NEW s \in Sessions, NEW to, Posts(s, to)
       PROVE  SessionsInv'
  <2>1. pc[s] # "out" /\ Prompts(s, "menu") /\ writer' = Nobody /\ UNCHANGED call
    BY <1>14 DEF Posts, Settles, Committed, Writing
  <2>. QED  BY <1>5, <2>1
<1>15. ASSUME NEW s \in Sessions, NEW m \in Messages, Reads(s, m)
       PROVE  SessionsInv'
  <2>1. /\ pc[s] = "menu" /\ m \in VisibleTo(s, area[s])
        /\ pc' = [pc EXCEPT ![s] = "read"] /\ draft' = [draft EXCEPT ![s] = m]
        /\ UNCHANGED <<call, writer, rows, posted, message>>
    BY <1>15 DEF Reads, messageVars
  <2>2. m \in 1..posted /\ MayRead(call[s], m)
    BY <2>1 DEF VisibleTo, MayRead, Types, TypeOK
  <2>3. Alone(s)
    BY <1>3, <2>1
  <2>4. SessionSound(s)'
    BY <1>3, <2>1, <2>2 DEF SessionSound, SessionsInv, MayRead
  <2>. QED  BY <1>1, <2>3, <2>4
<1>16. ASSUME NEW s \in Sessions, Receives(s)
       PROVE  SessionsInv'
  <2>1. pc[s] = "read" /\ Prompts(s, "menu") /\ UNCHANGED call /\ writer' \in {writer, Nobody}
    BY <1>16 DEF Receives, Committed
  <2>. QED  BY <1>5, <2>1
<1>17. ASSUME NEW s \in Sessions, NEW m \in Messages, Deletes(s, m)
       PROVE  SessionsInv'
  <2>1. writer' = Nobody /\ UNCHANGED <<pc, call, draft>>
    BY <1>17 DEF Deletes, Committed, sessionVars
  <2>2. Alone(s)
    BY <1>3, <2>1
  <2>3. \A t \in Sessions : writer' # t
    BY <1>3, <2>1
  <2>. QED  BY <2>1, <2>3, OthersStay DEF SessionsInv
<1> HIDE DEF Alone
<1>18. CASE Web
  <2>1. UNCHANGED <<pc, call, draft, writer>>
    BY <1>18 DEF Web, WebCreates, WebUpdates, WebDeletes, sessionVars
  <2>. QED  BY <1>2, <2>1
<1>19. ASSUME NEW s \in Sessions, Board(s)
       PROVE  SessionsInv'
  BY <1>6, <1>7, <1>8, <1>12, <1>19 DEF Board
<1>20. ASSUME NEW s \in Sessions, Mail(s)
       PROVE  SessionsInv'
  BY <1>13, <1>14, <1>15, <1>16, <1>17, <1>20 DEF Mail
<1>21. CASE UNCHANGED vars
  BY <1>2, <1>21 DEF vars, sessionVars
<1>. QED  BY <1>18, <1>19, <1>20, <1>21 DEF Next
\* Every step leaves sessions at areas that were made.
LEMMA AreasKept ==
    ASSUME Types, AreasInv, [Next]_vars
    PROVE  AreasInv'
<1>1. /\ areas \subseteq 1..made /\ made \in Nat
      /\ area \in [Sessions -> Areas \cup {0}] /\ draft \in [Sessions -> Nat]
      /\ pc \in [Sessions -> {"out", "menu", "read"} \cup Writing]
  BY DEF Types, TypeOK
<1>2. made' \in Nat /\ made <= made'
  <2>1. ASSUME NEW n, Makes(n) PROVE made' = made + 1
    BY <1>1, <2>1 DEF Makes, NextArea
  <2>2. (\E n : Makes(n)) \/ made' = made
    BY DEF Next, Web, WebCreates, WebUpdates, WebDeletes, Removed, Board, Connects, Opens, Ends,
       ShowsAreas, Cancels, Selects, Creates, Mail, Writes, Hands, Posts, Reads, Receives, Deletes,
       vars, boardVars
  <2>. QED  BY <1>1, <2>1, <2>2
<1>3. ASSUME NEW s \in Sessions,
             \A t \in Sessions \ {s} : area'[t] = area[t] /\ pc'[t] = pc[t] /\ draft'[t] = draft[t],
             area'[s] \in 0..made, pc'[s] \in Writing => draft'[s] \in 1..made
      PROVE  AreasInv'
  BY <1>1, <1>2, <1>3 DEF AreasInv
<1>4. ASSUME UNCHANGED <<area, pc, draft>>
      PROVE  AreasInv'
  BY <1>1, <1>2, <1>4 DEF AreasInv
<1>5. ASSUME NEW s \in Sessions, NEW p \in {"out", "menu"}, Prompts(s, p),
             area' \in {area, [area EXCEPT ![s] = 0]}
      PROVE  AreasInv'
  BY <1>1, <1>3, <1>5 DEF Prompts, Writing, AreasInv
<1>6. CASE Web
  BY <1>4, <1>6 DEF Web, WebCreates, WebUpdates, WebDeletes, sessionVars
<1>7. ASSUME NEW s \in Sessions, Board(s)
      PROVE  AreasInv'
  <2>1. CASE Connects(s)
    <3>1. pc' = [pc EXCEPT ![s] = "menu"] /\ UNCHANGED <<area, draft>>
      BY <2>1 DEF Connects
    <3>. QED  BY <1>1, <1>3, <3>1 DEF Writing, AreasInv
  <2>2. CASE Opens(s) \/ \E a \in Areas : Selects(s, a)
    <3>1. /\ \E a \in areas \cup {0} : area' = [area EXCEPT ![s] = a]
          /\ pc[s] = "menu" /\ UNCHANGED <<pc, draft>>
      BY <2>2, DefaultAreaType DEF Opens, Selects
    <3>. QED  BY <1>1, <1>3, <3>1 DEF Writing
  <2>3. CASE Ends(s) \/ ShowsAreas(s) \/ Cancels(s)
    BY <1>5, <2>3 DEF Ends, ShowsAreas, Cancels, Closes
  <2>4. CASE \E n \in Names : Creates(s, n)
    BY <1>4, <2>4 DEF Creates, sessionVars
  <2>. QED  BY <1>7, <2>1, <2>2, <2>3, <2>4 DEF Board
<1>8. ASSUME NEW s \in Sessions, Mail(s)
      PROVE  AreasInv'
  <2>1. CASE Writes(s) \/ Hands(s)
    <3>1. AreaForPost # 0 /\ Hands(s) => AreaForPost \in 1..made
      BY <1>1, AreaForPostType
    <3>2. Writes(s) => area[s] \in 1..made
      BY <1>1 DEF Writes, AreasInv
    <3>3. \E d \in 1..made : draft' = [draft EXCEPT ![s] = d]
      BY <2>1, <3>1, <3>2 DEF Writes, Hands
    <3>4. UNCHANGED area /\ \E p : pc' = [pc EXCEPT ![s] = p]
      BY <2>1 DEF Writes, Hands
    <3>. QED  BY <1>1, <1>3, <3>3, <3>4 DEF AreasInv
  <2>2. CASE Receives(s) \/ \E to \in Addressees \cup {All} : Posts(s, to)
    BY <1>5, <2>2 DEF Receives, Posts
  <2>3. ASSUME NEW m \in Messages, Reads(s, m)
        PROVE  AreasInv'
    <3>1. /\ pc' = [pc EXCEPT ![s] = "read"] /\ draft' = [draft EXCEPT ![s] = m]
          /\ UNCHANGED area
      BY <2>3 DEF Reads
    <3>. QED  BY <1>1, <1>3, <3>1 DEF Writing, AreasInv
  <2>4. ASSUME NEW m \in Messages, Deletes(s, m)
        PROVE  AreasInv'
    BY <1>4, <2>4 DEF Deletes, sessionVars
  <2>. QED  BY <1>8, <2>1, <2>2, <2>3, <2>4 DEF Mail
<1>9. CASE UNCHANGED vars
  BY <1>4, <1>9 DEF vars, sessionVars
<1>. QED  BY <1>6, <1>7, <1>8, <1>9 DEF Next
-----------------------------------------------------------------------------
\* Every step keeps the messages of an area apart.
LEMMA MessagesKept ==
    ASSUME Types, AreasInv, MessagesInv, [Next]_vars
    PROVE  MessagesInv'
<1>1. /\ areas \subseteq 1..made /\ made \in Nat /\ rows \subseteq 1..posted /\ posted \in Nat
      /\ message \in [Messages -> Records] /\ 1..posted \subseteq Messages
  BY BulletinsAssumption DEF BulletinsAssumption, Types, TypeOK, Messages
<1>2. ASSUME areas' \subseteq areas, UNCHANGED <<made, posted>>,
             \A m \in rows \ rows' : message[m].area \notin areas',
             \A m \in 1..posted : /\ message'[m].area = message[m].area
                                  /\ message'[m].num = message[m].num
                                  /\ message'[m].late = message[m].late
      PROVE  MessagesInv'
  BY <1>1, <1>2 DEF MessagesInv
<1>3. ASSUME NEW n, Makes(n), UNCHANGED messageVars
      PROVE  MessagesInv'
  <2>1. made' = made + 1 /\ areas' = areas \cup {made + 1} /\ UNCHANGED <<rows, message, posted>>
    BY <1>1, <1>3 DEF Makes, NextArea, messageVars
  <2>. QED  BY <1>1, <2>1 DEF MessagesInv
<1>4. ASSUME NEW a, Removed(a)
      PROVE  MessagesInv'
  <2> DEFINE lost == {m \in rows : message[m].area = a}
  <2>1. areas' = areas \ {a} /\ UNCHANGED <<made, posted>> /\ rows' = rows \ lost
    BY <1>4 DEF Removed
  <2>2. message' = [m \in Messages |->
          IF m \in lost THEN [message[m] EXCEPT !.from = All, !.to = All, !.deleted = FALSE]
                        ELSE message[m]]
    BY <1>4 DEF Removed
  <2>3. \A m \in lost : message[m].area = a
    OBVIOUS
  <2>4. \A r \in Records :
          LET q == [r EXCEPT !.from = All, !.to = All, !.deleted = FALSE]
          IN  q.area = r.area /\ q.num = r.num /\ q.late = r.late
    BY DEF Records
  <2> HIDE DEF lost
  <2>5. \A m \in Messages : /\ message'[m].area = message[m].area
                            /\ message'[m].num = message[m].num
                            /\ message'[m].late = message[m].late
    BY <1>1, <2>2, <2>4
  <2>. QED  BY <1>1, <1>2, <2>1, <2>3, <2>5
<1>5. ASSUME NEW s \in Sessions, NEW to, Posts(s, to)
      PROVE  MessagesInv'
  <2> DEFINE a == draft[s]
             m == posted + 1
             new == [area |-> a, num |-> NextNumber(a), from |-> call[s],
                     to |-> to, deleted |-> FALSE, late |-> a \notin areas]
  <2>0. a \in 1..made
    BY <1>5 DEF Posts, AreasInv
  <2>1. /\ message' = [message EXCEPT ![m] = new] /\ posted' = m /\ rows' = rows \cup {m}
        /\ UNCHANGED <<areas, made>> /\ m \in Messages
    BY <1>1, <1>5, BulletinsAssumption
    DEF Posts, boardVars, Messages, BulletinsAssumption
  <2>2. /\ \A n \in 1..posted : message'[n] = message[n]
        /\ message'[m].area = a /\ message'[m].num = NextNumber(a)
        /\ message'[m].late = (a \notin areas)
    BY <1>1, <2>1
  <2>3. /\ NextNumber(a) \in 1..m
        /\ \A n \in rows : message[n].area = a => message[n].num < NextNumber(a)
    BY NewNumber
  <2>4. \A n \in 1..posted :
           a \in areas /\ message[n].area = a /\ ~message[n].late => message[n].num # NextNumber(a)
    <3>1. \A n \in rows : message[n].num \in Nat
      BY <1>1 DEF MessagesInv
    <3>. QED  BY <1>1, <2>3, <3>1 DEF MessagesInv
  <2>5. 1..posted' = (1..posted) \cup {m} /\ m \notin 1..posted
    BY <1>1, <2>1
  <2> HIDE DEF a, m, new
  <2>6. /\ \A n \in 1..posted' : message'[n].num \in 1..n /\ message'[n].area \in 1..made'
        /\ \A n \in 1..posted' : ~message'[n].late /\ message'[n].area \in areas' => n \in rows'
    BY <1>1, <2>0, <2>1, <2>2, <2>3, <2>5 DEF MessagesInv
  <2>7. \A n, k \in 1..posted' :
           n # k /\ message'[n].area = message'[k].area /\ ~message'[n].late /\ ~message'[k].late
               => message'[n].num # message'[k].num
    BY <2>2, <2>4, <2>5 DEF MessagesInv
  <2>. QED  BY <2>6, <2>7 DEF MessagesInv
<1>6. ASSUME NEW s, NEW d \in Messages, Deletes(s, d)
      PROVE  MessagesInv'
  <2>1. \A r \in Records : LET q == [r EXCEPT !.deleted = TRUE]
                           IN  q.area = r.area /\ q.num = r.num /\ q.late = r.late
    BY DEF Records
  <2>2. \A m \in Messages : /\ message'[m].area = message[m].area
                            /\ message'[m].num = message[m].num
                            /\ message'[m].late = message[m].late
    BY <1>1, <1>6, <2>1 DEF Deletes
  <2>. QED  BY <1>1, <1>2, <1>6, <2>2 DEF Deletes, boardVars
<1>7. ASSUME UNCHANGED <<areas, made, rows, message, posted>>
      PROVE  MessagesInv'
  BY <1>2, <1>7
<1>8. CASE Web
  <2>1. ASSUME NEW n, NEW flag, WebCreates(n, flag)
        PROVE  MessagesInv'
    BY <1>3, <2>1 DEF WebCreates
  <2>2. ASSUME NEW a, NEW n, NEW flag, WebUpdates(a, n, flag)
        PROVE  MessagesInv'
    BY <1>7, <2>2 DEF WebUpdates, messageVars
  <2>. QED  BY <1>4, <1>8, <2>1, <2>2 DEF Web, WebDeletes
<1>9. ASSUME NEW s \in Sessions, Board(s)
      PROVE  MessagesInv'
  <2>1. CASE \E n \in Names : Creates(s, n)
    BY <1>3, <1>7, <2>1 DEF Creates, boardVars, messageVars
  <2>2. CASE ~(\E n \in Names : Creates(s, n))
    <3>1. UNCHANGED <<areas, made, rows, message, posted>>
      BY <1>9, <2>2 DEF Board, Connects, Opens, Ends, ShowsAreas, Cancels, Selects,
         boardVars, messageVars
    <3>. QED  BY <1>7, <3>1
  <2>. QED  BY <2>1, <2>2
<1>10. ASSUME NEW s \in Sessions, Mail(s)
       PROVE  MessagesInv'
  <2>1. CASE Writes(s) \/ Hands(s) \/ Receives(s) \/ \E m \in Messages : Reads(s, m)
    BY <1>7, <2>1 DEF Writes, Hands, Receives, Reads, boardVars, messageVars
  <2>. QED  BY <1>5, <1>6, <1>10, <2>1 DEF Mail
<1>. QED  BY <1>7, <1>8, <1>9, <1>10 DEF Next, vars, boardVars, messageVars

\* Every step keeps the receipts for those who were allowed to read.
LEMMA ReceiptsKept ==
    ASSUME Types, Types', SessionsInv, ReceiptsInv, [Next]_vars
    PROVE  ReceiptsInv'
<1>1. posted \in Nat /\ posted' \in Nat /\ posted <= posted'
  BY ReadersStay DEF Types
<1>2. ASSUME receipts' \subseteq receipts
      PROVE  ReceiptsInv'
  BY <1>1, <1>2, ReadersStay DEF ReceiptsInv
<1>3. ASSUME NEW s \in Sessions, Receives(s)
      PROVE  ReceiptsInv'
  <2>1. draft[s] \in 1..posted /\ MayRead(call[s], draft[s])
    BY <1>3 DEF Receives, SessionsInv, SessionSound
  <2>2. receipts' \subseteq receipts \cup {<<call[s], draft[s]>>}
    BY <1>3 DEF Receives
  <2>3. \A r \in receipts' : r[2] \in 1..posted /\ MayRead(r[1], r[2])
    BY <2>1, <2>2 DEF ReceiptsInv
  <2>. QED  BY <1>1, <2>3, ReadersStay DEF ReceiptsInv
<1>4. CASE Web
  BY <1>2, <1>4 DEF Web, WebCreates, WebUpdates, WebDeletes, Removed, messageVars
<1>5. ASSUME NEW s \in Sessions, Board(s)
      PROVE  ReceiptsInv'
  BY <1>2, <1>5 DEF Board, Connects, Opens, Ends, ShowsAreas, Cancels, Selects, Creates,
     messageVars
<1>6. ASSUME NEW s \in Sessions, Mail(s)
      PROVE  ReceiptsInv'
  <2>1. Receives(s) \/ receipts' = receipts
    BY <1>6 DEF Mail, Writes, Hands, Posts, Reads, Deletes, messageVars
  <2>. QED  BY <1>2, <1>3, <2>1
<1>. QED  BY <1>2, <1>4, <1>5, <1>6 DEF Next, vars, messageVars

\* Every step leaves at most one area flagged as the default.
LEMMA DefaultKept ==
    ASSUME DefaultInv, [Next]_vars
    PROVE  DefaultInv'
<1>. USE DEF DefaultInv
<1>1. CASE Web
  BY <1>1 DEF Web, WebCreates, WebUpdates, WebDeletes, Removed, Flagged
<1>2. ASSUME NEW s \in Sessions, Board(s)
      PROVE  DefaultInv'
  BY <1>2 DEF Board, Connects, Opens, Ends, ShowsAreas, Cancels, Selects, Creates, Makes,
     boardVars
<1>3. ASSUME NEW s \in Sessions, Mail(s)
      PROVE  DefaultInv'
  BY <1>3 DEF Mail, Writes, Hands, Posts, Reads, Receives, Deletes, boardVars
<1>. QED  BY <1>1, <1>2, <1>3 DEF Next, vars, boardVars

\* A message is without an area exactly if it was late, whatever step is taken:
\* an area that goes takes its messages along, and a new one has a new id.
LEMMA OrphansKept ==
    ASSUME Types, SessionsInv, MessagesInv, OrphansAreLate, [Next]_vars
    PROVE  OrphansAreLate'
<1>1. /\ message \in [Messages -> Records] /\ rows \subseteq Messages /\ posted \in Nat
      /\ rows \subseteq 1..posted /\ made \in Nat /\ areas \subseteq 1..made
  BY BulletinsAssumption DEF BulletinsAssumption, Types, TypeOK, Messages
<1>2. ASSUME areas' = areas, rows' = rows,
             \A m \in rows : /\ message'[m].area = message[m].area
                             /\ message'[m].late = message[m].late
      PROVE  OrphansAreLate'
  BY <1>2 DEF OrphansAreLate
<1>3. ASSUME NEW a, Removed(a)
      PROVE  OrphansAreLate'
  <2> DEFINE lost == {m \in rows : message[m].area = a}
  <2>1. areas' = areas \ {a} /\ rows' = rows \ lost
    BY <1>3 DEF Removed
  <2>2. \A m \in rows' : message'[m] = message[m]
    BY <1>1, <1>3, <2>1 DEF Removed
  <2>. QED  BY <2>1, <2>2 DEF OrphansAreLate
<1>4. ASSUME NEW n, Makes(n), UNCHANGED <<rows, message>>
      PROVE  OrphansAreLate'
  <2>1. areas' = areas \cup {made + 1}
    BY <1>1, <1>4 DEF Makes, NextArea
  <2>2. \A m \in rows : message[m].area # made + 1
    BY <1>1 DEF MessagesInv
  <2>. QED  BY <1>4, <2>1, <2>2 DEF OrphansAreLate
<1>5. ASSUME NEW s \in Sessions, NEW to, Posts(s, to)
      PROVE  OrphansAreLate'
  <2> DEFINE a == draft[s]
             m == posted + 1
             new == [area |-> a, num |-> NextNumber(a), from |-> call[s],
                     to |-> to, deleted |-> FALSE, late |-> a \notin areas]
  <2>1. /\ message' = [message EXCEPT ![m] = new] /\ rows' = rows \cup {m}
        /\ UNCHANGED areas /\ m \in Messages
    BY <1>1, <1>5, BulletinsAssumption DEF Posts, boardVars, Messages, BulletinsAssumption
  <2>2. \A n \in rows : message'[n] = message[n]
    BY <1>1, <2>1
  <2>3. message'[m] = new
    BY <1>1, <2>1
  <2>4. message'[m].area \in areas <=> ~message'[m].late
    <3>1. new = [area |-> a, num |-> NextNumber(a), from |-> call[s],
                 to |-> to, deleted |-> FALSE, late |-> a \notin areas]
      OBVIOUS
    <3> HIDE DEF a, new
    <3>2. new.area = a /\ new.late = (a \notin areas)
      BY <3>1, Zenon
    <3>3. new.area \in areas <=> ~new.late
      BY <3>2, Zenon
    <3>. QED  BY <2>3, <3>3
  <2> HIDE DEF a, m, new
  <2>. QED  BY <2>1, <2>2, <2>4 DEF OrphansAreLate
<1>6. ASSUME NEW s, NEW d \in Messages, Deletes(s, d)
      PROVE  OrphansAreLate'
  <2>1. \A r \in Records : LET q == [r EXCEPT !.deleted = TRUE]
                           IN  q.area = r.area /\ q.late = r.late
    BY DEF Records
  <2>2. \A m \in Messages : /\ message'[m].area = message[m].area
                            /\ message'[m].late = message[m].late
    BY <1>1, <1>6, <2>1 DEF Deletes
  <2>. QED  BY <1>1, <1>2, <1>6, <2>2 DEF Deletes, boardVars
<1>7. ASSUME UNCHANGED <<areas, rows, message>>
      PROVE  OrphansAreLate'
  BY <1>2, <1>7
<1>8. CASE Web
  <2>1. ASSUME NEW n, NEW flag, WebCreates(n, flag)
        PROVE  OrphansAreLate'
    BY <1>4, <2>1 DEF WebCreates, messageVars
  <2>2. ASSUME NEW a, NEW n, NEW flag, WebUpdates(a, n, flag)
        PROVE  OrphansAreLate'
    BY <1>7, <2>2 DEF WebUpdates, messageVars
  <2>. QED  BY <1>3, <1>8, <2>1, <2>2 DEF Web, WebDeletes
<1>9. ASSUME NEW s \in Sessions, Board(s)
      PROVE  OrphansAreLate'
  <2>1. CASE \E n \in Names : Creates(s, n)
    BY <1>4, <1>7, <2>1 DEF Creates, boardVars, messageVars
  <2>2. CASE ~\E n \in Names : Creates(s, n)
    <3>1. UNCHANGED <<areas, rows, message>>
      BY <1>9, <2>2 DEF Board, Connects, Opens, Ends, ShowsAreas, Cancels, Selects,
         boardVars, messageVars
    <3>. QED  BY <1>7, <3>1
  <2>. QED  BY <2>1, <2>2
<1>10. ASSUME NEW s \in Sessions, Mail(s)
       PROVE  OrphansAreLate'
  <2>1. CASE Writes(s) \/ Hands(s) \/ Receives(s) \/ \E m \in Messages : Reads(s, m)
    BY <1>7, <2>1 DEF Writes, Hands, Receives, Reads, boardVars, messageVars
  <2>. QED  BY <1>5, <1>6, <1>10, <2>1 DEF Mail
<1>. QED  BY <1>7, <1>8, <1>9, <1>10 DEF Next, vars, boardVars, messageVars

-----------------------------------------------------------------------------
\* The board starts with the seeded areas and nothing in them.
LEMMA InitBoardInv == Init => BoardInv
<1>. SUFFICES ASSUME Init PROVE BoardInv
  OBVIOUS
<1>1. Cardinality(Seeded) \in Nat
  BY FS_CardinalityType, BulletinsAssumption DEF BulletinsAssumption
<1>2. \A m \in Messages : message[m] \in Records
  BY DEF Init, Records
<1>3. Types
  <2>1. made \in Nat /\ made <= MaxAreas /\ areas = 1..made /\ MaxMessages \in Nat
    BY <1>1, BulletinsAssumption DEF Init, BulletinsAssumption
  <2>2. message \in [Messages -> Records] /\ posted \in Nat
    BY <1>2 DEF Init
  <2>3. rows \subseteq 1..posted /\ posted <= MaxMessages /\ receipts \subseteq Callers \X Messages
    BY <2>1 DEF Init
  <2>4. /\ name \in [Areas -> Names \cup {0}] /\ default \subseteq areas
        /\ writer \in Sessions \cup {Nobody}
        /\ call \in [Sessions -> Callers \cup {Nobody}]
        /\ pc \in [Sessions -> {"out", "menu", "read"} \cup Writing]
        /\ area \in [Sessions -> Areas \cup {0}] /\ draft \in [Sessions -> Nat]
    BY DEF Init
  <2>. QED  BY <2>1, <2>2, <2>3, <2>4 DEF Types, TypeOK
<1>4. SessionsInv
  BY BulletinsAssumption
  DEF Init, SessionsInv, SessionSound, BulletinsAssumption
<1>5. AreasInv /\ MessagesInv /\ ReceiptsInv /\ DefaultInv /\ OrphansAreLate
  BY <1>1 DEF Init, AreasInv, MessagesInv, ReceiptsInv, DefaultInv, OrphansAreLate, Writing
<1>. QED  BY <1>3, <1>4, <1>5 DEF BoardInv

\* What the connections of bulletin.py and of routes/bulletins.py leave each
\* other in the database, in every state of the board.
THEOREM BoardInvariant == Spec => []BoardInv
<1>1. Init => BoardInv
  BY InitBoardInv
<1>2. BoardInv /\ [Next]_vars => BoardInv'
  BY TypesKept, SessionsKept, AreasKept, MessagesKept, ReceiptsKept, DefaultKept, OrphansKept DEF BoardInv
<1>. QED  BY <1>1, <1>2, PTL DEF Spec

\* _post_message() never gives the number of a message again while its area
\* exists, _display_message_body() acknowledges only what _fetch_messages()
\* showed, and the web interface leaves one default at most.
THEOREM BoardIsSound == Spec => []BoardSound
<1>1. BoardInv => BoardSound
  <2>. SUFFICES ASSUME BoardInv PROVE BoardSound
    OBVIOUS
  <2>1. Cardinality(default) <= 1
    <3>1. default = {} \/ \E a : default = {a}
      BY DEF BoardInv, DefaultInv
    <3>2. CASE default = {}
      BY <3>2, FS_EmptySet
    <3>3. ASSUME NEW a, default = {a}
          PROVE  Cardinality(default) <= 1
      <4>1. Cardinality(default) = 1
        BY <3>3, FS_Singleton
      <4>. QED  BY <4>1
    <3>. QED  BY <3>1, <3>2, <3>3
  <2>2. \A r \in receipts : LET m == message[r[2]]
                            IN  m.to = All \/ r[1] \in {m.from, m.to} \/ r[1] \in Sysops
    BY DEF BoardInv, ReceiptsInv, MayRead
  <2>. QED  BY <2>1, <2>2 DEF BoardInv, Types, MessagesInv, BoardSound
<1>. QED  BY <1>1, BoardInvariant, PTL

\* delete_bulletin_area(): an area takes all its messages along; those that
\* _post_message() posts to it later never turn up in another area.
THEOREM NoOrphanIsEarly == Spec => []OrphansAreLate
<1>1. BoardInv => OrphansAreLate
  BY DEF BoardInv
<1>. QED  BY <1>1, BoardInvariant, PTL

\* No failed statement leaves anyone but a sysop with the write lock.
THEOREM LockIsNotKept == Spec => []LockNotKept
<1>1. BoardInv => LockNotKept
  BY DEF BoardInv, Types, TypeOK, SessionsInv, SessionSound, LockNotKept
<1>. QED  BY <1>1, BoardInvariant, PTL
=============================================================================
