--------------------------- MODULE ChatRoomsProofs ---------------------------
(***************************************************************************)
(* Membership in the chat rooms is true, the deletion of a room is told to *)
(* those in it, and no held whisper is forgotten unseen, for every number  *)
(* of sessions, callsigns and rooms.  The invariant says which session an  *)
(* entry of a members dict can stand for, that a room that is still in the *)
(* registry was not silenced, and whose whispers a session has in hand.    *)
(***************************************************************************)
EXTENDS ChatRooms, SequenceTheorems, FiniteSetTheorems, TLAPS

\* What is in a queue, and a whisper.
Items == {"line", "None", "whisper"} \X Nat
Whispered == [to : Calls, how : {"live", "asked", "held", "unheld"}]

\* The registry names each room once; only rooms gone from it are silenced.
RegistryInv ==
    /\ rooms \in Seq(Names) /\ IsInjective(rooms)
    /\ deletes \in [Names -> 0..MaxDeletes]
    /\ wired \subseteq Objects
    /\ silenced \subseteq {o \in Objects : o[2] < deletes[o[1]]}
    /\ stored \cup saves \subseteq Names \ Range(Configured)
    /\ IsFiniteSet(stored)

\* A session that ever was in chat entered one room and is, or was, in one.
SessionsInv ==
    /\ members \in [Objects -> [Calls -> Sessions \cup {Nobody}]]
    /\ call \in [Sessions -> Calls]
    /\ pc \in [Sessions -> {"away", "gone", "cut"} \cup Entering \cup Looping]
    /\ joins \in [Sessions -> 0..MaxJoins]
    /\ room \in [Sessions -> Objects \cup {NoRoom}]
    /\ first \in [Sessions -> Objects \cup {NoRoom}]
    /\ target \in [Sessions -> Names]
    /\ \A s \in Sessions : pc[s] # "away" =>
          room[s] \in Objects /\ first[s] \in Objects /\ joins[s] \in 1..MaxJoins

\* The reader task starts with the prompt, on a queue that was made for it.
InboxesInv ==
    /\ box \in [Sessions -> Seq(Items)]
    /\ reader \in [Sessions -> {"off", "reads"} \cup Ended]
    /\ missed \subseteq Sessions
    /\ \A s \in Sessions :
          /\ Len(box[s]) <= QueueMax
          /\ pc[s] = "away" => box[s] = <<>>
          /\ pc[s] \in {"away"} \cup Entering => reader[s] = "off"

\* The whispers in hand are addressed to the session that read them, and in
\* the table until a session of its callsign deletes them.
WhispersInv ==
    /\ whispers \in Seq(Whispered)
    /\ Len(whispers) <= MaxWhispers
    /\ held \cup shown \subseteq 1..Len(whispers)
    /\ asking \in [Sessions -> 0..Len(whispers)]
    /\ rows \in [Sessions -> SUBSET (1..Len(whispers))]
    /\ \A s \in Sessions :
          /\ pc[s] = "asking" => asking[s] # 0
          /\ pc[s] \notin {"fetched", "cleared"} => rows[s] = {}
          /\ \A i \in rows[s] : whispers[i].to = call[s]
          /\ pc[s] = "fetched" /\ ~Rival(s) => rows[s] \subseteq held

\* An entry stands for a session of that callsign, in the room it is in.
EntriesInv ==
    \A o \in Objects, c \in Calls : \A s \in Sessions : members[o][c] = s =>
        /\ o = room[s] /\ c = call[s]
        /\ pc[s] # "away"
        /\ pc[s] = "gone" => o # first[s]

\* A session that nobody shares the callsign with has its entry.
EnteredInv ==
    \A s \in Sessions : InChat(s) /\ ~Rival(s) => members[room[s]][call[s]] = s

\* A sentinel in the queue, or taken from it by the reader, tells of a room's
\* deletion: it comes from one, of the room the session is in or was in before, ...
Told(s) == reader[s] = "done" \/ Sentinel \in Range(box[s])
SignalInv == \A s \in Sessions : Told(s) => room[s] \in silenced \/ joins[s] > 1

\* ... and it is what the deletion leaves.
ToldInv ==
    \A s \in Sessions :
        InChat(s) /\ room[s] \in silenced /\ s \notin missed /\ ~Rival(s) => Told(s)

ChatInv ==
    /\ RegistryInv /\ SessionsInv /\ InboxesInv /\ WhispersInv
    /\ EntriesInv /\ EnteredInv /\ SignalInv /\ ToldInv
-----------------------------------------------------------------------------
\* Every step is one of these: all ways out of the loop are one.
Leaves(s) == pc[s] \in Looping /\ Exits(s)
Resumes(s) ==
    /\ pc[s] = "busy" /\ reader[s] \notin Ended
    /\ pc' = [pc EXCEPT ![s] = "prompt"]
    /\ UNCHANGED <<roomVars, call, room, first, joins, inboxVars, whisperVars,
                   target, storeVars>>

LEMMA Steps ==
    ASSUME [Next]_vars
    PROVE  \/ \E s \in Sessions :
                 \/ Enter(s) \/ Fetch(s) \/ Clear(s) \/ ClearFails(s) \/ Show(s)
                 \/ CutEntering(s) \/ Leaves(s) \/ Resumes(s) \/ Read(s) \/ Say(s)
                 \/ DelRoomEnds(s)
                 \/ \E n \in Names : Join(s, n) \/ DelRoomBegins(s, n)
                 \/ \E c \in Calls : Whisper(s, c)
                 \/ \E how \in {"held", "unheld"} : Place(s, how)
           \/ \E n \in Names : RestDelete(n) \/ SaveEnds(n)
           \/ Restart
           \/ UNCHANGED vars
<1>1. ASSUME NEW s \in Sessions, Quit(s) \/ CutLooping(s)
      PROVE  Leaves(s)
  BY <1>1 DEF Quit, CutLooping, Leaves, Looping
<1>2. ASSUME NEW s \in Sessions, LoopTop(s)
      PROVE  Leaves(s) \/ Resumes(s)
  BY <1>2 DEF LoopTop, Leaves, Resumes, Looping
<1>3. ASSUME NEW s \in Sessions, Command(s)
      PROVE  \/ Say(s) \/ Leaves(s) \/ DelRoomEnds(s)
             \/ \E n \in Names : Join(s, n) \/ DelRoomBegins(s, n)
             \/ \E c \in Calls : Whisper(s, c)
             \/ \E how \in {"held", "unheld"} : Place(s, how)
  BY <1>1, <1>3 DEF Command
<1>. QED  BY <1>1, <1>2, <1>3 DEF Next, Flushes

-----------------------------------------------------------------------------
\* A name at the end of the registry, or taken from it, leaves each name once.
LEMMA EnteredIs ==
    ASSUME NEW n \in Names, rooms \in Seq(Names), IsInjective(rooms)
    PROVE  Entered(n) \in Seq(Names) /\ IsInjective(Entered(n))
<1>1. CASE n \in Range(rooms)
  BY <1>1 DEF Entered
<1>2. CASE n \notin Range(rooms)
  <2>1. Entered(n) = Append(rooms, n)
    BY <1>2 DEF Entered
  <2>2. /\ Append(rooms, n) \in Seq(Names) /\ Len(Append(rooms, n)) = Len(rooms) + 1
        /\ \A i \in 1..Len(rooms) : Append(rooms, n)[i] = rooms[i]
        /\ Append(rooms, n)[Len(rooms) + 1] = n
    BY AppendProperties
  <2>3. Len(rooms) \in Nat /\ DOMAIN rooms = 1..Len(rooms)
        /\ DOMAIN Append(rooms, n) = 1..(Len(rooms) + 1)
    BY <2>2, LenProperties
  <2>4. \A i \in 1..Len(rooms) : rooms[i] # n
    BY <1>2, <2>3 DEF Range
  <2>5. \A i, j \in 1..(Len(rooms) + 1) : Append(rooms, n)[i] = Append(rooms, n)[j] => i = j
    BY <2>2, <2>3, <2>4 DEF IsInjective
  <2>. QED  BY <2>1, <2>2, <2>3, <2>5 DEF IsInjective
<1>. QED  BY <1>1, <1>2

LEMMA PoppedIs ==
    ASSUME rooms \in Seq(Names), IsInjective(rooms), NEW n \in Range(rooms)
    PROVE  Popped(n) \in Seq(Names) /\ IsInjective(Popped(n))
<1>1. Len(rooms) \in Nat /\ DOMAIN rooms = 1..Len(rooms)
      /\ \A i \in 1..Len(rooms) : rooms[i] \in Names
  BY LenProperties, ElementOfSeq
<1>2. PICK k \in 1..Len(rooms) : Popped(n) = RemoveAt(rooms, k)
  BY <1>1 DEF Popped, Range
<1> DEFINE a == SubSeq(rooms, 1, k - 1)
           b == SubSeq(rooms, k + 1, Len(rooms))
<1>3. a \in Seq(Names) /\ Len(a) = k - 1 /\ \A i \in 1..(k - 1) : a[i] = rooms[i]
  <2>1. \A i \in 1..(k - 1) : rooms[i] \in Names
    BY <1>1
  <2>2. /\ a \in Seq(Names)
        /\ Len(a) = IF 1 <= k - 1 THEN k - 1 - 1 + 1 ELSE 0
        /\ \A i \in 1..(k - 1 - 1 + 1) : a[i] = rooms[1 + i - 1]
    BY <1>1, <2>1, SubSeqProperties
  <2>. QED  BY <1>1, <2>2
<1>4. b \in Seq(Names) /\ Len(b) = Len(rooms) - k
      /\ \A i \in 1..(Len(rooms) - k) : b[i] = rooms[k + i]
  <2>0. k \in Nat /\ Len(rooms) \in Nat /\ 1 <= k /\ k <= Len(rooms)
    BY <1>1
  <2>1. \A i \in (k + 1)..Len(rooms) : rooms[i] \in Names
    BY <1>1
  <2>2. /\ b \in Seq(Names)
        /\ Len(b) = IF k + 1 <= Len(rooms) THEN Len(rooms) - (k + 1) + 1 ELSE 0
        /\ \A i \in 1..(Len(rooms) - (k + 1) + 1) : b[i] = rooms[k + 1 + i - 1]
    BY <1>1, <2>1, SubSeqProperties
  <2>3. \A i \in 1..(Len(rooms) - k) : k + 1 + i - 1 = k + i
    BY <1>1
  <2>4. Len(rooms) - (k + 1) + 1 = Len(rooms) - k
    BY <1>1
  <2>5. \A i \in 1..(Len(rooms) - k) : b[i] = rooms[k + i]
    BY <2>2, <2>3, <2>4
  <2>6. Len(b) = Len(rooms) - k
    <3>1. CASE k < Len(rooms)
      <4>1. k + 1 <= Len(rooms)
        BY <2>0, <3>1
      <4>. QED  BY <2>2, <2>4, <4>1
    <3>2. CASE k = Len(rooms)
      <4>1. ~(k + 1 <= Len(rooms)) /\ Len(rooms) - k = 0
        BY <2>0, <3>2
      <4>. QED  BY <2>2, <4>1
    <3>. QED  BY <2>0, <3>1, <3>2
  <2>. QED  BY <2>2, <2>5, <2>6
<1>5. Popped(n) = a \o b
  BY <1>2 DEF RemoveAt
<1> HIDE DEF a, b
<1>6. /\ a \o b \in Seq(Names) /\ Len(a \o b) = Len(rooms) - 1
      /\ \A i \in 1..(Len(rooms) - 1) :
            (a \o b)[i] = IF i <= k - 1 THEN rooms[i] ELSE rooms[i + 1]
  <2>1. /\ a \o b \in Seq(Names) /\ Len(a \o b) = Len(a) + Len(b)
        /\ \A i \in 1..(Len(a) + Len(b)) :
              (a \o b)[i] = IF i <= Len(a) THEN a[i] ELSE b[i - Len(a)]
    BY <1>3, <1>4, ConcatProperties
  <2>. QED  BY <1>1, <1>3, <1>4, <2>1
<1>7. DOMAIN (a \o b) = 1..(Len(rooms) - 1)
  BY <1>6, LenProperties
<1>8. \A i, j \in 1..(Len(rooms) - 1) : (a \o b)[i] = (a \o b)[j] => i = j
  <2>. SUFFICES ASSUME NEW i \in 1..(Len(rooms) - 1), NEW j \in 1..(Len(rooms) - 1),
                       (a \o b)[i] = (a \o b)[j]
                PROVE  i = j
    OBVIOUS
  <2> DEFINE at(x) == IF x <= k - 1 THEN x ELSE x + 1
  <2>1. at(i) \in 1..Len(rooms) /\ at(j) \in 1..Len(rooms)
    BY <1>1
  <2>2. (a \o b)[i] = rooms[at(i)] /\ (a \o b)[j] = rooms[at(j)]
    BY <1>6
  <2>3. at(i) = at(j)
    <3> HIDE DEF at
    <3>. QED  BY <1>1, <2>1, <2>2 DEF IsInjective
  <2>. QED  BY <1>1, <2>3
<1>. QED  BY <1>5, <1>6, <1>7, <1>8 DEF IsInjective

\* The configured rooms and then, in any order, names that are not configured.
LEMMA RestoredIs ==
    ASSUME NEW S \in SUBSET (Names \ Range(Configured)), IsFiniteSet(S),
           NEW order \in SetToSeqs(S)
    PROVE  Configured \o order \in Seq(Names) /\ IsInjective(Configured \o order)
<1>1. Cardinality(S) \in Nat
  BY FS_CardinalityType
<1>2. order \in [1..Cardinality(S) -> S]
      /\ \A i, j \in 1..Cardinality(S) : i # j => order[i] # order[j]
  BY DEF SetToSeqs
<1>3. order \in Seq(Names) /\ Len(order) = Cardinality(S)
  <2>1. order \in [1..Cardinality(S) -> Names]
    BY <1>2
  <2>. QED  BY <1>1, <2>1
<1>4. Configured \in Seq(Names) /\ Len(Configured) \in Nat
      /\ DOMAIN Configured = 1..Len(Configured) /\ IsInjective(Configured)
  BY ChatAssumption, LenProperties DEF ChatAssumption
<1> DEFINE all == Configured \o order
           l == Len(Configured)
           k == Cardinality(S)
<1>5. /\ all \in Seq(Names) /\ Len(all) = l + k
      /\ \A i \in 1..(l + k) : all[i] = IF i <= l THEN Configured[i] ELSE order[i - l]
  BY <1>3, <1>4, ConcatProperties
<1>6. DOMAIN all = 1..(l + k)
  BY <1>5, LenProperties
<1>7. \A i \in 1..l : Configured[i] \in Range(Configured)
  BY <1>4 DEF Range
<1>8. \A i, j \in 1..l : Configured[i] = Configured[j] => i = j
  BY <1>4 DEF IsInjective
<1> HIDE DEF all, l, k
<1>9. \A i, j \in 1..(l + k) : all[i] = all[j] => i = j
  <2>. SUFFICES ASSUME NEW i \in 1..(l + k), NEW j \in 1..(l + k), all[i] = all[j]
                PROVE  i = j
    OBVIOUS
  <2>1. l \in Nat /\ k \in Nat
    BY <1>1, <1>4 DEF l, k
  <2>2. \A x \in (l + 1)..(l + k) : order[x - l] \in S /\ all[x] = order[x - l]
    BY <1>2, <1>5, <2>1 DEF k
  <2>3. \A x, y \in (l + 1)..(l + k) : order[x - l] = order[y - l] => x = y
    BY <1>2, <2>1 DEF k
  <2>4. \A x \in 1..l : all[x] = Configured[x]
    BY <1>5, <2>1
  <2>5. S \cap Range(Configured) = {}
    OBVIOUS
  <2>6. CASE i \in 1..l /\ j \in 1..l
    BY <1>8, <2>4, <2>6
  <2>7. CASE i \in 1..l /\ j \in (l + 1)..(l + k)
    BY <1>7, <2>2, <2>4, <2>5, <2>7
  <2>8. CASE i \in (l + 1)..(l + k) /\ j \in 1..l
    BY <1>7, <2>2, <2>4, <2>5, <2>8
  <2>9. CASE i \in (l + 1)..(l + k) /\ j \in (l + 1)..(l + k)
    BY <2>2, <2>3, <2>9
  <2>. QED  BY <2>1, <2>6, <2>7, <2>8, <2>9
<1>. QED  BY <1>5, <1>6, <1>9 DEF IsInjective, all

-----------------------------------------------------------------------------
\* The items of a queue, of which the sentinel is one by itself.
LEMMA ItemsAre ==
    /\ Line \in Items /\ Sentinel \in Items /\ Line # Sentinel
    /\ \A i \in Nat : Private(i) \in Items /\ Private(i) # Sentinel
BY DEF Items, Line, Sentinel, Private

LEMMA AppendRange ==
    ASSUME NEW S, NEW q \in Seq(S), NEW e \in S
    PROVE  /\ Append(q, e) \in Seq(S) /\ Len(Append(q, e)) = Len(q) + 1
           /\ Range(Append(q, e)) = Range(q) \cup {e}
<1>1. /\ Append(q, e) \in Seq(S) /\ Len(Append(q, e)) = Len(q) + 1
      /\ \A i \in 1..Len(q) : Append(q, e)[i] = q[i]
      /\ Append(q, e)[Len(q) + 1] = e
  BY AppendProperties
<1>2. Len(q) \in Nat /\ DOMAIN q = 1..Len(q) /\ DOMAIN Append(q, e) = 1..(Len(q) + 1)
  BY <1>1, LenProperties
<1>3. 1..(Len(q) + 1) = 1..Len(q) \cup {Len(q) + 1}
  BY <1>2
<1>. QED  BY <1>1, <1>2, <1>3 DEF Range

LEMMA TailRange ==
    ASSUME NEW S, NEW q \in Seq(S), q # <<>>
    PROVE  /\ Head(q) \in S /\ Tail(q) \in Seq(S) /\ Len(Tail(q)) + 1 = Len(q)
           /\ Range(q) = {Head(q)} \cup Range(Tail(q))
<1>1. /\ Head(q) \in S /\ Tail(q) \in Seq(S) /\ Len(Tail(q)) = Len(q) - 1
      /\ \A i \in 1..Len(Tail(q)) : Tail(q)[i] = q[i + 1]
  BY HeadTailProperties
<1>2. Len(q) \in Nat \ {0} /\ Len(Tail(q)) \in Nat /\ DOMAIN q = 1..Len(q)
      /\ DOMAIN Tail(q) = 1..Len(Tail(q))
  BY <1>1, LenProperties, EmptySeq
<1>3. Head(q) = q[1]
  BY DEF Head
<1>4. ASSUME NEW x \in Range(q) PROVE x \in {Head(q)} \cup Range(Tail(q))
  <2>1. PICK i \in 1..Len(q) : q[i] = x
    BY <1>2 DEF Range
  <2>2. CASE i # 1
    <3>1. i - 1 \in 1..Len(Tail(q)) /\ i - 1 + 1 = i
      BY <1>1, <1>2, <2>2
    <3>2. Tail(q)[i - 1] = x
      BY <1>1, <2>1, <3>1
    <3>. QED  BY <1>2, <3>1, <3>2 DEF Range
  <2>. QED  BY <1>3, <2>1, <2>2
<1>5. ASSUME NEW x \in Range(Tail(q)) PROVE x \in Range(q)
  <2>1. PICK i \in 1..Len(Tail(q)) : Tail(q)[i] = x
    BY <1>2 DEF Range
  <2>2. i + 1 \in 1..Len(q) /\ q[i + 1] = x
    BY <1>1, <1>2, <2>1
  <2>. QED  BY <1>2, <2>2 DEF Range
<1>6. Head(q) \in Range(q)
  BY <1>2, <1>3 DEF Range
<1>. QED  BY <1>1, <1>2, <1>4, <1>5, <1>6

\* The queues, none too long; and what a put on some of them does to each.
Queues(b) == b \in [Sessions -> Seq(Items)] /\ \A s \in Sessions : Len(b[s]) <= QueueMax

LEMMA PutIs ==
    ASSUME NEW b, Queues(b), NEW to \in SUBSET Sessions, NEW item \in Items
    PROVE  /\ Queues(Put(b, to, item))
           /\ Overflow(b, to) \subseteq to
           /\ \A s \in Sessions :
                 /\ s \notin to => Put(b, to, item)[s] = b[s]
                 /\ Range(b[s]) \subseteq Range(Put(b, to, item)[s])
                 /\ Range(Put(b, to, item)[s]) \subseteq Range(b[s]) \cup {item}
                 /\ s \in to => item \in Range(Put(b, to, item)[s]) \/ s \in Overflow(b, to)
<1> DEFINE p == Put(b, to, item)
<1>1. ASSUME NEW s \in Sessions
      PROVE  /\ p[s] \in Seq(Items) /\ Len(p[s]) <= QueueMax
             /\ s \notin to => p[s] = b[s]
             /\ Range(b[s]) \subseteq Range(p[s])
             /\ Range(p[s]) \subseteq Range(b[s]) \cup {item}
             /\ s \in to => item \in Range(p[s]) \/ s \in Overflow(b, to)
  <2>1. b[s] \in Seq(Items) /\ Len(b[s]) <= QueueMax /\ Len(b[s]) \in Nat /\ QueueMax \in Nat
    BY ChatAssumption, LenProperties DEF Queues, ChatAssumption
  <2>2. CASE s \in to /\ Len(b[s]) < QueueMax
    <3>1. p[s] = Append(b[s], item)
      BY <2>2 DEF Put
    <3>2. /\ p[s] \in Seq(Items) /\ Len(p[s]) = Len(b[s]) + 1
          /\ Range(p[s]) = Range(b[s]) \cup {item}
      BY <2>1, <3>1, AppendRange
    <3>. QED  BY <2>1, <2>2, <3>2
  <2>3. CASE ~(s \in to /\ Len(b[s]) < QueueMax)
    <3>1. p[s] = b[s]
      BY <2>3 DEF Put
    <3>2. s \in to => Len(b[s]) = QueueMax
      BY <2>1, <2>3
    <3>. QED  BY <2>1, <3>1, <3>2 DEF Overflow
  <2>. QED  BY <2>2, <2>3
<1>2. p \in [Sessions -> Seq(Items)]
  <2>1. p = [s \in Sessions |-> p[s]]
    BY DEF Put
  <2>. QED  BY <1>1, <2>1
<1>3. Overflow(b, to) \subseteq to
  BY DEF Overflow
<1> HIDE DEF p
<1>4. Queues(p) /\ \A s \in Sessions :
                 /\ s \notin to => p[s] = b[s]
                 /\ Range(b[s]) \subseteq Range(p[s])
                 /\ Range(p[s]) \subseteq Range(b[s]) \cup {item}
                 /\ s \in to => item \in Range(p[s]) \/ s \in Overflow(b, to)
  BY <1>1, <1>2 DEF Queues
<1>. QED  BY <1>3, <1>4 DEF p

-----------------------------------------------------------------------------
\* The members once a session joined, or a callsign left, a room object.
Dicts == [Objects -> [Calls -> Sessions \cup {Nobody}]]

LEMMA JoinedIs ==
    ASSUME NEW m \in Dicts, NEW o \in Objects, NEW s \in Sessions, call[s] \in Calls
    PROVE  /\ Joined(m, o, s) \in Dicts
           /\ \A p \in Objects, c \in Calls :
                 Joined(m, o, s)[p][c] = IF p = o /\ c = call[s] THEN s ELSE m[p][c]
BY DEF Joined, Dicts

LEMMA LeftIs ==
    ASSUME NEW m \in Dicts, NEW o \in Objects, NEW s \in Sessions, call[s] \in Calls
    PROVE  /\ Left(m, o, s) \in Dicts
           /\ \A p \in Objects, c \in Calls :
                 Left(m, o, s)[p][c] = IF p = o /\ c = call[s] THEN Nobody ELSE m[p][c]
BY DEF Left, Dicts

LEMMA ReachedIs ==
    ASSUME NEW m \in Dicts, NEW o \in Objects, NEW skip
    PROVE  /\ Reached(m, o, skip) \subseteq Sessions
           /\ \A t \in Reached(m, o, skip) : \E c \in Calls \ skip : m[o][c] = t
           /\ \A c \in Calls \ skip : m[o][c] # Nobody => m[o][c] \in Reached(m, o, skip)
BY DEF Reached, Dicts

-----------------------------------------------------------------------------
\* The room object of a name, and the saves that broadcasts start.
LEMMA ObjectIs ==
    ASSUME RegistryInv, NEW n \in Names
    PROVE  Object(n) \in Objects /\ Object(n) \notin silenced /\ Object(n)[1] = n
<1>1. deletes[n] \in 0..MaxDeletes
  BY DEF RegistryInv
<1>2. Object(n) = <<n, deletes[n]>> /\ Object(n) \in Objects
  BY <1>1 DEF Object, Objects
<1>3. MaxDeletes \in Nat
  BY ChatAssumption DEF ChatAssumption
<1>4. ~(deletes[n] < deletes[n])
  BY <1>1, <1>3
<1>. QED  BY <1>2, <1>4 DEF RegistryInv

LEMMA SavedIs ==
    ASSUME NEW o \in Objects
    PROVE  Saved(o) \subseteq Names \ Range(Configured)
BY DEF Saved, Objects

LEMMA RegistryStep ==
    ASSUME ChatInv, [Next]_vars
    PROVE  RegistryInv'
<1> USE DEF RegistryInv
<1>0. RegistryInv /\ SessionsInv
  BY DEF ChatInv
<1>1. ASSUME NEW s \in Sessions, Enter(s)
      PROVE  RegistryInv'
  <2>1. PICK n \in Names : rooms' = Entered(n) /\ saves' = saves \cup Saved(Object(n))
    <3>1. Main \in Names /\ \A i \in 1..Len(rooms) : rooms[i] \in Names
      BY <1>0, ChatAssumption, ElementOfSeq DEF ChatAssumption
    <3>2. rooms # <<>> => Head(rooms) \in Names
      BY <1>0, HeadTailProperties
    <3>. QED  BY <1>1, <3>1, <3>2 DEF Enter
  <2>2. rooms' \in Seq(Names) /\ IsInjective(rooms')
    BY <1>0, <2>1, EnteredIs
  <2>3. Saved(Object(n)) \subseteq Names \ Range(Configured)
    BY <1>0, ObjectIs, SavedIs
  <2>4. UNCHANGED <<deletes, wired, silenced, stored>>
    BY <1>1 DEF Enter
  <2>. QED  BY <1>0, <2>1, <2>2, <2>3, <2>4
<1>2. ASSUME NEW s \in Sessions,
             \/ Fetch(s) \/ Clear(s) \/ ClearFails(s) \/ Show(s) \/ CutEntering(s)
             \/ Resumes(s) \/ Read(s)
             \/ \E c \in Calls : Whisper(s, c)
             \/ \E how \in {"held", "unheld"} : Place(s, how)
      PROVE  RegistryInv'
  <2>1. UNCHANGED <<rooms, deletes, wired, silenced, stored, saves>>
    BY <1>2 DEF Fetch, Clear, ClearFails, Show, CutEntering, Resumes, Read, Whisper, Place,
                roomVars, storeVars
  <2>. QED  BY <1>0, <2>1
<1>3. ASSUME NEW s \in Sessions, Leaves(s) \/ Say(s)
      PROVE  RegistryInv'
  <2>1. pc[s] # "away"
    BY <1>3 DEF Leaves, Say, Looping
  <2>2. PICK o \in Objects : saves' = saves \cup Saved(o)
    BY <1>0, <1>3, <2>1 DEF Leaves, Exits, Say, SessionsInv
  <2>3. UNCHANGED <<rooms, deletes, wired, silenced, stored>>
    BY <1>3 DEF Leaves, Exits, Say, roomVars
  <2>. QED  BY <1>0, <2>2, <2>3, SavedIs
<1>4. ASSUME NEW s \in Sessions, NEW n \in Names, Join(s, n)
      PROVE  RegistryInv'
  <2>1. room[s] \in Objects /\ Object(n) \in Objects
    BY <1>0, <1>4, ObjectIs DEF Join, SessionsInv
  <2>2. rooms' \in Seq(Names) /\ IsInjective(rooms')
    BY <1>0, <1>4, EnteredIs DEF Join
  <2>3. /\ wired' = wired \cup {Object(n)}
        /\ saves' = saves \cup Saved(room[s]) \cup Saved(Object(n))
        /\ UNCHANGED <<deletes, silenced, stored>>
    BY <1>4 DEF Join
  <2>. QED  BY <1>0, <2>1, <2>2, <2>3, SavedIs
<1>5. ASSUME NEW s \in Sessions, NEW n \in Names, DelRoomBegins(s, n)
      PROVE  RegistryInv'
  <2>1. stored' = stored \ {n} /\ UNCHANGED <<rooms, deletes, wired, silenced, saves>>
    BY <1>5 DEF DelRoomBegins, roomVars
  <2>2. IsFiniteSet(stored')
    BY <1>0, <2>1, FS_Subset
  <2>. QED  BY <1>0, <2>1, <2>2
<1>6. ASSUME NEW n \in Names, n \in Range(rooms), MayDelete,
             rooms' = Popped(n), deletes' = [deletes EXCEPT ![n] = @ + 1],
             silenced' \in {silenced, silenced \cup {Object(n)}}
      PROVE  /\ rooms' \in Seq(Names) /\ IsInjective(rooms')
             /\ deletes' \in [Names -> 0..MaxDeletes]
             /\ silenced' \subseteq {o \in Objects : o[2] < deletes'[o[1]]}
  <2>1. rooms' \in Seq(Names) /\ IsInjective(rooms')
    BY <1>0, <1>6, PoppedIs
  <2>2. MaxDeletes \in Nat /\ \A k \in Names : deletes[k] \in 0..MaxDeletes
    BY <1>0, ChatAssumption DEF ChatAssumption
  <2>3. deletes' \in [Names -> 0..MaxDeletes]
        /\ \A k \in Names : deletes[k] <= deletes'[k] /\ deletes'[k] \in Nat
        /\ deletes'[n] = deletes[n] + 1
    BY <1>0, <1>6, <2>2 DEF MayDelete
  <2>4. Object(n) \in Objects /\ Object(n)[1] = n /\ Object(n)[2] = deletes[n]
    BY <1>0, ObjectIs DEF Object
  <2>5. Object(n)[2] < deletes'[Object(n)[1]]
    BY <2>2, <2>3, <2>4
  <2>6. ASSUME NEW o \in silenced PROVE o \in Objects /\ o[2] < deletes'[o[1]]
    <3>1. o \in Objects /\ o[1] \in Names /\ o[2] \in 0..MaxDeletes /\ o[2] < deletes[o[1]]
      BY <1>0 DEF Objects
    <3>2. o[2] \in Nat /\ deletes[o[1]] \in Nat /\ deletes[o[1]] <= deletes'[o[1]]
          /\ deletes'[o[1]] \in Nat
      BY <2>2, <2>3, <3>1
    <3>. QED  BY <3>1, <3>2
  <2>. QED  BY <1>6, <2>1, <2>3, <2>4, <2>5, <2>6
<1>7. ASSUME NEW s \in Sessions, DelRoomEnds(s)
      PROVE  RegistryInv'
  <2>1. target[s] \in Names /\ Object(target[s]) \in Objects /\ UNCHANGED stored
    BY <1>0, <1>7, ObjectIs DEF DelRoomEnds, SessionsInv
  <2>2. CASE target[s] \in Range(rooms) /\ MayDelete
    <3>1. /\ rooms' = Popped(target[s])
          /\ deletes' = [deletes EXCEPT ![target[s]] = @ + 1]
          /\ silenced' = silenced \cup {Object(target[s])}
          /\ saves' = saves \cup Saved(Object(target[s]))
          /\ wired' = wired
      BY <1>7, <2>2 DEF DelRoomEnds
    <3>2. /\ rooms' \in Seq(Names) /\ IsInjective(rooms')
          /\ deletes' \in [Names -> 0..MaxDeletes]
          /\ silenced' \subseteq {o \in Objects : o[2] < deletes'[o[1]]}
      BY <1>6, <2>1, <2>2, <3>1
    <3>. QED  BY <1>0, <2>1, <3>1, <3>2, SavedIs
  <2>3. CASE ~(target[s] \in Range(rooms) /\ MayDelete)
    BY <1>0, <1>7, <2>1, <2>3 DEF DelRoomEnds, roomVars
  <2>. QED  BY <2>2, <2>3
<1>8. ASSUME NEW n \in Names, RestDelete(n)
      PROVE  RegistryInv'
  <2>1. /\ n \in Range(rooms) /\ MayDelete /\ rooms' = Popped(n)
        /\ deletes' = [deletes EXCEPT ![n] = @ + 1]
        /\ stored' = stored \ {n} /\ UNCHANGED <<wired, silenced, saves>>
    BY <1>8 DEF RestDelete
  <2>2. /\ rooms' \in Seq(Names) /\ IsInjective(rooms')
        /\ deletes' \in [Names -> 0..MaxDeletes]
        /\ silenced' \subseteq {o \in Objects : o[2] < deletes'[o[1]]}
    BY <1>6, <2>1
  <2>3. IsFiniteSet(stored')
    BY <1>0, <2>1, FS_Subset
  <2>. QED  BY <1>0, <2>1, <2>2, <2>3
<1>9. ASSUME NEW n \in Names, SaveEnds(n)
      PROVE  RegistryInv'
  <2>1. /\ n \in saves /\ saves' = saves \ {n} /\ stored' \in {stored, stored \cup {n}}
        /\ UNCHANGED <<rooms, deletes, wired, silenced>>
    BY <1>9 DEF SaveEnds, roomVars
  <2>2. IsFiniteSet(stored')
    BY <1>0, <2>1, FS_AddElement
  <2>. QED  BY <1>0, <2>1, <2>2
<1>10. ASSUME Restart
       PROVE  RegistryInv'
  <2>1. PICK order \in SetToSeqs(stored) : rooms' = Configured \o order
    BY <1>10 DEF Restart
  <2>2. /\ wired' = wired \cup {Object(n) : n \in Range(rooms')}
        /\ saves' = {} /\ UNCHANGED <<deletes, silenced, stored>>
    BY <1>10 DEF Restart
  <2>3. rooms' \in Seq(Names) /\ IsInjective(rooms')
    BY <1>0, <2>1, RestoredIs
  <2>4. Range(rooms') \subseteq Names
    BY <2>3, LenProperties, ElementOfSeq DEF Range
  <2>5. \A n \in Range(rooms') : Object(n) \in Objects
    BY <1>0, <2>4, ObjectIs
  <2>. QED  BY <1>0, <2>2, <2>3, <2>5
<1>11. CASE UNCHANGED vars
  BY <1>0, <1>11 DEF vars, roomVars, storeVars
<1>. QED  BY <1>1, <1>2, <1>3, <1>4, <1>5, <1>7, <1>8, <1>9, <1>10, <1>11, Steps

-----------------------------------------------------------------------------
LEMMA SessionsStep ==
    ASSUME ChatInv, [Next]_vars
    PROVE  SessionsInv'
<1> USE DEF SessionsInv
<1>0. RegistryInv /\ SessionsInv
  BY DEF ChatInv
<1>1. ASSUME NEW s \in Sessions, Enter(s)
      PROVE  SessionsInv'
  <2>1. PICK n \in Names : /\ members' = Joined(members, Object(n), s)
                           /\ room' = [room EXCEPT ![s] = Object(n)]
                           /\ first' = [first EXCEPT ![s] = Object(n)]
    <3>1. Main \in Names /\ (rooms # <<>> => Head(rooms) \in Names)
      BY <1>0, ChatAssumption, HeadTailProperties DEF ChatAssumption, RegistryInv
    <3>. QED  BY <1>1, <3>1 DEF Enter
  <2>2. Object(n) \in Objects
    BY <1>0, ObjectIs
  <2>3. members' \in Dicts
    BY <1>0, <2>1, <2>2, JoinedIs DEF Dicts
  <2>4. /\ pc' = [pc EXCEPT ![s] = "joined"] /\ joins' = [joins EXCEPT ![s] = 1]
        /\ UNCHANGED <<call, target>>
    BY <1>1 DEF Enter
  <2>5. 1 \in 1..MaxJoins /\ 1 \in 0..MaxJoins
    BY ChatAssumption DEF ChatAssumption
  <2>6. \A t \in Sessions : pc'[t] # "away" =>
           room'[t] \in Objects /\ first'[t] \in Objects /\ joins'[t] \in 1..MaxJoins
    BY <1>0, <2>1, <2>2, <2>4, <2>5
  <2>. QED  BY <1>0, <2>1, <2>2, <2>3, <2>4, <2>5, <2>6 DEF Dicts, Entering
<1>2. ASSUME NEW s \in Sessions,
             \/ Fetch(s) \/ Clear(s) \/ ClearFails(s) \/ Show(s) \/ CutEntering(s)
             \/ Resumes(s) \/ Say(s)
             \/ \E c \in Calls : Whisper(s, c)
             \/ \E how \in {"held", "unheld"} : Place(s, how)
      PROVE  SessionsInv'
  <2>1. PICK p \in {"cut"} \cup Entering \cup Looping :
           pc[s] # "away" /\ pc' = [pc EXCEPT ![s] = p]
    BY <1>2 DEF Fetch, Clear, ClearFails, Show, CutEntering, Resumes, Say, Whisper, Place,
                Entering, Looping
  <2>2. UNCHANGED <<members, call, joins, room, first, target>>
    BY <1>2 DEF Fetch, Clear, ClearFails, Show, CutEntering, Resumes, Say, Whisper, Place,
                roomVars
  <2>. QED  BY <1>0, <2>1, <2>2
<1>3. ASSUME NEW s \in Sessions, Leaves(s)
      PROVE  SessionsInv'
  <2>1. pc[s] # "away" /\ first[s] \in Objects /\ call[s] \in Calls
    BY <1>0, <1>3 DEF Leaves, Looping
  <2>2. members' \in Dicts
    BY <1>0, <1>3, <2>1, LeftIs DEF Leaves, Exits, Dicts
  <2>3. pc' = [pc EXCEPT ![s] = "gone"] /\ UNCHANGED <<call, joins, room, first, target>>
    BY <1>3 DEF Leaves, Exits
  <2>. QED  BY <1>0, <2>1, <2>2, <2>3 DEF Dicts
<1>4. ASSUME NEW s \in Sessions, NEW n \in Names, Join(s, n)
      PROVE  SessionsInv'
  <2>1. /\ pc[s] = "prompt" /\ joins[s] < MaxJoins
        /\ room' = [room EXCEPT ![s] = Object(n)]
        /\ joins' = [joins EXCEPT ![s] = @ + 1]
        /\ pc' = [pc EXCEPT ![s] = "busy"]
        /\ members' = Joined(Left(members, room[s], s), Object(n), s)
        /\ UNCHANGED <<call, first, target>>
    BY <1>4 DEF Join
  <2>2. room[s] \in Objects /\ first[s] \in Objects /\ Object(n) \in Objects
    BY <1>0, <2>1, ObjectIs
  <2>3. Left(members, room[s], s) \in Dicts
    BY <1>0, <2>2, LeftIs DEF Dicts
  <2>4. members' \in Dicts
    BY <1>0, <2>1, <2>2, <2>3, JoinedIs
  <2>5. joins[s] + 1 \in 1..MaxJoins /\ joins[s] + 1 \in 0..MaxJoins
    BY <1>0, <2>1, ChatAssumption DEF ChatAssumption
  <2>6. \A t \in Sessions : pc'[t] # "away" =>
           room'[t] \in Objects /\ first'[t] \in Objects /\ joins'[t] \in 1..MaxJoins
    BY <1>0, <2>1, <2>2, <2>5
  <2>. QED  BY <1>0, <2>1, <2>2, <2>4, <2>5, <2>6 DEF Dicts, Looping
<1>5. ASSUME NEW s \in Sessions,
             DelRoomEnds(s) \/ \E n \in Names : DelRoomBegins(s, n)
      PROVE  SessionsInv'
  <2>1. PICK p \in {"deleting", "busy"}, n \in Names :
           /\ pc[s] # "away" /\ pc' = [pc EXCEPT ![s] = p]
           /\ target' = [target EXCEPT ![s] = n]
    BY <1>5, ChatAssumption DEF DelRoomEnds, DelRoomBegins, ChatAssumption
  <2>2. UNCHANGED <<members, call, joins, room, first>>
    BY <1>5 DEF DelRoomEnds, DelRoomBegins, roomVars
  <2>. QED  BY <1>0, <2>1, <2>2 DEF Looping
<1>6. ASSUME Restart
      PROVE  SessionsInv'
  <2>1. /\ members' = [o \in Objects |-> [c \in Calls |-> Nobody]]
        /\ pc' = [s \in Sessions |-> IF pc[s] = "away" THEN "away" ELSE "gone"]
        /\ UNCHANGED <<call, joins, room, first, target>>
    BY <1>6 DEF Restart
  <2>. QED  BY <1>0, <2>1
<1>7. CASE \/ \E s \in Sessions : Read(s)
           \/ \E n \in Names : RestDelete(n) \/ SaveEnds(n)
           \/ UNCHANGED vars
  <2>1. UNCHANGED <<members, sessionVars, target>>
    BY <1>7 DEF Read, RestDelete, SaveEnds, vars, roomVars
  <2>. QED  BY <1>0, <2>1 DEF sessionVars
<1>. QED  BY <1>1, <1>2, <1>3, <1>4, <1>5, <1>6, <1>7, Steps

-----------------------------------------------------------------------------
\* The callsign of another visit stays: a rival is one for good.
LEMMA VisitsStay ==
    ASSUME SessionsInv, [Next]_vars
    PROVE  call' = call /\ \A t \in Sessions : pc[t] # "away" => pc'[t] # "away"
<1>1. ASSUME NEW s \in Sessions, Enter(s) \/ Fetch(s) \/ Clear(s) \/ ClearFails(s) \/ Show(s)
      PROVE  call' = call /\ \E p : p # "away" /\ pc' \in {pc, [pc EXCEPT ![s] = p]}
  BY <1>1 DEF Enter, Fetch, Clear, ClearFails, Show
<1>2. ASSUME NEW s \in Sessions, CutEntering(s) \/ Leaves(s) \/ Resumes(s) \/ Read(s) \/ Say(s)
      PROVE  call' = call /\ \E p : p # "away" /\ pc' \in {pc, [pc EXCEPT ![s] = p]}
  BY <1>2 DEF CutEntering, Leaves, Exits, Resumes, Read, Say, sessionVars
<1>3. ASSUME NEW s \in Sessions,
             \/ DelRoomEnds(s)
             \/ \E n \in Names : Join(s, n) \/ DelRoomBegins(s, n)
             \/ \E c \in Calls : Whisper(s, c)
             \/ \E how \in {"held", "unheld"} : Place(s, how)
      PROVE  call' = call /\ \E p : p # "away" /\ pc' \in {pc, [pc EXCEPT ![s] = p]}
  <2>1. call' = call /\ \E p \in {"busy", "asking", "deleting"} : pc' = [pc EXCEPT ![s] = p]
    BY <1>3 DEF DelRoomEnds, Join, DelRoomBegins, Whisper, Place
  <2>. QED  BY <2>1
<1>4. ASSUME NEW n \in Names, RestDelete(n) \/ SaveEnds(n)
      PROVE  call' = call /\ pc' = pc
  BY <1>4 DEF RestDelete, SaveEnds, sessionVars
<1>5. ASSUME Restart
      PROVE  call' = call /\ \A t \in Sessions : pc[t] # "away" => pc'[t] # "away"
  BY <1>5 DEF Restart
<1>6. ASSUME UNCHANGED vars
      PROVE  call' = call /\ pc' = pc
  BY <1>6 DEF vars, sessionVars
<1>7. ASSUME NEW s \in Sessions, NEW p, p # "away", pc' \in {pc, [pc EXCEPT ![s] = p]}
      PROVE  \A t \in Sessions : pc[t] # "away" => pc'[t] # "away"
  BY <1>7 DEF SessionsInv
<1>. QED  BY <1>1, <1>2, <1>3, <1>4, <1>5, <1>6, <1>7, Steps

LEMMA RivalStays ==
    ASSUME ChatInv, [Next]_vars
    PROVE  \A s \in Sessions : Rival(s) => Rival(s)'
<1>1. call' = call /\ \A t \in Sessions : pc[t] # "away" => pc'[t] # "away"
  BY VisitsStay DEF ChatInv
<1>. QED  BY <1>1 DEF Rival

-----------------------------------------------------------------------------
\* Whom a broadcast reaches, and whom it reaches but for one callsign, which is
\* the same before and after that callsign joins or leaves.
LEMMA ReachedAre ==
    ASSUME ChatInv, NEW o \in Objects, NEW skip
    PROVE  /\ Reached(members, o, skip) \in SUBSET Sessions
           /\ \A t \in Reached(members, o, skip) : pc[t] # "away" /\ room[t] = o
<1>1. members \in Dicts /\ EntriesInv
  BY DEF ChatInv, SessionsInv, Dicts
<1>. QED  BY <1>1, ReachedIs DEF EntriesInv

LEMMA ReachedSame ==
    ASSUME NEW m \in Dicts, NEW n \in Dicts, NEW x, NEW o \in Objects,
           \A c \in Calls \ {x} : m[o][c] = n[o][c]
    PROVE  Reached(m, o, {x}) = Reached(n, o, {x})
BY DEF Reached

LEMMA JoinedReaches ==
    ASSUME ChatInv, NEW s \in Sessions, NEW o \in Objects
    PROVE  Reached(Joined(members, o, s), o, {call[s]}) = Reached(members, o, {call[s]})
<1>1. members \in Dicts /\ call[s] \in Calls
  BY DEF ChatInv, SessionsInv, Dicts
<1>2. /\ Joined(members, o, s) \in Dicts
      /\ \A c \in Calls \ {call[s]} : Joined(members, o, s)[o][c] = members[o][c]
  BY <1>1, JoinedIs
<1>. QED  BY <1>1, <1>2, ReachedSame

LEMMA LeftReaches ==
    ASSUME ChatInv, NEW s \in Sessions, NEW o \in Objects
    PROVE  Reached(Left(members, o, s), o, {call[s]}) = Reached(members, o, {call[s]})
<1>1. members \in Dicts /\ call[s] \in Calls
  BY DEF ChatInv, SessionsInv, Dicts
<1>2. /\ Left(members, o, s) \in Dicts
      /\ \A c \in Calls \ {call[s]} : Left(members, o, s)[o][c] = members[o][c]
  BY <1>1, LeftIs
<1>. QED  BY <1>1, <1>2, ReachedSame

LEMMA MovedReaches ==
    ASSUME ChatInv, NEW s \in Sessions, NEW p \in Objects, NEW o \in Objects
    PROVE  Reached(Joined(Left(members, p, s), o, s), o, {call[s]})
              = Reached(members, o, {call[s]})
<1>1. members \in Dicts /\ call[s] \in Calls
  BY DEF ChatInv, SessionsInv, Dicts
<1>2. /\ Left(members, p, s) \in Dicts
      /\ \A c \in Calls \ {call[s]} : Left(members, p, s)[o][c] = members[o][c]
  BY <1>1, LeftIs
<1>3. /\ Joined(Left(members, p, s), o, s) \in Dicts
      /\ \A c \in Calls \ {call[s]} :
            Joined(Left(members, p, s), o, s)[o][c] = Left(members, p, s)[o][c]
  BY <1>1, <1>2, JoinedIs
<1>. QED  BY <1>1, <1>2, <1>3, ReachedSame

\* Sets of naturals have a least member, so a whisper's addressee is looked for
\* in rooms of the registry only.
LEMMA LeastOf ==
    ASSUME NEW S \in SUBSET Nat, S # {}
    PROVE  \E x \in S : \A y \in S : x <= y
<1> DEFINE R == OpToRel(<, Nat)
<1>1. PICK x \in S : \A y \in S : <<y, x>> \notin R
  <2>1. IsWellFoundedOn(R, Nat)
    BY NatLessThanWellFounded
  <2> HIDE DEF R
  <2>. QED  BY <2>1, WFMin
<1>2. \A y \in S : x <= y
  <2>. SUFFICES ASSUME NEW y \in S PROVE x <= y
    OBVIOUS
  <2>1. x \in Nat /\ y \in Nat
    OBVIOUS
  <2>2. y < x => <<y, x>> \in R
    BY <2>1 DEF OpToRel
  <2> HIDE DEF R
  <2>. QED  BY <1>1, <2>1, <2>2
<1>. QED  BY <1>2

LEMMA HolderIs ==
    ASSUME ChatInv, NEW s \in Sessions, pc[s] # "away", NEW c \in Calls
    PROVE  \/ Holder(s, c) = Nobody
           \/ Holder(s, c) \in Sessions /\ pc[Holder(s, c)] # "away"
<1>0. RegistryInv /\ SessionsInv /\ EntriesInv
  BY DEF ChatInv
<1>1. room[s] \in Objects
  BY <1>0 DEF SessionsInv
<1>2. ASSUME NEW o \in Objects
      PROVE  \/ members[o][c] = Nobody
             \/ members[o][c] \in Sessions /\ pc[members[o][c]] # "away"
  <2>1. members[o][c] \in Sessions \cup {Nobody}
    BY <1>0 DEF SessionsInv
  <2>2. \A t \in Sessions : members[o][c] = t => pc[t] # "away"
    BY <1>0 DEF EntriesInv
  <2>3. members[o][c] \in Sessions => pc[members[o][c]] # "away"
    BY <2>2
  <2>. QED  BY <2>1, <2>3
<1> DEFINE at == {k \in 1..Len(rooms) : members[Object(rooms[k])][c] # Nobody}
           k0 == CHOOSE k \in at : \A j \in at : k <= j
<1>3. CASE members[room[s]][c] # Nobody
  <2>1. Holder(s, c) = members[room[s]][c]
    BY <1>3 DEF Holder
  <2>. QED  BY <1>1, <1>2, <2>1
<1>4. CASE members[room[s]][c] = Nobody /\ at = {}
  BY <1>4 DEF Holder
<1>5. CASE members[room[s]][c] = Nobody /\ at # {}
  <2>1. Holder(s, c) = members[Object(rooms[k0])][c]
    BY <1>5 DEF Holder
  <2>2. at \subseteq Nat
    BY <1>0, LenProperties DEF RegistryInv
  <2>3. k0 \in at
    <3> HIDE DEF at
    <3>. QED  BY <1>5, <2>2, LeastOf
  <2>4. k0 \in 1..Len(rooms)
    BY <2>3
  <2> HIDE DEF k0, at
  <2>5. Object(rooms[k0]) \in Objects
    BY <1>0, <2>4, ObjectIs, ElementOfSeq DEF RegistryInv
  <2>. QED  BY <1>2, <2>1, <2>5
<1>. QED  BY <1>3, <1>4, <1>5

-----------------------------------------------------------------------------
\* What the steps put, into the queues of sessions that have been in chat: one
\* item at most, or, on the way to another room, two lines.
LEMMA PutStep ==
    ASSUME ChatInv, NEW s \in Sessions,
           Enter(s) \/ Leaves(s) \/ Say(s) \/ \E c \in Calls : Whisper(s, c)
    PROVE  \E to \in SUBSET Sessions, item \in Items \ {Sentinel} :
              /\ \A t \in to : pc[t] # "away"
              /\ box' \in {box, Put(box, to, item)}
              /\ missed' \subseteq missed \cup Overflow(box, to)
<1>0. RegistryInv /\ SessionsInv /\ Line \in Items \ {Sentinel}
  BY ItemsAre DEF ChatInv
<1>1. ASSUME NEW o \in Objects, NEW skip,
             box' = Put(box, Reached(members, o, skip), Line),
             missed' \subseteq missed \cup Overflow(box, Reached(members, o, skip))
      PROVE  \E to \in SUBSET Sessions :
                /\ \A t \in to : pc[t] # "away"
                /\ box' = Put(box, to, Line)
                /\ missed' \subseteq missed \cup Overflow(box, to)
  BY <1>1, ReachedAre
<1>2. CASE Enter(s)
  <2>1. PICK n \in Names :
           LET to == Reached(Joined(members, Object(n), s), Object(n), {call[s]})
           IN  box' = Put(box, to, Line) /\ missed' = missed \cup Overflow(box, to)
    <3>1. Main \in Names /\ (rooms # <<>> => Head(rooms) \in Names)
      BY <1>0, ChatAssumption, HeadTailProperties DEF ChatAssumption, RegistryInv
    <3>. QED  BY <1>2, <3>1 DEF Enter
  <2>2. Object(n) \in Objects
    BY <1>0, ObjectIs
  <2>3. Reached(Joined(members, Object(n), s), Object(n), {call[s]})
           = Reached(members, Object(n), {call[s]})
    BY <2>2, JoinedReaches
  <2>. QED  BY <1>0, <1>1, <2>1, <2>2, <2>3
<1>3. CASE Leaves(s)
  <2>1. first[s] \in Objects
    BY <1>0, <1>3 DEF Leaves, Looping, SessionsInv
  <2>2. Reached(Left(members, first[s], s), first[s], {call[s]})
           = Reached(members, first[s], {call[s]})
    BY <2>1, LeftReaches
  <2>3. /\ box' = Put(box, Reached(members, first[s], {call[s]}), Line)
        /\ missed' = (missed \cup Overflow(box, Reached(members, first[s], {call[s]}))) \ {s}
    BY <1>3, <2>2 DEF Leaves, Exits
  <2>. QED  BY <1>0, <1>1, <2>1, <2>3
<1>4. CASE Say(s)
  <2>1. room[s] \in Objects
    BY <1>0, <1>4 DEF Say, SessionsInv
  <2>2. /\ box' = Put(box, Reached(members, room[s], {}), Line)
        /\ missed' = missed \cup Overflow(box, Reached(members, room[s], {}))
    BY <1>4 DEF Say
  <2>. QED  BY <1>0, <1>1, <2>1, <2>2
<1>5. ASSUME NEW c \in Calls, Whisper(s, c)
      PROVE  \E to \in SUBSET Sessions, item \in Items \ {Sentinel} :
                /\ \A t \in to : pc[t] # "away"
                /\ box' \in {box, Put(box, to, item)}
                /\ missed' \subseteq missed \cup Overflow(box, to)
  <2> DEFINE item == Private(Len(whispers) + 1)
  <2>1. item \in Items \ {Sentinel}
    <3>1. Len(whispers) + 1 \in Nat
      BY LenProperties DEF ChatInv, WhispersInv
    <3>. QED  BY <3>1, ItemsAre
  <2>2. pc[s] = "prompt"
    BY <1>5 DEF Whisper
  <2>3. CASE Holder(s, c) = Nobody
    <3>1. box' = box /\ missed' = missed
      BY <1>5, <2>3 DEF Whisper
    <3> HIDE DEF item
    <3>2. {} \in SUBSET Sessions
      OBVIOUS
    <3>. QED  BY <2>1, <3>1, <3>2
  <2>4. CASE Holder(s, c) \in Sessions /\ pc[Holder(s, c)] # "away"
    <3>1. Nobody \notin Sessions
      BY ChatAssumption DEF ChatAssumption
    <3>2. /\ box' \in {box, Put(box, {Holder(s, c)}, item)}
          /\ missed' = missed \cup Overflow(box, {Holder(s, c)})
      BY <1>5, <2>4, <3>1 DEF Whisper
    <3> HIDE DEF item
    <3>. QED  BY <2>1, <2>4, <3>2
  <2>. QED  BY <2>2, <2>3, <2>4, HolderIs
<1>. QED  BY <1>2, <1>3, <1>4, <1>5

LEMMA JoinStep ==
    ASSUME ChatInv, NEW s \in Sessions, NEW n \in Names, Join(s, n)
    PROVE  \E bye \in SUBSET Sessions, hi \in SUBSET Sessions :
              /\ \A t \in bye \cup hi : pc[t] # "away"
              /\ box' = [Put(Put(box, bye, Line), hi, Line) EXCEPT ![s] = <<>>]
              /\ missed' = missed \cup Overflow(box, bye) \cup Overflow(Put(box, bye, Line), hi)
<1> DEFINE o == Object(n)
           bye == Reached(members, room[s], {call[s]})
           hi == Reached(members, o, {call[s]})
<1>1. room[s] \in Objects /\ o \in Objects
  BY ObjectIs DEF Join, SessionsInv, ChatInv
<1>2. /\ Reached(Left(members, room[s], s), room[s], {call[s]}) = bye
      /\ Reached(Joined(Left(members, room[s], s), o, s), o, {call[s]}) = hi
  BY <1>1, LeftReaches, MovedReaches
<1>3. bye \in SUBSET Sessions /\ hi \in SUBSET Sessions /\ \A t \in bye \cup hi : pc[t] # "away"
  BY <1>1, ReachedAre
<1>4. /\ box' = [Put(Put(box, bye, Line), hi, Line) EXCEPT ![s] = <<>>]
      /\ missed' = missed \cup Overflow(box, bye) \cup Overflow(Put(box, bye, Line), hi)
  BY <1>2 DEF Join
<1> HIDE DEF bye, hi
<1>. QED  BY <1>3, <1>4

-----------------------------------------------------------------------------
LEMMA InboxesStep ==
    ASSUME ChatInv, [Next]_vars
    PROVE  InboxesInv'
<1>0. RegistryInv /\ SessionsInv /\ InboxesInv /\ Queues(box)
  BY DEF ChatInv, InboxesInv, Queues
<1> DEFINE Fine(b) == Queues(b) /\ \A t \in Sessions : pc[t] = "away" => b[t] = box[t]
<1>1. ASSUME NEW b, Fine(b), NEW to \in SUBSET Sessions, \A t \in to : pc[t] # "away",
             NEW item \in Items
      PROVE  Fine(Put(b, to, item)) /\ Overflow(b, to) \subseteq Sessions
  <2>1. Queues(b) /\ \A t \in Sessions : pc[t] = "away" => b[t] = box[t]
    BY <1>1
  <2>2. /\ Queues(Put(b, to, item)) /\ Overflow(b, to) \subseteq to
        /\ \A t \in Sessions : t \notin to => Put(b, to, item)[t] = b[t]
    BY <1>1, <2>1, PutIs
  <2>3. \A t \in Sessions : pc[t] = "away" => Put(b, to, item)[t] = box[t]
    BY <1>1, <2>1, <2>2
  <2>. QED  BY <2>2, <2>3
<1>2. Fine(box)
  BY <1>0
<1>3. Line \in Items /\ Sentinel \in Items
  BY ItemsAre
<1>4. ASSUME NEW s \in Sessions, Fine(box'), missed' \subseteq Sessions,
             NEW p, pc' = [pc EXCEPT ![s] = p], p # "away", pc[s] # "away" \/ p = "joined",
             NEW r, reader' = [reader EXCEPT ![s] = r], r \in {"off", "reads"} \cup Ended,
             r = reader[s] \/ p \notin Entering,
             p \in Entering => pc[s] \in {"away"} \cup Entering
      PROVE  InboxesInv'
  <2>1. \A t \in Sessions : pc'[t] = "away" => box'[t] = <<>>
    BY <1>0, <1>4 DEF SessionsInv, InboxesInv
  <2>2. \A t \in Sessions : pc'[t] \in {"away"} \cup Entering => reader'[t] = "off"
    BY <1>0, <1>4 DEF SessionsInv, InboxesInv
  <2>3. reader' \in [Sessions -> {"off", "reads"} \cup Ended]
    BY <1>0, <1>4 DEF InboxesInv
  <2>. QED  BY <1>4, <2>1, <2>2, <2>3 DEF InboxesInv, Queues
<1>5. /\ "away" \notin Entering /\ "prompt" \notin Entering /\ "busy" \notin Entering
       /\ "asking" \notin Entering /\ "gone" \notin Entering
  BY DEF Entering
<1> HIDE DEF Fine
<1>6. ASSUME NEW s \in Sessions,
             Enter(s) \/ Leaves(s) \/ Say(s) \/ \E c \in Calls : Whisper(s, c)
      PROVE  InboxesInv'
  <2>1. PICK to \in SUBSET Sessions, item \in Items \ {Sentinel} :
           /\ \A t \in to : pc[t] # "away"
           /\ box' \in {box, Put(box, to, item)}
           /\ missed' \subseteq missed \cup Overflow(box, to)
    BY <1>6, PutStep
  <2>2. Fine(Put(box, to, item)) /\ Overflow(box, to) \subseteq Sessions
    BY <1>1, <1>2, <2>1
  <2>3. Fine(box') /\ missed' \subseteq Sessions
    BY <1>0, <1>2, <2>1, <2>2 DEF InboxesInv
  <2>4. reader[s] \in {"off", "reads"} \cup Ended /\ reader = [reader EXCEPT ![s] = reader[s]]
    BY <1>0 DEF InboxesInv
  <2>5. PICK p \in {"joined", "gone", "busy", "asking"}, r \in {"off", "reads"} \cup Ended :
           /\ pc' = [pc EXCEPT ![s] = p] /\ reader' = [reader EXCEPT ![s] = r]
           /\ IF p = "joined" THEN pc[s] = "away" /\ r = reader[s] ELSE pc[s] # "away"
    BY <1>6, <2>4 DEF Enter, Leaves, Exits, Say, Whisper, Looping
  <2>6. p # "away" /\ (p = "joined" \/ p \notin Entering)
    BY DEF Entering
  <2>. QED  BY <1>4, <2>3, <2>5, <2>6
<1>7. ASSUME NEW s \in Sessions,
             \/ Fetch(s) \/ Clear(s) \/ ClearFails(s) \/ Show(s) \/ CutEntering(s)
             \/ Resumes(s) \/ (\E n \in Names : DelRoomBegins(s, n))
             \/ \E how \in {"held", "unheld"} : Place(s, how)
      PROVE  InboxesInv'
  <2>1. box' = box /\ missed' = missed
    BY <1>7 DEF Fetch, Clear, ClearFails, Show, CutEntering, Resumes, DelRoomBegins, Place,
                inboxVars
  <2>2. reader[s] \in {"off", "reads"} \cup Ended /\ reader = [reader EXCEPT ![s] = reader[s]]
    BY <1>0 DEF InboxesInv
  <2>3. PICK p \in {"prompt", "fetched", "cleared", "cut", "deleting", "busy"},
             r \in {"off", "reads"} \cup Ended :
           /\ pc' = [pc EXCEPT ![s] = p] /\ reader' = [reader EXCEPT ![s] = r]
           /\ pc[s] # "away" /\ (r = reader[s] \/ p = "prompt")
           /\ p \in {"fetched", "cleared"} => pc[s] \in Entering
    BY <1>7, <2>2 DEF Fetch, Clear, ClearFails, Show, CutEntering, Resumes, DelRoomBegins, Place,
                      inboxVars, Entering
  <2>4. Fine(box') /\ missed' \subseteq Sessions
    BY <1>0, <1>2, <2>1 DEF InboxesInv
  <2>. QED  BY <1>4, <2>3, <2>4 DEF Entering
<1>8. ASSUME NEW s \in Sessions, NEW n \in Names, Join(s, n)
      PROVE  InboxesInv'
  <2>1. room[s] \in Objects /\ Object(n) \in Objects /\ pc[s] = "prompt"
    BY <1>0, <1>8, ObjectIs DEF Join, SessionsInv
  <2>2. PICK bye \in SUBSET Sessions, hi \in SUBSET Sessions :
           /\ \A t \in bye \cup hi : pc[t] # "away"
           /\ box' = [Put(Put(box, bye, Line), hi, Line) EXCEPT ![s] = <<>>]
           /\ missed' = missed \cup Overflow(box, bye) \cup Overflow(Put(box, bye, Line), hi)
    BY <1>8, JoinStep
  <2> DEFINE b == Put(box, bye, Line)
             c == Put(b, hi, Line)
  <2>3. Fine(b) /\ Overflow(box, bye) \subseteq Sessions
    BY <1>1, <1>2, <1>3, <2>2
  <2>4. Fine(c) /\ Overflow(b, hi) \subseteq Sessions
    <3> HIDE DEF b
    <3>. QED  BY <1>1, <1>3, <2>2, <2>3
  <2>5. box' = [c EXCEPT ![s] = <<>>]
        /\ missed' = missed \cup Overflow(box, bye) \cup Overflow(b, hi)
    BY <2>2
  <2> HIDE DEF b, c
  <2>6. missed' \subseteq Sessions
    BY <1>0, <2>3, <2>4, <2>5 DEF InboxesInv
  <2>7. <<>> \in Seq(Items) /\ Len(<<>>) <= QueueMax
    BY EmptySeq, ChatAssumption DEF ChatAssumption
  <2>8. Fine(box')
    BY <2>1, <2>4, <2>5, <2>7 DEF Fine, Queues
  <2>9. pc' = [pc EXCEPT ![s] = "busy"] /\ reader' = [reader EXCEPT ![s] = reader[s]]
        /\ reader[s] \in {"off", "reads"} \cup Ended
    BY <1>0, <1>8 DEF Join, InboxesInv
  <2>. QED  BY <1>4, <1>5, <2>1, <2>6, <2>8, <2>9
<1>9. ASSUME NEW o \in Objects
       PROVE  /\ Fine(Notice(o)) /\ Fine(Signalled(o))
              /\ Overflow(box, Reached(members, o, {})) \subseteq Sessions
              /\ Overflow(Notice(o), Reached(members, o, {})) \subseteq Sessions
  <2>1. PICK to \in SUBSET Sessions :
           to = Reached(members, o, {}) /\ \A t \in to : pc[t] # "away"
    BY ReachedAre
  <2>2. Fine(Notice(o)) /\ Overflow(box, to) \subseteq Sessions
    BY <1>1, <1>2, <1>3, <2>1 DEF Notice
  <2>3. Fine(Signalled(o)) /\ Overflow(Notice(o), to) \subseteq Sessions
    BY <1>1, <1>3, <2>1, <2>2 DEF Signalled
  <2>. QED  BY <2>1, <2>2, <2>3
<1>10. ASSUME NEW s \in Sessions, DelRoomEnds(s)
       PROVE  InboxesInv'
  <2>1. Object(target[s]) \in Objects
    BY <1>0, ObjectIs DEF SessionsInv
  <2>2. PICK o \in Objects :
           /\ box' \in {box, Signalled(o)}
           /\ missed' \in {missed, missed \cup Overflow(Notice(o), Reached(members, o, {}))}
    BY <1>10, <2>1 DEF DelRoomEnds
  <2>3. Fine(box') /\ missed' \subseteq Sessions
    BY <1>0, <1>2, <1>9, <2>2 DEF InboxesInv
  <2>4. pc[s] = "deleting" /\ pc' = [pc EXCEPT ![s] = "busy"]
        /\ reader' = [reader EXCEPT ![s] = reader[s]] /\ reader[s] \in {"off", "reads"} \cup Ended
    BY <1>0, <1>10 DEF DelRoomEnds, InboxesInv
  <2>. QED  BY <1>4, <1>5, <2>3, <2>4
<1>11. ASSUME NEW n \in Names, RestDelete(n)
       PROVE  InboxesInv'
  <2>1. Object(n) \in Objects
    BY <1>0, ObjectIs
  <2>2. /\ box' = Notice(Object(n))
        /\ missed' = missed \cup Overflow(box, Reached(members, Object(n), {}))
        /\ UNCHANGED <<pc, reader>>
    BY <1>11 DEF RestDelete, sessionVars
  <2>3. Fine(box') /\ missed' \subseteq Sessions
    BY <1>0, <1>9, <2>1, <2>2 DEF InboxesInv
  <2>. QED  BY <1>0, <2>2, <2>3 DEF Fine, Queues, InboxesInv
<1>12. ASSUME NEW s \in Sessions, Read(s)
       PROVE  InboxesInv'
  <2>1. /\ reader[s] = "reads" /\ box[s] # <<>>
        /\ \/ /\ Head(box[s]) = Sentinel /\ reader' = [reader EXCEPT ![s] = "done"]
              /\ box' = [box EXCEPT ![s] = Append(Tail(box[s]), Sentinel)]
           \/ /\ box' = [box EXCEPT ![s] = Tail(box[s])]
              /\ reader' \in {reader, [reader EXCEPT ![s] = "failed"]}
        /\ UNCHANGED <<pc, missed>>
    BY <1>12 DEF Read, sessionVars
  <2>2. box[s] \in Seq(Items) /\ Len(box[s]) <= QueueMax
    BY <1>0 DEF Queues
  <2>3. Tail(box[s]) \in Seq(Items) /\ Len(Tail(box[s])) + 1 = Len(box[s])
    BY <2>1, <2>2, TailRange
  <2>4. Append(Tail(box[s]), Sentinel) \in Seq(Items)
        /\ Len(Append(Tail(box[s]), Sentinel)) = Len(box[s])
    BY <1>3, <2>3, AppendRange
  <2>5. Len(Tail(box[s])) \in Nat /\ Len(box[s]) \in Nat /\ QueueMax \in Nat
    BY <2>2, <2>3, LenProperties, ChatAssumption DEF ChatAssumption
  <2>6. Len(Tail(box[s])) <= QueueMax
    BY <2>2, <2>3, <2>5
  <2>7. Queues(box')
    BY <1>0, <2>1, <2>2, <2>3, <2>4, <2>6 DEF Queues
  <2>8. pc[s] # "away" /\ pc[s] \notin Entering
    BY <1>0, <2>1 DEF InboxesInv
  <2>9. \A t \in Sessions \ {s} : box'[t] = box[t] /\ reader'[t] = reader[t]
    BY <1>0, <2>1 DEF InboxesInv
  <2>10. reader' \in [Sessions -> {"off", "reads"} \cup Ended]
    BY <1>0, <2>1 DEF InboxesInv, Ended
  <2>. QED  BY <1>0, <2>1, <2>7, <2>8, <2>9, <2>10 DEF Queues, InboxesInv
<1>13. ASSUME Restart
       PROVE  InboxesInv'
  <2>1. /\ box' = [s \in Sessions |-> <<>>] /\ reader' = [s \in Sessions |-> "off"]
        /\ missed' = missed
    BY <1>13 DEF Restart
  <2>2. <<>> \in Seq(Items) /\ Len(<<>>) <= QueueMax
    BY EmptySeq, ChatAssumption DEF ChatAssumption
  <2>. QED  BY <1>0, <2>1, <2>2 DEF InboxesInv
<1>14. CASE (\E n \in Names : SaveEnds(n)) \/ UNCHANGED vars
  <2>1. UNCHANGED <<pc, box, reader, missed>>
    BY <1>14 DEF SaveEnds, vars, sessionVars, inboxVars
  <2>. QED  BY <1>0, <2>1 DEF InboxesInv
<1>. QED  BY <1>6, <1>7, <1>8, <1>10, <1>11, <1>12, <1>13, <1>14, Steps

-----------------------------------------------------------------------------
\* What became of a whisper is noted in its place, and its addressee stays.
LEMMA PlacedIs ==
    ASSUME NEW w \in Seq(Whispered), NEW a \in 1..Len(w),
           NEW how \in {"held", "unheld"},
           NEW v, v = [w EXCEPT ![a].how = how]
    PROVE  /\ v \in Seq(Whispered) /\ Len(v) = Len(w)
           /\ \A i \in 1..Len(w) : v[i].to = w[i].to
<1>1. ASSUME NEW x \in Whispered
      PROVE  [x EXCEPT !.how = how] \in Whispered /\ [x EXCEPT !.how = how].to = x.to
  BY <1>1 DEF Whispered
<1> DEFINE y == [w[a] EXCEPT !.how = how]
<1>2. w \in [1..Len(w) -> Whispered] /\ Len(w) \in Nat
  BY LenProperties
<1>3. w[a] \in Whispered
  BY <1>2
<1>4. y \in Whispered /\ y.to = w[a].to
  BY <1>1, <1>3
<1>5. v = [w EXCEPT ![a] = y]
  OBVIOUS
<1> HIDE DEF y
<1>6. v \in [1..Len(w) -> Whispered] /\ v[a] = y /\ \A i \in 1..Len(w) : i # a => v[i] = w[i]
  BY <1>2, <1>4, <1>5
<1>7. v \in Seq(Whispered) /\ Len(v) = Len(w)
  BY <1>2, <1>6
<1>8. \A i \in 1..Len(w) : v[i].to = w[i].to
  BY <1>4, <1>6
<1>. QED  BY <1>7, <1>8

LEMMA WhispersStep ==
    ASSUME ChatInv, [Next]_vars
    PROVE  WhispersInv'
<1>0. SessionsInv /\ WhispersInv
  BY DEF ChatInv
<1>1. call' = call /\ \A t \in Sessions : ~Rival(t)' => ~Rival(t)
  BY <1>0, VisitsStay, RivalStays
<1> DEFINE Sound(s) ==
              /\ pc[s] = "asking" => asking[s] # 0
              /\ pc[s] \notin {"fetched", "cleared"} => rows[s] = {}
              /\ \A i \in rows[s] : whispers[i].to = call[s]
              /\ pc[s] = "fetched" /\ ~Rival(s) => rows[s] \subseteq held
           Typed == /\ whispers \in Seq(Whispered)
                    /\ Len(whispers) <= MaxWhispers
                    /\ held \cup shown \subseteq 1..Len(whispers)
                    /\ asking \in [Sessions -> 0..Len(whispers)]
                    /\ rows \in [Sessions -> SUBSET (1..Len(whispers))]
<1>2. WhispersInv <=> Typed /\ \A s \in Sessions : Sound(s)
  BY DEF WhispersInv
<1>3. WhispersInv' <=> Typed' /\ \A s \in Sessions : Sound(s)'
  BY DEF WhispersInv
<1>4. ASSUME NEW t \in Sessions, Sound(t), rows'[t] = rows[t], asking'[t] = asking[t],
             pc'[t] = pc[t], held \subseteq held',
             \A i \in rows[t] : whispers'[i].to = whispers[i].to
      PROVE  Sound(t)'
  BY <1>1, <1>4
<1>5. ASSUME NEW s \in Sessions, UNCHANGED whisperVars,
             NEW p, p \notin {"fetched", "cleared", "asking"},
             pc[s] \notin {"fetched", "cleared"}, pc' = [pc EXCEPT ![s] = p]
      PROVE  WhispersInv'
  <2>1. \A t \in Sessions : t # s => pc'[t] = pc[t]
    BY <1>0, <1>5 DEF SessionsInv
  <2>2. pc'[s] = p
    BY <1>0, <1>5 DEF SessionsInv
  <2>3. Sound(s)'
    BY <1>0, <1>1, <1>2, <1>5, <2>2 DEF whisperVars
  <2>4. \A t \in Sessions : t # s => Sound(t)'
    BY <1>0, <1>2, <1>4, <1>5, <2>1 DEF whisperVars
  <2>. QED  BY <1>0, <1>2, <1>3, <1>5, <2>3, <2>4 DEF whisperVars
<1>6. ASSUME NEW s \in Sessions,
             Enter(s) \/ Resumes(s) \/ Say(s) \/ DelRoomEnds(s)
             \/ \E n \in Names : Join(s, n) \/ DelRoomBegins(s, n)
      PROVE  WhispersInv'
  <2>1. PICK p \in {"joined", "prompt", "busy", "deleting"} : pc' = [pc EXCEPT ![s] = p]
    BY <1>6 DEF Enter, Resumes, Say, DelRoomEnds, Join, DelRoomBegins
  <2>2. pc[s] \notin {"fetched", "cleared"}
    BY <1>6 DEF Enter, Resumes, Say, DelRoomEnds, Join, DelRoomBegins
  <2>3. UNCHANGED whisperVars
    BY <1>6 DEF Enter, Resumes, Say, DelRoomEnds, Join, DelRoomBegins
  <2>4. p \notin {"fetched", "cleared", "asking"}
    OBVIOUS
  <2>. QED  BY <1>5, <2>1, <2>2, <2>3, <2>4
\* The steps after which a session has nothing, or only what it read, in hand.
<1>7. ASSUME NEW s \in Sessions, NEW p, pc' = [pc EXCEPT ![s] = p], p # "asking",
             asking' = asking, whispers' = whispers, held' = held,
             shown' \subseteq 1..Len(whispers),
             NEW r \in SUBSET (1..Len(whispers)), rows' = [rows EXCEPT ![s] = r],
             p \notin {"fetched", "cleared"} => r = {},
             \A i \in r : i \in held /\ whispers[i].to = call[s]
      PROVE  WhispersInv'
  <2>1. \A t \in Sessions : t # s => pc'[t] = pc[t] /\ rows'[t] = rows[t]
    BY <1>0, <1>7 DEF SessionsInv, WhispersInv
  <2>2. pc'[s] = p /\ rows'[s] = r
    BY <1>0, <1>7 DEF SessionsInv, WhispersInv
  <2>3. Sound(s)'
    BY <1>0, <1>1, <1>2, <1>7, <2>2
  <2>4. \A t \in Sessions : t # s => Sound(t)'
    BY <1>0, <1>2, <1>4, <1>7, <2>1
  <2>5. Typed'
    BY <1>0, <1>2, <1>7
  <2>. QED  BY <1>3, <2>3, <2>4, <2>5
<1>8. ASSUME NEW s \in Sessions, Fetch(s)
      PROVE  WhispersInv'
  <2> DEFINE mine == {i \in held : whispers[i].to = call[s]}
  <2>1. /\ rows' = [rows EXCEPT ![s] = mine]
        /\ asking' = asking /\ whispers' = whispers /\ held' = held /\ shown' = shown
        /\ \E p \in {"prompt", "fetched"} :
              pc' = [pc EXCEPT ![s] = p] /\ (p = "prompt" => mine = {})
    BY <1>8 DEF Fetch
  <2>2. mine \in SUBSET (1..Len(whispers)) /\ shown \subseteq 1..Len(whispers)
    BY <1>0 DEF WhispersInv
  <2>3. \A i \in mine : i \in held /\ whispers[i].to = call[s]
    OBVIOUS
  <2> HIDE DEF mine
  <2>4. PICK p \in {"prompt", "fetched"} :
           pc' = [pc EXCEPT ![s] = p] /\ (p = "prompt" => mine = {})
    BY <2>1
  <2>5. p # "asking" /\ (p \notin {"fetched", "cleared"} => mine = {})
    BY <2>4
  <2>6. shown' \subseteq 1..Len(whispers)
    BY <2>1, <2>2
  <2>. QED  BY <1>7, <2>1, <2>2, <2>3, <2>4, <2>5, <2>6
<1>9. ASSUME NEW s \in Sessions, ClearFails(s) \/ Show(s) \/ CutEntering(s)
      PROVE  WhispersInv'
  <2>1. /\ rows' = [rows EXCEPT ![s] = {}]
        /\ asking' = asking /\ whispers' = whispers /\ held' = held
        /\ shown' \in {shown, shown \cup rows[s]}
    BY <1>9 DEF ClearFails, Show, CutEntering
  <2>2. PICK p \in {"prompt", "cut"} : pc' = [pc EXCEPT ![s] = p]
    BY <1>9 DEF ClearFails, Show, CutEntering
  <2>3. shown' \subseteq 1..Len(whispers)
    BY <1>0, <2>1 DEF WhispersInv
  <2>4. p # "asking" /\ p \notin {"fetched", "cleared"}
    OBVIOUS
  <2>5. PICK r \in SUBSET (1..Len(whispers)) : r = {} /\ rows' = [rows EXCEPT ![s] = r]
    BY <2>1
  <2>6. \A i \in r : i \in held /\ whispers[i].to = call[s]
    BY <2>5
  <2>. QED  BY <1>7, <2>1, <2>2, <2>3, <2>4, <2>5, <2>6
<1>10. ASSUME NEW s \in Sessions, Clear(s)
       PROVE  WhispersInv'
  <2>1. /\ pc[s] = "fetched" /\ pc' = [pc EXCEPT ![s] = "cleared"]
        /\ held' = {i \in held : whispers[i].to # call[s]}
        /\ UNCHANGED <<whispers, asking, rows, shown>>
    BY <1>10 DEF Clear
  <2>2. Typed'
    BY <1>0, <1>2, <2>1
  <2>3. Sound(s)'
    BY <1>0, <1>1, <1>2, <2>1 DEF SessionsInv
  <2>4. ASSUME NEW t \in Sessions, t # s
        PROVE  Sound(t)'
    <3>1. Sound(t) /\ pc'[t] = pc[t] /\ pc'[s] # "away"
      BY <1>0, <1>2, <2>1, <2>4 DEF SessionsInv
    <3>2. ~Rival(t)' => call[t] # call[s]
      BY <1>1, <2>4, <3>1 DEF Rival
    <3>3. pc[t] = "fetched" /\ ~Rival(t)' => rows[t] \subseteq held'
      BY <1>1, <2>1, <3>1, <3>2
    <3>. QED  BY <1>1, <2>1, <3>1, <3>3
  <2>. QED  BY <1>3, <2>2, <2>3, <2>4
<1>11. ASSUME NEW s \in Sessions, Leaves(s)
       PROVE  WhispersInv'
  <2>1. /\ pc' = [pc EXCEPT ![s] = "gone"] /\ asking' = [asking EXCEPT ![s] = 0]
        /\ UNCHANGED <<whispers, held, rows, shown>>
        /\ pc[s] \notin {"fetched", "cleared"}
    BY <1>11 DEF Leaves, Exits, Looping
  <2>2. Typed'
    <3>1. 0 \in 0..Len(whispers)
      BY <1>0, LenProperties DEF WhispersInv
    <3>. QED  BY <1>0, <1>2, <2>1, <3>1
  <2>3. Sound(s)'
    BY <1>0, <1>1, <1>2, <2>1 DEF SessionsInv
  <2>4. \A t \in Sessions : t # s => Sound(t)'
    <3>1. \A t \in Sessions : t # s => pc'[t] = pc[t] /\ asking'[t] = asking[t]
      BY <1>0, <2>1 DEF SessionsInv, WhispersInv
    <3>. QED  BY <1>0, <1>2, <1>4, <2>1, <3>1
  <2>. QED  BY <1>3, <2>2, <2>3, <2>4
<1>12. ASSUME NEW s \in Sessions, NEW c \in Calls, Whisper(s, c)
       PROVE  WhispersInv'
  <2>1. PICK live \in BOOLEAN :
           /\ pc[s] = "prompt" /\ Len(whispers) < MaxWhispers
           /\ whispers' = Append(whispers, [to |-> c, how |-> IF live THEN "live" ELSE "asked"])
           /\ pc' = [pc EXCEPT ![s] = IF live THEN "busy" ELSE "asking"]
           /\ asking' = [asking EXCEPT ![s] = IF live THEN 0 ELSE Len(whispers) + 1]
           /\ UNCHANGED <<held, rows, shown>>
    BY <1>12 DEF Whisper
  <2> DEFINE w == [to |-> c, how |-> IF live THEN "live" ELSE "asked"]
  <2>2. w \in Whispered
    BY DEF Whispered
  <2> HIDE DEF w
  <2>3. /\ whispers' \in Seq(Whispered) /\ Len(whispers') = Len(whispers) + 1
        /\ \A i \in 1..Len(whispers) : whispers'[i] = whispers[i]
    BY <1>0, <2>1, <2>2, AppendProperties DEF WhispersInv, w
  <2>4. Len(whispers) \in Nat /\ MaxWhispers \in Nat
    BY <1>0, LenProperties, ChatAssumption DEF WhispersInv, ChatAssumption
  <2>5. Typed'
    <3>1. Len(whispers') <= MaxWhispers
      BY <2>1, <2>3, <2>4
    <3>2. 0..Len(whispers) \subseteq 0..Len(whispers') /\ 1..Len(whispers) \subseteq 1..Len(whispers')
          /\ 0 \in 0..Len(whispers') /\ Len(whispers) + 1 \in 0..Len(whispers')
      BY <2>3, <2>4
    <3>3. asking' \in [Sessions -> 0..Len(whispers')]
      BY <1>0, <2>1, <3>2 DEF WhispersInv
    <3>4. rows' \in [Sessions -> SUBSET (1..Len(whispers'))]
      BY <1>0, <2>1, <3>2 DEF WhispersInv
    <3>5. held' \cup shown' \subseteq 1..Len(whispers')
      BY <1>0, <2>1, <3>2 DEF WhispersInv
    <3>. QED  BY <2>3, <3>1, <3>3, <3>4, <3>5
  <2>6. Sound(s)'
    <3>1. pc'[s] = IF live THEN "busy" ELSE "asking"
      BY <1>0, <2>1 DEF SessionsInv
    <3>2. asking'[s] = IF live THEN 0 ELSE Len(whispers) + 1
      BY <1>0, <2>1 DEF WhispersInv
    <3>3. rows'[s] = {}
      BY <1>0, <2>1 DEF WhispersInv
    <3>4. Len(whispers) + 1 # 0
      BY <2>4
    <3>. QED  BY <3>1, <3>2, <3>3, <3>4
  <2>7. \A t \in Sessions : t # s => Sound(t)'
    <3>1. \A t \in Sessions : t # s => pc'[t] = pc[t] /\ asking'[t] = asking[t]
      BY <1>0, <2>1 DEF SessionsInv, WhispersInv
    <3>2. \A t \in Sessions : rows[t] \subseteq 1..Len(whispers)
      BY <1>0 DEF WhispersInv
    <3>. QED  BY <1>0, <1>2, <1>4, <2>1, <2>3, <3>1, <3>2
  <2>. QED  BY <1>3, <2>5, <2>6, <2>7
<1>13. ASSUME NEW s \in Sessions, NEW how \in {"held", "unheld"},
              Place(s, how)
       PROVE  WhispersInv'
  <2>1. /\ pc[s] = "asking" /\ pc' = [pc EXCEPT ![s] = "busy"]
        /\ whispers' = [whispers EXCEPT ![asking[s]].how = how]
        /\ held' \in {held, held \cup {asking[s]}}
        /\ asking' = [asking EXCEPT ![s] = 0]
        /\ UNCHANGED <<rows, shown>>
    BY <1>13 DEF Place
  <2>2. asking[s] \in 1..Len(whispers) /\ 0 \in 0..Len(whispers)
    <3>1. Len(whispers) \in Nat
      BY <1>0, LenProperties DEF WhispersInv
    <3>2. asking[s] \in 0..Len(whispers) /\ asking[s] # 0
      BY <1>0, <2>1 DEF WhispersInv
    <3>. QED  BY <3>1, <3>2
  <2>3. /\ whispers' \in Seq(Whispered) /\ Len(whispers') = Len(whispers)
        /\ \A i \in 1..Len(whispers) : whispers'[i].to = whispers[i].to
    <3>1. whispers \in Seq(Whispered)
      BY <1>0 DEF WhispersInv
    <3>. QED  BY <2>1, <2>2, <3>1, PlacedIs
  <2>4. Typed'
    BY <1>0, <1>2, <2>1, <2>2, <2>3
  <2>5. Sound(s)'
    <3>1. pc'[s] = "busy" /\ rows'[s] = {}
      BY <1>0, <2>1 DEF SessionsInv, WhispersInv
    <3>. QED  BY <3>1
  <2>6. \A t \in Sessions : t # s => Sound(t)'
    <3>1. \A t \in Sessions : t # s => pc'[t] = pc[t] /\ asking'[t] = asking[t]
      BY <1>0, <2>1 DEF SessionsInv, WhispersInv
    <3>2. \A t \in Sessions : rows[t] \subseteq 1..Len(whispers)
      BY <1>0 DEF WhispersInv
    <3>. QED  BY <1>0, <1>2, <1>4, <2>1, <2>3, <3>1, <3>2
  <2>. QED  BY <1>3, <2>4, <2>5, <2>6
<1>14. ASSUME Restart
       PROVE  WhispersInv'
  <2>1. /\ pc' = [s \in Sessions |-> IF pc[s] = "away" THEN "away" ELSE "gone"]
        /\ asking' = [s \in Sessions |-> 0] /\ rows' = [s \in Sessions |-> {}]
        /\ UNCHANGED <<whispers, held, shown>>
    BY <1>14 DEF Restart
  <2>2. 0 \in 0..Len(whispers)
    BY <1>0, LenProperties DEF WhispersInv
  <2>. QED  BY <1>0, <1>2, <1>3, <2>1, <2>2
<1>15. CASE \/ \E s \in Sessions : Read(s)
            \/ \E n \in Names : RestDelete(n) \/ SaveEnds(n)
            \/ UNCHANGED vars
  <2>1. UNCHANGED <<whisperVars, pc>>
    BY <1>15 DEF Read, RestDelete, SaveEnds, vars, sessionVars
  <2>. QED  BY <1>0, <1>2, <1>3, <1>4, <2>1 DEF whisperVars
<1>. QED  BY <1>6, <1>8, <1>9, <1>10, <1>11, <1>12, <1>13, <1>14, <1>15, Steps

-----------------------------------------------------------------------------
\* The steps that touch no entry and in which nobody comes or goes for good.
LEMMA EntriesKept ==
    ASSUME ChatInv, [Next]_vars
    PROVE  \/ \E s \in Sessions : Enter(s) \/ Leaves(s) \/ \E n \in Names : Join(s, n)
           \/ Restart
           \/ /\ UNCHANGED <<members, call, room, first>>
              /\ \A t \in Sessions : /\ pc'[t] = "gone" => pc[t] = "gone"
                                     /\ InChat(t)' => InChat(t)
<1>0. SessionsInv
  BY DEF ChatInv
<1>1. ASSUME NEW s \in Sessions,
             \/ Fetch(s) \/ Clear(s) \/ ClearFails(s) \/ Show(s) \/ CutEntering(s)
             \/ Resumes(s) \/ Say(s) \/ DelRoomEnds(s)
             \/ \E n \in Names : DelRoomBegins(s, n)
             \/ \E c \in Calls : Whisper(s, c)
             \/ \E how \in {"held", "unheld"} : Place(s, how)
      PROVE  /\ UNCHANGED <<members, call, room, first>>
             /\ \A t \in Sessions : /\ pc'[t] = "gone" => pc[t] = "gone"
                                    /\ InChat(t)' => InChat(t)
  <2>1. UNCHANGED <<members, call, room, first>>
    BY <1>1 DEF Fetch, Clear, ClearFails, Show, CutEntering, Resumes, Say, DelRoomEnds,
                DelRoomBegins, Whisper, Place, roomVars
  <2>2. InChat(s) /\ \E p : p # "gone" /\ pc' = [pc EXCEPT ![s] = p]
    BY <1>1 DEF Fetch, Clear, ClearFails, Show, CutEntering, Resumes, Say, DelRoomEnds,
                DelRoomBegins, Whisper, Place, InChat, Entering, Looping
  <2>. QED  BY <1>0, <2>1, <2>2 DEF InChat, SessionsInv
<1>2. ASSUME \/ \E s \in Sessions : Read(s)
             \/ \E n \in Names : RestDelete(n) \/ SaveEnds(n)
             \/ UNCHANGED vars
      PROVE  UNCHANGED <<members, call, room, first, pc>>
  BY <1>2 DEF Read, RestDelete, SaveEnds, vars, roomVars, sessionVars
<1>. QED  BY <1>1, <1>2, Steps DEF InChat

LEMMA EntriesStep ==
    ASSUME ChatInv, [Next]_vars
    PROVE  EntriesInv'
<1>0. SessionsInv /\ EntriesInv /\ RegistryInv
  BY DEF ChatInv
<1>1. call' = call /\ \A t \in Sessions : pc[t] # "away" => pc'[t] # "away"
  BY <1>0, VisitsStay
<1> SUFFICES ASSUME NEW o \in Objects, NEW c \in Calls, NEW t \in Sessions, members'[o][c] = t
             PROVE  /\ o = room'[t] /\ c = call[t] /\ pc'[t] # "away"
                    /\ pc'[t] = "gone" => o # first'[t]
  BY <1>1 DEF EntriesInv
<1>2. Nobody \notin Sessions
  BY ChatAssumption DEF ChatAssumption
<1>3. members[o][c] = t =>
         o = room[t] /\ c = call[t] /\ pc[t] # "away" /\ (pc[t] = "gone" => o # first[t])
  BY <1>0 DEF EntriesInv
<1>4. ASSUME NEW s \in Sessions, Enter(s)
      PROVE  /\ o = room'[t] /\ c = call[t] /\ pc'[t] # "away"
             /\ pc'[t] = "gone" => o # first'[t]
  <2>1. PICK n \in Names : /\ members' = Joined(members, Object(n), s)
                           /\ room' = [room EXCEPT ![s] = Object(n)]
                           /\ first' = [first EXCEPT ![s] = Object(n)]
                           /\ pc' = [pc EXCEPT ![s] = "joined"] /\ pc[s] = "away"
    <3>1. Main \in Names /\ (rooms # <<>> => Head(rooms) \in Names)
      BY <1>0, ChatAssumption, HeadTailProperties DEF ChatAssumption, RegistryInv
    <3>. QED  BY <1>4, <3>1 DEF Enter
  <2>2. Object(n) \in Objects /\ members \in Dicts /\ call[s] \in Calls
    BY <1>0, ObjectIs DEF SessionsInv, Dicts
  <2>3. members'[o][c] = IF o = Object(n) /\ c = call[s] THEN s ELSE members[o][c]
    BY <2>1, <2>2, JoinedIs
  <2>4. CASE o = Object(n) /\ c = call[s]
    BY <1>0, <2>1, <2>3, <2>4 DEF SessionsInv
  <2>5. CASE ~(o = Object(n) /\ c = call[s])
    <3>1. members[o][c] = t /\ t # s
      BY <1>3, <2>1, <2>3, <2>5
    <3>. QED  BY <1>0, <1>3, <2>1, <3>1 DEF SessionsInv
  <2>. QED  BY <2>4, <2>5
<1>5. ASSUME NEW s \in Sessions, Leaves(s)
      PROVE  /\ o = room'[t] /\ c = call[t] /\ pc'[t] # "away"
             /\ pc'[t] = "gone" => o # first'[t]
  <2>1. /\ members' = Left(members, first[s], s) /\ UNCHANGED <<room, first>>
        /\ pc' = [pc EXCEPT ![s] = "gone"] /\ pc[s] # "away"
    BY <1>5 DEF Leaves, Exits, Looping
  <2>2. first[s] \in Objects /\ members \in Dicts /\ call[s] \in Calls
    BY <1>0, <2>1 DEF SessionsInv, Dicts
  <2>3. members'[o][c] = IF o = first[s] /\ c = call[s] THEN Nobody ELSE members[o][c]
    BY <2>1, <2>2, LeftIs
  <2>4. members[o][c] = t /\ ~(o = first[s] /\ c = call[s])
    BY <1>2, <2>3
  <2>. QED  BY <1>0, <1>1, <1>3, <2>1, <2>4 DEF SessionsInv
<1>6. ASSUME NEW s \in Sessions, NEW n \in Names, Join(s, n)
      PROVE  /\ o = room'[t] /\ c = call[t] /\ pc'[t] # "away"
             /\ pc'[t] = "gone" => o # first'[t]
  <2>1. /\ members' = Joined(Left(members, room[s], s), Object(n), s)
        /\ room' = [room EXCEPT ![s] = Object(n)] /\ first' = first
        /\ pc' = [pc EXCEPT ![s] = "busy"] /\ pc[s] = "prompt"
    BY <1>6 DEF Join
  <2>2. room[s] \in Objects /\ Object(n) \in Objects /\ members \in Dicts /\ call[s] \in Calls
    BY <1>0, <2>1, ObjectIs DEF SessionsInv, Dicts
  <2>3. /\ Left(members, room[s], s) \in Dicts
        /\ Left(members, room[s], s)[o][c]
              = IF o = room[s] /\ c = call[s] THEN Nobody ELSE members[o][c]
    BY <2>2, LeftIs
  <2>4. members'[o][c] = IF o = Object(n) /\ c = call[s] THEN s
                         ELSE Left(members, room[s], s)[o][c]
    BY <2>1, <2>2, <2>3, JoinedIs
  <2>5. CASE o = Object(n) /\ c = call[s]
    BY <1>0, <2>1, <2>4, <2>5 DEF SessionsInv
  <2>6. CASE ~(o = Object(n) /\ c = call[s])
    <3>1. members[o][c] = t /\ ~(o = room[s] /\ c = call[s])
      BY <1>2, <2>3, <2>4, <2>6
    <3>2. t # s
      BY <1>3, <3>1
    <3>. QED  BY <1>0, <1>3, <2>1, <3>1, <3>2 DEF SessionsInv
  <2>. QED  BY <2>5, <2>6
<1>7. ASSUME Restart
      PROVE  FALSE
  <2>1. members' = [p \in Objects |-> [d \in Calls |-> Nobody]]
    BY <1>7 DEF Restart
  <2>. QED  BY <1>2, <2>1
<1>8. ASSUME UNCHANGED <<members, call, room, first>>,
             \A u \in Sessions : pc'[u] = "gone" => pc[u] = "gone"
      PROVE  /\ o = room'[t] /\ c = call[t] /\ pc'[t] # "away"
             /\ pc'[t] = "gone" => o # first'[t]
  BY <1>1, <1>3, <1>8
<1>. QED  BY <1>4, <1>5, <1>6, <1>7, <1>8, EntriesKept

LEMMA EnteredStep ==
    ASSUME ChatInv, [Next]_vars
    PROVE  EnteredInv'
<1>0. SessionsInv /\ EnteredInv /\ RegistryInv
  BY DEF ChatInv
<1>1. call' = call /\ \A u \in Sessions : ~Rival(u)' => ~Rival(u)
  BY <1>0, VisitsStay, RivalStays
<1> SUFFICES ASSUME NEW t \in Sessions, InChat(t)', ~Rival(t)'
             PROVE  members'[room'[t]][call[t]] = t
  BY <1>1 DEF EnteredInv
<1>2. ~Rival(t) /\ (InChat(t) => members[room[t]][call[t]] = t)
  BY <1>0, <1>1 DEF EnteredInv
<1>3. InChat(t) => room[t] \in Objects /\ call[t] \in Calls
  BY <1>0 DEF SessionsInv, InChat, Entering, Looping
<1>4. ASSUME NEW s \in Sessions, s # t, pc'[s] # "away"
      PROVE  call[s] # call[t]
  BY <1>1, <1>4 DEF Rival
<1>5. ASSUME NEW s \in Sessions, Enter(s)
      PROVE  members'[room'[t]][call[t]] = t
  <2>1. PICK n \in Names : /\ members' = Joined(members, Object(n), s)
                           /\ room' = [room EXCEPT ![s] = Object(n)]
                           /\ pc' = [pc EXCEPT ![s] = "joined"]
    <3>1. Main \in Names /\ (rooms # <<>> => Head(rooms) \in Names)
      BY <1>0, ChatAssumption, HeadTailProperties DEF ChatAssumption, RegistryInv
    <3>. QED  BY <1>5, <3>1 DEF Enter
  <2>2. Object(n) \in Objects /\ members \in Dicts /\ call[s] \in Calls
    BY <1>0, ObjectIs DEF SessionsInv, Dicts
  <2>3. \A o \in Objects, c \in Calls :
           members'[o][c] = IF o = Object(n) /\ c = call[s] THEN s ELSE members[o][c]
    BY <2>1, <2>2, JoinedIs
  <2>4. CASE t = s
    BY <1>0, <2>1, <2>2, <2>3, <2>4 DEF SessionsInv
  <2>5. CASE t # s
    <3>1. InChat(t) /\ room'[t] = room[t] /\ pc'[s] # "away"
      BY <1>0, <2>1, <2>5 DEF SessionsInv, InChat
    <3>. QED  BY <1>2, <1>3, <1>4, <2>3, <2>5, <3>1
  <2>. QED  BY <2>4, <2>5
<1>6. ASSUME NEW s \in Sessions, Leaves(s)
      PROVE  members'[room'[t]][call[t]] = t
  <2>1. /\ members' = Left(members, first[s], s) /\ UNCHANGED room
        /\ pc' = [pc EXCEPT ![s] = "gone"] /\ pc[s] # "away"
    BY <1>6 DEF Leaves, Exits, Looping
  <2>2. first[s] \in Objects /\ members \in Dicts /\ call[s] \in Calls
    BY <1>0, <2>1 DEF SessionsInv, Dicts
  <2>3. \A o \in Objects, c \in Calls :
           members'[o][c] = IF o = first[s] /\ c = call[s] THEN Nobody ELSE members[o][c]
    BY <2>1, <2>2, LeftIs
  <2>4. t # s
    BY <1>0, <2>1 DEF SessionsInv, InChat, Entering, Looping
  <2>5. InChat(t) /\ room'[t] = room[t] /\ pc'[s] # "away"
    BY <1>0, <2>1, <2>4 DEF SessionsInv, InChat
  <2>. QED  BY <1>2, <1>3, <1>4, <2>3, <2>4, <2>5
<1>7. ASSUME NEW s \in Sessions, NEW n \in Names, Join(s, n)
      PROVE  members'[room'[t]][call[t]] = t
  <2>1. /\ members' = Joined(Left(members, room[s], s), Object(n), s)
        /\ room' = [room EXCEPT ![s] = Object(n)]
        /\ pc' = [pc EXCEPT ![s] = "busy"] /\ pc[s] = "prompt"
    BY <1>7 DEF Join
  <2>2. room[s] \in Objects /\ Object(n) \in Objects /\ members \in Dicts /\ call[s] \in Calls
    BY <1>0, <2>1, ObjectIs DEF SessionsInv, Dicts
  <2>3. /\ Left(members, room[s], s) \in Dicts
        /\ \A o \in Objects, c \in Calls : c # call[s] =>
              Left(members, room[s], s)[o][c] = members[o][c]
    BY <2>2, LeftIs
  <2>4. \A o \in Objects, c \in Calls :
           members'[o][c] = IF o = Object(n) /\ c = call[s] THEN s
                            ELSE Left(members, room[s], s)[o][c]
    BY <2>1, <2>2, <2>3, JoinedIs
  <2>5. CASE t = s
    BY <1>0, <2>1, <2>2, <2>4, <2>5 DEF SessionsInv
  <2>6. CASE t # s
    <3>1. InChat(t) /\ room'[t] = room[t] /\ pc'[s] # "away"
      BY <1>0, <2>1, <2>6 DEF SessionsInv, InChat
    <3>. QED  BY <1>2, <1>3, <1>4, <2>3, <2>4, <2>6, <3>1
  <2>. QED  BY <2>5, <2>6
<1>8. ASSUME Restart
      PROVE  FALSE
  <2>1. pc'[t] \in {"away", "gone"}
    BY <1>8 DEF Restart
  <2>. QED  BY <2>1 DEF InChat, Entering, Looping
<1>9. ASSUME UNCHANGED <<members, room>>, InChat(t)
      PROVE  members'[room'[t]][call[t]] = t
  BY <1>2, <1>9
<1>. QED  BY <1>5, <1>6, <1>7, <1>8, <1>9, EntriesKept

-----------------------------------------------------------------------------
\* A line or a whisper in a queue leaves the sentinels as they are.
LEMMA PutQuietly ==
    ASSUME NEW b, Queues(b), NEW to \in SUBSET Sessions, NEW item \in Items \ {Sentinel}
    PROVE  /\ Queues(Put(b, to, item))
           /\ \A t \in Sessions :
                 Sentinel \in Range(Put(b, to, item)[t]) <=> Sentinel \in Range(b[t])
<1>1. /\ Queues(Put(b, to, item))
      /\ \A t \in Sessions : /\ Range(b[t]) \subseteq Range(Put(b, to, item)[t])
                             /\ Range(Put(b, to, item)[t]) \subseteq Range(b[t]) \cup {item}
  BY PutIs
<1>. QED  BY <1>1

\* Who is in a room, and that it is another one, is up to Enter and Join.
LEMMA RoomStays ==
    ASSUME ChatInv, [Next]_vars
    PROVE  \/ \E s \in Sessions, n \in Names : Join(s, n)
           \/ \A t \in Sessions :
                 /\ pc[t] # "away" => room'[t] = room[t] /\ joins'[t] = joins[t]
                 /\ InChat(t)' => InChat(t) \/ Enter(t)
<1>0. SessionsInv
  BY DEF ChatInv
<1>1. ASSUME NEW s \in Sessions, Enter(s)
      PROVE  \A t \in Sessions :
                 /\ pc[t] # "away" => room'[t] = room[t] /\ joins'[t] = joins[t]
                 /\ InChat(t)' => InChat(t) \/ Enter(t)
  <2>1. /\ pc[s] = "away" /\ pc' = [pc EXCEPT ![s] = "joined"]
        /\ joins' = [joins EXCEPT ![s] = 1]
        /\ \E o : room' = [room EXCEPT ![s] = o]
    BY <1>1 DEF Enter
  <2>2. \A t \in Sessions : t # s =>
           pc'[t] = pc[t] /\ room'[t] = room[t] /\ joins'[t] = joins[t]
    BY <1>0, <2>1 DEF SessionsInv
  <2>. QED  BY <1>1, <2>1, <2>2 DEF InChat
<1>2. ASSUME NEW s \in Sessions, Leaves(s)
      PROVE  \A t \in Sessions :
                 /\ room'[t] = room[t] /\ joins'[t] = joins[t]
                 /\ InChat(t)' => InChat(t)
  <2>1. pc' = [pc EXCEPT ![s] = "gone"] /\ UNCHANGED <<room, joins>>
    BY <1>2 DEF Leaves, Exits
  <2>. QED  BY <1>0, <2>1 DEF SessionsInv, InChat, Entering, Looping
<1>3. ASSUME Restart
      PROVE  \A t \in Sessions :
                 /\ room'[t] = room[t] /\ joins'[t] = joins[t]
                 /\ ~InChat(t)'
  <2>1. /\ pc' = [t \in Sessions |-> IF pc[t] = "away" THEN "away" ELSE "gone"]
        /\ UNCHANGED <<room, joins>>
    BY <1>3 DEF Restart
  <2>. QED  BY <2>1 DEF InChat, Entering, Looping
<1>4. ASSUME NEW s \in Sessions,
             \/ Fetch(s) \/ Clear(s) \/ ClearFails(s) \/ Show(s) \/ CutEntering(s)
             \/ Resumes(s) \/ Read(s) \/ Say(s) \/ DelRoomEnds(s)
             \/ \E n \in Names : DelRoomBegins(s, n)
             \/ \E c \in Calls : Whisper(s, c)
             \/ \E how \in {"held", "unheld"} : Place(s, how)
      PROVE  joins' = joins
  BY <1>4 DEF Fetch, Clear, ClearFails, Show, CutEntering, Resumes, Read, Say, DelRoomEnds,
              DelRoomBegins, Whisper, Place, sessionVars
<1>5. ASSUME (\E n \in Names : RestDelete(n) \/ SaveEnds(n)) \/ UNCHANGED vars
      PROVE  joins' = joins
  BY <1>5 DEF RestDelete, SaveEnds, sessionVars, vars
<1>6. \/ \E s \in Sessions : Enter(s) \/ Leaves(s) \/ \E n \in Names : Join(s, n)
      \/ Restart \/ joins' = joins
  BY <1>4, <1>5, Steps
<1>. QED  BY <1>1, <1>2, <1>3, <1>6, EntriesKept

\* What tells a session of a deletion comes and goes in few steps.
LEMMA ToldKept ==
    ASSUME ChatInv, [Next]_vars
    PROVE  \/ \E s \in Sessions : DelRoomEnds(s) \/ \E n \in Names : Join(s, n)
           \/ Restart
           \/ /\ silenced' = silenced
              /\ \A t \in Sessions :
                    /\ Told(t)' => Told(t)
                    /\ InChat(t)' => /\ Told(t) => Told(t)'
                                     /\ t \in missed => t \in missed'
<1>0. RegistryInv /\ SessionsInv /\ InboxesInv /\ Queues(box) /\ Line \in Items \ {Sentinel}
  BY ItemsAre DEF ChatInv, InboxesInv, Queues
<1> DEFINE Kept == /\ silenced' = silenced
                   /\ \A t \in Sessions :
                         /\ Told(t)' => Told(t)
                         /\ InChat(t)' => /\ Told(t) => Told(t)'
                                          /\ t \in missed => t \in missed'
<1>1. ASSUME NEW s \in Sessions,
             Enter(s) \/ Leaves(s) \/ Say(s) \/ \E c \in Calls : Whisper(s, c)
      PROVE  Kept
  <2>1. PICK to \in SUBSET Sessions, item \in Items \ {Sentinel} :
           box' \in {box, Put(box, to, item)}
    BY <1>1, PutStep
  <2>2. \A t \in Sessions : Sentinel \in Range(box'[t]) <=> Sentinel \in Range(box[t])
    BY <1>0, <2>1, PutQuietly
  <2>3. CASE Leaves(s)
    <3>1. /\ pc' = [pc EXCEPT ![s] = "gone"] /\ reader' = [reader EXCEPT ![s] = "off"]
          /\ silenced' = silenced /\ missed \ {s} \subseteq missed'
      BY <2>3 DEF Leaves, Exits
    <3>2. ~InChat(s)' /\ reader'[s] = "off"
      BY <1>0, <3>1 DEF SessionsInv, InboxesInv, InChat, Entering, Looping
    <3>3. \A t \in Sessions : t # s => reader'[t] = reader[t]
      BY <1>0, <3>1 DEF InboxesInv
    <3>. QED  BY <2>2, <3>1, <3>2, <3>3 DEF Told
  <2>4. CASE ~Leaves(s)
    <3>1. reader' = reader /\ silenced' = silenced /\ missed \subseteq missed'
      BY <1>1, <2>4 DEF Enter, Say, Whisper, roomVars
    <3>. QED  BY <2>2, <3>1 DEF Told
  <2>. QED  BY <2>3, <2>4
<1>2. ASSUME NEW s \in Sessions,
             \/ Fetch(s) \/ Clear(s) \/ ClearFails(s) \/ Show(s) \/ CutEntering(s)
             \/ Resumes(s) \/ (\E n \in Names : DelRoomBegins(s, n))
             \/ \E how \in {"held", "unheld"} : Place(s, how)
      PROVE  Kept
  <2>1. box' = box /\ missed' = missed /\ silenced' = silenced
    BY <1>2 DEF Fetch, Clear, ClearFails, Show, CutEntering, Resumes, DelRoomBegins, Place,
                roomVars, inboxVars
  <2>2. \/ reader' = reader
        \/ reader' = [reader EXCEPT ![s] = "reads"] /\ pc[s] \in Entering
    BY <1>2 DEF Fetch, Clear, ClearFails, Show, CutEntering, Resumes, DelRoomBegins, Place,
                inboxVars, Entering
  <2>3. \A t \in Sessions : reader'[t] = "done" <=> reader[t] = "done"
    BY <1>0, <2>2 DEF InboxesInv
  <2>. QED  BY <2>1, <2>3 DEF Told
<1>3. ASSUME NEW s \in Sessions, Read(s)
      PROVE  Kept
  <2>1. /\ reader[s] = "reads" /\ box[s] # <<>>
        /\ \/ /\ Head(box[s]) = Sentinel /\ reader' = [reader EXCEPT ![s] = "done"]
              /\ box' = [box EXCEPT ![s] = Append(Tail(box[s]), Sentinel)]
           \/ /\ Head(box[s]) # Sentinel
              /\ reader' \in {reader, [reader EXCEPT ![s] = "failed"]}
              /\ box' = [box EXCEPT ![s] = Tail(box[s])]
        /\ silenced' = silenced /\ missed' = missed
    BY <1>3 DEF Read, roomVars
  <2>2. /\ Tail(box[s]) \in Seq(Items)
        /\ Range(box[s]) = {Head(box[s])} \cup Range(Tail(box[s]))
    BY <1>0, <2>1, TailRange DEF Queues
  <2>3. Told(s)' <=> Told(s)
    BY <1>0, <2>1, <2>2 DEF Told, InboxesInv
  <2>4. \A t \in Sessions : t # s => (Told(t)' <=> Told(t))
    BY <1>0, <2>1 DEF Told, InboxesInv
  <2>. QED  BY <2>1, <2>3, <2>4
<1>4. ASSUME NEW n \in Names, RestDelete(n)
      PROVE  Kept
  <2>1. Object(n) \in Objects
    BY <1>0, ObjectIs
  <2>2. /\ box' = Put(box, Reached(members, Object(n), {}), Line)
        /\ reader' = reader /\ silenced' = silenced /\ missed \subseteq missed'
    BY <1>4 DEF RestDelete, Notice
  <2>3. \A t \in Sessions : Sentinel \in Range(box'[t]) <=> Sentinel \in Range(box[t])
    BY <1>0, <2>1, <2>2, ReachedAre, PutQuietly
  <2>. QED  BY <2>2, <2>3 DEF Told
<1>5. ASSUME (\E n \in Names : SaveEnds(n)) \/ UNCHANGED vars
      PROVE  Kept
  <2>1. UNCHANGED <<silenced, inboxVars>>
    BY <1>5 DEF SaveEnds, vars, roomVars
  <2>. QED  BY <2>1 DEF inboxVars, Told
<1> HIDE DEF Kept
<1>6. \/ \E s \in Sessions : DelRoomEnds(s) \/ \E n \in Names : Join(s, n)
      \/ Restart \/ Kept
  BY <1>1, <1>2, <1>3, <1>4, <1>5, Steps
<1>. QED  BY <1>6 DEF Kept

\* The deletion itself: whoever has an entry in the room is told, or missed it.
LEMMA DeletionTells ==
    ASSUME ChatInv, NEW s \in Sessions, DelRoomEnds(s)
    PROVE  \E o \in Objects :
              /\ silenced' \in {silenced, silenced \cup {o}}
              /\ silenced' # silenced =>
                    \A t \in Reached(members, o, {}) : Told(t)' \/ t \in missed'
              /\ missed \subseteq missed'
              /\ \A t \in Sessions : /\ Told(t) => Told(t)'
                                     /\ Told(t)' => Told(t) \/ room[t] \in silenced'
<1>0. RegistryInv /\ SessionsInv /\ Queues(box) /\ Line \in Items \ {Sentinel}
      /\ Sentinel \in Items
  BY ItemsAre DEF ChatInv, InboxesInv, Queues
<1>1. target[s] \in Names /\ Object(target[s]) \in Objects /\ reader' = reader
  BY <1>0, ObjectIs DEF DelRoomEnds, SessionsInv
<1> DEFINE o == Object(target[s])
           to == Reached(members, o, {})
<1>2. CASE target[s] \in Range(rooms) /\ MayDelete
  <2>1. /\ silenced' = silenced \cup {o} /\ box' = Put(Notice(o), to, Sentinel)
        /\ missed' = missed \cup Overflow(Notice(o), to)
    BY <1>2 DEF DelRoomEnds, Signalled
  <2>2. to \in SUBSET Sessions /\ \A t \in to : room[t] = o
    BY <1>1, ReachedAre
  <2>3. /\ Queues(Notice(o))
        /\ \A t \in Sessions : Sentinel \in Range(Notice(o)[t]) <=> Sentinel \in Range(box[t])
    BY <1>0, <2>2, PutQuietly DEF Notice
  <2> DEFINE b == Notice(o)
  <2> HIDE DEF to, b, o
  <2>4. /\ Overflow(b, to) \subseteq to
        /\ \A t \in Sessions :
              /\ t \notin to => Put(b, to, Sentinel)[t] = b[t]
              /\ Range(b[t]) \subseteq Range(Put(b, to, Sentinel)[t])
              /\ t \in to => Sentinel \in Range(Put(b, to, Sentinel)[t]) \/ t \in Overflow(b, to)
    BY <1>0, <2>2, <2>3, PutIs DEF b
  <2>5. \A t \in to : Told(t)' \/ t \in missed'
    BY <2>1, <2>2, <2>4 DEF Told, b
  <2>6. \A t \in Sessions : Told(t) => Told(t)'
    BY <1>1, <2>1, <2>3, <2>4 DEF Told, b
  <2>7. \A t \in Sessions : Told(t)' => Told(t) \/ room[t] \in silenced'
    BY <1>1, <2>1, <2>2, <2>3, <2>4 DEF Told, b
  <2>8. o \in Objects
    BY <1>1 DEF o
  <2>. QED  BY <2>1, <2>5, <2>6, <2>7, <2>8 DEF to
<1>3. CASE ~(target[s] \in Range(rooms) /\ MayDelete)
  <2>1. silenced' = silenced /\ box' = box /\ missed' = missed
    BY <1>3 DEF DelRoomEnds, roomVars
  <2>. QED  BY <1>1, <2>1 DEF Told
<1>. QED  BY <1>2, <1>3

LEMMA JoinTells ==
    ASSUME ChatInv, NEW s \in Sessions, NEW n \in Names, Join(s, n)
    PROVE  /\ silenced' = silenced /\ missed \subseteq missed'
           /\ \A t \in Sessions : t # s =>
                 /\ Told(t)' <=> Told(t)
                 /\ InChat(t)' => InChat(t)
                 /\ room'[t] = room[t] /\ joins'[t] = joins[t]
           /\ room'[s] \notin silenced /\ joins'[s] > 1
<1>0. RegistryInv /\ SessionsInv /\ Queues(box) /\ Line \in Items \ {Sentinel}
  BY ItemsAre DEF ChatInv, InboxesInv, Queues
<1>1. PICK bye \in SUBSET Sessions, hi \in SUBSET Sessions :
         /\ box' = [Put(Put(box, bye, Line), hi, Line) EXCEPT ![s] = <<>>]
         /\ missed' = missed \cup Overflow(box, bye) \cup Overflow(Put(box, bye, Line), hi)
  BY JoinStep
<1> DEFINE b == Put(box, bye, Line)
           c == Put(b, hi, Line)
<1>2. Queues(b) /\ \A t \in Sessions : Sentinel \in Range(b[t]) <=> Sentinel \in Range(box[t])
  BY <1>0, PutQuietly
<1>3. Queues(c) /\ \A t \in Sessions : Sentinel \in Range(c[t]) <=> Sentinel \in Range(b[t])
  <2> HIDE DEF b
  <2>. QED  BY <1>0, <1>2, PutQuietly
<1>4. box' = [c EXCEPT ![s] = <<>>] /\ missed \subseteq missed'
  BY <1>1
<1> HIDE DEF b, c
<1>5. \A t \in Sessions : t # s => box'[t] = c[t]
  BY <1>3, <1>4 DEF Queues
<1>6. /\ pc' = [pc EXCEPT ![s] = "busy"] /\ pc[s] = "prompt"
      /\ room' = [room EXCEPT ![s] = Object(n)] /\ joins' = [joins EXCEPT ![s] = @ + 1]
      /\ silenced' = silenced /\ reader' = reader
  BY DEF Join
<1>7. \A t \in Sessions : t # s =>
         /\ Told(t)' <=> Told(t)
         /\ InChat(t)' => InChat(t)
         /\ room'[t] = room[t] /\ joins'[t] = joins[t]
  BY <1>0, <1>2, <1>3, <1>5, <1>6 DEF Told, InChat, SessionsInv
<1>8. room'[s] \notin silenced
  BY <1>0, <1>6, ObjectIs DEF SessionsInv
<1>9. joins'[s] > 1
  <2>1. joins[s] \in 1..MaxJoins /\ MaxJoins \in Nat
    BY <1>0, <1>6, ChatAssumption DEF SessionsInv, ChatAssumption
  <2>. QED  BY <1>0, <1>6, <2>1 DEF SessionsInv
<1>. QED  BY <1>4, <1>6, <1>7, <1>8, <1>9

LEMMA EnterTells ==
    ASSUME ChatInv, NEW s \in Sessions, pc[s] = "away"
    PROVE  ~Told(s) /\ (Enter(s) => room'[s] \notin silenced)
<1>0. RegistryInv /\ SessionsInv /\ InboxesInv
  BY DEF ChatInv
<1>1. box[s] = <<>> /\ reader[s] = "off"
  BY <1>0 DEF InboxesInv
<1>2. Range(<<>>) = {}
  BY EmptySeq DEF Range
<1>3. ASSUME Enter(s) PROVE room'[s] \notin silenced
  <2>1. PICK n \in Names : room' = [room EXCEPT ![s] = Object(n)]
    <3>1. Main \in Names /\ (rooms # <<>> => Head(rooms) \in Names)
      BY <1>0, ChatAssumption, HeadTailProperties DEF ChatAssumption, RegistryInv
    <3>. QED  BY <1>3, <3>1 DEF Enter
  <2>. QED  BY <1>0, <2>1, ObjectIs DEF SessionsInv
<1>. QED  BY <1>1, <1>2, <1>3 DEF Told

LEMMA TellingStep ==
    ASSUME ChatInv, [Next]_vars
    PROVE  SignalInv' /\ ToldInv'
<1>0. SessionsInv /\ EnteredInv /\ SignalInv /\ ToldInv /\ members \in Dicts
  BY DEF ChatInv, SessionsInv, Dicts
<1>1. call' = call /\ \A t \in Sessions : ~Rival(t)' => ~Rival(t)
  BY <1>0, VisitsStay, RivalStays
<1>2. ASSUME NEW s \in Sessions, NEW n \in Names, Join(s, n)
      PROVE  SignalInv' /\ ToldInv'
  <2>1. /\ silenced' = silenced /\ missed \subseteq missed'
        /\ \A t \in Sessions : t # s =>
              /\ Told(t)' <=> Told(t)
              /\ InChat(t)' => InChat(t)
              /\ room'[t] = room[t] /\ joins'[t] = joins[t]
        /\ room'[s] \notin silenced /\ joins'[s] > 1
    BY <1>2, JoinTells
  <2>2. SignalInv'
    BY <1>0, <2>1 DEF SignalInv
  <2>3. ToldInv'
    BY <1>0, <1>1, <2>1 DEF ToldInv
  <2>. QED  BY <2>2, <2>3
<1>3. ASSUME NEW s \in Sessions, DelRoomEnds(s)
      PROVE  SignalInv' /\ ToldInv'
  <2>1. PICK o \in Objects :
           /\ silenced' \in {silenced, silenced \cup {o}}
           /\ silenced' # silenced =>
                 \A t \in Reached(members, o, {}) : Told(t)' \/ t \in missed'
           /\ missed \subseteq missed'
           /\ \A t \in Sessions : /\ Told(t) => Told(t)'
                                  /\ Told(t)' => Told(t) \/ room[t] \in silenced'
    BY <1>3, DeletionTells
  <2>2. pc[s] = "deleting" /\ pc' = [pc EXCEPT ![s] = "busy"] /\ UNCHANGED <<room, joins>>
    BY <1>3 DEF DelRoomEnds
  <2>3. \A t \in Sessions : InChat(t)' => InChat(t)
    BY <1>0, <2>2 DEF SessionsInv, InChat, Looping
  <2>4. SignalInv'
    BY <1>0, <2>1, <2>2 DEF SignalInv
  <2>5. ASSUME NEW t \in Sessions, InChat(t)', room'[t] \in silenced', t \notin missed',
               ~Rival(t)'
        PROVE  Told(t)'
    <3>1. InChat(t) /\ ~Rival(t) /\ t \notin missed /\ room[t] \in silenced'
      BY <1>1, <2>1, <2>2, <2>3, <2>5
    <3>2. CASE room[t] \in silenced
      BY <1>0, <2>1, <3>1, <3>2 DEF ToldInv
    <3>3. CASE room[t] \notin silenced
      <4>1. room[t] = o /\ silenced' # silenced
        BY <2>1, <3>1, <3>3
      <4>2. members[o][call[t]] = t /\ call[t] \in Calls /\ t # Nobody
        BY <1>0, <3>1, <4>1, ChatAssumption DEF EnteredInv, SessionsInv, ChatAssumption
      <4>3. t \in Reached(members, o, {})
        BY <1>0, <4>2, ReachedIs
      <4>. QED  BY <2>1, <2>5, <4>1, <4>3
    <3>. QED  BY <3>2, <3>3
  <2>. QED  BY <2>4, <2>5 DEF ToldInv
<1>4. ASSUME Restart
      PROVE  SignalInv' /\ ToldInv'
  <2>1. /\ box' = [t \in Sessions |-> <<>>] /\ reader' = [t \in Sessions |-> "off"]
        /\ pc' = [t \in Sessions |-> IF pc[t] = "away" THEN "away" ELSE "gone"]
    BY <1>4 DEF Restart
  <2>2. Range(<<>>) = {}
    BY EmptySeq DEF Range
  <2>3. \A t \in Sessions : ~Told(t)' /\ ~InChat(t)'
    BY <2>1, <2>2 DEF Told, InChat, Entering, Looping
  <2>. QED  BY <2>3 DEF SignalInv, ToldInv
<1>5. ASSUME silenced' = silenced,
             \A t \in Sessions :
                /\ Told(t)' => Told(t)
                /\ InChat(t)' => (Told(t) => Told(t)') /\ (t \in missed => t \in missed'),
             \A t \in Sessions :
                /\ pc[t] # "away" => room'[t] = room[t] /\ joins'[t] = joins[t]
                /\ InChat(t)' => InChat(t) \/ Enter(t)
      PROVE  SignalInv' /\ ToldInv'
  <2>1. \A t \in Sessions : pc[t] = "away" => ~Told(t) /\ (Enter(t) => room'[t] \notin silenced)
    BY EnterTells
  <2>2. \A t \in Sessions : InChat(t) => pc[t] # "away"
    BY DEF InChat, Entering, Looping
  <2>3. SignalInv'
    BY <1>0, <1>5, <2>1 DEF SignalInv
  <2>4. ASSUME NEW t \in Sessions, InChat(t)', room'[t] \in silenced', t \notin missed',
               ~Rival(t)'
        PROVE  Told(t)'
    <3>1. ~Rival(t) /\ t \notin missed
      BY <1>1, <1>5, <2>4
    <3>2. InChat(t) /\ room[t] \in silenced
      <4>1. CASE pc[t] = "away"
        <5>1. ~InChat(t)
          BY <2>2, <4>1
        <5>2. Enter(t) /\ room'[t] \notin silenced
          BY <1>5, <2>1, <2>4, <4>1, <5>1
        <5>. QED  BY <1>5, <2>4, <5>2
      <4>2. CASE pc[t] # "away"
        BY <1>5, <2>4, <4>2 DEF Enter
      <4>. QED  BY <4>1, <4>2
    <3>3. Told(t)
      BY <1>0, <3>1, <3>2 DEF ToldInv
    <3>. QED  BY <1>5, <2>4, <3>3
  <2>. QED  BY <2>3, <2>4 DEF ToldInv
<1>. QED  BY <1>2, <1>3, <1>4, <1>5, ToldKept, RoomStays

-----------------------------------------------------------------------------
LEMMA ChatInit ==
    ASSUME Init
    PROVE  ChatInv
<1>1. RegistryInv
  <2>1. Configured \in Seq(Names) /\ IsInjective(Configured) /\ MaxDeletes \in Nat
    BY ChatAssumption DEF ChatAssumption
  <2>2. Range(Configured) \subseteq Names
    BY <2>1, LenProperties, ElementOfSeq DEF Range
  <2>3. 0 \in 0..MaxDeletes
    BY <2>1
  <2>. QED  BY <2>1, <2>2, <2>3, FS_EmptySet DEF Init, RegistryInv, Objects
<1>2. SessionsInv
  <2>1. 0 \in 0..MaxJoins /\ Main \in Names /\ Identities \subseteq [Sessions -> Calls]
    BY ChatAssumption DEF ChatAssumption
  <2>. QED  BY <2>1 DEF Init, SessionsInv
<1>3. InboxesInv
  <2>1. <<>> \in Seq(Items) /\ Len(<<>>) <= QueueMax
    BY EmptySeq, ChatAssumption DEF ChatAssumption
  <2>. QED  BY <2>1 DEF Init, InboxesInv
<1>4. WhispersInv
  <2>1. <<>> \in Seq(Whispered) /\ Len(<<>>) = 0 /\ 0 <= MaxWhispers
    BY EmptySeq, ChatAssumption DEF ChatAssumption
  <2>. QED  BY <2>1 DEF Init, WhispersInv
<1>5. EntriesInv /\ EnteredInv
  BY ChatAssumption DEF ChatAssumption, Init, EntriesInv, EnteredInv, InChat, Entering, Looping
<1>6. SignalInv /\ ToldInv
  <2>1. Range(<<>>) = {}
    BY EmptySeq DEF Range
  <2>. QED  BY <2>1 DEF Init, SignalInv, ToldInv, Told
<1>. QED  BY <1>1, <1>2, <1>3, <1>4, <1>5, <1>6 DEF ChatInv

LEMMA ChatStep ==
    ASSUME ChatInv, [Next]_vars
    PROVE  ChatInv'
BY RegistryStep, SessionsStep, InboxesStep, WhispersStep, EntriesStep, EnteredStep, TellingStep
   DEF ChatInv

\* The invariant above holds in every state of the chat plugin, whoever enters,
\* leaves, joins, whispers, deletes a room or restarts the program.
THEOREM ChatInvariant == Spec => []ChatInv
<1>1. Init => ChatInv
  BY ChatInit
<1>2. ChatInv /\ [Next]_vars => ChatInv'
  BY ChatStep
<1>. QED  BY <1>1, <1>2, PTL DEF Spec

-----------------------------------------------------------------------------
LEMMA ChatTypes ==
    ASSUME ChatInv
    PROVE  TypeOK
<1> USE DEF ChatInv
<1>1. \A o \in Objects : o \in Names \X (0..MaxDeletes)
  BY DEF Objects
<1>2. Len(whispers) \in Nat /\ MaxWhispers \in Nat /\ Len(whispers) <= MaxWhispers
  BY LenProperties, ChatAssumption DEF WhispersInv, ChatAssumption
<1>3. 0..Len(whispers) \subseteq 0..MaxWhispers /\ 1..Len(whispers) \subseteq 1..MaxWhispers
  BY <1>2
<1>4. \A s \in Sessions : /\ {room[s], first[s]} \subseteq Objects \cup {NoRoom}
                          /\ target[s] \in Names
  BY DEF SessionsInv
<1>5. \A s \in Sessions : asking[s] \in 0..MaxWhispers /\ rows[s] \subseteq 1..MaxWhispers
  BY <1>3 DEF WhispersInv
<1>6. \A s \in Sessions : Len(box[s]) <= QueueMax
  BY DEF InboxesInv
<1>7. /\ rooms \in Seq(Names) /\ IsInjective(rooms)
      /\ deletes \in [Names -> 0..MaxDeletes]
      /\ wired \subseteq Objects /\ silenced \subseteq Objects
      /\ stored \cup saves \subseteq Names
  BY DEF RegistryInv
<1>8. /\ members \in [Objects -> [Calls -> Sessions \cup {Nobody}]]
      /\ call \in [Sessions -> Calls]
      /\ pc \in [Sessions -> {"away", "gone", "cut"} \cup Entering \cup Looping]
      /\ joins \in [Sessions -> 0..MaxJoins]
  BY DEF SessionsInv
<1>9. reader \in [Sessions -> {"off", "reads"} \cup Ended] /\ missed \subseteq Sessions
      /\ held \cup shown \subseteq 1..Len(whispers)
  BY DEF InboxesInv, WhispersInv
<1>. QED  BY <1>4, <1>5, <1>6, <1>7, <1>8, <1>9 DEF TypeOK

\* A session in chat whose callsign nobody else visits with is entered in the
\* room it is in, and every entry is of a session in that room that did not
\* enter chat there and leave it (ChatRoom.join(), leave(), handle_session()).
THEOREM MembersAreTrue == Spec => []MembershipTrue
<1>1. ASSUME ChatInv
      PROVE  MembershipTrue
  <2>1. TypeOK
    BY <1>1, ChatTypes
  <2>2. \A s \in Sessions : InChat(s) /\ ~Rival(s) => members[room[s]][call[s]] = s
    BY <1>1 DEF ChatInv, EnteredInv
  <2>3. ASSUME NEW o \in Objects, NEW c \in Calls, members[o][c] # Nobody
        PROVE  o = room[members[o][c]] /\ (pc[members[o][c]] = "gone" => o # first[members[o][c]])
    <3>1. members[o][c] \in Sessions
      BY <1>1, <2>3 DEF ChatInv, SessionsInv
    <3>. QED  BY <1>1, <3>1 DEF ChatInv, EntriesInv
  <2>. QED  BY <2>1, <2>2, <2>3 DEF MembershipTrue
<1>. QED  BY <1>1, ChatInvariant, PTL

\* The deletion of a room by /DELROOM reaches every session in it: its reader
\* has ended or will, unless its queue was full or its entry was not its own;
\* and a reader ends for no other reason, but by an exception (_delete_room() and
\* _reader()).
THEOREM DeletionIsTold == Spec => []DeletionTold
<1>1. ASSUME ChatInv
      PROVE  DeletionTold
  <2>1. SignalInv /\ ToldInv
    BY <1>1 DEF ChatInv
  <2>2. \A s \in Sessions : pc[s] \in Looping => InChat(s)
    BY DEF InChat
  <2>. QED  BY <2>1, <2>2 DEF SignalInv, ToldInv, Told, DeletionTold
<1>. QED  BY <1>1, ChatInvariant, PTL

-----------------------------------------------------------------------------
\* A step of the flush leaves the others' rows, and what it takes from its own
\* is printed, was never deleted, or is lost with the session.
LEMMA ShownStep ==
    ASSUME ChatInv, [Next]_vars, NEW s \in Sessions, NEW i \in rows[s] \ rows'[s]
    PROVE  \/ i \in shown' \/ i \in held' \/ ~InChat(s)'
           \/ pc[s] = "fetched" /\ Rival(s)
<1>0. SessionsInv /\ WhispersInv
  BY DEF ChatInv
<1>1. pc[s] \in {"fetched", "cleared"}
  BY <1>0 DEF WhispersInv
<1>2. ASSUME NEW t \in Sessions, Fetch(t)
      PROVE  FALSE
  <2>1. pc[t] = "joined" /\ \E r : rows' = [rows EXCEPT ![t] = r]
    BY <1>2 DEF Fetch
  <2>. QED  BY <1>0, <1>1, <2>1 DEF WhispersInv
<1>3. ASSUME NEW t \in Sessions, ClearFails(t)
      PROVE  \/ i \in held'
             \/ pc[s] = "fetched" /\ Rival(s)
  <2>1. pc[t] = "fetched" /\ rows' = [rows EXCEPT ![t] = {}] /\ held' = held
    BY <1>3 DEF ClearFails
  <2>2. t = s
    BY <1>0, <2>1 DEF WhispersInv
  <2>3. Rival(s) \/ rows[s] \subseteq held
    BY <1>0, <2>1, <2>2 DEF WhispersInv
  <2>. QED  BY <2>1, <2>2, <2>3
<1>4. ASSUME NEW t \in Sessions, Show(t)
      PROVE  i \in shown'
  <2>1. shown' = shown \cup rows[t] /\ rows' = [rows EXCEPT ![t] = {}]
    BY <1>4 DEF Show
  <2>. QED  BY <1>0, <2>1 DEF WhispersInv
<1>5. ASSUME NEW t \in Sessions, CutEntering(t)
      PROVE  ~InChat(s)'
  <2>1. pc' = [pc EXCEPT ![t] = "cut"] /\ rows' = [rows EXCEPT ![t] = {}]
    BY <1>5 DEF CutEntering
  <2>2. t = s
    BY <1>0, <2>1 DEF WhispersInv
  <2>. QED  BY <1>0, <2>1, <2>2 DEF SessionsInv, InChat, Entering, Looping
<1>6. ASSUME Restart
      PROVE  ~InChat(s)'
  <2>1. pc' = [t \in Sessions |-> IF pc[t] = "away" THEN "away" ELSE "gone"]
    BY <1>6 DEF Restart
  <2>. QED  BY <2>1 DEF InChat, Entering, Looping
<1>7. ASSUME NEW t \in Sessions,
             \/ Enter(t) \/ Clear(t) \/ Leaves(t) \/ Resumes(t) \/ Read(t) \/ Say(t)
             \/ DelRoomEnds(t)
             \/ \E n \in Names : Join(t, n) \/ DelRoomBegins(t, n)
             \/ \E c \in Calls : Whisper(t, c)
             \/ \E how \in {"held", "unheld"} : Place(t, how)
      PROVE  rows' = rows
  BY <1>7 DEF Enter, Clear, Leaves, Exits, Resumes, Read, Say, DelRoomEnds, Join,
              DelRoomBegins, Whisper, Place, whisperVars
<1>8. ASSUME (\E n \in Names : RestDelete(n) \/ SaveEnds(n)) \/ UNCHANGED vars
      PROVE  rows' = rows
  BY <1>8 DEF RestDelete, SaveEnds, vars, whisperVars
<1>9. rows' # rows
  OBVIOUS
<1>. QED  BY <1>2, <1>3, <1>4, <1>5, <1>6, <1>7, <1>8, <1>9, Steps

\* Held whispers are read, deleted and only then printed, and still none that a
\* session read is forgotten unseen, but for a cut between the deletion and the
\* printing and a second session at the same rows (_flush_offline_msgs()).
THEOREM HeldIsShown == Spec => HeldShown
<1>1. ASSUME ChatInv, [Next]_vars
      PROVE  [\A s \in Sessions : \A i \in rows[s] \ rows'[s] :
                 \/ i \in shown' \/ i \in held' \/ ~InChat(s)'
                 \/ pc[s] = "fetched" /\ Rival(s)]_vars
  BY <1>1, ShownStep
<1>. QED  BY <1>1, ChatInvariant, PTL DEF Spec, HeldShown
=============================================================================
