----------------------------- MODULE MCChatRooms -----------------------------
\* Two visits to chat, by two stations or twice by one, and two rooms.
EXTENDS ChatRooms
CONSTANTS s1, s2, main, side, A, B
OneOrTwo == {s1 :> A @@ s2 :> A, s1 :> A @@ s2 :> B}
TheRooms == <<main>>
=============================================================================
