--------------------------- MODULE ReliableStream ---------------------------
(***************************************************************************)
(* What a NET/ROM circuit promises the two sessions it joins: the          *)
(* fragments one end sends reach the other in order, each at most once,    *)
(* and never more than Window of them are ahead of what was received.      *)
(* Fragments are named by their position in the sender's stream.           *)
(***************************************************************************)
EXTENDS Naturals, Sequences

CONSTANTS Ends, Window

VARIABLES
    sent,        \* how many fragments each end has sent
    delivered    \* the fragments each end has received, in order of arrival

vars == <<sent, delivered>>

Init ==
    /\ sent = [p \in Ends |-> 0]
    /\ delivered = [p \in Ends |-> <<>>]

Send(p, q) ==
    /\ sent[p] < Len(delivered[q]) + Window
    /\ sent' = [sent EXCEPT ![p] = @ + 1]
    /\ UNCHANGED delivered

Deliver(p, q) ==
    /\ Len(delivered[q]) < sent[p]
    /\ delivered' = [delivered EXCEPT ![q] = Append(@, Len(@))]
    /\ UNCHANGED sent

Next == \E p, q \in Ends : p # q /\ (Send(p, q) \/ Deliver(p, q))

Spec == Init /\ [][Next]_vars
=============================================================================
