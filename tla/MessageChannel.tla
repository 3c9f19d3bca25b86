--------------------------- MODULE MessageChannel ---------------------------
(***************************************************************************)
(* What a broker promises the state machine above it: the messages of the  *)
(* peer, numbered as they were sent, one at a time, each at most once and  *)
(* in order.  A channel that is not lossy skips none before it ends.       *)
(***************************************************************************)
EXTENDS Naturals, Sequences

VARIABLES
  lossy,     \* messages may be skipped
  sent,      \* how many messages the peer has sent
  delivered  \* the messages handed over, in the order they were

vars == <<lossy, sent, delivered>>

Init ==
  /\ lossy \in BOOLEAN
  /\ sent = 0
  /\ delivered = << >>

Last == IF delivered = << >> THEN 0 ELSE delivered[Len(delivered)]

Send ==
  /\ sent' = sent + 1
  /\ UNCHANGED <<lossy, delivered>>

Deliver ==
  /\ \E k \in Last + 1 .. sent :
       /\ ~lossy => k = Last + 1
       /\ delivered' = Append(delivered, k)
  /\ UNCHANGED <<lossy, sent>>

Next == Send \/ Deliver

Spec == Init /\ [][Next]_vars
=============================================================================
