----------------------------- MODULE ForeignPeer -----------------------------
(***************************************************************************)
(* What the checks of one program against a peer of another make have in   *)
(* common: how much the foreign peer sends and the user types, and the     *)
(* counts of both.                                                         *)
(***************************************************************************)
EXTENDS Naturals

CONSTANTS
  MaxPeerRequests,  \* bound: requests the foreign peer sends
  MaxInFlight,      \* bound: messages on their way to the program when it sends one
  MaxCommands       \* bound: lines typed at the program

ASSUME ForeignPeerAssumption ==
  MaxPeerRequests \in Nat /\ MaxInFlight \in Nat /\ MaxCommands \in Nat

VARIABLES
  peer_requests,  \* requests sent by the foreign peer so far
  commands        \* lines typed at the program so far

peerVars == <<peer_requests, commands>>

PeerInit ==
  /\ peer_requests = 0
  /\ commands = 0

PeerTypeOK ==
  /\ peer_requests \in 0 .. MaxPeerRequests
  /\ commands \in 0 .. MaxCommands
=============================================================================
