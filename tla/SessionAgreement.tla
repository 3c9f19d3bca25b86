-------------------------- MODULE SessionAgreement --------------------------
(***************************************************************************)
(* What the M1..M9 exchange promises, without messages: two programs walk  *)
(* through the session states of the WFD session, and neither ever runs    *)
(* ahead of what the other allows.  Up to RTSP_SESSION_ESTABLISHMENT the   *)
(* sink moves first and the source follows; from there on the source moves *)
(* first and the sink adopts the state the source is in at that moment.    *)
(***************************************************************************)
EXTENDS Integers

CONSTANTS NotSet, INIT, CAPABILITY_NEGOTIATION, RTSP_SESSION_ESTABLISHMENT,
          WFD_SESSION_ESTABLISHMENT, WFD_SESSION_PLAYING, WFD_SESSION_PAUSED

VARIABLES
  sink,   \* the session state of the sink
  source  \* the session state of the source

vars == <<sink, source>>

Running == {WFD_SESSION_ESTABLISHMENT, WFD_SESSION_PLAYING, WFD_SESSION_PAUSED}
Streaming == {WFD_SESSION_PLAYING, WFD_SESSION_PAUSED}

Init ==
  /\ sink = NotSet
  /\ source = NotSet

SinkConnects ==
  /\ sink = NotSet
  /\ sink' = INIT
  /\ UNCHANGED source

SourceConnects ==
  /\ source = NotSet
  /\ source' = CAPABILITY_NEGOTIATION
  /\ UNCHANGED sink

SinkNegotiates ==
  /\ source = CAPABILITY_NEGOTIATION
  /\ \/ sink = INIT /\ sink' = CAPABILITY_NEGOTIATION
     \/ sink = CAPABILITY_NEGOTIATION /\ sink' = RTSP_SESSION_ESTABLISHMENT
  /\ UNCHANGED source

SourceFollows ==
  /\ source = CAPABILITY_NEGOTIATION
  /\ sink = RTSP_SESSION_ESTABLISHMENT
  /\ source' = RTSP_SESSION_ESTABLISHMENT
  /\ UNCHANGED sink

\* The source sets the session up once, then plays, pauses and tears down
\* while the sink is in the session.
SourceLeads ==
  /\ sink \in Running \cup {RTSP_SESSION_ESTABLISHMENT}
  /\ \/ /\ source = RTSP_SESSION_ESTABLISHMENT
        /\ source' = WFD_SESSION_ESTABLISHMENT
     \/ /\ source \in Running
        /\ source' \in Streaming \cup {INIT}
  /\ UNCHANGED sink

\* The sink only ever takes the state the source has reached.
SinkAdopts ==
  /\ \/ sink = RTSP_SESSION_ESTABLISHMENT /\ source = WFD_SESSION_ESTABLISHMENT
     \/ sink = WFD_SESSION_ESTABLISHMENT /\ source = WFD_SESSION_PLAYING
     \/ sink \in Streaming /\ source \in Streaming \cup {INIT}
  /\ sink' = source
  /\ UNCHANGED source

Next ==
  \/ SinkConnects
  \/ SourceConnects
  \/ SinkNegotiates
  \/ SourceFollows
  \/ SourceLeads
  \/ SinkAdopts

Spec == Init /\ [][Next]_vars
=============================================================================
