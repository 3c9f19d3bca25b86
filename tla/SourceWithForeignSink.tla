----------------------- MODULE SourceWithForeignSink -----------------------
(***************************************************************************)
(* The source against a sink of another make: one that numbers its         *)
(* requests one by one and answers every request in order, but may send    *)
(* any request at any time, leave properties out of its M3 reply, and      *)
(* refuse what it is asked.  The user of the source is careful.            *)
(***************************************************************************)
EXTENDS MiracSource, ForeignPeer

sourceSideVars == <<connection, sourceVars, peerVars>>

SourceSideInit ==
  /\ ConnectionInit
  /\ SourceInit
  /\ PeerInit

-----------------------------------------------------------------------------
\* Any request, numbered from 1.
ForeignSinkAsks ==
  /\ peer_requests < MaxPeerRequests
  /\ Len(toSource) < MaxInFlight
  /\ peer_requests' = peer_requests + 1
  /\ \E method \in Method :
       toSource' = Append(toSource,
         Request(method, peer_requests', IF method \in Trigger THEN Url ELSE Nothing))
  /\ UNCHANGED <<toSink, sourceVars, commands>>

\* The foreign sink answers the next request, with or without the properties
\* asked for when it is GET_PARAMETER.  Replies of the source it only reads.
ForeignSinkReads ==
  /\ toSink # << >>
  /\ toSink' = Tail(toSink)
  /\ IF Head(toSink).type = "REPLY"
     THEN UNCHANGED toSource
     ELSE \E code \in {200, 303, 400} :
          \E content \in IF Head(toSink).type = "GET_PARAMETER"
                         THEN {Nothing, Ports} ELSE {Nothing} :
            toSource' = Append(toSource, ReplyTo(Head(toSink), code, content))
  /\ UNCHANGED <<sourceVars, peer_requests, commands>>

SourceUser(command) ==
  /\ commands < MaxCommands
  /\ source_expected_reply = NoReply
  /\ CASE command = "PLAY"     -> source_state = WFD_SESSION_PAUSED
       [] command = "PAUSE"    -> source_state = WFD_SESSION_PLAYING
       [] command = "TEARDOWN" -> source_state \in {WFD_SESSION_PLAYING, WFD_SESSION_PAUSED}
  /\ SourceCommand(command)
  /\ commands' = commands + 1
  /\ UNCHANGED peer_requests

SourceRuns ==
  /\ SourceOnConnected \/ SourceGotMessage
  /\ UNCHANGED peerVars

SourceSideNext ==
  \/ SourceRuns
  \/ ForeignSinkAsks
  \/ ForeignSinkReads
  \/ \E command \in Command : SourceUser(command)

SourceSideSpec == SourceSideInit /\ [][SourceSideNext]_sourceSideVars

-----------------------------------------------------------------------------
\* The variables have their types.
SourceSideTypeOK ==
  /\ ConnectionTypeOK
  /\ SourceTypeOK
  /\ PeerTypeOK

(***************************************************************************)
(* got_message drops a valid reply it has no case for and goes on waiting  *)
(* for it.  While the source waits it refuses every request, and so stays  *)
(* in a state whose case takes the reply, whatever the foreign sink asks   *)
(* meanwhile and whenever the user types.                                  *)
(***************************************************************************)
SourceReplyHasHandler ==
  source_expected_reply # NoReply => SourceHandlesReply

(***************************************************************************)
(* The source does not stream outside a session: the pipeline plays        *)
(* exactly while the session does, through any order of the foreign sink's *)
(* SETUP, PLAY, PAUSE and TEARDOWN.                                        *)
(***************************************************************************)
StreamFollowsSession ==
  /\ source_pipeline = "PLAYING" <=> source_state = WFD_SESSION_PLAYING
  /\ source_state >= WFD_SESSION_ESTABLISHMENT => source_pipeline # "none"
=============================================================================
