----------------------- MODULE SinkWithForeignSource -----------------------
(***************************************************************************)
(* The sink against a source of another make: one that numbers its         *)
(* requests one by one and answers every request in order, but may send    *)
(* any request at any time, leave the presentation URL or the session out, *)
(* name no URL where one belongs ("none", as the parser accepts), and      *)
(* refuse what it is asked.  The user of the sink is careful.              *)
(***************************************************************************)
EXTENDS MiracSink, ForeignPeer

VARIABLE no_url_named  \* the source has sent an M4 that names no URL

sinkSideVars == <<connection, sinkVars, peerVars, no_url_named>>

SinkSideInit ==
  /\ ConnectionInit
  /\ SinkInit
  /\ PeerInit
  /\ no_url_named = FALSE

-----------------------------------------------------------------------------
\* Any request, numbered from 0; the requests without content carry none.
ForeignSourceAsks ==
  /\ peer_requests < MaxPeerRequests
  /\ Len(toSink) < MaxInFlight
  /\ peer_requests' = peer_requests + 1
  /\ \E method \in Method :
     \E content \in IF method = "SET_PARAMETER" THEN Trigger \cup {Nothing, Url, NoUrl}
                    ELSE IF method \in Trigger THEN {Url} ELSE {Nothing} :
       /\ toSink' = Append(toSink, Request(method, peer_requests, content))
       /\ no_url_named' = (no_url_named \/ content = NoUrl)
  /\ UNCHANGED <<toSource, sinkVars, commands>>

\* The foreign source answers the next request, with or without a session when
\* it is SETUP.  One without a URL it may drop as well, as the source of this
\* repository does.  Replies of the sink it only reads.
ForeignSourceReads ==
  /\ toSource # << >>
  /\ toSource' = Tail(toSource)
  /\ IF Head(toSource).type = "REPLY"
     THEN UNCHANGED toSink
     ELSE \/ \E code \in {200, 400} :
             \E content \in IF Head(toSource).type = "SETUP"
                            THEN {Nothing, Session} ELSE {Nothing} :
               toSink' = Append(toSink, ReplyTo(Head(toSource), code, content))
          \/ ~Parses(Head(toSource)) /\ UNCHANGED toSink
  /\ UNCHANGED <<sinkVars, peer_requests, commands, no_url_named>>

SinkUser(command) ==
  /\ commands < MaxCommands
  /\ sink_expected_reply = NoReply
  /\ CASE command = "PLAY"     -> sink_state = WFD_SESSION_PAUSED
       [] command = "PAUSE"    -> sink_state = WFD_SESSION_PLAYING
       [] command = "TEARDOWN" -> sink_state \in {WFD_SESSION_PLAYING, WFD_SESSION_PAUSED}
  /\ SinkCommand(command)
  /\ commands' = commands + 1
  /\ UNCHANGED <<peer_requests, no_url_named>>

SinkRuns ==
  /\ SinkOnConnected \/ SinkGotMessage
  /\ UNCHANGED <<peerVars, no_url_named>>

SinkSideNext ==
  \/ SinkRuns
  \/ ForeignSourceAsks
  \/ ForeignSourceReads
  \/ \E command \in Command : SinkUser(command)

\* The sink's main loop and the foreign source's reader both run.
SinkSideSpec ==
  /\ SinkSideInit /\ [][SinkSideNext]_sinkSideVars
  /\ WF_sinkSideVars(SinkRuns) /\ WF_sinkSideVars(ForeignSourceReads)

-----------------------------------------------------------------------------
\* The variables have their types.
SinkSideTypeOK ==
  /\ ConnectionTypeOK
  /\ SinkTypeOK
  /\ PeerTypeOK
  /\ no_url_named \in BOOLEAN

(***************************************************************************)
(* got_message drops a valid reply it has no case for and goes on waiting  *)
(* for it, so a sink that waits in the wrong state waits for ever.  While  *)
(* the sink waits it refuses every request, and so stays in a state whose  *)
(* case takes the reply, whatever the foreign source asks meanwhile.       *)
(***************************************************************************)
SinkReplyHasHandler ==
  sink_expected_reply # NoReply => SinkHandlesReply

\* The session has the URL its requests need.
UrlKnown == sink_state >= RTSP_SESSION_ESTABLISHMENT => presentation_url = Url

(***************************************************************************)
(* Hence every wait of the sink ends, refused or not, unless the sink has  *)
(* gone on with an M4 that named no URL: what it asks then does not parse, *)
(* and nothing obliges the source to answer that.                          *)
(***************************************************************************)
SinkStopsWaiting == sink_expected_reply # NoReply ~> sink_expected_reply = NoReply \/ ~UrlKnown

(***************************************************************************)
(* Every request line from SETUP on carries presentation_url_, and PLAY    *)
(* carries session_.  However the foreign source orders and garbles its    *)
(* requests, the sink is never past the step that sets the session without *)
(* one; whatever is under way carries the URL of the session it belongs    *)
(* to, though the M4 of a later one may replace it; and the sink is        *)
(* without a URL, or sends a request that does not parse for want of it,   *)
(* only after the source itself has named none.                            *)
(***************************************************************************)
SessionDataKnown ==
  /\ sink_state >= WFD_SESSION_ESTABLISHMENT => sink_session = Session
  /\ \A i \in 1 .. Len(toSource) :
       toSource[i].type \in Trigger => toSource[i].content = presentation_url
  /\ no_url_named \/ (UrlKnown /\ \A i \in 1 .. Len(toSource) : Parses(toSource[i]))

=============================================================================
