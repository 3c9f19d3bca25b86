----------------------------- MODULE MiracSink -----------------------------
(***************************************************************************)
(* The sink's RTSP session: class MiracSink.  One action per handler; the  *)
(* conditions under which got_message dispatches to it are its guard.      *)
(***************************************************************************)
EXTENDS RtspConnection

VARIABLES
  sink_connected,       \* connection_ is set (connect_cb has run)
  sink_state,           \* state_
  sink_expected_reply,  \* expected_reply_
  sink_send_cseq,       \* send_cseq_
  sink_receive_cseq,    \* receive_cseq_
  presentation_url,     \* presentation_url_
  sink_session          \* session_

sinkVars == <<sink_connected, sink_state, sink_expected_reply, sink_send_cseq,
              sink_receive_cseq, presentation_url, sink_session>>

SinkInit ==
  /\ sink_connected = FALSE
  /\ sink_state = NotSet
  /\ sink_expected_reply = NoReply
  /\ sink_send_cseq = 0
  /\ sink_receive_cseq = 0
  /\ presentation_url = Nothing
  /\ sink_session = Nothing

SinkTypeOK ==
  /\ sink_connected \in BOOLEAN
  /\ sink_state \in State \cup {NotSet}
  /\ sink_expected_reply \in Method \cup {NoReply}
  /\ sink_send_cseq \in Nat
  /\ sink_receive_cseq \in Nat
  /\ presentation_url \in {Nothing, Url}
  /\ sink_session \in {Nothing, Session}

-----------------------------------------------------------------------------
\* set_state: returning to INIT restarts the numbering of requests, and only
\* that: expected_reply_ and receive_cseq_ keep their values.
SinkSetState(s) ==
  /\ sink_state' = s
  /\ sink_send_cseq' = IF s = INIT THEN 1 ELSE sink_send_cseq

\* The head of the connection has passed validate_message_sequence.
SinkAccepts(type) ==
  /\ sink_connected
  /\ toSink # << >>
  /\ Parses(Head(toSink))
  /\ Head(toSink).type = type
  /\ ValidSequence(Head(toSink), sink_expected_reply,
                   sink_send_cseq, sink_receive_cseq)
  /\ toSink' = Tail(toSink)
  /\ sink_receive_cseq' = NextReceiveCSeq(Head(toSink), sink_receive_cseq)

SinkReplies(code) ==
  toSource' = Append(toSource, ReplyTo(Head(toSink), code, Nothing))

\* Setup, Play, Pause and Teardown: they look at no state, overwrite
\* expected_reply_ and take the next CSeq.
SinkRequest(method) == Request(method, sink_send_cseq, presentation_url)

\* Mutant: the CSeq is used and not counted.
SinkReusesCSeq(method) ==
  /\ sink_expected_reply' = method
  /\ UNCHANGED sink_send_cseq

SinkReadyToRequest(method) ==
  /\ sink_expected_reply' = method
  /\ sink_send_cseq' = sink_send_cseq + 1

-----------------------------------------------------------------------------
\* connect_cb calls on_connected.
SinkOnConnected ==
  /\ ~sink_connected
  /\ sink_connected' = TRUE
  /\ SinkSetState(INIT)
  /\ UNCHANGED <<connection, sink_expected_reply, sink_receive_cseq,
                 presentation_url, sink_session>>

\* M1: reply, then send M2.
SinkHandleM1Options ==
  /\ SinkAccepts("OPTIONS")
  /\ sink_state = INIT
  /\ sink_state' = CAPABILITY_NEGOTIATION
  /\ SinkReadyToRequest("OPTIONS")
  /\ toSource' = toSource \o <<ReplyTo(Head(toSink), 200, Nothing),
                               Request("OPTIONS", sink_send_cseq, Nothing)>>
  /\ UNCHANGED <<sink_connected, presentation_url, sink_session>>

\* M2 reply: whatever its code, the sink only stops waiting.
SinkHandleM2Reply ==
  /\ SinkAccepts("REPLY")
  /\ sink_state = CAPABILITY_NEGOTIATION
  /\ sink_expected_reply = "OPTIONS"
  /\ sink_expected_reply' = NoReply
  /\ UNCHANGED <<toSource, sink_connected, sink_state, sink_send_cseq,
                 presentation_url, sink_session>>

\* M3: the reply holds every property asked for that the sink knows.
SinkHandleM3GetParameter ==
  /\ SinkAccepts("GET_PARAMETER")
  /\ sink_state >= CAPABILITY_NEGOTIATION
  /\ toSource' = Append(toSource, ReplyTo(Head(toSink), 200, Ports))
  /\ UNCHANGED <<sink_connected, sink_state, sink_expected_reply,
                 sink_send_cseq, presentation_url, sink_session>>

\* What is kept of the M4 that names the property: a URL given as "none" is
\* read as the empty one.
UrlOf(content) == IF content = NoUrl THEN Nothing ELSE Url

\* The first M4 must bring wfd_presentation_url, whatever URL it names; a later
\* one changes nothing but the state, which goes back to
\* RTSP_SESSION_ESTABLISHMENT.
SinkHandleM4SetParameter ==
  LET initial == sink_state = CAPABILITY_NEGOTIATION
      missing == initial /\ Head(toSink).content \notin {Url, NoUrl}
  IN
  /\ SinkAccepts("SET_PARAMETER")
  /\ sink_state >= CAPABILITY_NEGOTIATION
  /\ Head(toSink).content \notin Trigger
  /\ presentation_url' = IF initial /\ ~missing THEN UrlOf(Head(toSink).content)
                                             ELSE presentation_url
  /\ sink_state' = IF missing THEN sink_state ELSE RTSP_SESSION_ESTABLISHMENT
  /\ SinkReplies(IF missing THEN 303 ELSE 200)
  /\ UNCHANGED <<sink_connected, sink_expected_reply, sink_send_cseq, sink_session>>

\* Mutants: SETUP is obeyed before M4 has brought the URL; PLAY is obeyed in
\* the wrong state.
SinkObeysEarlySetup(trigger) ==
  CASE trigger = "SETUP"    -> sink_state >= CAPABILITY_NEGOTIATION
    [] trigger = "TEARDOWN" -> sink_state \in {WFD_SESSION_PLAYING, WFD_SESSION_PAUSED}
    [] trigger = "PAUSE"    -> sink_state = WFD_SESSION_PLAYING
    [] trigger = "PLAY"     -> sink_state = WFD_SESSION_PAUSED

SinkObeysPlayWhilePlaying(trigger) ==
  CASE trigger = "SETUP"    -> sink_state = RTSP_SESSION_ESTABLISHMENT
    [] trigger = "TEARDOWN" -> sink_state \in {WFD_SESSION_PLAYING, WFD_SESSION_PAUSED}
    [] OTHER                -> sink_state = WFD_SESSION_PLAYING

\* The state in which got_message obeys each trigger.
SinkObeys(trigger) ==
  CASE trigger = "SETUP"    -> sink_state = RTSP_SESSION_ESTABLISHMENT
    [] trigger = "TEARDOWN" -> sink_state \in {WFD_SESSION_PLAYING, WFD_SESSION_PAUSED}
    [] trigger = "PAUSE"    -> sink_state = WFD_SESSION_PLAYING
    [] trigger = "PLAY"     -> sink_state = WFD_SESSION_PAUSED

\* M5: reply, then send the request it asks for.
SinkHandleM5Trigger ==
  LET trigger == Head(toSink).content
  IN
  /\ SinkAccepts("SET_PARAMETER")
  /\ trigger \in Trigger
  /\ SinkObeys(trigger)
  /\ SinkReadyToRequest(trigger)
  /\ toSource' = toSource \o <<ReplyTo(Head(toSink), 200, Nothing),
                               SinkRequest(trigger)>>
  /\ UNCHANGED <<sink_connected, sink_state, presentation_url, sink_session>>

\* M6 reply: with a session, play at once.
SinkHandleM6SetupReply ==
  /\ SinkAccepts("REPLY")
  /\ sink_state = RTSP_SESSION_ESTABLISHMENT
  /\ sink_expected_reply = "SETUP"
  /\ IF Head(toSink).code = 200 /\ Head(toSink).content = Session
     THEN /\ sink_session' = Session
          /\ sink_state' = WFD_SESSION_ESTABLISHMENT
          /\ SinkReadyToRequest("PLAY")
          /\ toSource' = Append(toSource, SinkRequest("PLAY"))
     ELSE /\ sink_expected_reply' = NoReply
          /\ UNCHANGED <<toSource, sink_state, sink_send_cseq, sink_session>>
  /\ UNCHANGED <<sink_connected, presentation_url>>

\* Mutants: move to the next state of the enum; move whatever the code; go on
\* waiting unless the code is 200.
SinkMovesToNextState(s) ==
  /\ sink_expected_reply' = NoReply
  /\ IF Head(toSink).code = 200 THEN SinkSetState(sink_state + 1)
                                ELSE UNCHANGED <<sink_state, sink_send_cseq>>
  /\ UNCHANGED <<toSource, sink_connected, presentation_url, sink_session>>

SinkMovesOnAnyReply(s) ==
  /\ sink_expected_reply' = NoReply
  /\ SinkSetState(s)
  /\ UNCHANGED <<toSource, sink_connected, presentation_url, sink_session>>

SinkWaitsFor200(s) ==
  /\ IF Head(toSink).code = 200
     THEN SinkSetState(s) /\ sink_expected_reply' = NoReply
     ELSE UNCHANGED <<sink_state, sink_send_cseq, sink_expected_reply>>
  /\ UNCHANGED <<toSource, sink_connected, presentation_url, sink_session>>

\* The common shape of handle_m7, m8 and m9: stop waiting, and move on 200.
SinkMovesOnReply(s) ==
  /\ sink_expected_reply' = NoReply
  /\ IF Head(toSink).code = 200 THEN SinkSetState(s)
                                ELSE UNCHANGED <<sink_state, sink_send_cseq>>
  /\ UNCHANGED <<toSource, sink_connected, presentation_url, sink_session>>

SinkHandleM7PlayReply ==
  /\ SinkAccepts("REPLY")
  /\ sink_state \in {WFD_SESSION_ESTABLISHMENT, WFD_SESSION_PAUSED}
  /\ sink_expected_reply = "PLAY"
  /\ SinkMovesOnReply(WFD_SESSION_PLAYING)

SinkHandleM8TeardownReply ==
  /\ SinkAccepts("REPLY")
  /\ sink_state \in {WFD_SESSION_PLAYING, WFD_SESSION_PAUSED}
  /\ sink_expected_reply = "TEARDOWN"
  /\ SinkMovesOnReply(INIT)

SinkHandleM9PauseReply ==
  /\ SinkAccepts("REPLY")
  /\ sink_state = WFD_SESSION_PLAYING
  /\ sink_expected_reply = "PAUSE"
  /\ SinkMovesOnReply(WFD_SESSION_PAUSED)

-----------------------------------------------------------------------------
\* A valid request that no case of got_message takes: it counts as received,
\* and the sender gets no answer.
SinkHandlesRequest(m) ==
  CASE m.type = "OPTIONS"       -> sink_state = INIT
    [] m.type = "GET_PARAMETER" -> sink_state >= CAPABILITY_NEGOTIATION
    [] m.type = "SET_PARAMETER" -> IF m.content \in Trigger
                                   THEN SinkObeys(m.content)
                                   ELSE sink_state >= CAPABILITY_NEGOTIATION
    [] OTHER                    -> FALSE

SinkIgnoresRequest ==
  /\ \E method \in Method : SinkAccepts(method)
  /\ ~SinkHandlesRequest(Head(toSink))
  /\ UNCHANGED <<toSource, sink_connected, sink_state, sink_expected_reply,
                 sink_send_cseq, presentation_url, sink_session>>

\* A valid reply that no case takes: dropped, and still waited for.
SinkHandlesReply ==
  \/ sink_state = CAPABILITY_NEGOTIATION /\ sink_expected_reply = "OPTIONS"
  \/ sink_state = RTSP_SESSION_ESTABLISHMENT /\ sink_expected_reply = "SETUP"
  \/ sink_state = WFD_SESSION_ESTABLISHMENT /\ sink_expected_reply = "PLAY"
  \/ sink_state = WFD_SESSION_PLAYING /\ sink_expected_reply \in {"TEARDOWN", "PAUSE"}
  \/ sink_state = WFD_SESSION_PAUSED /\ sink_expected_reply \in {"TEARDOWN", "PLAY"}

SinkIgnoresReply ==
  /\ SinkAccepts("REPLY")
  /\ ~SinkHandlesReply
  /\ UNCHANGED <<toSource, sink_connected, sink_state, sink_expected_reply,
                 sink_send_cseq, presentation_url, sink_session>>

\* validate_message_sequence fails: a request is answered 400, a reply
\* dropped.  A message that does not parse is dropped as well.
SinkRefuses ==
  /\ sink_connected
  /\ toSink # << >>
  /\ Parses(Head(toSink)) => ~ValidSequence(Head(toSink), sink_expected_reply,
                                            sink_send_cseq, sink_receive_cseq)
  /\ toSink' = Tail(toSink)
  /\ IF Parses(Head(toSink)) /\ Head(toSink).type # "REPLY"
     THEN SinkReplies(400)
     ELSE UNCHANGED toSource
  /\ UNCHANGED sinkVars

SinkGotMessage ==
  \/ SinkHandleM1Options
  \/ SinkHandleM2Reply
  \/ SinkHandleM3GetParameter
  \/ SinkHandleM4SetParameter
  \/ SinkHandleM5Trigger
  \/ SinkHandleM6SetupReply
  \/ SinkHandleM7PlayReply
  \/ SinkHandleM8TeardownReply
  \/ SinkHandleM9PauseReply
  \/ SinkIgnoresRequest
  \/ SinkIgnoresReply
  \/ SinkRefuses

\* A line on the sink's standard input.  Without a connection, send() does
\* nothing, but the request is numbered and its reply expected all the same.
SinkCommand(command) ==
  /\ SinkReadyToRequest(command)
  /\ toSource' = IF sink_connected THEN Append(toSource, SinkRequest(command))
                                   ELSE toSource
  /\ UNCHANGED <<toSink, sink_connected, sink_state, sink_receive_cseq,
                 presentation_url, sink_session>>
=============================================================================
