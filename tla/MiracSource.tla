---------------------------- MODULE MiracSource ----------------------------
(***************************************************************************)
(* The desktop source's RTSP session: class MiracSource.  One action per   *)
(* handler; the conditions under which got_message dispatches to it are    *)
(* its guard.  The session string and the RTP ports are stored by the code *)
(* and never read back, so they are left out.                              *)
(***************************************************************************)
EXTENDS RtspConnection

\* gst_pipeline: no object, or the state last asked of it.
Pipeline == {"none", "READY", "PLAYING", "PAUSED"}

VARIABLES
  source_up,              \* FALSE once the process has died (null pipeline, exception)
  source_connected,       \* connection_ is set (listen_cb has run)
  source_state,           \* state_
  source_expected_reply,  \* expected_reply_
  source_send_cseq,       \* send_cseq_
  source_receive_cseq,    \* receive_cseq_
  source_pipeline         \* gst_pipeline

sourceVars == <<source_up, source_connected, source_state, source_expected_reply,
                source_send_cseq, source_receive_cseq, source_pipeline>>

SourceInit ==
  /\ source_up = TRUE
  /\ source_connected = FALSE
  /\ source_state = NotSet
  /\ source_expected_reply = NoReply
  /\ source_send_cseq = 0
  /\ source_receive_cseq = 0
  /\ source_pipeline = "none"

SourceTypeOK ==
  /\ source_up \in BOOLEAN
  /\ source_connected \in BOOLEAN
  /\ source_state \in State \cup {NotSet}
  /\ source_expected_reply \in Method \cup {NoReply}
  /\ source_send_cseq \in Nat
  /\ source_receive_cseq \in Nat
  /\ source_pipeline \in Pipeline

-----------------------------------------------------------------------------
SourceSetState(s) ==
  /\ source_state' = s
  /\ source_send_cseq' = IF s = INIT THEN 1 ELSE source_send_cseq

\* The head of the connection has passed validate_message_sequence.
SourceAccepts(type) ==
  /\ source_up
  /\ source_connected
  /\ toSource # << >>
  /\ Parses(Head(toSource))
  /\ Head(toSource).type = type
  /\ ValidSequence(Head(toSource), source_expected_reply,
                   source_send_cseq, source_receive_cseq)
  /\ toSource' = Tail(toSource)
  /\ source_receive_cseq' = NextReceiveCSeq(Head(toSource), source_receive_cseq)

SourceReplies(code, content) ==
  toSink' = Append(toSink, ReplyTo(Head(toSource), code, content))

SourceReadyToRequest(method) ==
  /\ source_expected_reply' = method
  /\ source_send_cseq' = source_send_cseq + 1

\* send_wfd_trigger_method: overwrites expected_reply_ and takes the next CSeq.
SourceTriggerRequest(trigger) == Request("SET_PARAMETER", source_send_cseq, trigger)

-----------------------------------------------------------------------------
\* Mutants: only the first connection sets the state; a reply still expected
\* is not forgotten.
SourceStartsOnce ==
  /\ source_up
  /\ ~source_connected
  /\ source_connected' = TRUE
  /\ source_state' = IF source_state = NotSet THEN CAPABILITY_NEGOTIATION
                                             ELSE source_state
  /\ SourceReadyToRequest("OPTIONS")
  /\ toSink' = Append(toSink, Request("OPTIONS", source_send_cseq, Nothing))
  /\ UNCHANGED <<toSource, source_up, source_receive_cseq, source_pipeline>>

SourceStillExpects ==
  /\ source_up
  /\ ~source_connected
  /\ source_connected' = TRUE
  /\ source_state' = CAPABILITY_NEGOTIATION
  /\ source_expected_reply' = IF source_expected_reply = NoReply
                               THEN "OPTIONS" ELSE source_expected_reply
  /\ source_send_cseq' = source_send_cseq + 1
  /\ toSink' = Append(toSink, Request("OPTIONS", source_send_cseq, Nothing))
  /\ UNCHANGED <<toSource, source_up, source_receive_cseq, source_pipeline>>

\* listen_cb calls on_connected, which starts the session with M1.
SourceOnConnected ==
  /\ source_up
  /\ ~source_connected
  /\ source_connected' = TRUE
  /\ source_state' = CAPABILITY_NEGOTIATION
  /\ SourceReadyToRequest("OPTIONS")
  /\ toSink' = Append(toSink, Request("OPTIONS", source_send_cseq, Nothing))
  /\ UNCHANGED <<toSource, source_up, source_receive_cseq, source_pipeline>>

\* M1 reply: whatever its code, the source only stops waiting.
SourceHandleM1Reply ==
  /\ SourceAccepts("REPLY")
  /\ source_state = CAPABILITY_NEGOTIATION
  /\ source_expected_reply = "OPTIONS"
  /\ source_expected_reply' = NoReply
  /\ UNCHANGED <<toSink, source_up, source_connected, source_state,
                 source_send_cseq, source_pipeline>>

\* Mutant: M3 is sent before the reply.
SourceAsksBeforeReply ==
  /\ SourceAccepts("OPTIONS")
  /\ source_state = CAPABILITY_NEGOTIATION
  /\ SourceReadyToRequest("GET_PARAMETER")
  /\ toSink' = toSink \o <<Request("GET_PARAMETER", source_send_cseq, Nothing),
                           ReplyTo(Head(toSource), 200, Nothing)>>
  /\ UNCHANGED <<source_up, source_connected, source_state, source_pipeline>>

\* M2: reply, then send M3.
SourceHandleM2Options ==
  /\ SourceAccepts("OPTIONS")
  /\ source_state = CAPABILITY_NEGOTIATION
  /\ SourceReadyToRequest("GET_PARAMETER")
  /\ toSink' = toSink \o <<ReplyTo(Head(toSource), 200, Nothing),
                           Request("GET_PARAMETER", source_send_cseq, Nothing)>>
  /\ UNCHANGED <<source_up, source_connected, source_state, source_pipeline>>

\* M3 reply: send M4.  On a code other than 200 the handler returns, and on a
\* missing property get_property throws (the comparison with NULL after it is
\* never reached); either way GET_PARAMETER is still waited for.
SourceHandleM3Reply ==
  /\ SourceAccepts("REPLY")
  /\ source_state = CAPABILITY_NEGOTIATION
  /\ source_expected_reply = "GET_PARAMETER"
  /\ IF Head(toSource).code = 200 /\ Head(toSource).content = Ports
     THEN /\ SourceReadyToRequest("SET_PARAMETER")
          /\ toSink' = Append(toSink, Request("SET_PARAMETER", source_send_cseq, Url))
     ELSE UNCHANGED <<toSink, source_expected_reply, source_send_cseq>>
  /\ UNCHANGED <<source_up, source_connected, source_state, source_pipeline>>

\* M4 reply: send the M5 that triggers SETUP.
SourceHandleM4Reply ==
  /\ SourceAccepts("REPLY")
  /\ source_state = CAPABILITY_NEGOTIATION
  /\ source_expected_reply = "SET_PARAMETER"
  /\ IF Head(toSource).code = 200
     THEN /\ source_state' = RTSP_SESSION_ESTABLISHMENT
          /\ SourceReadyToRequest("SET_PARAMETER")
          /\ toSink' = Append(toSink, SourceTriggerRequest("SETUP"))
     ELSE UNCHANGED <<toSink, source_state, source_expected_reply, source_send_cseq>>
  /\ UNCHANGED <<source_up, source_connected, source_pipeline>>

\* M5 reply: stop waiting; the sink's request is what moves the state.
SourceHandleM5Reply ==
  /\ SourceAccepts("REPLY")
  /\ source_state >= RTSP_SESSION_ESTABLISHMENT
  /\ source_expected_reply = "SET_PARAMETER"
  /\ source_expected_reply' = NoReply
  /\ UNCHANGED <<toSink, source_up, source_connected, source_state,
                 source_send_cseq, source_pipeline>>

\* M6: build the pipeline and name the session.
SourceHandleM6Setup ==
  /\ SourceAccepts("SETUP")
  /\ source_state = RTSP_SESSION_ESTABLISHMENT
  /\ source_pipeline' = "READY"
  /\ SourceReplies(200, Session)
  /\ SourceSetState(WFD_SESSION_ESTABLISHMENT)
  /\ UNCHANGED <<source_up, source_connected, source_expected_reply>>

\* Mutant: the state moves to the next one of the enum.
SourceServesNextState(method, pipeline, s) ==
  /\ SourceAccepts(method)
  /\ source_state >= RTSP_SESSION_ESTABLISHMENT
  /\ source_pipeline # "none"
  /\ source_pipeline' = pipeline
  /\ SourceReplies(200, Nothing)
  /\ SourceSetState(source_state + 1)
  /\ UNCHANGED <<source_up, source_connected, source_expected_reply>>

\* M7, M9 and M8 share their shape: tell the pipeline, reply, move.  They are
\* dispatched from RTSP_SESSION_ESTABLISHMENT on, where there may be no pipeline.
SourceServes(method, pipeline, s) ==
  /\ SourceAccepts(method)
  /\ source_state >= RTSP_SESSION_ESTABLISHMENT
  /\ source_pipeline # "none"
  /\ source_pipeline' = pipeline
  /\ SourceReplies(200, Nothing)
  /\ SourceSetState(s)
  /\ UNCHANGED <<source_up, source_connected, source_expected_reply>>

\* Mutant: TEARDOWN leaves the pipeline playing.
SourceTeardownKeepsPlaying == SourceServes("TEARDOWN", "PLAYING", INIT)

SourceHandleM7Play == SourceServes("PLAY", "PLAYING", WFD_SESSION_PLAYING)
SourceHandleM9Pause == SourceServes("PAUSE", "PAUSED", WFD_SESSION_PAUSED)
SourceHandleM8Teardown == SourceServes("TEARDOWN", "READY", INIT)

\* gst_pipeline->SetState() through a null pointer ends the process.
SourceHasNoPipeline ==
  /\ \E method \in Command : SourceAccepts(method)
  /\ source_state >= RTSP_SESSION_ESTABLISHMENT
  /\ source_pipeline = "none"
  /\ source_up' = FALSE
  /\ UNCHANGED <<toSink, source_connected, source_state, source_expected_reply,
                 source_send_cseq, source_pipeline>>

\* A sink's GET_PARAMETER and SET_PARAMETER are acknowledged and have no effect.
SourceHandleParameter ==
  /\ SourceAccepts("GET_PARAMETER") \/ SourceAccepts("SET_PARAMETER")
  /\ source_state >= CAPABILITY_NEGOTIATION
  /\ SourceReplies(200, Nothing)
  /\ UNCHANGED <<source_up, source_connected, source_state, source_expected_reply,
                 source_send_cseq, source_pipeline>>

-----------------------------------------------------------------------------
\* A valid request that no case of got_message takes: it counts as received,
\* and the sender gets no answer.
SourceHandlesRequest(m) ==
  CASE m.type = "OPTIONS" -> source_state = CAPABILITY_NEGOTIATION
    [] m.type = "SETUP"   -> source_state = RTSP_SESSION_ESTABLISHMENT
    [] m.type \in Command -> source_state >= RTSP_SESSION_ESTABLISHMENT
    [] OTHER              -> source_state >= CAPABILITY_NEGOTIATION

SourceIgnoresRequest ==
  /\ \E method \in Method : SourceAccepts(method)
  /\ ~SourceHandlesRequest(Head(toSource))
  /\ UNCHANGED <<toSink, source_up, source_connected, source_state,
                 source_expected_reply, source_send_cseq, source_pipeline>>

\* A valid reply that no case takes: dropped, and still waited for.
SourceHandlesReply ==
  \/ /\ source_state = CAPABILITY_NEGOTIATION
     /\ source_expected_reply \in {"OPTIONS", "GET_PARAMETER", "SET_PARAMETER"}
  \/ /\ source_state >= RTSP_SESSION_ESTABLISHMENT
     /\ source_expected_reply = "SET_PARAMETER"

SourceIgnoresReply ==
  /\ SourceAccepts("REPLY")
  /\ ~SourceHandlesReply
  /\ UNCHANGED <<toSink, source_up, source_connected, source_state,
                 source_expected_reply, source_send_cseq, source_pipeline>>

\* validate_message_sequence fails: a request is answered 400, a reply
\* dropped.  A message that does not parse is dropped as well.
SourceRefuses ==
  /\ source_up
  /\ source_connected
  /\ toSource # << >>
  /\ Parses(Head(toSource)) => ~ValidSequence(Head(toSource), source_expected_reply,
                                              source_send_cseq, source_receive_cseq)
  /\ toSource' = Tail(toSource)
  /\ IF Parses(Head(toSource)) /\ Head(toSource).type # "REPLY"
     THEN SourceReplies(400, Nothing)
     ELSE UNCHANGED toSink
  /\ UNCHANGED sourceVars

SourceGotMessage ==
  \/ SourceHandleM1Reply
  \/ SourceHandleM2Options
  \/ SourceHandleM3Reply
  \/ SourceHandleM4Reply
  \/ SourceHandleM5Reply
  \/ SourceHandleM6Setup
  \/ SourceHandleM7Play
  \/ SourceHandleM9Pause
  \/ SourceHandleM8Teardown
  \/ SourceHasNoPipeline
  \/ SourceHandleParameter
  \/ SourceIgnoresRequest
  \/ SourceIgnoresReply
  \/ SourceRefuses

\* A line on the source's standard input sends an M5.  Without a connection,
\* send() does nothing, but the request is numbered and its reply expected.
SourceCommand(command) ==
  /\ source_up
  /\ SourceReadyToRequest("SET_PARAMETER")
  /\ toSink' = IF source_connected THEN Append(toSink, SourceTriggerRequest(command))
                                   ELSE toSink
  /\ UNCHANGED <<toSource, source_up, source_connected, source_state,
                 source_receive_cseq, source_pipeline>>
=============================================================================
