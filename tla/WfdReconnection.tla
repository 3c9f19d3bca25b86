-------------------------- MODULE WfdReconnection --------------------------
(***************************************************************************)
(* The session of WfdSession with a sink program that may end, at any      *)
(* moment and without a word, and be started again, while the source goes  *)
(* on listening: on_connected then meets a MiracSource in whatever state   *)
(* the old session, or a handler cut short by the loss of its connection,  *)
(* has left.  Only listen_cb gives up the connection of the sink that      *)
(* ended: until then the source reads what that sink had sent and writes   *)
(* to a peer that is gone.                                                 *)
(*                                                                         *)
(* TCP may drop what the old sink had sent (a reset) or deliver it; the    *)
(* source may take up the new connection before it has read it all, which  *)
(* covers both.  The sink sends whole messages, see MiracProgram for what  *)
(* half a message does.                                                    *)
(***************************************************************************)
EXTENDS WfdSession

CONSTANT MaxRestarts  \* bound: times the sink is started again

ASSUME RestartsAssumption == MaxRestarts \in Nat

VARIABLES
  source_holds_old,  \* connection_ is that of a sink that has ended
  old_toSource,      \* messages of that sink the source has not read
  old_toSink,        \* messages the source has sent it in vain
  restarts           \* times the sink has been started again

oldVars == <<source_holds_old, old_toSource, old_toSink>>
allVars == <<vars, oldVars, restarts>>

\* The source's handlers on the old connection.
Old == INSTANCE MiracSource WITH
  toSink <- old_toSink, toSource <- old_toSource, source_connected <- source_holds_old

ReconnectionInit ==
  /\ Init
  /\ source_holds_old = FALSE
  /\ old_toSource = << >>
  /\ old_toSink = << >>
  /\ restarts = 0

-----------------------------------------------------------------------------
(***************************************************************************)
(* The sink ends by a signal, or in any other way: nothing in it sends a   *)
(* TEARDOWN.  The next one starts from nothing.  A sink that ends before   *)
(* the source has taken up its connection is the same to the source as one *)
(* that ends right after, and is left out.                                 *)
(***************************************************************************)
SinkRestarts ==
  /\ restarts < MaxRestarts
  /\ restarts' = restarts + 1
  /\ source_connected
  /\ source_connected' = FALSE
  /\ source_holds_old' = TRUE
  /\ old_toSource' = toSource
  /\ old_toSink' = << >>
  /\ toSink' = << >>
  /\ toSource' = << >>
  /\ sink_connected' = FALSE
  /\ sink_state' = NotSet
  /\ sink_expected_reply' = NoReply
  /\ sink_send_cseq' = 0
  /\ sink_receive_cseq' = 0
  /\ presentation_url' = Nothing
  /\ sink_session' = Nothing
  /\ UNCHANGED <<source_up, source_state, source_expected_reply, source_send_cseq,
                 source_receive_cseq, source_pipeline, sink_commands, source_commands>>

\* listen_cb: connection_.reset() and on_connected.
SourceTakesUp ==
  /\ SourceOnConnected
  /\ source_holds_old' = FALSE
  /\ old_toSource' = << >>
  /\ old_toSink' = << >>
  /\ UNCHANGED <<sinkVars, sink_commands, source_commands, restarts>>

\* What is not the source's old connection.
Elsewhere == <<connection, sinkVars, source_connected, sink_commands, restarts>>

SourceReadsOld ==
  /\ Old!SourceGotMessage
  /\ UNCHANGED <<Elsewhere, source_holds_old, source_commands>>

\* Of what M6 to M9 do, the step on the pipeline comes before the reply.  For
\* M6 the peer's address is asked for first, which may throw before it.
PipelineOfRequest(method) ==
  CASE method = "SETUP"    -> {source_pipeline, "READY"}
    [] method = "PLAY"     -> {"PLAYING"}
    [] method = "PAUSE"    -> {"PAUSED"}
    [] method = "TEARDOWN" -> {"READY"}
    [] OTHER               -> {source_pipeline}

(***************************************************************************)
(* The reply to a sink that has gone throws out of the handler, and        *)
(* handle_header catches it and reads on.  What the handler does after its *)
(* reply is not done: M6 to M9 do not move the state, M2 does not ask M3.  *)
(* The other handlers send last: to them a failed send changes nothing.    *)
(***************************************************************************)
SourceReplyThrows ==
  /\ \E method \in Trigger \cup {"OPTIONS"} :
       /\ Old!SourceAccepts(method)
       /\ Old!SourceHandlesRequest(Head(old_toSource))
       /\ method \in Command => source_pipeline # "none"
       /\ source_pipeline' \in PipelineOfRequest(method)
  /\ UNCHANGED <<Elsewhere, source_up, source_holds_old, source_state,
                 source_expected_reply, source_send_cseq, old_toSink, source_commands>>

\* A line typed at the source: the first writes to a sink that has gone are
\* accepted by the kernel, a later one throws through the main loop and ends
\* the program.
SourceUserMeetsOld(command) ==
  /\ source_holds_old
  /\ source_commands < MaxSourceCommands
  /\ MayType(command, source_state, source_expected_reply)
  /\ source_commands' = source_commands + 1
  /\ \/ Old!SourceCommand(command)
     \/ /\ source_up
        /\ source_up' = FALSE
        /\ UNCHANGED <<source_state, source_expected_reply, source_send_cseq,
                       source_receive_cseq, source_pipeline, oldVars>>
  /\ UNCHANGED <<Elsewhere, source_holds_old>>

-----------------------------------------------------------------------------
SinkRuns == SinkProgram /\ UNCHANGED <<oldVars, restarts>>

SourceRuns ==
  \/ SourceTakesUp
  \/ SourceGotMessage /\ UNCHANGED <<sinkVars, sink_commands, source_commands, oldVars, restarts>>
  \/ SourceReadsOld
  \/ SourceReplyThrows

UserTypes(command) ==
  \/ SinkUser(command) /\ UNCHANGED <<oldVars, restarts>>
  \/ ~source_holds_old /\ SourceUser(command) /\ UNCHANGED <<oldVars, restarts>>
  \/ SourceUserMeetsOld(command)

ReconnectionNext ==
  \/ SinkRuns
  \/ SourceRuns
  \/ SinkRestarts
  \/ \E command \in Command : UserTypes(command)

\* As in WfdSession: a main loop dispatches what is ready.  Nothing obliges a
\* sink to end.
ReconnectionSpec ==
  /\ ReconnectionInit
  /\ [][ReconnectionNext]_allVars
  /\ WF_allVars(SinkRuns)
  /\ WF_allVars(SourceRuns)

-----------------------------------------------------------------------------
(* With careful users.                                                     *)

(***************************************************************************)
(* Once everything sent has been handled, both programs are in the same    *)
(* session state, although commands typed at both ends may have crossed    *)
(* and both been refused, and whatever the source had been left with by an *)
(* earlier sink: on_connected and the M2 that answers it overwrite all of  *)
(* it but send_cseq_ and the pipeline.                                     *)
(***************************************************************************)
StatesAgreeAtRest ==
  Quiet /\ Idle /\ source_connected => source_state = sink_state

(***************************************************************************)
(* On its connection the source plays or pauses a stream only for a sink   *)
(* that has the session of its SETUP reply, and the sink is in the session *)
(* until the source has torn it down: a session left over from an earlier  *)
(* sink is not taken for the new one's.                                    *)
(***************************************************************************)
StreamHasSession ==
  source_connected /\ source_state \in {WFD_SESSION_PLAYING, WFD_SESSION_PAUSED} =>
    /\ sink_session = Session
    /\ sink_state >= WFD_SESSION_ESTABLISHMENT

(***************************************************************************)
(* Whenever a sink is started the session reaches streaming by itself, in  *)
(* both programs and in the pipeline, whatever its predecessor left in the *)
(* source.  Only a source ended by a command to a sink that has gone fails *)
(* to get there.                                                           *)
(***************************************************************************)
Streaming ==
  /\ sink_state = WFD_SESSION_PLAYING
  /\ source_state = WFD_SESSION_PLAYING
  /\ source_pipeline = "PLAYING"

SessionStarts == sink_state = NotSet ~> Streaming \/ ~source_up

\* Every request of a program is answered, if only by 400, and the answer is
\* taken, or the sink that was to answer it is started again and the source
\* asks anew: neither program waits for ever, unless the source has ended.
EveryRequestIsAnswered ==
  /\ sink_expected_reply # NoReply ~> sink_expected_reply = NoReply \/ ~source_up
  /\ source_expected_reply # NoReply ~> source_expected_reply = NoReply \/ ~source_up
=============================================================================
