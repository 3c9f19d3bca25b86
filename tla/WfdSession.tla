----------------------------- MODULE WfdSession -----------------------------
(***************************************************************************)
(* A sink and a source of this repository, connected to each other, each   *)
(* with a user typing play, pause and teardown on its standard input.      *)
(***************************************************************************)
EXTENDS MiracSink, MiracSource

CONSTANTS
  MaxSinkCommands,    \* bound: lines typed at the sink
  MaxSourceCommands,  \* bound: lines typed at the source
  Users               \* "hasty", "careful" or "patient", see below

ASSUME BoundsAssumption ==
  /\ MaxSinkCommands \in Nat
  /\ MaxSourceCommands \in Nat
  /\ Users \in {"hasty", "careful", "patient"}

VARIABLES
  sink_commands,   \* lines typed at the sink so far
  source_commands  \* lines typed at the source so far

vars == <<connection, sinkVars, sourceVars, sink_commands, source_commands>>

Init ==
  /\ ConnectionInit
  /\ SinkInit
  /\ SourceInit
  /\ sink_commands = 0
  /\ source_commands = 0

-----------------------------------------------------------------------------
\* Both directions of the connection are empty.
Quiet == toSink = << >> /\ toSource = << >>

(***************************************************************************)
(* The programs take any command at any time, and a hasty user types any.  *)
(* A careful user watches the log on standard output and types a command   *)
(* only when their own program awaits no reply and is in a state in which  *)
(* the command would change something.  A patient user also lets what is   *)
(* under way come to its end.                                              *)
(***************************************************************************)
Sensible(command, state) ==
  CASE command = "PLAY"     -> state = WFD_SESSION_PAUSED
    [] command = "PAUSE"    -> state = WFD_SESSION_PLAYING
    [] command = "TEARDOWN" -> state \in {WFD_SESSION_PLAYING, WFD_SESSION_PAUSED}

MayType(command, state, expected_reply) ==
  /\ Users # "hasty" => Sensible(command, state) /\ expected_reply = NoReply
  /\ Users = "patient" => Quiet

SinkUser(command) ==
  /\ sink_commands < MaxSinkCommands
  /\ MayType(command, sink_state, sink_expected_reply)
  /\ SinkCommand(command)
  /\ sink_commands' = sink_commands + 1
  /\ UNCHANGED <<sourceVars, source_commands>>

SourceUser(command) ==
  /\ source_commands < MaxSourceCommands
  /\ MayType(command, source_state, source_expected_reply)
  /\ SourceCommand(command)
  /\ source_commands' = source_commands + 1
  /\ UNCHANGED <<sinkVars, sink_commands>>

SinkProgram ==
  /\ SinkOnConnected \/ SinkGotMessage
  /\ UNCHANGED <<sourceVars, sink_commands, source_commands>>

SourceProgram ==
  /\ SourceOnConnected \/ SourceGotMessage
  /\ UNCHANGED <<sinkVars, sink_commands, source_commands>>

Next ==
  \/ SinkProgram
  \/ SourceProgram
  \/ \E command \in Command : SinkUser(command) \/ SourceUser(command)

Spec == Init /\ [][Next]_vars

(***************************************************************************)
(* The main loop of either program dispatches a watch whose descriptor is  *)
(* ready, so a program with a message to read, or a connection to take up, *)
(* eventually does.  Nothing obliges a user to type.                       *)
(***************************************************************************)
Fairness == WF_vars(SinkProgram) /\ WF_vars(SourceProgram)

FairSpec == Spec /\ Fairness

-----------------------------------------------------------------------------
\* The variables have their types.
TypeOK ==
  /\ ConnectionTypeOK
  /\ SinkTypeOK
  /\ SourceTypeOK
  /\ sink_commands \in 0 .. MaxSinkCommands
  /\ source_commands \in 0 .. MaxSourceCommands

Idle == sink_expected_reply = NoReply /\ source_expected_reply = NoReply

(***************************************************************************)
(* A reply names its request by CSeq alone, and got_message trusts         *)
(* expected_reply_ to tell which request that was.  Whatever the users     *)
(* type, overwriting expected_reply_ while replies to older requests are   *)
(* still on their way and restarting the numbering after a teardown, a     *)
(* reply that validate_message_sequence would let through answers the      *)
(* request the program is waiting for.                                     *)
(***************************************************************************)
ReplyAnswersExpectedRequest ==
  /\ \A i \in 1 .. Len(toSink) :
       /\ toSink[i].type = "REPLY"
       /\ ValidSequence(toSink[i], sink_expected_reply, sink_send_cseq, sink_receive_cseq)
       => toSink[i].answers = sink_expected_reply
  /\ \A i \in 1 .. Len(toSource) :
       /\ toSource[i].type = "REPLY"
       /\ ValidSequence(toSource[i], source_expected_reply, source_send_cseq,
                        source_receive_cseq)
       => toSource[i].answers = source_expected_reply

(***************************************************************************)
(* handle_m7_play, m8 and m9 use gst_pipeline unchecked and are reachable  *)
(* from RTSP_SESSION_ESTABLISHMENT on, before any SETUP has created it.    *)
(* Against this repository's sink the source never gets there, at whatever *)
(* moment the users type: SETUP always reaches it first, or the command is *)
(* refused.                                                                *)
(***************************************************************************)
SourceHasPipelineToCommand == source_up

(***************************************************************************)
(* Nothing is left behind when a program stops waiting: while it expects   *)
(* no reply, none of its parsable requests is on its way, and no reply to  *)
(* one is either.                                                          *)
(***************************************************************************)
NoOrphanExchange ==
  /\ sink_expected_reply = NoReply =>
       /\ \A i \in 1 .. Len(toSource) : toSource[i].type = "REPLY"
       /\ \A i \in 1 .. Len(toSink) : toSink[i].type # "REPLY"
  /\ source_expected_reply = NoReply =>
       /\ \A i \in 1 .. Len(toSink) : toSink[i].type = "REPLY"
       /\ \A i \in 1 .. Len(toSource) : toSource[i].type # "REPLY"

\* A program that is not connected has sent nothing and been sent no reply.
NothingBeforeConnection ==
  /\ ~sink_connected =>
       toSource = << >> /\ \A i \in 1 .. Len(toSink) : IsRequest(toSink[i])
  /\ ~source_connected =>
       toSink = << >> /\ \A i \in 1 .. Len(toSource) : IsRequest(toSource[i])

\* Inductive, together with TypeOK: why the two above hold.
ExchangesInOrder ==
  /\ ExchangeInOrder(toSource, toSink, sink_expected_reply, sink_send_cseq)
  /\ ExchangeInOrder(toSink, toSource, source_expected_reply, source_send_cseq)
  /\ NothingBeforeConnection

(***************************************************************************)
(* The two state machines implement the agreement.                         *)
(***************************************************************************)
Agreement == INSTANCE SessionAgreement WITH sink <- sink_state, source <- source_state
ImplementsAgreement == Agreement!Spec

-----------------------------------------------------------------------------
(* With careful users.                                                     *)

(***************************************************************************)
(* validate_message_sequence is to "ensure received message sequence" and  *)
(* logs what it refuses as out of order.  Nothing is ever out of order     *)
(* here: TCP keeps the order and the peer numbers its requests one by one. *)
(* So no request should arrive with another CSeq than the one awaited.     *)
(* The code does refuse such requests: it does not count a request it has  *)
(* answered 400 because it was itself waiting, nor forget the count when a *)
(* teardown restarts the peer's numbering.                                 *)
(***************************************************************************)
RequestsArriveInSequence ==
  LET InSequence(queue, receive_cseq) ==
        queue # << >> /\ Head(queue).type \in Method \ {"OPTIONS"}
          => Head(queue).cseq = receive_cseq + 1
  IN
  /\ InSequence(toSink, sink_receive_cseq)
  /\ InSequence(toSource, source_receive_cseq)

-----------------------------------------------------------------------------
(* With hasty users, against the description of the exchange.              *)

(***************************************************************************)
(* "M8 TEARDOWN, if M8 response == 200 move to state 1", in state 4, WFD   *)
(* session establishment.  The sink sends M8 in that state when its user   *)
(* asks, the source tears the session down, and the sink drops the answer. *)
(***************************************************************************)
TeardownLeavesState4 ==
  [][ /\ toSink' # toSink
      /\ sink_state = WFD_SESSION_ESTABLISHMENT
      /\ sink_expected_reply = "TEARDOWN"
      /\ SinkAccepts("REPLY")
      /\ Head(toSink).code = 200
      => sink_state' = INIT ]_vars

-----------------------------------------------------------------------------
(* With patient users.                                                     *)

Both(s) == sink_state = s /\ source_state = s

\* The request a command asks for is on its way: from the sink's user straight
\* to the source, from the source's user through the sink and back.
Asked(command) ==
  \/ \E i \in 1 .. Len(toSource) :
       toSource[i].type = command /\ sink_state >= WFD_SESSION_PLAYING
  \/ \E i \in 1 .. Len(toSink) : toSink[i].content = command

(***************************************************************************)
(* The broker reads a connection reliably as long as nothing follows a     *)
(* message with a body until that message has been handled (see            *)
(* MiracBroker, "body_last").  That is how the exchange uses it: M3, its   *)
(* reply, M4 and M5 carry bodies, and whoever sends one waits.             *)
(***************************************************************************)
HasBody(m) ==
  m.type \in {"GET_PARAMETER", "SET_PARAMETER"} \/ m.content = Ports

NothingFollowsABody ==
  /\ \A i \in 1 .. Len(toSink) : HasBody(toSink[i]) => i = Len(toSink)
  /\ \A i \in 1 .. Len(toSource) : HasBody(toSource[i]) => i = Len(toSource)

(***************************************************************************)
(* A command typed at either end brings both programs to the state it      *)
(* names: no answer is lost, no counter stays behind, whichever end the    *)
(* commands before it came from.                                           *)
(***************************************************************************)
CommandsTakeEffect ==
  /\ Asked("PAUSE") ~> Both(WFD_SESSION_PAUSED)
  /\ Asked("PLAY") ~> Both(WFD_SESSION_PLAYING)
  /\ Asked("TEARDOWN") ~> Both(INIT)
=============================================================================
