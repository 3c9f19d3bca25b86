--------------------------- MODULE RtspConnection ---------------------------
(***************************************************************************)
(* What the two programs of wysiwidi share: the session states, the RTSP   *)
(* messages M1..M9 as the state machines see them, and the TCP connection  *)
(* between the sink and the source.                                        *)
(*                                                                         *)
(* TCP delivers each direction in order and without loss, and a GLib main  *)
(* loop runs one callback at a time, so a direction is a FIFO sequence and *)
(* the handling of one message is one step.  How the byte stream is cut    *)
(* into messages is not the subject of this module.                        *)
(***************************************************************************)
EXTENDS Integers, Sequences

(***************************************************************************)
(* The State enum, in the order of its declaration: the code compares      *)
(* states with >=.  state_ has no initializer and is first written by      *)
(* on_connected(); NotSet stands for its value before that.                *)
(***************************************************************************)
NotSet == -1
INIT == 0
CAPABILITY_NEGOTIATION == 1
RTSP_SESSION_ESTABLISHMENT == 2
WFD_SESSION_ESTABLISHMENT == 3
WFD_SESSION_PLAYING == 4
WFD_SESSION_PAUSED == 5

State == INIT .. WFD_SESSION_PAUSED

\* expected_reply_ is a Method; ORG_WFA_WFD_1_0 means "not expecting anything".
NoReply == "ORG_WFA_WFD_1_0"

Method == {"OPTIONS", "GET_PARAMETER", "SET_PARAMETER",
           "SETUP", "PLAY", "PAUSE", "TEARDOWN"}

\* wfd_trigger_method of an M5; also the requests a sink sends for them.
Trigger == {"SETUP", "PLAY", "PAUSE", "TEARDOWN"}

\* The commands a user can type on the standard input of either program.
Command == Trigger \ {"SETUP"}

(***************************************************************************)
(* The one fact of a message beyond its header that the handlers look at:  *)
(* the trigger of an M5, the presentation URL of an M4 or of a request     *)
(* line, the RTP ports of an M3 reply, the session of an M6 reply.         *)
(***************************************************************************)
Nothing == "nothing"
Url == "presentation url"
NoUrl == "none"  \* an M4 that names the property, and no (first) URL in it
Ports == "video formats, audio codecs, rtp ports"
Session == "session id"

Content == Trigger \cup {Nothing, Url, NoUrl, Ports, Session}

(***************************************************************************)
(* `answers' is the method of the request a reply answers.  It is not on   *)
(* the wire and no action reads it: an RTSP reply names its request by     *)
(* CSeq only.  Properties use it.                                          *)
(***************************************************************************)
Message == [type : Method \cup {"REPLY"}, cseq : Nat, code : {0, 200, 303, 400},
            content : Content, answers : Method \cup {NoReply}]

Request(method, cseq, content) ==
  [type |-> method, cseq |-> cseq, code |-> 0,
   content |-> content, answers |-> NoReply]

ReplyTo(request, code, content) ==
  [type |-> "REPLY", cseq |-> request.cseq, code |-> code,
   content |-> content, answers |-> request.type]

(***************************************************************************)
(* The request line of M6..M9 carries the presentation URL.  While it is   *)
(* still empty the line is "PLAY  RTSP/1.0", for which the grammar has no  *)
(* production: Parser::error throws, handle_header logs and goes on, and   *)
(* the peer's state machine never hears of the request.                    *)
(***************************************************************************)
Parses(m) == m.type \in Trigger => m.content # Nothing

VARIABLES
  toSink,   \* messages in the connection from the source to the sink
  toSource  \* messages in the connection from the sink to the source

connection == <<toSink, toSource>>

ConnectionInit ==
  /\ toSink = << >>
  /\ toSource = << >>

ConnectionTypeOK ==
  /\ toSink \in Seq(Message)
  /\ toSource \in Seq(Message)

\* Mutants of ValidSequence: any CSeq is good enough for a reply; requests are
\* let through while a reply is waited for.
ValidSequenceOfAnyReply(m, expected_reply, send_cseq, receive_cseq) ==
  IF m.type = "REPLY"
  THEN expected_reply # NoReply
  ELSE /\ m.type = "OPTIONS" \/ m.cseq = receive_cseq + 1
       /\ expected_reply = NoReply

ValidSequenceWhileWaiting(m, expected_reply, send_cseq, receive_cseq) ==
  IF m.type = "REPLY"
  THEN m.cseq = send_cseq - 1 /\ expected_reply # NoReply
  ELSE m.type = "OPTIONS" \/ m.cseq = receive_cseq + 1

(***************************************************************************)
(* validate_message_sequence, the same code in both programs: a reply must *)
(* carry the CSeq of the last request sent and be waited for; a request    *)
(* must carry the next CSeq (OPTIONS, which starts a numbering, may carry  *)
(* any) and arrive while no reply is waited for.                           *)
(***************************************************************************)
ValidSequence(m, expected_reply, send_cseq, receive_cseq) ==
  IF m.type = "REPLY"
  THEN m.cseq = send_cseq - 1 /\ expected_reply # NoReply
  ELSE /\ m.type = "OPTIONS" \/ m.cseq = receive_cseq + 1
       /\ expected_reply = NoReply

\* receive_cseq_ after a message that passed ValidSequence.
NextReceiveCSeq(m, receive_cseq) ==
  CASE m.type = "OPTIONS" -> m.cseq
    [] m.type = "REPLY"   -> receive_cseq
    [] OTHER              -> receive_cseq + 1
-----------------------------------------------------------------------------
(***************************************************************************)
(* An exchange of one program with its peer, in `requests' on their way to *)
(* the peer and `replies' on their way back.  Replies and then requests    *)
(* carry increasing CSeqs, all of them already given out, and the last one *)
(* given out belongs to the method expected.                               *)
(***************************************************************************)
IsRequest(m) == m.type # "REPLY"

ExchangeInOrder(requests, replies, expected_reply, send_cseq) ==
  /\ \A i \in 1 .. Len(requests) : IsRequest(requests[i]) =>
       /\ expected_reply # NoReply
       /\ requests[i].cseq < send_cseq
       /\ requests[i].cseq = send_cseq - 1 => requests[i].type = expected_reply
  /\ \A j \in 1 .. Len(replies) : ~IsRequest(replies[j]) =>
       /\ expected_reply # NoReply
       /\ replies[j].cseq < send_cseq
       /\ replies[j].cseq = send_cseq - 1 => replies[j].answers = expected_reply
  /\ \A i, k \in 1 .. Len(requests) :
       i < k /\ IsRequest(requests[i]) /\ IsRequest(requests[k])
         => requests[i].cseq < requests[k].cseq
  /\ \A j, k \in 1 .. Len(replies) :
       j < k /\ ~IsRequest(replies[j]) /\ ~IsRequest(replies[k])
         => replies[j].cseq < replies[k].cseq
  /\ \A i \in 1 .. Len(requests), j \in 1 .. Len(replies) :
       IsRequest(requests[i]) /\ ~IsRequest(replies[j])
         => replies[j].cseq < requests[i].cseq
=============================================================================
