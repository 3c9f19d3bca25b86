-------------------------- MODULE ForeignPeer_proofs --------------------------
(***************************************************************************)
(* What holds of each program against a peer of another make, however many *)
(* requests that peer sends, however many are under way at once and        *)
(* however often the user types.  The sink against a foreign source comes  *)
(* first, then the source against a foreign sink.                          *)
(***************************************************************************)
EXTENDS SinkWithForeignSource, SourceWithForeignSink, MiracHandlers_proofs

-----------------------------------------------------------------------------
(* Type correctness of the sink's side.                                    *)

\* Whatever the foreign source asks is a message, ...
LEMMA ForeignSourceAsksType ==
  ASSUME SinkType, peer_requests \in Nat, ForeignSourceAsks
  PROVE  SinkType'
<1> USE DEF SinkType, ConnectionTypeOK
<1>1. PICK method \in Method, content \in Content :
        toSink' = Append(toSink, Request(method, peer_requests, content))
  BY Words DEF ForeignSourceAsks
<1>2. Request(method, peer_requests, content) \in Message
  BY RequestType
<1>3. toSink' \in Seq(Message)
  BY <1>1, <1>2, AppendType
<1> QED
  BY <1>3 DEF ForeignSourceAsks, sinkVars, SinkTypeOK

\* ... and so is whatever it answers.
LEMMA ForeignSourceReadsType ==
  ASSUME SinkType, ForeignSourceReads
  PROVE  SinkType'
<1> USE DEF SinkType, ConnectionTypeOK
<1>1. Head(toSource) \in Message /\ toSource' \in Seq(Message)
  BY ReadType DEF ForeignSourceReads
<1>2. CASE Head(toSource).type = "REPLY"
  BY <1>1, <1>2 DEF ForeignSourceReads, sinkVars, SinkTypeOK
<1>3. CASE Head(toSource).type # "REPLY"
  <2>1. CASE UNCHANGED toSink
    BY <1>1, <2>1 DEF ForeignSourceReads, sinkVars, SinkTypeOK
  <2>2. ASSUME NEW code \in {0, 200, 303, 400}, NEW content \in Content,
               toSink' = Append(toSink, ReplyTo(Head(toSource), code, content))
        PROVE  SinkType'
    <3>1. ReplyTo(Head(toSource), code, content) \in Message
      BY <1>1, <1>3, ReplyType
    <3>2. toSink' \in Seq(Message)
      BY <2>2, <3>1, AppendType
    <3> QED
      BY <1>1, <3>2 DEF ForeignSourceReads, sinkVars, SinkTypeOK
  <2> QED
    BY <1>3, <2>1, <2>2, Words DEF ForeignSourceReads
<1> QED
  BY <1>2, <1>3

LEMMA SinkSideInitType ==
  ASSUME SinkSideInit
  PROVE  SinkSideTypeOK
<1>1. ConnectionTypeOK
  BY EmptyType DEF SinkSideInit, ConnectionInit, ConnectionTypeOK, PeerInit
<1>2. SinkTypeOK
  BY DEF SinkSideInit, SinkInit, SinkTypeOK, PeerInit
<1>3. no_url_named \in BOOLEAN
  BY DEF SinkSideInit
<1>4. PeerTypeOK
  BY ForeignPeerAssumption DEF SinkSideInit, ForeignPeerAssumption, PeerTypeOK, PeerInit
<1> QED
  BY <1>1, <1>2, <1>3, <1>4 DEF SinkSideTypeOK

LEMMA SinkSideStepType ==
  ASSUME SinkSideTypeOK, [SinkSideNext]_sinkSideVars
  PROVE  SinkSideTypeOK'
<1> USE ForeignPeerAssumption DEF ForeignPeerAssumption
<1>1. SinkType
  BY DEF SinkSideTypeOK, SinkType, PeerTypeOK
<1>2. CASE SinkRuns
  BY <1>1, <1>2, SinkStepType DEF SinkRuns, SinkSideTypeOK, SinkType, PeerTypeOK, peerVars
<1>3. CASE ForeignSourceAsks
  <2>1. SinkType'
    BY <1>1, <1>3, ForeignSourceAsksType DEF SinkSideTypeOK, PeerTypeOK
  <2> QED
    BY <1>3, <2>1 DEF ForeignSourceAsks, SinkSideTypeOK, SinkType, PeerTypeOK
<1>4. CASE ForeignSourceReads
  <2>1. SinkType'
    BY <1>1, <1>4, ForeignSourceReadsType
  <2> QED
    BY <1>4, <2>1 DEF ForeignSourceReads, SinkSideTypeOK, SinkType, PeerTypeOK
<1>5. ASSUME NEW command \in Command, SinkUser(command)
      PROVE  SinkSideTypeOK'
  <2>1. SinkType'
    BY <1>1, <1>5, SinkCommandType DEF SinkUser
  <2> QED
    BY <1>5, <2>1 DEF SinkUser, SinkSideTypeOK, SinkType, PeerTypeOK
<1>6. CASE UNCHANGED sinkSideVars
  BY <1>6 DEF sinkSideVars, connection, sinkVars, SinkSideTypeOK, ConnectionTypeOK,
              SinkTypeOK, PeerTypeOK, peerVars
<1> QED
  BY <1>2, <1>3, <1>4, <1>5, <1>6 DEF SinkSideNext

(***************************************************************************)
(* The sink's variables and the connection keep their types, whatever the  *)
(* foreign source sends.                                                   *)
(***************************************************************************)
THEOREM SinkSideTypes == SinkSideSpec => []SinkSideTypeOK
<1>1. SinkSideInit => SinkSideTypeOK
  BY SinkSideInitType
<1>2. SinkSideTypeOK /\ [SinkSideNext]_sinkSideVars => SinkSideTypeOK'
  BY SinkSideStepType
<1> QED
  BY <1>1, <1>2, PTL DEF SinkSideSpec

-----------------------------------------------------------------------------
(* The state fits what the sink waits for.                                 *)

\* on_connected sets the state.
SinkStateOnceConnected == ~sink_connected => sink_state = NotSet

\* Inductive, together with SinkSideTypeOK.
WaitOK == SinkStateOnceConnected /\ SinkReplyHasHandler

\* Only what has passed validate_message_sequence is handled, so a request is
\* handled while the sink waits for nothing.
LEMMA SinkHandling ==
  ASSUME SinkType, SinkGotMessage
  PROVE  sink_connected /\ sink_connected'
BY DEF SinkGotMessage, SinkAccepts, SinkHandleM1Options, SinkHandleM2Reply,
       SinkHandleM3GetParameter, SinkHandleM4SetParameter, SinkHandleM5Trigger,
       SinkHandleM6SetupReply, SinkHandleM7PlayReply, SinkHandleM8TeardownReply,
       SinkHandleM9PauseReply, SinkMovesOnReply, SinkIgnoresRequest, SinkIgnoresReply,
       SinkRefuses, sinkVars

LEMMA HandlerKeepsWait ==
  ASSUME SinkType, SinkReplyHasHandler, SinkGotMessage
  PROVE  SinkReplyHasHandler'
<1> USE DEF SinkReplyHasHandler, SinkHandlesReply, NotSet, INIT,
            CAPABILITY_NEGOTIATION, RTSP_SESSION_ESTABLISHMENT,
            WFD_SESSION_ESTABLISHMENT, WFD_SESSION_PLAYING, WFD_SESSION_PAUSED
<1>1. CASE SinkHandleM1Options
  BY <1>1 DEF SinkHandleM1Options, SinkReadyToRequest
<1>2. CASE SinkHandleM2Reply
  BY <1>2 DEF SinkHandleM2Reply
<1>3. CASE SinkHandleM3GetParameter
  BY <1>3 DEF SinkHandleM3GetParameter
<1>4. CASE SinkHandleM4SetParameter
  <2>1. sink_expected_reply = NoReply
    BY <1>4, SinkAccepted DEF SinkHandleM4SetParameter
  <2> QED
    BY <1>4, <2>1 DEF SinkHandleM4SetParameter
<1>5. CASE SinkHandleM5Trigger
  <2>1. PICK trigger \in Trigger : /\ SinkObeys(trigger)
                                   /\ SinkReadyToRequest(trigger)
                                   /\ UNCHANGED sink_state
    BY <1>5 DEF SinkHandleM5Trigger
  <2>2. CASE trigger = "SETUP"
    BY <2>1, <2>2 DEF SinkObeys, SinkReadyToRequest
  <2>3. CASE trigger = "PLAY"
    BY <2>1, <2>3 DEF SinkObeys, SinkReadyToRequest
  <2>4. CASE trigger = "PAUSE"
    BY <2>1, <2>4 DEF SinkObeys, SinkReadyToRequest
  <2>5. CASE trigger = "TEARDOWN"
    BY <2>1, <2>5 DEF SinkObeys, SinkReadyToRequest
  <2> QED
    BY <2>2, <2>3, <2>4, <2>5 DEF Trigger
<1>6. CASE SinkHandleM6SetupReply
  BY <1>6 DEF SinkHandleM6SetupReply, SinkReadyToRequest
<1>7. CASE SinkHandleM7PlayReply \/ SinkHandleM8TeardownReply \/ SinkHandleM9PauseReply
  BY <1>7 DEF SinkHandleM7PlayReply, SinkHandleM8TeardownReply, SinkHandleM9PauseReply,
              SinkMovesOnReply
<1>8. CASE SinkIgnoresRequest \/ SinkIgnoresReply
  BY <1>8 DEF SinkIgnoresRequest, SinkIgnoresReply
<1>9. CASE SinkRefuses
  BY <1>9 DEF SinkRefuses, sinkVars
<1> QED
  BY <1>1, <1>2, <1>3, <1>4, <1>5, <1>6, <1>7, <1>8, <1>9 DEF SinkGotMessage

\* A careful user asks in a state whose case takes the answer.
LEMMA UserKeepsWait ==
  ASSUME NEW command \in Command, SinkUser(command)
  PROVE  SinkReplyHasHandler' /\ sink_state >= WFD_SESSION_PLAYING
<1> USE DEF SinkReplyHasHandler, SinkHandlesReply, WFD_SESSION_PLAYING,
            WFD_SESSION_PAUSED, SinkUser, SinkCommand, SinkReadyToRequest
<1>1. CASE command = "PLAY"
  BY <1>1
<1>2. CASE command = "PAUSE"
  BY <1>2
<1>3. CASE command = "TEARDOWN"
  BY <1>3
<1> QED
  BY <1>1, <1>2, <1>3 DEF Command, Trigger

LEMMA StepKeepsWait ==
  ASSUME SinkSideTypeOK, WaitOK, [SinkSideNext]_sinkSideVars
  PROVE  WaitOK'
<1> USE DEF WaitOK, SinkStateOnceConnected
<1>0. SinkType
  BY DEF SinkSideTypeOK, SinkType, PeerTypeOK
<1>1. CASE SinkOnConnected
  <2>1. sink_expected_reply = NoReply
    BY <1>1 DEF SinkOnConnected, SinkReplyHasHandler, SinkHandlesReply, NotSet,
                CAPABILITY_NEGOTIATION, RTSP_SESSION_ESTABLISHMENT,
                WFD_SESSION_ESTABLISHMENT, WFD_SESSION_PLAYING, WFD_SESSION_PAUSED
  <2> QED
    BY <1>1, <2>1 DEF SinkOnConnected, SinkReplyHasHandler
<1>2. CASE SinkGotMessage
  BY <1>0, <1>2, SinkHandling, HandlerKeepsWait
<1>3. CASE ForeignSourceAsks \/ ForeignSourceReads \/ UNCHANGED sinkSideVars
  BY <1>3 DEF ForeignSourceAsks, ForeignSourceReads, sinkSideVars, sinkVars,
              SinkReplyHasHandler, SinkHandlesReply, peerVars
<1>4. ASSUME NEW command \in Command, SinkUser(command)
      PROVE  WaitOK'
  BY <1>4, UserKeepsWait DEF SinkUser, SinkCommand
<1> QED
  BY <1>1, <1>2, <1>3, <1>4 DEF SinkSideNext, SinkRuns, peerVars

LEMMA WaitKept == SinkSideSpec => []WaitOK
<1>1. SinkSideInit => WaitOK
  BY DEF SinkSideInit, SinkInit, WaitOK, SinkStateOnceConnected, SinkReplyHasHandler,
         PeerInit
<1>2. SinkSideTypeOK /\ WaitOK /\ [SinkSideNext]_sinkSideVars => WaitOK'
  BY StepKeepsWait
<1> QED
  BY <1>1, <1>2, SinkSideTypes, PTL DEF SinkSideSpec

(***************************************************************************)
(* A sink that waits for a reply is in a state whose case of got_message   *)
(* takes it, whatever the foreign source asks and answers meanwhile.       *)
(***************************************************************************)
THEOREM SinkReplyIsTaken == SinkSideSpec => []SinkReplyHasHandler
<1>1. WaitOK => SinkReplyHasHandler
  BY DEF WaitOK
<1> QED
  BY <1>1, WaitKept, PTL

-----------------------------------------------------------------------------
(* What is under way is in order: the foreign source answers in order and  *)
(* numbers its requests one by one.                                        *)

SideInOrder ==
  /\ ExchangeInOrder(toSource, toSink, sink_expected_reply, sink_send_cseq)
  /\ \E method \in Method : ExchangeInOrder(toSink, toSource, method, peer_requests)

\* A request of the foreign source keeps both exchanges in order, ...
LEMMA ForeignSourceAsksInOrder ==
  ASSUME SinkType, peer_requests \in Nat, SideInOrder, ForeignSourceAsks
  PROVE  SideInOrder'
<1>0. toSink \in Seq(Message) /\ toSource \in Seq(Message) /\ sink_send_cseq \in Nat
  BY DEF SinkType, ConnectionTypeOK, SinkTypeOK
<1>1. PICK method \in Method, content \in Content :
        toSink' = Append(toSink, Request(method, peer_requests, content))
  BY Words DEF ForeignSourceAsks
<1>2. /\ peer_requests' = peer_requests + 1
      /\ UNCHANGED <<toSource, sink_expected_reply, sink_send_cseq>>
  BY DEF ForeignSourceAsks, sinkVars
<1> DEFINE m == Request(method, peer_requests, content)
<1>3. m \in Message /\ IsRequest(m)
  BY AskedType
<1>4. ExchangeInOrder(toSink', toSource, method, peer_requests + 1)
  BY <1>0, <1>1, Ask DEF SideInOrder
<1> HIDE DEF m
<1>5. ExchangeInOrder(toSource, Append(toSink, m), sink_expected_reply, sink_send_cseq)
  BY <1>0, <1>3, RequestAmongReplies DEF SideInOrder
<1> QED
  BY <1>1, <1>2, <1>4, <1>5 DEF SideInOrder, m

\* ... and so does its reading, whether it answers or not.
LEMMA ForeignSourceReadsInOrder ==
  ASSUME SinkType, peer_requests \in Nat, SideInOrder, ForeignSourceReads
  PROVE  SideInOrder'
<1>0. toSink \in Seq(Message) /\ toSource \in Seq(Message) /\ sink_send_cseq \in Nat
  BY DEF SinkType, ConnectionTypeOK, SinkTypeOK
<1>1. /\ toSource # << >> /\ toSource' = Tail(toSource)
      /\ UNCHANGED <<peer_requests, sink_expected_reply, sink_send_cseq>>
  BY DEF ForeignSourceReads, sinkVars
<1>2. PICK method \in Method : ExchangeInOrder(toSink, toSource, method, peer_requests)
  BY DEF SideInOrder
<1>3. ExchangeInOrder(toSink, Tail(toSource), method, peer_requests)
  BY <1>0, <1>1, <1>2, DropFromReplies
<1>4. CASE UNCHANGED toSink
  <2>1. ExchangeInOrder(Tail(toSource), toSink, sink_expected_reply, sink_send_cseq)
    BY <1>0, <1>1, DropFromRequests DEF SideInOrder
  <2> QED
    BY <1>1, <1>3, <1>4, <2>1 DEF SideInOrder
<1>5. ASSUME IsRequest(Head(toSource)),
             NEW code \in {0, 200, 303, 400}, NEW content \in Content,
             toSink' = Append(toSink, ReplyTo(Head(toSource), code, content))
      PROVE  SideInOrder'
  <2> DEFINE m == ReplyTo(Head(toSource), code, content)
  <2>1. ExchangeInOrder(Tail(toSource), Append(toSink, m), sink_expected_reply, sink_send_cseq)
    BY <1>0, <1>1, <1>5, Serve DEF SideInOrder
  <2>2. m \in Message /\ ~IsRequest(m)
    <3>1. Head(toSource) \in Message
      BY <1>0, <1>1, ReadType
    <3> QED
      BY <1>5, <3>1, AnswerType
  <2>3. Tail(toSource) \in Seq(Message)
    BY <1>0, <1>1, ReadType
  <2> HIDE DEF m
  <2>4. ExchangeInOrder(Append(toSink, m), Tail(toSource), method, peer_requests)
    BY <1>0, <1>3, <2>2, <2>3, ReplyAmongRequests
  <2> QED
    BY <1>1, <1>5, <2>1, <2>4 DEF SideInOrder, m
<1> QED
  BY <1>4, <1>5, Words DEF ForeignSourceReads, IsRequest

LEMMA SideStepInOrder ==
  ASSUME SinkSideTypeOK, WaitOK, SideInOrder, [SinkSideNext]_sinkSideVars
  PROVE  SideInOrder'
<1>0. SinkType /\ peer_requests \in Nat /\ commands \in Nat
  BY ForeignPeerAssumption DEF SinkSideTypeOK, SinkType, PeerTypeOK, ForeignPeerAssumption
<1>a. /\ toSink \in Seq(Message) /\ toSource \in Seq(Message) /\ sink_send_cseq \in Nat
      /\ presentation_url \in Content
  BY <1>0, Words DEF SinkType, ConnectionTypeOK, SinkTypeOK
<1>b. ASSUME SinkStep, UNCHANGED peer_requests
      PROVE  SideInOrder'
  <2>1. PICK method \in Method : ExchangeInOrder(toSink, toSource, method, peer_requests)
    BY DEF SideInOrder
  <2>2. /\ ExchangeInOrder(toSource', toSink', sink_expected_reply', sink_send_cseq')
        /\ ExchangeInOrder(toSink', toSource', method, peer_requests)
    BY <1>0, <1>a, <1>b, <2>1, StepKeepsOrder DEF SideInOrder, SinkStep
  <2> QED
    BY <1>b, <2>2 DEF SideInOrder
<1>1. CASE SinkOnConnected /\ UNCHANGED peerVars
  <2>1. sink_expected_reply = NoReply /\ UNCHANGED <<toSink, toSource, peer_requests>>
    BY <1>1 DEF SinkOnConnected, WaitOK, SinkStateOnceConnected, SinkReplyHasHandler,
                SinkHandlesReply, NotSet, CAPABILITY_NEGOTIATION,
                RTSP_SESSION_ESTABLISHMENT, WFD_SESSION_ESTABLISHMENT,
                WFD_SESSION_PLAYING, WFD_SESSION_PAUSED, connection, peerVars
  <2>2. /\ \A i \in 1 .. Len(toSource) : ~IsRequest(toSource[i])
        /\ \A j \in 1 .. Len(toSink) : IsRequest(toSink[j])
    BY <2>1 DEF SideInOrder, ExchangeInOrder
  <2>3. ExchangeInOrder(toSource, toSink, sink_expected_reply', sink_send_cseq')
    BY <1>a, <2>2, NothingUnderWay
  <2> QED
    BY <2>1, <2>3 DEF SideInOrder
<1>2. CASE SinkGotMessage /\ UNCHANGED peerVars
  BY <1>0, <1>2, <1>b, SinkSteps DEF peerVars
<1>3. CASE ForeignSourceAsks
  BY <1>0, <1>3, ForeignSourceAsksInOrder
<1>4. CASE ForeignSourceReads
  BY <1>0, <1>4, ForeignSourceReadsInOrder
<1>5. ASSUME NEW command \in Command, SinkUser(command)
      PROVE  SideInOrder'
  <2>1. /\ sink_expected_reply' = command /\ sink_send_cseq' = sink_send_cseq + 1
        /\ UNCHANGED <<toSink, peer_requests>>
        /\ sink_connected
    <3>1. sink_state >= WFD_SESSION_PLAYING
      BY <1>5, UserKeepsWait
    <3> QED
      BY <1>5, <3>1 DEF SinkUser, SinkCommand, SinkReadyToRequest, WaitOK,
                        SinkStateOnceConnected, NotSet, WFD_SESSION_PLAYING
  <2>2. toSource' = Append(toSource, Request(command, sink_send_cseq, presentation_url))
    BY <1>5, <2>1 DEF SinkUser, SinkCommand, SinkRequest
  <2>3. SinkStep
    BY <1>a, <2>1, <2>2, Words DEF SinkStep, ExchangeStep, Asks
  <2> QED
    BY <1>b, <2>1, <2>3
<1>6. CASE UNCHANGED sinkSideVars
  BY <1>6 DEF sinkSideVars, connection, sinkVars, peerVars, SideInOrder
<1> QED
  BY <1>1, <1>2, <1>3, <1>4, <1>5, <1>6 DEF SinkSideNext, SinkRuns

LEMMA SideStaysInOrder == SinkSideSpec => []SideInOrder
<1>1. SinkSideInit => SideInOrder
  BY DEF SinkSideInit, ConnectionInit, SinkInit, PeerInit, SideInOrder, ExchangeInOrder, Method
<1>2. SinkSideTypeOK /\ WaitOK /\ SideInOrder /\ [SinkSideNext]_sinkSideVars => SideInOrder'
  BY SideStepInOrder
<1> QED
  BY <1>1, <1>2, SinkSideTypes, WaitKept, PTL DEF SinkSideSpec

-----------------------------------------------------------------------------
(* The URL and the session are there when they are needed.                 *)

\* A queue whose requests for the session all carry the URL.
AllCarry(queue, url) ==
  \A i \in 1 .. Len(queue) : queue[i].type \in Trigger => queue[i].content = url

\* It remains one when its head is read, ...
LEMMA ReadAllCarry ==
  ASSUME NEW queue \in Seq(Message), queue # << >>, NEW url, AllCarry(queue, url)
  PROVE  AllCarry(Tail(queue), url)
BY DEF AllCarry

\* ... when a message that is none or carries the URL is added, ...
LEMMA AppendAllCarry ==
  ASSUME NEW queue \in Seq(Message), NEW url, AllCarry(queue, url),
         NEW m \in Message, m.type \in Trigger => m.content = url
  PROVE  AllCarry(Append(queue, m), url)
BY DEF AllCarry

\* ... and when two are.
LEMMA AppendTwoAllCarry ==
  ASSUME NEW queue \in Seq(Message), NEW url, AllCarry(queue, url),
         NEW m \in Message, m.type \in Trigger => m.content = url,
         NEW n \in Message, n.type \in Trigger => n.content = url
  PROVE  AllCarry(queue \o <<m, n>>, url)
<1>1. Append(queue, m) \in Seq(Message) /\ AllCarry(Append(queue, m), url)
  BY AppendAllCarry
<1>2. AllCarry(Append(Append(queue, m), n), url)
  BY <1>1, AppendAllCarry
<1> QED
  BY <1>2, AppendTwo

\* Where no request is under way, any URL will do.
LEMMA RepliesCarryAny ==
  ASSUME NEW queue \in Seq(Message), NEW url,
         \A i \in 1 .. Len(queue) : ~IsRequest(queue[i])
  PROVE  AllCarry(queue, url)
BY DEF AllCarry, IsRequest, Trigger

LEMMA ReplyIsNoTrigger ==
  ASSUME NEW m \in Message, m.type # "REPLY", NEW code \in {0, 200, 303, 400},
         NEW content \in Content
  PROVE  /\ ReplyTo(m, code, content) \in Message
         /\ ReplyTo(m, code, content).type \notin Trigger
BY ReplyType DEF ReplyTo, Trigger

\* Whatever a handler sends for the session carries presentation_url, and is
\* sent from RTSP_SESSION_ESTABLISHMENT on.
LEMMA HandlerSendsUrl ==
  ASSUME SinkType, SinkGotMessage, NEW url, AllCarry(toSource, url),
         sink_state >= RTSP_SESSION_ESTABLISHMENT => presentation_url = url
  PROVE  AllCarry(toSource', url)
<1> USE DEF NotSet, State, INIT, CAPABILITY_NEGOTIATION,
            RTSP_SESSION_ESTABLISHMENT, WFD_SESSION_ESTABLISHMENT, WFD_SESSION_PLAYING,
            WFD_SESSION_PAUSED
<1>0. /\ toSource \in Seq(Message) /\ sink_send_cseq \in Nat
      /\ sink_state \in State \cup {NotSet} /\ presentation_url \in Content
  BY Words DEF SinkType, ConnectionTypeOK, SinkTypeOK
<1>a. ASSUME NEW type, SinkAccepts(type), type # "REPLY",
             NEW code \in {0, 200, 303, 400}, NEW content \in Content
      PROVE  /\ ReplyTo(Head(toSink), code, content) \in Message
             /\ ReplyTo(Head(toSink), code, content).type \notin Trigger
  BY <1>a, SinkAcceptsType, ReplyIsNoTrigger
<1>b. ASSUME NEW method \in Method, sink_state >= RTSP_SESSION_ESTABLISHMENT
      PROVE  /\ Request(method, sink_send_cseq, presentation_url) \in Message
             /\ Request(method, sink_send_cseq, presentation_url).content = url
  BY <1>0, <1>b, AskedType DEF Request
<1>1. CASE SinkHandleM1Options
  <2>1. SinkAccepts("OPTIONS")
        /\ toSource' = toSource \o <<ReplyTo(Head(toSink), 200, Nothing),
                                     Request("OPTIONS", sink_send_cseq, Nothing)>>
    BY <1>1 DEF SinkHandleM1Options
  <2>2. /\ Request("OPTIONS", sink_send_cseq, Nothing) \in Message
        /\ Request("OPTIONS", sink_send_cseq, Nothing).type \notin Trigger
    BY <1>0, AskedType, Words DEF Trigger, Request
  <2>3. /\ ReplyTo(Head(toSink), 200, Nothing) \in Message
        /\ ReplyTo(Head(toSink), 200, Nothing).type \notin Trigger
    BY <1>a, <2>1, Words
  <2> QED
    BY <1>0, <2>1, <2>2, <2>3, AppendTwoAllCarry
<1>2. CASE SinkHandleM2Reply
  BY <1>2 DEF SinkHandleM2Reply
<1>3. CASE SinkHandleM3GetParameter
  BY <1>0, <1>3, <1>a, AppendAllCarry, Words DEF SinkHandleM3GetParameter
<1>4. CASE SinkHandleM4SetParameter
  <2>1. PICK code \in {200, 303} : toSource' = Append(toSource, ReplyTo(Head(toSink), code, Nothing))
    BY <1>4 DEF SinkHandleM4SetParameter, SinkReplies
  <2>2. SinkAccepts("SET_PARAMETER")
    BY <1>4 DEF SinkHandleM4SetParameter
  <2> QED
    BY <1>0, <1>a, <2>1, <2>2, AppendAllCarry, Words
<1>5. CASE SinkHandleM5Trigger
  <2>1. PICK trigger \in Trigger :
          /\ SinkObeys(trigger)
          /\ toSource' = toSource \o <<ReplyTo(Head(toSink), 200, Nothing),
                                       Request(trigger, sink_send_cseq, presentation_url)>>
    BY <1>5 DEF SinkHandleM5Trigger, SinkRequest
  <2>2. SinkAccepts("SET_PARAMETER")
    BY <1>5 DEF SinkHandleM5Trigger
  <2>3. sink_state >= RTSP_SESSION_ESTABLISHMENT
    <3>1. CASE trigger = "SETUP"
      BY <2>1, <3>1 DEF SinkObeys
    <3>2. CASE trigger = "PLAY"
      BY <2>1, <3>2 DEF SinkObeys
    <3>3. CASE trigger = "PAUSE"
      BY <2>1, <3>3 DEF SinkObeys
    <3>4. CASE trigger = "TEARDOWN"
      BY <2>1, <3>4 DEF SinkObeys
    <3> QED
      BY <3>1, <3>2, <3>3, <3>4 DEF Trigger
  <2>4. /\ ReplyTo(Head(toSink), 200, Nothing) \in Message
        /\ ReplyTo(Head(toSink), 200, Nothing).type \notin Trigger
    BY <1>a, <2>2, Words
  <2>5. /\ Request(trigger, sink_send_cseq, presentation_url) \in Message
        /\ Request(trigger, sink_send_cseq, presentation_url).content = url
    BY <1>b, <2>3, Words
  <2> QED
    BY <1>0, <2>1, <2>4, <2>5, AppendTwoAllCarry
<1>6. CASE SinkHandleM6SetupReply
  <2>1. sink_state = RTSP_SESSION_ESTABLISHMENT
    BY <1>6 DEF SinkHandleM6SetupReply
  <2>2. toSource' = toSource \/ toSource' = Append(toSource, SinkRequest("PLAY"))
    BY <1>6 DEF SinkHandleM6SetupReply
  <2>3. SinkRequest("PLAY") \in Message /\ SinkRequest("PLAY").content = url
    BY <1>b, <2>1, Words DEF SinkRequest
  <2> QED
    BY <1>0, <2>2, <2>3, AppendAllCarry
<1>7. CASE SinkHandleM7PlayReply \/ SinkHandleM8TeardownReply \/ SinkHandleM9PauseReply
  BY <1>7 DEF SinkHandleM7PlayReply, SinkHandleM8TeardownReply, SinkHandleM9PauseReply,
              SinkMovesOnReply
<1>8. CASE SinkIgnoresRequest \/ SinkIgnoresReply
  BY <1>8 DEF SinkIgnoresRequest, SinkIgnoresReply
<1>9. CASE SinkRefuses
  <2>1. Head(toSink) \in Message
    BY <1>9, ReadType DEF SinkRefuses, SinkType, ConnectionTypeOK
  <2>2. CASE toSource' = toSource
    BY <2>2
  <2>3. CASE Head(toSink).type # "REPLY" /\ SinkReplies(400)
    BY <1>0, <2>1, <2>3, ReplyIsNoTrigger, AppendAllCarry, Words DEF SinkReplies
  <2> QED
    BY <1>9, <2>2, <2>3 DEF SinkRefuses
<1> QED
  BY <1>1, <1>2, <1>3, <1>4, <1>5, <1>6, <1>7, <1>8, <1>9 DEF SinkGotMessage

\* The session is set with the state that needs it, and the URL with the state
\* that needs it but where the M4 names none; an M4 is only taken while the
\* sink waits for nothing.
LEMMA HandlerKeepsData ==
  ASSUME SinkType, SinkGotMessage
  PROVE  /\ (sink_state >= WFD_SESSION_ESTABLISHMENT => sink_session = Session)
              => (sink_state' >= WFD_SESSION_ESTABLISHMENT => sink_session' = Session)
         /\ UrlKnown => UrlKnown' \/ Head(toSink).content = NoUrl
         /\ UNCHANGED presentation_url
              \/ /\ sink_expected_reply = NoReply
                 /\ UNCHANGED sink_expected_reply
         /\ toSink # << >> /\ toSink' = Tail(toSink)
<1> USE DEF UrlKnown, NotSet, State, INIT, CAPABILITY_NEGOTIATION,
            RTSP_SESSION_ESTABLISHMENT, WFD_SESSION_ESTABLISHMENT, WFD_SESSION_PLAYING,
            WFD_SESSION_PAUSED
<1>0. sink_state \in State \cup {NotSet}
  BY DEF SinkType, SinkTypeOK
<1>a. ASSUME NEW type, SinkAccepts(type)
      PROVE  toSink # << >> /\ toSink' = Tail(toSink)
  BY <1>a, SinkAccepted
<1>1. CASE SinkHandleM1Options
  BY <1>1, <1>a DEF SinkHandleM1Options
<1>2. CASE SinkHandleM2Reply
  BY <1>2, <1>a DEF SinkHandleM2Reply
<1>3. CASE SinkHandleM3GetParameter
  BY <1>3, <1>a DEF SinkHandleM3GetParameter
<1>4. CASE SinkHandleM4SetParameter
  <2>1. sink_expected_reply = NoReply /\ UNCHANGED <<sink_expected_reply, sink_session>>
    BY <1>4, SinkAccepted DEF SinkHandleM4SetParameter
  <2>2. sink_state' \in {sink_state, RTSP_SESSION_ESTABLISHMENT}
    BY <1>4 DEF SinkHandleM4SetParameter
  <2>3. UrlKnown => UrlKnown' \/ Head(toSink).content = NoUrl
    BY <1>0, <1>4 DEF SinkHandleM4SetParameter, UrlOf
  <2> QED
    BY <1>4, <1>a, <2>1, <2>2, <2>3 DEF SinkHandleM4SetParameter
<1>5. CASE SinkHandleM5Trigger
  BY <1>5, <1>a DEF SinkHandleM5Trigger
<1>6. CASE SinkHandleM6SetupReply
  <2>1. sink_state = RTSP_SESSION_ESTABLISHMENT /\ UNCHANGED presentation_url
    BY <1>6 DEF SinkHandleM6SetupReply
  <2>2. sink_state' >= WFD_SESSION_ESTABLISHMENT => sink_session' = Session
    BY <1>6 DEF SinkHandleM6SetupReply
  <2> QED
    BY <1>6, <1>a, <2>1, <2>2 DEF SinkHandleM6SetupReply
<1>7. CASE SinkHandleM7PlayReply \/ SinkHandleM8TeardownReply \/ SinkHandleM9PauseReply
  <2>1. /\ sink_state >= WFD_SESSION_ESTABLISHMENT
        /\ UNCHANGED <<presentation_url, sink_session>>
        /\ SinkAccepts("REPLY")
    BY <1>7 DEF SinkHandleM7PlayReply, SinkHandleM8TeardownReply, SinkHandleM9PauseReply,
                SinkMovesOnReply
  <2> QED
    BY <1>0, <1>a, <2>1
<1>8. CASE SinkIgnoresRequest \/ SinkIgnoresReply
  BY <1>8, <1>a DEF SinkIgnoresRequest, SinkIgnoresReply
<1>9. CASE SinkRefuses
  BY <1>9 DEF SinkRefuses, sinkVars
<1> QED
  BY <1>1, <1>2, <1>3, <1>4, <1>5, <1>6, <1>7, <1>8, <1>9 DEF SinkGotMessage

\* An M4 without a URL is remembered.
NoUrlIsNamed == \A i \in 1 .. Len(toSink) : toSink[i].content = NoUrl => no_url_named

\* Inductive, together with the types, WaitOK and SideInOrder.
DataOK ==
  /\ NoUrlIsNamed
  /\ sink_state >= WFD_SESSION_ESTABLISHMENT => sink_session = Session
  /\ AllCarry(toSource, presentation_url)
  /\ ~no_url_named => UrlKnown /\ AllCarry(toSource, Url)

LEMMA HandlerKeepsDataOK ==
  ASSUME SinkType, peer_requests \in Nat, SideInOrder, DataOK, SinkGotMessage,
         UNCHANGED no_url_named
  PROVE  DataOK'
<1>0. toSink \in Seq(Message) /\ toSource \in Seq(Message)
  BY DEF SinkType, ConnectionTypeOK
<1>1. toSink # << >> /\ toSink' = Tail(toSink) /\ SinkType'
  BY HandlerKeepsData, SinkStepType
<1>2. NoUrlIsNamed'
  BY <1>0, <1>1 DEF DataOK, NoUrlIsNamed
<1>3. sink_state' >= WFD_SESSION_ESTABLISHMENT => sink_session' = Session
  BY HandlerKeepsData DEF DataOK
<1>4. AllCarry(toSource', presentation_url')
  <2>1. CASE UNCHANGED presentation_url
    BY <2>1, HandlerSendsUrl DEF DataOK
  <2>2. CASE sink_expected_reply = NoReply /\ UNCHANGED sink_expected_reply
    <3>1. SinkStep
      BY SinkSteps
    <3>2. PICK method \in Method : ExchangeInOrder(toSink, toSource, method, peer_requests)
      BY DEF SideInOrder
    <3>3. ExchangeInOrder(toSource', toSink', sink_expected_reply', sink_send_cseq')
      <4>1. sink_send_cseq \in Nat
        BY DEF SinkType, SinkTypeOK
      <4> QED
        BY <1>0, <3>1, <3>2, <4>1, StepKeepsOrder DEF SideInOrder, SinkStep
    <3>4. \A i \in 1 .. Len(toSource') : ~IsRequest(toSource'[i])
      BY <2>2, <3>3 DEF ExchangeInOrder
    <3> QED
      BY <1>1, <3>4, RepliesCarryAny DEF SinkType, ConnectionTypeOK
  <2> QED
    BY <2>1, <2>2, HandlerKeepsData
<1>5. ASSUME ~no_url_named
      PROVE  UrlKnown' /\ AllCarry(toSource', Url)
  <2>1. Head(toSink).content # NoUrl
    BY <1>0, <1>1, <1>5 DEF DataOK, NoUrlIsNamed
  <2>2. UrlKnown'
    BY <1>5, <2>1, HandlerKeepsData DEF DataOK
  <2>3. AllCarry(toSource', Url)
    BY <1>5, HandlerSendsUrl DEF DataOK, UrlKnown
  <2> QED
    BY <2>2, <2>3
<1> QED
  BY <1>2, <1>3, <1>4, <1>5 DEF DataOK

\* An M4 without a URL is remembered when it is sent.
LEMMA ForeignSourceKeepsNoUrl ==
  ASSUME SinkType, peer_requests \in Nat, NoUrlIsNamed,
         ForeignSourceAsks \/ ForeignSourceReads
  PROVE  NoUrlIsNamed' /\ (no_url_named => no_url_named')
<1>0. toSink \in Seq(Message) /\ toSource \in Seq(Message)
  BY DEF SinkType, ConnectionTypeOK
<1>1. CASE ForeignSourceAsks
  <2>1. PICK method \in Method, content \in Content :
          /\ toSink' = Append(toSink, Request(method, peer_requests, content))
          /\ no_url_named' = (no_url_named \/ content = NoUrl)
    BY <1>1, Words DEF ForeignSourceAsks
  <2>2. /\ Request(method, peer_requests, content) \in Message
        /\ Request(method, peer_requests, content).content = content
    BY AskedType DEF Request
  <2>3. no_url_named => no_url_named'
    BY <2>1
  <2> DEFINE m == Request(method, peer_requests, content)
  <2> HIDE DEF m
  <2>4. m.content = NoUrl => no_url_named'
    BY <2>1, <2>2 DEF m
  <2>5. toSink' = Append(toSink, m) /\ m \in Message
    BY <2>1, <2>2 DEF m
  <2>6. /\ Len(toSink') = Len(toSink) + 1
        /\ \A i \in 1 .. Len(toSink') : \/ i \in 1 .. Len(toSink) /\ toSink'[i] = toSink[i]
                                        \/ toSink'[i] = m
    BY <1>0, <2>5
  <2> QED
    BY <2>3, <2>4, <2>6 DEF NoUrlIsNamed
<1>2. CASE ForeignSourceReads
  <2>1. UNCHANGED no_url_named
    BY <1>2 DEF ForeignSourceReads
  <2>2. CASE UNCHANGED toSink
    BY <2>1, <2>2 DEF NoUrlIsNamed
  <2>3. ASSUME NEW code \in {0, 200, 303, 400}, NEW content \in {Nothing, Session},
               Head(toSource).type # "REPLY",
               toSink' = Append(toSink, ReplyTo(Head(toSource), code, content))
        PROVE  NoUrlIsNamed'
    <3>1. ReplyTo(Head(toSource), code, content) \in Message
      <4>1. Head(toSource) \in Message
        BY <1>0, <1>2, ReadType DEF ForeignSourceReads
      <4> QED
        BY <2>3, <4>1, ReplyType, Words
    <3>2. ReplyTo(Head(toSource), code, content).content # NoUrl
      BY <2>3 DEF ReplyTo, Nothing, Session, NoUrl
    <3> QED
      BY <1>0, <2>1, <2>3, <3>1, <3>2 DEF NoUrlIsNamed
  <2> QED
    BY <1>2, <2>1, <2>2, <2>3 DEF ForeignSourceReads
<1> QED
  BY <1>1, <1>2

LEMMA SinkStepKeepsData ==
  ASSUME SinkSideTypeOK, WaitOK, SideInOrder, DataOK, [SinkSideNext]_sinkSideVars
  PROVE  DataOK'
<1>0. /\ SinkType /\ peer_requests \in Nat
      /\ toSink \in Seq(Message) /\ toSource \in Seq(Message)
  BY ForeignPeerAssumption DEF SinkSideTypeOK, SinkType, ConnectionTypeOK, PeerTypeOK,
                               ForeignPeerAssumption
<1>1. CASE SinkOnConnected /\ UNCHANGED no_url_named
  BY <1>0, <1>1 DEF SinkOnConnected, SinkSetState, connection, DataOK, NoUrlIsNamed,
                    UrlKnown, INIT, RTSP_SESSION_ESTABLISHMENT, WFD_SESSION_ESTABLISHMENT
<1>2. CASE SinkGotMessage /\ UNCHANGED no_url_named
  BY <1>0, <1>2, HandlerKeepsDataOK
<1>3. CASE ForeignSourceAsks
  <2>1. NoUrlIsNamed' /\ (no_url_named => no_url_named')
    BY <1>0, <1>3, ForeignSourceKeepsNoUrl DEF DataOK
  <2>2. UNCHANGED <<toSource, sinkVars>>
    BY <1>3 DEF ForeignSourceAsks
  <2> QED
    BY <2>1, <2>2 DEF DataOK, UrlKnown, sinkVars
<1>4. CASE ForeignSourceReads
  <2>1. NoUrlIsNamed' /\ UNCHANGED no_url_named
    BY <1>0, <1>4, ForeignSourceKeepsNoUrl DEF DataOK, ForeignSourceReads
  <2>2. /\ toSource # << >> /\ toSource' = Tail(toSource)
        /\ UNCHANGED sinkVars
    BY <1>4 DEF ForeignSourceReads
  <2>3. /\ AllCarry(toSource', presentation_url)
        /\ ~no_url_named => AllCarry(toSource', Url)
    BY <1>0, <2>2, ReadAllCarry DEF DataOK
  <2> QED
    BY <2>1, <2>2, <2>3 DEF DataOK, UrlKnown, sinkVars
<1>5. ASSUME NEW command \in Command, SinkUser(command)
      PROVE  DataOK'
  <2>1. /\ sink_state >= WFD_SESSION_PLAYING
        /\ UNCHANGED <<toSink, sink_state, presentation_url, sink_session, no_url_named>>
    BY <1>5, UserKeepsWait DEF SinkUser, SinkCommand
  <2>2. sink_state >= RTSP_SESSION_ESTABLISHMENT
    <3>1. sink_state \in Int
      BY DEF SinkSideTypeOK, SinkTypeOK, State, NotSet, INIT, WFD_SESSION_PAUSED
    <3> QED
      BY <2>1, <3>1 DEF WFD_SESSION_PLAYING, RTSP_SESSION_ESTABLISHMENT
  <2>3. SinkRequest(command) \in Message /\ SinkRequest(command).content = presentation_url
    <3>1. presentation_url \in Content /\ sink_send_cseq \in Nat
      BY <1>0, Words DEF SinkType, SinkTypeOK
    <3> QED
      BY <3>1, AskedType, Words DEF SinkRequest, Request
  <2>4. ASSUME NEW url, AllCarry(toSource, url), presentation_url = url
        PROVE  AllCarry(toSource', url)
    BY <1>0, <1>5, <2>3, <2>4, AppendAllCarry DEF SinkUser, SinkCommand
  <2>5. ~no_url_named => AllCarry(toSource', Url)
    BY <2>2, <2>4 DEF DataOK, UrlKnown
  <2> QED
    BY <2>1, <2>4, <2>5 DEF DataOK, NoUrlIsNamed, UrlKnown
<1>6. CASE UNCHANGED sinkSideVars
  BY <1>6 DEF sinkSideVars, connection, sinkVars, DataOK, NoUrlIsNamed, UrlKnown
<1> QED
  BY <1>1, <1>2, <1>3, <1>4, <1>5, <1>6 DEF SinkSideNext, SinkRuns

LEMMA DataKept == SinkSideSpec => []DataOK
<1>1. SinkSideInit => DataOK
  BY DEF SinkSideInit, ConnectionInit, SinkInit, DataOK, NoUrlIsNamed, AllCarry, UrlKnown,
         NotSet, RTSP_SESSION_ESTABLISHMENT, WFD_SESSION_ESTABLISHMENT
<1>2. SinkSideTypeOK /\ WaitOK /\ SideInOrder /\ DataOK /\ [SinkSideNext]_sinkSideVars
        => DataOK'
  BY SinkStepKeepsData
<1> QED
  BY <1>1, <1>2, SinkSideTypes, WaitKept, SideStaysInOrder, PTL DEF SinkSideSpec

(***************************************************************************)
(* However the foreign source orders and garbles its requests, the sink    *)
(* never gets past the step that sets the session without one, a request   *)
(* for the session carries the URL that is still the sink's, and the sink  *)
(* lacks a URL, or sends a request line that does not parse, only where    *)
(* the source itself has named none.                                       *)
(***************************************************************************)
THEOREM SessionDataIsKnown == SinkSideSpec => []SessionDataKnown
<1>1. DataOK => SessionDataKnown
  <2> SUFFICES ASSUME DataOK
               PROVE  SessionDataKnown
    OBVIOUS
  <2>1. AllCarry(toSource, Url) => \A i \in 1 .. Len(toSource) : Parses(toSource[i])
    BY DEF AllCarry, Parses, Url, Nothing
  <2> QED
    BY <2>1 DEF DataOK, SessionDataKnown, AllCarry
<1> QED
  BY <1>1, DataKept, PTL

-----------------------------------------------------------------------------
(* Type correctness of the source's side.                                  *)

\* Whatever the foreign sink asks is a message, ...
LEMMA ForeignSinkAsksType ==
  ASSUME SourceType, peer_requests \in Nat, ForeignSinkAsks
  PROVE  SourceType'
<1> USE DEF SourceType, ConnectionTypeOK
<1>1. PICK method \in Method, content \in Content :
        toSource' = Append(toSource, Request(method, peer_requests + 1, content))
  BY Words DEF ForeignSinkAsks
<1>2. Request(method, peer_requests + 1, content) \in Message
  BY RequestType
<1>3. toSource' \in Seq(Message)
  BY <1>1, <1>2, AppendType
<1> QED
  BY <1>3 DEF ForeignSinkAsks, sourceVars, SourceTypeOK

\* ... and so is whatever it answers.
LEMMA ForeignSinkReadsType ==
  ASSUME SourceType, ForeignSinkReads
  PROVE  SourceType'
<1> USE DEF SourceType, ConnectionTypeOK
<1>1. Head(toSink) \in Message /\ toSink' \in Seq(Message)
  BY ReadType DEF ForeignSinkReads
<1>2. CASE Head(toSink).type = "REPLY"
  BY <1>1, <1>2 DEF ForeignSinkReads, sourceVars, SourceTypeOK
<1>3. CASE Head(toSink).type # "REPLY"
  <2>1. PICK code \in {0, 200, 303, 400}, content \in Content :
          toSource' = Append(toSource, ReplyTo(Head(toSink), code, content))
    BY <1>3, Words DEF ForeignSinkReads
  <2>2. ReplyTo(Head(toSink), code, content) \in Message
    BY <1>1, <1>3, ReplyType
  <2>3. toSource' \in Seq(Message)
    BY <2>1, <2>2, AppendType
  <2> QED
    BY <1>1, <2>3 DEF ForeignSinkReads, sourceVars, SourceTypeOK
<1> QED
  BY <1>2, <1>3

LEMMA SourceSideInitType ==
  ASSUME SourceSideInit
  PROVE  SourceSideTypeOK
<1>1. ConnectionTypeOK
  BY EmptyType DEF SourceSideInit, ConnectionInit, ConnectionTypeOK, PeerInit
<1>2. SourceTypeOK
  BY DEF SourceSideInit, SourceInit, SourceTypeOK, Pipeline, PeerInit
<1> QED
  BY <1>1, <1>2, ForeignPeerAssumption DEF SourceSideInit, SourceSideTypeOK,
                                           ForeignPeerAssumption, PeerTypeOK, PeerInit

LEMMA SourceSideStepType ==
  ASSUME SourceSideTypeOK, [SourceSideNext]_sourceSideVars
  PROVE  SourceSideTypeOK'
<1> USE ForeignPeerAssumption DEF ForeignPeerAssumption
<1>1. SourceType
  BY DEF SourceSideTypeOK, SourceType, PeerTypeOK
<1>2. CASE SourceRuns
  BY <1>1, <1>2, SourceStepType DEF SourceRuns, SourceSideTypeOK, SourceType,
                                    PeerTypeOK, peerVars
<1>3. CASE ForeignSinkAsks
  <2>1. SourceType'
    BY <1>1, <1>3, ForeignSinkAsksType DEF SourceSideTypeOK, PeerTypeOK
  <2> QED
    BY <1>3, <2>1 DEF ForeignSinkAsks, SourceSideTypeOK, SourceType, PeerTypeOK
<1>4. CASE ForeignSinkReads
  <2>1. SourceType'
    BY <1>1, <1>4, ForeignSinkReadsType
  <2> QED
    BY <1>4, <2>1 DEF ForeignSinkReads, SourceSideTypeOK, SourceType, PeerTypeOK
<1>5. ASSUME NEW command \in Command, SourceUser(command)
      PROVE  SourceSideTypeOK'
  <2>1. SourceType'
    BY <1>1, <1>5, SourceCommandType DEF SourceUser
  <2> QED
    BY <1>5, <2>1 DEF SourceUser, SourceSideTypeOK, SourceType, PeerTypeOK
<1>6. CASE UNCHANGED sourceSideVars
  BY <1>6 DEF sourceSideVars, connection, sourceVars, SourceSideTypeOK,
              ConnectionTypeOK, SourceTypeOK, PeerTypeOK, peerVars
<1> QED
  BY <1>2, <1>3, <1>4, <1>5, <1>6 DEF SourceSideNext

(***************************************************************************)
(* The source's variables and the connection keep their types, whatever    *)
(* the foreign sink sends.                                                 *)
(***************************************************************************)
THEOREM SourceSideTypes == SourceSideSpec => []SourceSideTypeOK
<1>1. SourceSideInit => SourceSideTypeOK
  BY SourceSideInitType
<1>2. SourceSideTypeOK /\ [SourceSideNext]_sourceSideVars => SourceSideTypeOK'
  BY SourceSideStepType
<1> QED
  BY <1>1, <1>2, PTL DEF SourceSideSpec

-----------------------------------------------------------------------------
(* The state fits what the source waits for, and the pipeline the state.   *)

\* on_connected sets the state.
SourceStateOnceConnected == ~source_connected => source_state = NotSet

\* Inductive, together with SourceSideTypeOK.
SourceOK == SourceStateOnceConnected /\ SourceReplyHasHandler /\ StreamFollowsSession

LEMMA HandlerKeepsSourceOK ==
  ASSUME SourceType, SourceOK, SourceGotMessage
  PROVE  SourceOK'
<1> USE DEF SourceOK, SourceStateOnceConnected, SourceReplyHasHandler, SourceHandlesReply,
            StreamFollowsSession, NotSet, INIT, CAPABILITY_NEGOTIATION,
            RTSP_SESSION_ESTABLISHMENT, WFD_SESSION_ESTABLISHMENT, WFD_SESSION_PLAYING,
            WFD_SESSION_PAUSED
<1>0. source_state \in Int
  BY DEF SourceType, SourceTypeOK, State
<1>a. ASSUME NEW type, SourceAccepts(type)
      PROVE  source_connected
  BY <1>a DEF SourceAccepts
<1>1. CASE SourceHandleM1Reply \/ SourceHandleM5Reply
  BY <1>1, <1>a DEF SourceHandleM1Reply, SourceHandleM5Reply
<1>2. CASE SourceHandleM2Options
  BY <1>2, <1>a DEF SourceHandleM2Options, SourceReadyToRequest
<1>3. CASE SourceHandleM3Reply
  BY <1>3, <1>a DEF SourceHandleM3Reply, SourceReadyToRequest
<1>4. CASE SourceHandleM4Reply
  BY <1>4, <1>a DEF SourceHandleM4Reply, SourceReadyToRequest
<1>5. CASE SourceHandleM6Setup
  <2>1. source_expected_reply = NoReply
    BY <1>5, SourceAccepted DEF SourceHandleM6Setup
  <2> QED
    BY <1>5, <1>a, <2>1 DEF SourceHandleM6Setup, SourceSetState
<1>6. ASSUME NEW method \in Command, NEW pipeline \in Pipeline \ {"none"}, NEW s \in State,
             SourceServes(method, pipeline, s),
             pipeline = "PLAYING" <=> s = WFD_SESSION_PLAYING
      PROVE  SourceOK'
  <2>1. source_expected_reply = NoReply
    BY <1>6, SourceAccepted DEF SourceServes, Command, Trigger
  <2> QED
    BY <1>6, <1>a, <2>1 DEF SourceServes, SourceSetState
<1>7. CASE SourceHandleM7Play
  BY <1>6, <1>7 DEF SourceHandleM7Play, Command, Trigger, Pipeline, State
<1>8. CASE SourceHandleM9Pause
  BY <1>6, <1>8 DEF SourceHandleM9Pause, Command, Trigger, Pipeline, State
<1>9. CASE SourceHandleM8Teardown
  BY <1>6, <1>9 DEF SourceHandleM8Teardown, Command, Trigger, Pipeline, State
<1>10. CASE SourceHasNoPipeline \/ SourceHandleParameter
            \/ SourceIgnoresRequest \/ SourceIgnoresReply
  BY <1>10 DEF SourceHasNoPipeline, SourceHandleParameter, SourceIgnoresRequest,
               SourceIgnoresReply
<1>11. CASE SourceRefuses
  BY <1>11 DEF SourceRefuses, sourceVars
<1> QED
  BY <1>1, <1>2, <1>3, <1>4, <1>5, <1>7, <1>8, <1>9, <1>10, <1>11 DEF SourceGotMessage

LEMMA StepKeepsSourceOK ==
  ASSUME SourceSideTypeOK, SourceOK, [SourceSideNext]_sourceSideVars
  PROVE  SourceOK'
<1>0. SourceType
  BY DEF SourceSideTypeOK, SourceType, PeerTypeOK
<1>1. CASE SourceOnConnected
  BY <1>1 DEF SourceOnConnected, SourceReadyToRequest, SourceOK, SourceStateOnceConnected,
              SourceReplyHasHandler, SourceHandlesReply, StreamFollowsSession, NotSet,
              CAPABILITY_NEGOTIATION, WFD_SESSION_ESTABLISHMENT, WFD_SESSION_PLAYING
<1>2. CASE SourceGotMessage
  BY <1>0, <1>2, HandlerKeepsSourceOK
<1>3. CASE ForeignSinkAsks \/ ForeignSinkReads \/ UNCHANGED sourceSideVars
  BY <1>3 DEF ForeignSinkAsks, ForeignSinkReads, sourceSideVars, sourceVars,
              SourceOK, SourceStateOnceConnected,
              SourceReplyHasHandler, SourceHandlesReply, StreamFollowsSession, peerVars
<1>4. ASSUME NEW command \in Command, SourceUser(command)
      PROVE  SourceOK'
  <2>1. source_state \in {WFD_SESSION_PLAYING, WFD_SESSION_PAUSED}
    <3>1. CASE command = "PLAY"
      BY <1>4, <3>1 DEF SourceUser
    <3>2. CASE command = "PAUSE"
      BY <1>4, <3>2 DEF SourceUser
    <3>3. CASE command = "TEARDOWN"
      BY <1>4, <3>3 DEF SourceUser
    <3> QED
      BY <3>1, <3>2, <3>3 DEF Command, Trigger
  <2>2. /\ source_expected_reply' = "SET_PARAMETER"
        /\ UNCHANGED <<source_connected, source_state, source_pipeline>>
    BY <1>4 DEF SourceUser, SourceCommand, SourceReadyToRequest
  <2> QED
    BY <2>1, <2>2 DEF SourceOK, SourceStateOnceConnected, SourceReplyHasHandler,
                      SourceHandlesReply, StreamFollowsSession, WFD_SESSION_PLAYING,
                      WFD_SESSION_PAUSED, RTSP_SESSION_ESTABLISHMENT
<1> QED
  BY <1>1, <1>2, <1>3, <1>4 DEF SourceSideNext, SourceRuns, peerVars

LEMMA SourceOKKept == SourceSideSpec => []SourceOK
<1>1. SourceSideInit => SourceOK
  BY DEF SourceSideInit, SourceInit, SourceOK, SourceStateOnceConnected,
         SourceReplyHasHandler,
         StreamFollowsSession, NotSet, WFD_SESSION_PLAYING, WFD_SESSION_ESTABLISHMENT, PeerInit
<1>2. SourceSideTypeOK /\ SourceOK /\ [SourceSideNext]_sourceSideVars => SourceOK'
  BY StepKeepsSourceOK
<1> QED
  BY <1>1, <1>2, SourceSideTypes, PTL DEF SourceSideSpec

(***************************************************************************)
(* A source that waits for a reply is in a state whose case of got_message *)
(* takes it, whatever the foreign sink asks and answers meanwhile.         *)
(***************************************************************************)
THEOREM SourceReplyIsTaken == SourceSideSpec => []SourceReplyHasHandler
<1>1. SourceOK => SourceReplyHasHandler
  BY DEF SourceOK
<1> QED
  BY <1>1, SourceOKKept, PTL

(***************************************************************************)
(* The pipeline plays exactly while the session does, through any order of *)
(* the foreign sink's SETUP, PLAY, PAUSE and TEARDOWN.                     *)
(***************************************************************************)
THEOREM StreamIsTheSession == SourceSideSpec => []StreamFollowsSession
<1>1. SourceOK => StreamFollowsSession
  BY DEF SourceOK
<1> QED
  BY <1>1, SourceOKKept, PTL

=============================================================================
