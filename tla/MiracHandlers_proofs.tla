------------------------ MODULE MiracHandlers_proofs ------------------------
(***************************************************************************)
(* What every handler of either program does, whoever the peer: it keeps   *)
(* the types, and is one of six steps of the program's exchange with its   *)
(* peer, each of which keeps the exchange in order.  The two programs      *)
(* treat their exchanges alike, so the argument is made once, for a        *)
(* program that reads from `in' and writes to `out', and then applied to   *)
(* each.                                                                   *)
(***************************************************************************)
EXTENDS MiracSink, MiracSource, SequenceTheorems, TLAPS

-----------------------------------------------------------------------------
(* Messages and queues.                                                    *)

\* The constructors of messages build messages.
LEMMA RequestType ==
  ASSUME NEW method \in Method, NEW cseq \in Nat, NEW content \in Content
  PROVE  Request(method, cseq, content) \in Message
BY DEF Request, Message, Method, NoReply

LEMMA ReplyType ==
  ASSUME NEW m \in Message, m.type # "REPLY", NEW code \in {0, 200, 303, 400},
         NEW content \in Content
  PROVE  ReplyTo(m, code, content) \in Message
BY DEF ReplyTo, Message

\* Nothing in a queue, reading one and writing to one.
LEMMA EmptyType == << >> \in Seq(Message)
OBVIOUS

LEMMA ReadType ==
  ASSUME NEW queue \in Seq(Message), queue # << >>
  PROVE  /\ Head(queue) \in Message
         /\ Tail(queue) \in Seq(Message)
OBVIOUS

LEMMA AppendType ==
  ASSUME NEW queue \in Seq(Message), NEW m \in Message
  PROVE  Append(queue, m) \in Seq(Message)
OBVIOUS

LEMMA AppendTwoType ==
  ASSUME NEW queue \in Seq(Message), NEW m \in Message, NEW n \in Message
  PROVE  queue \o <<m, n>> \in Seq(Message)
OBVIOUS

\* receive_cseq_ stays a natural number.
LEMMA ReceiveCSeqType ==
  ASSUME NEW m \in Message, NEW receive_cseq \in Nat
  PROVE  NextReceiveCSeq(m, receive_cseq) \in Nat
BY DEF NextReceiveCSeq, Message

-----------------------------------------------------------------------------
(* Type correctness.                                                       *)

SinkType == ConnectionTypeOK /\ SinkTypeOK
SourceType == ConnectionTypeOK /\ SourceTypeOK

\* What reading a message leaves of the types.
LEMMA SinkAcceptsType ==
  ASSUME SinkType, NEW type, SinkAccepts(type)
  PROVE  /\ Head(toSink) \in Message
         /\ Head(toSink).type = type
         /\ toSink' \in Seq(Message)
         /\ sink_receive_cseq' \in Nat
BY ReadType, ReceiveCSeqType DEF SinkType, ConnectionTypeOK, SinkTypeOK, SinkAccepts

\* Every handler of the sink keeps the types.
LEMMA SinkStepType ==
  ASSUME SinkType, SinkOnConnected \/ SinkGotMessage
  PROVE  SinkType'
<1> USE DEF SinkType, ConnectionTypeOK, SinkTypeOK, State, Method, NoReply, Content,
            Trigger, NotSet, INIT, CAPABILITY_NEGOTIATION, RTSP_SESSION_ESTABLISHMENT,
            WFD_SESSION_ESTABLISHMENT, WFD_SESSION_PLAYING, WFD_SESSION_PAUSED
<1>1. CASE SinkOnConnected
  BY <1>1 DEF SinkOnConnected, SinkSetState, connection
<1>2. CASE SinkHandleM1Options
  <2>1. SinkAccepts("OPTIONS")
    BY <1>2 DEF SinkHandleM1Options
  <2>2. ReplyTo(Head(toSink), 200, Nothing) \in Message
    BY <2>1, SinkAcceptsType, ReplyType
  <2>3. Request("OPTIONS", sink_send_cseq, Nothing) \in Message
    BY RequestType
  <2>4. toSource' \in Seq(Message)
    BY <1>2, <2>2, <2>3, AppendTwoType DEF SinkHandleM1Options
  <2> QED
    BY <1>2, <2>1, <2>4, SinkAcceptsType DEF SinkHandleM1Options, SinkReadyToRequest
<1>3. CASE SinkHandleM2Reply
  <2>1. SinkAccepts("REPLY")
    BY <1>3 DEF SinkHandleM2Reply
  <2> QED
    BY <1>3, <2>1, SinkAcceptsType DEF SinkHandleM2Reply
<1>4. CASE SinkHandleM3GetParameter
  <2>1. SinkAccepts("GET_PARAMETER")
    BY <1>4 DEF SinkHandleM3GetParameter
  <2>2. ReplyTo(Head(toSink), 200, Ports) \in Message
    BY <2>1, SinkAcceptsType, ReplyType
  <2> QED
    BY <1>4, <2>1, <2>2, SinkAcceptsType, AppendType DEF SinkHandleM3GetParameter
<1>5. CASE SinkHandleM4SetParameter
  <2>1. SinkAccepts("SET_PARAMETER")
    BY <1>5 DEF SinkHandleM4SetParameter
  <2>2. \A code \in {200, 303} : ReplyTo(Head(toSink), code, Nothing) \in Message
    BY <2>1, SinkAcceptsType, ReplyType
  <2>3. toSource' \in Seq(Message)
    BY <1>5, <2>2, AppendType DEF SinkHandleM4SetParameter, SinkReplies
  <2> QED
    BY <1>5, <2>1, <2>3, SinkAcceptsType DEF SinkHandleM4SetParameter, UrlOf
<1>6. CASE SinkHandleM5Trigger
  <2>1. SinkAccepts("SET_PARAMETER")
    BY <1>6 DEF SinkHandleM5Trigger
  <2>2. ReplyTo(Head(toSink), 200, Nothing) \in Message
    BY <2>1, SinkAcceptsType, ReplyType
  <2>3. Head(toSink).content \in Trigger
    BY <1>6 DEF SinkHandleM5Trigger
  <2>4. SinkRequest(Head(toSink).content) \in Message
    BY <2>3, RequestType DEF SinkRequest
  <2>5. toSource' \in Seq(Message)
    BY <1>6, <2>2, <2>4, AppendTwoType DEF SinkHandleM5Trigger
  <2> QED
    BY <1>6, <2>1, <2>3, <2>5, SinkAcceptsType DEF SinkHandleM5Trigger, SinkReadyToRequest
<1>7. CASE SinkHandleM6SetupReply
  <2>1. SinkAccepts("REPLY")
    BY <1>7 DEF SinkHandleM6SetupReply
  <2>2. SinkRequest("PLAY") \in Message
    BY RequestType DEF SinkRequest
  <2>3. toSource' \in {toSource, Append(toSource, SinkRequest("PLAY"))}
    BY <1>7 DEF SinkHandleM6SetupReply
  <2>4. toSource' \in Seq(Message)
    BY <2>2, <2>3, AppendType
  <2> QED
    BY <1>7, <2>1, <2>4, SinkAcceptsType DEF SinkHandleM6SetupReply, SinkReadyToRequest
<1>8. CASE SinkHandleM7PlayReply \/ SinkHandleM8TeardownReply \/ SinkHandleM9PauseReply
  <2>1. SinkAccepts("REPLY")
    BY <1>8 DEF SinkHandleM7PlayReply, SinkHandleM8TeardownReply, SinkHandleM9PauseReply
  <2>2. PICK s \in State : SinkMovesOnReply(s)
    BY <1>8 DEF SinkHandleM7PlayReply, SinkHandleM8TeardownReply, SinkHandleM9PauseReply
  <2> QED
    BY <2>1, <2>2, SinkAcceptsType DEF SinkMovesOnReply, SinkSetState
<1>9. CASE SinkIgnoresRequest \/ SinkIgnoresReply
  <2>1. PICK type : SinkAccepts(type)
    BY <1>9 DEF SinkIgnoresRequest, SinkIgnoresReply
  <2> QED
    BY <1>9, <2>1, SinkAcceptsType DEF SinkIgnoresRequest, SinkIgnoresReply
<1>10. CASE SinkRefuses
  <2>1. /\ Head(toSink) \in Message
        /\ Tail(toSink) \in Seq(Message)
    BY <1>10, ReadType DEF SinkRefuses
  <2>2. Head(toSink).type # "REPLY" => ReplyTo(Head(toSink), 400, Nothing) \in Message
    BY <2>1, ReplyType
  <2>3. toSource' \in Seq(Message)
    BY <1>10, <2>2, AppendType DEF SinkRefuses, SinkReplies
  <2> QED
    BY <1>10, <2>1, <2>3 DEF SinkRefuses, sinkVars
<1> QED
  BY <1>1, <1>2, <1>3, <1>4, <1>5, <1>6, <1>7, <1>8, <1>9, <1>10 DEF SinkGotMessage

\* What reading a message leaves of the types.
LEMMA SourceAcceptsType ==
  ASSUME SourceType, NEW type, SourceAccepts(type)
  PROVE  /\ Head(toSource) \in Message
         /\ Head(toSource).type = type
         /\ toSource' \in Seq(Message)
         /\ source_receive_cseq' \in Nat
BY ReadType, ReceiveCSeqType DEF SourceType, ConnectionTypeOK, SourceTypeOK, SourceAccepts

\* Every handler of the source keeps the types.
LEMMA SourceStepType ==
  ASSUME SourceType, SourceOnConnected \/ SourceGotMessage
  PROVE  SourceType'
<1> USE DEF SourceType, ConnectionTypeOK, SourceTypeOK, State, Method, NoReply, Content,
            Trigger, Pipeline, NotSet, INIT, CAPABILITY_NEGOTIATION,
            RTSP_SESSION_ESTABLISHMENT, WFD_SESSION_ESTABLISHMENT,
            WFD_SESSION_PLAYING, WFD_SESSION_PAUSED
<1>1. CASE SourceOnConnected
  <2>1. Request("OPTIONS", source_send_cseq, Nothing) \in Message
    BY RequestType
  <2> QED
    BY <1>1, <2>1, AppendType DEF SourceOnConnected, SourceReadyToRequest
<1>2. CASE SourceHandleM1Reply \/ SourceHandleM5Reply
  <2>1. SourceAccepts("REPLY")
    BY <1>2 DEF SourceHandleM1Reply, SourceHandleM5Reply
  <2> QED
    BY <1>2, <2>1, SourceAcceptsType DEF SourceHandleM1Reply, SourceHandleM5Reply
<1>3. CASE SourceHandleM2Options
  <2>1. SourceAccepts("OPTIONS")
    BY <1>3 DEF SourceHandleM2Options
  <2>2. ReplyTo(Head(toSource), 200, Nothing) \in Message
    BY <2>1, SourceAcceptsType, ReplyType
  <2>3. Request("GET_PARAMETER", source_send_cseq, Nothing) \in Message
    BY RequestType
  <2>4. toSink' \in Seq(Message)
    BY <1>3, <2>2, <2>3, AppendTwoType DEF SourceHandleM2Options
  <2> QED
    BY <1>3, <2>1, <2>4, SourceAcceptsType DEF SourceHandleM2Options, SourceReadyToRequest
<1>4. CASE SourceHandleM3Reply
  <2>1. SourceAccepts("REPLY")
    BY <1>4 DEF SourceHandleM3Reply
  <2>2. Request("SET_PARAMETER", source_send_cseq, Url) \in Message
    BY RequestType
  <2>3. toSink' \in {toSink, Append(toSink, Request("SET_PARAMETER", source_send_cseq, Url))}
    BY <1>4 DEF SourceHandleM3Reply
  <2>4. toSink' \in Seq(Message)
    BY <2>2, <2>3, AppendType
  <2> QED
    BY <1>4, <2>1, <2>4, SourceAcceptsType DEF SourceHandleM3Reply, SourceReadyToRequest
<1>5. CASE SourceHandleM4Reply
  <2>1. SourceAccepts("REPLY")
    BY <1>5 DEF SourceHandleM4Reply
  <2>2. SourceTriggerRequest("SETUP") \in Message
    BY RequestType DEF SourceTriggerRequest
  <2>3. toSink' \in {toSink, Append(toSink, SourceTriggerRequest("SETUP"))}
    BY <1>5 DEF SourceHandleM4Reply
  <2>4. toSink' \in Seq(Message)
    BY <2>2, <2>3, AppendType
  <2> QED
    BY <1>5, <2>1, <2>4, SourceAcceptsType DEF SourceHandleM4Reply, SourceReadyToRequest
<1>6. CASE SourceHandleM6Setup
  <2>1. SourceAccepts("SETUP")
    BY <1>6 DEF SourceHandleM6Setup
  <2>2. ReplyTo(Head(toSource), 200, Session) \in Message
    BY <2>1, SourceAcceptsType, ReplyType
  <2>3. toSink' \in Seq(Message)
    BY <1>6, <2>2, AppendType DEF SourceHandleM6Setup, SourceReplies
  <2> QED
    BY <1>6, <2>1, <2>3, SourceAcceptsType DEF SourceHandleM6Setup, SourceSetState
<1>7. CASE SourceHandleM7Play \/ SourceHandleM9Pause \/ SourceHandleM8Teardown
  <2>1. PICK method \in Command, pipeline \in Pipeline, s \in State :
          SourceServes(method, pipeline, s)
    BY <1>7 DEF SourceHandleM7Play, SourceHandleM9Pause, SourceHandleM8Teardown, Command
  <2>2. SourceAccepts(method) /\ method # "REPLY"
    BY <2>1 DEF SourceServes, Command
  <2>3. ReplyTo(Head(toSource), 200, Nothing) \in Message
    BY <2>2, SourceAcceptsType, ReplyType
  <2>4. toSink' \in Seq(Message)
    BY <2>1, <2>3, AppendType DEF SourceServes, SourceReplies
  <2> QED
    BY <2>1, <2>2, <2>4, SourceAcceptsType DEF SourceServes, SourceSetState
<1>8. CASE SourceHasNoPipeline \/ SourceIgnoresRequest \/ SourceIgnoresReply
  <2>1. PICK type : SourceAccepts(type)
    BY <1>8 DEF SourceHasNoPipeline, SourceIgnoresRequest, SourceIgnoresReply
  <2> QED
    BY <1>8, <2>1, SourceAcceptsType
       DEF SourceHasNoPipeline, SourceIgnoresRequest, SourceIgnoresReply
<1>9. CASE SourceHandleParameter
  <2>1. PICK type : SourceAccepts(type) /\ type # "REPLY"
    BY <1>9 DEF SourceHandleParameter
  <2>2. ReplyTo(Head(toSource), 200, Nothing) \in Message
    BY <2>1, SourceAcceptsType, ReplyType
  <2>3. toSink' \in Seq(Message)
    BY <1>9, <2>2, AppendType DEF SourceHandleParameter, SourceReplies
  <2> QED
    BY <1>9, <2>1, <2>3, SourceAcceptsType DEF SourceHandleParameter
<1>10. CASE SourceRefuses
  <2>1. /\ Head(toSource) \in Message
        /\ Tail(toSource) \in Seq(Message)
    BY <1>10, ReadType DEF SourceRefuses
  <2>2. Head(toSource).type # "REPLY" => ReplyTo(Head(toSource), 400, Nothing) \in Message
    BY <2>1, ReplyType
  <2>3. toSink' \in Seq(Message)
    BY <1>10, <2>2, AppendType DEF SourceRefuses, SourceReplies
  <2> QED
    BY <1>10, <2>1, <2>3 DEF SourceRefuses, sourceVars
<1> QED
  BY <1>1, <1>2, <1>3, <1>4, <1>5, <1>6, <1>7, <1>8, <1>9, <1>10 DEF SourceGotMessage

\* A command at the sink keeps the types.
LEMMA SinkCommandType ==
  ASSUME SinkType, NEW command \in Command, SinkCommand(command)
  PROVE  SinkType'
<1> USE DEF SinkType, ConnectionTypeOK, SinkTypeOK
<1>1. command \in Method /\ SinkRequest(command) \in Message
  BY RequestType DEF SinkRequest, Command, Trigger, Method, Content
<1>2. toSource' \in Seq(Message)
  BY <1>1, AppendType DEF SinkCommand
<1> QED
  BY <1>1, <1>2 DEF SinkCommand, SinkReadyToRequest

\* A command at the source keeps the types.
LEMMA SourceCommandType ==
  ASSUME SourceType, NEW command \in Command, SourceCommand(command)
  PROVE  SourceType'
<1> USE DEF SourceType, ConnectionTypeOK, SourceTypeOK
<1>1. SourceTriggerRequest(command) \in Message
  BY RequestType DEF SourceTriggerRequest, Command, Trigger, Method, Content
<1>2. toSink' \in Seq(Message)
  BY <1>1, AppendType DEF SourceCommand
<1> QED
  BY <1>1, <1>2 DEF SourceCommand, SourceReadyToRequest, Method

-----------------------------------------------------------------------------
(* What reading and writing do to the order of an exchange.                *)

\* The messages of a queue have numbers for CSeqs.
LEMMA CSeqType ==
  ASSUME NEW queue \in Seq(Message)
  PROVE  \A i \in 1 .. Len(queue) : queue[i].cseq \in Nat
<1>1. \A i \in 1 .. Len(queue) : queue[i] \in Message
  OBVIOUS
<1> QED
  BY <1>1 DEF Message

\* The peer reads a message without answering it.
LEMMA DropFromRequests ==
  ASSUME NEW requests \in Seq(Message), NEW replies \in Seq(Message), requests # << >>,
         NEW e, NEW s \in Nat, ExchangeInOrder(requests, replies, e, s)
  PROVE  ExchangeInOrder(Tail(requests), replies, e, s)
<1> DEFINE rest == Tail(requests)
<1>1. /\ Len(rest) = Len(requests) - 1
      /\ \A i \in 1 .. Len(rest) : rest[i] = requests[i + 1] /\ i + 1 \in 1 .. Len(requests)
  OBVIOUS
<1> HIDE DEF rest
<1>2. Len(rest) \in Nat /\ Len(requests) \in Nat
  BY DEF rest
<1> QED
  BY <1>1, <1>2 DEF ExchangeInOrder, rest

\* The program reads a message that is no reply, or drops one.
LEMMA DropFromReplies ==
  ASSUME NEW requests \in Seq(Message), NEW replies \in Seq(Message), replies # << >>,
         NEW e, NEW s \in Nat, ExchangeInOrder(requests, replies, e, s)
  PROVE  ExchangeInOrder(requests, Tail(replies), e, s)
<1> DEFINE rest == Tail(replies)
<1>1. /\ Len(rest) = Len(replies) - 1
      /\ \A i \in 1 .. Len(rest) : rest[i] = replies[i + 1] /\ i + 1 \in 1 .. Len(replies)
  OBVIOUS
<1> HIDE DEF rest
<1>2. Len(rest) \in Nat /\ Len(replies) \in Nat
  BY DEF rest
<1> QED
  BY <1>1, <1>2 DEF ExchangeInOrder, rest

\* The program sends a reply to the peer: it is no request of its own.
LEMMA ReplyAmongRequests ==
  ASSUME NEW requests \in Seq(Message), NEW replies \in Seq(Message),
         NEW m \in Message, ~IsRequest(m),
         NEW e, NEW s \in Nat, ExchangeInOrder(requests, replies, e, s)
  PROVE  ExchangeInOrder(Append(requests, m), replies, e, s)
<1> DEFINE all == Append(requests, m)
<1>1. /\ Len(all) = Len(requests) + 1
      /\ \A i \in 1 .. Len(all) : \/ i \in 1 .. Len(requests) /\ all[i] = requests[i]
                                  \/ ~IsRequest(all[i])
  OBVIOUS
<1> HIDE DEF all
<1> QED
  BY <1>1 DEF ExchangeInOrder, all

\* The peer sends a request of its own: it is no reply.
LEMMA RequestAmongReplies ==
  ASSUME NEW requests \in Seq(Message), NEW replies \in Seq(Message),
         NEW m \in Message, IsRequest(m),
         NEW e, NEW s \in Nat, ExchangeInOrder(requests, replies, e, s)
  PROVE  ExchangeInOrder(requests, Append(replies, m), e, s)
<1> DEFINE all == Append(replies, m)
<1>1. /\ Len(all) = Len(replies) + 1
      /\ \A i \in 1 .. Len(all) : \/ i \in 1 .. Len(replies) /\ all[i] = replies[i]
                                  \/ IsRequest(all[i])
  OBVIOUS
<1> HIDE DEF all
<1> QED
  BY <1>1 DEF ExchangeInOrder, all

\* The program sends a request with a fresh CSeq and expects its reply.
LEMMA Ask ==
  ASSUME NEW requests \in Seq(Message), NEW replies \in Seq(Message),
         NEW method \in Method, NEW content \in Content,
         NEW e, NEW s \in Nat, ExchangeInOrder(requests, replies, e, s)
  PROVE  ExchangeInOrder(Append(requests, Request(method, s, content)), replies,
                         method, s + 1)
<1> DEFINE m == Request(method, s, content)
           all == Append(requests, m)
<1>1. m \in Message /\ m.cseq = s /\ m.type = method /\ method # NoReply
  BY RequestType DEF Request, Method, NoReply
<1> HIDE DEF m
<1>2. /\ Len(all) = Len(requests) + 1
      /\ \A i \in 1 .. Len(all) :
           \/ i \in 1 .. Len(requests) /\ all[i] = requests[i]
           \/ i = Len(requests) + 1 /\ all[i] = m
  BY <1>1
<1>3. \A i \in 1 .. Len(requests) : requests[i].cseq \in Nat
  BY CSeqType
<1>4. \A i \in 1 .. Len(replies) : replies[i].cseq \in Nat
  BY CSeqType
<1> HIDE DEF all
<1> QED
  BY <1>1, <1>2, <1>3, <1>4 DEF ExchangeInOrder, all, m

\* The peer answers the oldest request.
LEMMA Serve ==
  ASSUME NEW requests \in Seq(Message), NEW replies \in Seq(Message), requests # << >>,
         IsRequest(Head(requests)), NEW code \in {0, 200, 303, 400}, NEW content \in Content,
         NEW e, NEW s \in Nat, ExchangeInOrder(requests, replies, e, s)
  PROVE  ExchangeInOrder(Tail(requests),
                         Append(replies, ReplyTo(Head(requests), code, content)), e, s)
<1> DEFINE rest == Tail(requests)
           m == ReplyTo(Head(requests), code, content)
           all == Append(replies, m)
<1>1. /\ Len(rest) = Len(requests) - 1
      /\ \A i \in 1 .. Len(rest) : rest[i] = requests[i + 1] /\ i + 1 \in 1 .. Len(requests)
      /\ 1 \in 1 .. Len(requests) /\ Head(requests) = requests[1]
      /\ Len(requests) \in Nat /\ Len(rest) \in Nat
  OBVIOUS
<1>2. /\ m.cseq = requests[1].cseq /\ m.answers = requests[1].type /\ m.type = "REPLY"
      /\ m \in Message
  BY <1>1, ReplyType DEF ReplyTo, IsRequest
<1> HIDE DEF m
<1>3. /\ Len(all) = Len(replies) + 1
      /\ \A i \in 1 .. Len(all) :
           \/ i \in 1 .. Len(replies) /\ all[i] = replies[i]
           \/ i = Len(replies) + 1 /\ all[i] = m
  BY <1>2
<1> HIDE DEF rest, all
<1>4. ASSUME NEW i \in 1 .. Len(rest), IsRequest(rest[i])
      PROVE  /\ e # NoReply /\ rest[i].cseq < s
             /\ rest[i].cseq = s - 1 => rest[i].type = e
             /\ requests[1].cseq < rest[i].cseq
  <2>1. /\ rest[i] = requests[i + 1] /\ i + 1 \in 1 .. Len(requests)
        /\ 1 \in 1 .. Len(requests) /\ 1 < i + 1
        /\ IsRequest(requests[1]) /\ IsRequest(requests[i + 1])
    BY <1>1, <1>4
  <2>2. /\ e # NoReply /\ requests[i + 1].cseq < s
        /\ requests[i + 1].cseq = s - 1 => requests[i + 1].type = e
    BY <2>1 DEF ExchangeInOrder
  <2>3. requests[1].cseq < requests[i + 1].cseq
    BY <2>1, Zenon DEF ExchangeInOrder
  <2> QED BY <2>1, <2>2, <2>3
<1>5. ASSUME NEW j \in 1 .. Len(all), ~IsRequest(all[j])
      PROVE  /\ e # NoReply /\ all[j].cseq < s
             /\ all[j].cseq = s - 1 => all[j].answers = e
             /\ \A i \in 1 .. Len(rest) : IsRequest(rest[i]) => all[j].cseq < rest[i].cseq
  <2>1. CASE j \in 1 .. Len(replies) /\ all[j] = replies[j]
    BY <1>1, <1>5, <2>1 DEF ExchangeInOrder
  <2>2. CASE all[j] = m
    BY <1>1, <1>2, <1>4, <2>2 DEF ExchangeInOrder
  <2> QED
    BY <1>3, <2>1, <2>2
<1>6. ASSUME NEW i \in 1 .. Len(rest), NEW k \in 1 .. Len(rest), i < k,
             IsRequest(rest[i]), IsRequest(rest[k])
      PROVE  rest[i].cseq < rest[k].cseq
  BY <1>1, <1>6 DEF ExchangeInOrder
<1>7. ASSUME NEW j \in 1 .. Len(all), NEW k \in 1 .. Len(all), j < k,
             ~IsRequest(all[j]), ~IsRequest(all[k])
      PROVE  all[j].cseq < all[k].cseq
  <2>1. j \in 1 .. Len(replies) /\ all[j] = replies[j]
    BY <1>3, <1>7
  <2>2. CASE k \in 1 .. Len(replies) /\ all[k] = replies[k]
    BY <1>7, <2>1, <2>2 DEF ExchangeInOrder
  <2>3. CASE all[k] = m
    BY <1>1, <1>2, <1>7, <2>1, <2>3 DEF ExchangeInOrder
  <2> QED
    BY <1>3, <2>2, <2>3
<1>8. ExchangeInOrder(rest, all, e, s)
  BY <1>4, <1>5, <1>6, <1>7 DEF ExchangeInOrder
<1> QED
  BY <1>8 DEF all, rest, m

\* The program takes the reply to its last request: the exchange is over, and
\* nothing it sent before is still under way.
LEMMA Take ==
  ASSUME NEW requests \in Seq(Message), NEW replies \in Seq(Message), replies # << >>,
         ~IsRequest(Head(replies)),
         NEW e, NEW s \in Nat, ExchangeInOrder(requests, replies, e, s),
         Head(replies).cseq = s - 1
  PROVE  /\ \A i \in 1 .. Len(requests) : ~IsRequest(requests[i])
         /\ \A i \in 1 .. Len(Tail(replies)) : IsRequest(Tail(replies)[i])
<1>1. /\ \A i \in 1 .. Len(Tail(replies)) :
           /\ Tail(replies)[i] = replies[i + 1]
           /\ i + 1 \in 1 .. Len(replies)
           /\ 1 < i + 1
      /\ 1 \in 1 .. Len(replies) /\ Head(replies) = replies[1]
  OBVIOUS
<1>2. /\ \A i \in 1 .. Len(requests) : requests[i].cseq \in Nat
      /\ \A i \in 1 .. Len(replies) : replies[i].cseq \in Nat
  BY CSeqType
<1>3. ASSUME NEW i \in 1 .. Len(requests), IsRequest(requests[i])
      PROVE  FALSE
  BY <1>1, <1>2, <1>3 DEF ExchangeInOrder
<1>4. ASSUME NEW i \in 1 .. Len(Tail(replies)), ~IsRequest(Tail(replies)[i])
      PROVE  FALSE
  BY <1>1, <1>2, <1>4 DEF ExchangeInOrder
<1> QED
  BY <1>3, <1>4

\* Where nothing is under way, any expectation is in order.
LEMMA NothingUnderWay ==
  ASSUME NEW requests \in Seq(Message), NEW replies \in Seq(Message),
         \A i \in 1 .. Len(requests) : ~IsRequest(requests[i]),
         \A j \in 1 .. Len(replies) : IsRequest(replies[j]),
         NEW e, NEW s
  PROVE  ExchangeInOrder(requests, replies, e, s)
BY DEF ExchangeInOrder
-----------------------------------------------------------------------------
(* The steps of a program that reads `in' and writes `out', expecting the  *)
(* reply e and about to give out the CSeq s.                               *)

\* It reads a message and does nothing about it.
Drops(in, out, e, s, in1, out1, e1, s1) ==
  in # << >> /\ in1 = Tail(in) /\ out1 = out /\ e1 = e /\ s1 = s

\* It answers a request.
Answers(in, out, e, s, in1, out1, e1, s1) ==
  /\ in # << >> /\ in1 = Tail(in)
  /\ IsRequest(Head(in))
  /\ \E code \in {0, 200, 303, 400}, content \in Content :
       out1 = Append(out, ReplyTo(Head(in), code, content))
  /\ e = NoReply \/ (e1 = e /\ s1 = s)

\* It answers a request and asks something itself.
AnswersAndAsks(in, out, e, s, in1, out1, e1, s1) ==
  /\ in # << >> /\ in1 = Tail(in)
  /\ IsRequest(Head(in)) /\ e = NoReply
  /\ \E code \in {0, 200, 303, 400}, content \in Content, asked \in Content :
       out1 = Append(Append(out, ReplyTo(Head(in), code, content)), Request(e1, s, asked))
  /\ e1 \in Method /\ s1 = s + 1

\* It takes the reply to its last request.
Takes(in, out, e, s, in1, out1, e1, s1) ==
  /\ in # << >> /\ in1 = Tail(in)
  /\ ~IsRequest(Head(in)) /\ Head(in).cseq = s - 1
  /\ out1 = out

\* It takes the reply to its last request and asks again.
TakesAndAsks(in, out, e, s, in1, out1, e1, s1) ==
  /\ in # << >> /\ in1 = Tail(in)
  /\ ~IsRequest(Head(in)) /\ Head(in).cseq = s - 1
  /\ \E asked \in Content : out1 = Append(out, Request(e1, s, asked))
  /\ e1 \in Method /\ s1 = s + 1

\* It asks of its own accord.
Asks(in, out, e, s, in1, out1, e1, s1) ==
  /\ in1 = in
  /\ \E asked \in Content : out1 = Append(out, Request(e1, s, asked))
  /\ e1 \in Method /\ s1 = s + 1

ExchangeStep(in, out, e, s, in1, out1, e1, s1) ==
  \/ Drops(in, out, e, s, in1, out1, e1, s1)
  \/ Answers(in, out, e, s, in1, out1, e1, s1)
  \/ AnswersAndAsks(in, out, e, s, in1, out1, e1, s1)
  \/ Takes(in, out, e, s, in1, out1, e1, s1)
  \/ TakesAndAsks(in, out, e, s, in1, out1, e1, s1)
  \/ Asks(in, out, e, s, in1, out1, e1, s1)

\* A request is a message and a request.
LEMMA AskedType ==
  ASSUME NEW method \in Method, NEW cseq \in Nat, NEW content \in Content
  PROVE  /\ Request(method, cseq, content) \in Message
         /\ IsRequest(Request(method, cseq, content))
BY RequestType DEF Request, IsRequest, Method

\* A reply is a message and no request.
LEMMA AnswerType ==
  ASSUME NEW m \in Message, IsRequest(m), NEW code \in {0, 200, 303, 400},
         NEW content \in Content
  PROVE  /\ ReplyTo(m, code, content) \in Message
         /\ ~IsRequest(ReplyTo(m, code, content))
BY ReplyType DEF ReplyTo, IsRequest

\* Each of them keeps the program's own exchange and its peer's in order.
LEMMA StepKeepsOrder ==
  ASSUME NEW in \in Seq(Message), NEW out \in Seq(Message), NEW e, NEW s \in Nat,
         NEW e2, NEW s2 \in Nat,
         ExchangeInOrder(out, in, e, s),
         ExchangeInOrder(in, out, e2, s2)
  PROVE  \A in1, out1, e1, s1 :
           ExchangeStep(in, out, e, s, in1, out1, e1, s1)
             => ExchangeInOrder(out1, in1, e1, s1) /\ ExchangeInOrder(in1, out1, e2, s2)
<1> TAKE in1, out1, e1, s1
<1> HAVE ExchangeStep(in, out, e, s, in1, out1, e1, s1)
<1>0. in # << >> => Head(in) \in Message /\ Tail(in) \in Seq(Message)
  OBVIOUS
<1>1. CASE Drops(in, out, e, s, in1, out1, e1, s1)
  BY <1>1, DropFromReplies, DropFromRequests DEF Drops
<1>2. CASE Answers(in, out, e, s, in1, out1, e1, s1)
  <2>1. PICK code \in {0, 200, 303, 400}, content \in Content :
          out1 = Append(out, ReplyTo(Head(in), code, content))
    BY <1>2 DEF Answers
  <2> DEFINE m == ReplyTo(Head(in), code, content)
  <2>2. in # << >> /\ in1 = Tail(in) /\ IsRequest(Head(in)) /\ in1 \in Seq(Message)
    BY <1>0, <1>2 DEF Answers
  <2>3. m \in Message /\ ~IsRequest(m) /\ out1 \in Seq(Message)
    BY <1>0, <2>1, <2>2, AnswerType
  <2>4. ExchangeInOrder(in1, out1, e2, s2)
    BY <2>1, <2>2, Serve
  <2>5. ExchangeInOrder(out, in1, e, s)
    BY <2>2, DropFromReplies
  <2> HIDE DEF m
  <2>6. ExchangeInOrder(out1, in1, e, s)
    BY <2>1, <2>2, <2>3, <2>5, ReplyAmongRequests DEF m
  <2>7. CASE e = NoReply
    <3>1. /\ \A i \in 1 .. Len(out1) : ~IsRequest(out1[i])
          /\ \A j \in 1 .. Len(in1) : IsRequest(in1[j])
      BY <2>6, <2>7 DEF ExchangeInOrder
    <3>2. ExchangeInOrder(out1, in1, e1, s1)
      BY <3>1 DEF ExchangeInOrder
    <3> QED
      BY <2>4, <3>2
  <2>8. CASE e1 = e /\ s1 = s
    BY <2>4, <2>6, <2>8
  <2> QED
    BY <1>2, <2>7, <2>8 DEF Answers
<1>3. CASE AnswersAndAsks(in, out, e, s, in1, out1, e1, s1)
  <2>1. PICK code \in {0, 200, 303, 400}, content \in Content, asked \in Content :
          out1 = Append(Append(out, ReplyTo(Head(in), code, content)),
                        Request(e1, s, asked))
    BY <1>3 DEF AnswersAndAsks
  <2> DEFINE m == ReplyTo(Head(in), code, content)
             mid == Append(out, m)
             n == Request(e1, s, asked)
  <2>2. /\ in # << >> /\ in1 = Tail(in) /\ IsRequest(Head(in)) /\ in1 \in Seq(Message)
        /\ e1 \in Method /\ s1 = s + 1
    BY <1>0, <1>3 DEF AnswersAndAsks
  <2>3. m \in Message /\ ~IsRequest(m) /\ mid \in Seq(Message)
    BY <1>0, <2>2, AnswerType
  <2>4. n \in Message /\ IsRequest(n)
    BY <2>2, AskedType
  <2>5. ExchangeInOrder(in1, mid, e2, s2)
    BY <2>2, Serve
  <2>6. ExchangeInOrder(out, in1, e, s)
    BY <2>2, DropFromReplies
  <2> HIDE DEF m
  <2>7. ExchangeInOrder(mid, in1, e, s)
    BY <2>2, <2>3, <2>6, ReplyAmongRequests
  <2> HIDE DEF mid
  <2>8. ExchangeInOrder(out1, in1, e1, s1)
    BY <2>1, <2>2, <2>3, <2>7, Ask DEF mid, m
  <2> HIDE DEF n
  <2>9. ExchangeInOrder(in1, Append(mid, n), e2, s2)
    BY <2>2, <2>3, <2>4, <2>5, RequestAmongReplies
  <2> QED
    BY <2>1, <2>8, <2>9 DEF mid, m, n
<1>4. CASE Takes(in, out, e, s, in1, out1, e1, s1)
  <2>1. /\ in # << >> /\ in1 = Tail(in) /\ ~IsRequest(Head(in)) /\ in1 \in Seq(Message)
        /\ Head(in).cseq = s - 1 /\ out1 = out
    BY <1>0, <1>4 DEF Takes
  <2>2. /\ \A i \in 1 .. Len(out) : ~IsRequest(out[i])
        /\ \A j \in 1 .. Len(in1) : IsRequest(in1[j])
    BY <2>1, Take
  <2>3. ExchangeInOrder(out, in1, e1, s1)
    BY <2>1, <2>2, NothingUnderWay
  <2>4. ExchangeInOrder(in1, out, e2, s2)
    BY <2>1, DropFromRequests
  <2> QED
    BY <2>1, <2>3, <2>4
<1>5. CASE TakesAndAsks(in, out, e, s, in1, out1, e1, s1)
  <2>1. /\ in # << >> /\ in1 = Tail(in) /\ ~IsRequest(Head(in)) /\ in1 \in Seq(Message)
        /\ Head(in).cseq = s - 1 /\ e1 \in Method /\ s1 = s + 1
    BY <1>0, <1>5 DEF TakesAndAsks
  <2>2. PICK asked \in Content : out1 = Append(out, Request(e1, s, asked))
    BY <1>5 DEF TakesAndAsks
  <2> DEFINE n == Request(e1, s, asked)
  <2>3. n \in Message /\ IsRequest(n)
    BY <2>1, AskedType
  <2>4. ExchangeInOrder(out, in1, e, s)
    BY <2>1, DropFromReplies
  <2>5. ExchangeInOrder(out1, in1, e1, s1)
    BY <2>1, <2>2, <2>4, Ask
  <2>6. ExchangeInOrder(in1, out, e2, s2)
    BY <2>1, DropFromRequests
  <2> HIDE DEF n
  <2>7. ExchangeInOrder(in1, Append(out, n), e2, s2)
    BY <2>1, <2>3, <2>6, RequestAmongReplies
  <2> QED
    BY <2>2, <2>5, <2>7 DEF n
<1>6. CASE Asks(in, out, e, s, in1, out1, e1, s1)
  <2>1. in1 = in /\ e1 \in Method /\ s1 = s + 1
    BY <1>6 DEF Asks
  <2>2. PICK asked \in Content : out1 = Append(out, Request(e1, s, asked))
    BY <1>6 DEF Asks
  <2> DEFINE n == Request(e1, s, asked)
  <2>3. n \in Message /\ IsRequest(n)
    BY <2>1, AskedType
  <2>4. ExchangeInOrder(out1, in1, e1, s1)
    BY <2>1, <2>2, Ask
  <2> HIDE DEF n
  <2>5. ExchangeInOrder(in, Append(out, n), e2, s2)
    BY <2>3, RequestAmongReplies
  <2> QED
    BY <2>1, <2>2, <2>4, <2>5 DEF n
<1> QED
  BY <1>1, <1>2, <1>3, <1>4, <1>5, <1>6 DEF ExchangeStep
-----------------------------------------------------------------------------
(* The sink's handlers are such steps, and so are the source's.            *)

SinkStep ==
  ExchangeStep(toSink, toSource, sink_expected_reply, sink_send_cseq,
               toSink', toSource', sink_expected_reply', sink_send_cseq')

\* What validate_message_sequence has let through.
LEMMA SinkAccepted ==
  ASSUME SinkType, NEW type, SinkAccepts(type)
  PROVE  /\ toSink # << >> /\ toSink' = Tail(toSink)
         /\ type # "REPLY" => IsRequest(Head(toSink)) /\ sink_expected_reply = NoReply
         /\ type = "REPLY" => ~IsRequest(Head(toSink)) /\ Head(toSink).cseq = sink_send_cseq - 1
BY DEF SinkAccepts, ValidSequence, IsRequest

\* Sending two messages is sending one after the other.
LEMMA AppendTwo ==
  ASSUME NEW queue \in Seq(Message), NEW m \in Message, NEW n \in Message
  PROVE  queue \o <<m, n>> = Append(Append(queue, m), n)
OBVIOUS

\* The words the programs use.
LEMMA Words ==
  /\ Trigger \subseteq Method /\ Command \subseteq Trigger
  /\ {"OPTIONS", "GET_PARAMETER", "SET_PARAMETER", "PLAY"} \subseteq Method
  /\ Trigger \subseteq Content /\ {Nothing, Url, NoUrl, Ports, Session} \subseteq Content
BY DEF Trigger, Command, Method, Content

\* Each handler of the sink is a step of its exchange.
LEMMA SinkSteps ==
  ASSUME SinkType, SinkGotMessage
  PROVE  SinkStep
<1> USE DEF SinkStep, ExchangeStep
<1>0. /\ toSource \in Seq(Message) /\ sink_send_cseq \in Nat
      /\ presentation_url \in Content
  BY Words DEF SinkType, ConnectionTypeOK, SinkTypeOK
<1>a. toSink # << >> => Head(toSink) \in Message
  BY ReadType DEF SinkType, ConnectionTypeOK
<1>b. ASSUME toSink # << >>, toSink' = Tail(toSink), IsRequest(Head(toSink)),
             sink_expected_reply = NoReply, NEW asked \in Content, NEW method \in Method,
             sink_expected_reply' = method, sink_send_cseq' = sink_send_cseq + 1,
             toSource' = toSource \o <<ReplyTo(Head(toSink), 200, Nothing),
                                       Request(method, sink_send_cseq, asked)>>
      PROVE  SinkStep
  <2>1. /\ ReplyTo(Head(toSink), 200, Nothing) \in Message
        /\ Request(method, sink_send_cseq, asked) \in Message
    BY <1>0, <1>a, <1>b, AnswerType, AskedType, Words
  <2>2. toSource' = Append(Append(toSource, ReplyTo(Head(toSink), 200, Nothing)),
                           Request(method, sink_send_cseq, asked))
    BY <1>0, <1>b, <2>1, AppendTwo
  <2>3. Nothing \in Content /\ 200 \in {0, 200, 303, 400}
    BY Words
  <2> QED
    BY <1>b, <2>2, <2>3 DEF AnswersAndAsks
<1>1. CASE SinkHandleM1Options
  <2>1. /\ toSink # << >> /\ toSink' = Tail(toSink) /\ IsRequest(Head(toSink))
        /\ sink_expected_reply = NoReply
    BY <1>1, SinkAccepted DEF SinkHandleM1Options
  <2> QED
    BY <1>1, <1>b, <2>1, Words DEF SinkHandleM1Options, SinkReadyToRequest
<1>2. CASE SinkHandleM2Reply
  BY <1>2, SinkAccepted DEF SinkHandleM2Reply, Takes
<1>3. CASE SinkHandleM3GetParameter
  BY <1>3, SinkAccepted, Words DEF SinkHandleM3GetParameter, Answers
<1>4. CASE SinkHandleM4SetParameter
  <2>1. SinkAccepts("SET_PARAMETER")
    BY <1>4 DEF SinkHandleM4SetParameter
  <2>2. \E code \in {0, 200, 303, 400} :
          toSource' = Append(toSource, ReplyTo(Head(toSink), code, Nothing))
    BY <1>4 DEF SinkHandleM4SetParameter, SinkReplies
  <2> QED
    BY <1>4, <2>1, <2>2, SinkAccepted, Words DEF SinkHandleM4SetParameter, Answers
<1>5. CASE SinkHandleM5Trigger
  <2>1. SinkAccepts("SET_PARAMETER") /\ Head(toSink).content \in Trigger
    BY <1>5 DEF SinkHandleM5Trigger
  <2>2. /\ toSink # << >> /\ toSink' = Tail(toSink) /\ IsRequest(Head(toSink))
        /\ sink_expected_reply = NoReply
    BY <2>1, SinkAccepted
  <2> QED
    BY <1>5, <1>0, <1>b, <2>1, <2>2, Words
    DEF SinkHandleM5Trigger, SinkReadyToRequest, SinkRequest
<1>6. CASE SinkHandleM6SetupReply
  <2>1. SinkAccepts("REPLY")
    BY <1>6 DEF SinkHandleM6SetupReply
  <2>2. CASE Head(toSink).code = 200 /\ Head(toSink).content = Session
    <3>1. /\ sink_expected_reply' = "PLAY" /\ sink_send_cseq' = sink_send_cseq + 1
          /\ toSource' = Append(toSource, Request("PLAY", sink_send_cseq, presentation_url))
      BY <1>6, <2>2 DEF SinkHandleM6SetupReply, SinkReadyToRequest, SinkRequest
    <3> QED
      BY <1>0, <2>1, <3>1, SinkAccepted, Words DEF TakesAndAsks
  <2>3. CASE ~(Head(toSink).code = 200 /\ Head(toSink).content = Session)
    BY <1>6, <2>1, <2>3, SinkAccepted DEF SinkHandleM6SetupReply, Takes
  <2> QED
    BY <2>2, <2>3
<1>7. CASE SinkHandleM7PlayReply \/ SinkHandleM8TeardownReply \/ SinkHandleM9PauseReply
  <2>1. SinkAccepts("REPLY") /\ toSource' = toSource
    BY <1>7 DEF SinkHandleM7PlayReply, SinkHandleM8TeardownReply, SinkHandleM9PauseReply,
                SinkMovesOnReply
  <2> QED
    BY <2>1, SinkAccepted DEF Takes
<1>8. CASE SinkIgnoresRequest \/ SinkIgnoresReply
  <2>1. PICK type : SinkAccepts(type)
    BY <1>8 DEF SinkIgnoresRequest, SinkIgnoresReply
  <2> QED
    BY <1>8, <2>1, SinkAccepted DEF SinkIgnoresRequest, SinkIgnoresReply, Drops
<1>9. CASE SinkRefuses
  <2>1. CASE Parses(Head(toSink)) /\ Head(toSink).type # "REPLY"
    BY <1>9, <2>1, Words DEF SinkRefuses, SinkReplies, sinkVars, Answers, IsRequest
  <2>2. CASE ~(Parses(Head(toSink)) /\ Head(toSink).type # "REPLY")
    BY <1>9, <2>2 DEF SinkRefuses, sinkVars, Drops
  <2> QED
    BY <2>1, <2>2
<1> QED
  BY <1>1, <1>2, <1>3, <1>4, <1>5, <1>6, <1>7, <1>8, <1>9 DEF SinkGotMessage
SourceStep ==
  ExchangeStep(toSource, toSink, source_expected_reply, source_send_cseq,
               toSource', toSink', source_expected_reply', source_send_cseq')

\* What validate_message_sequence has let through.
LEMMA SourceAccepted ==
  ASSUME SourceType, NEW type, SourceAccepts(type)
  PROVE  /\ toSource # << >> /\ toSource' = Tail(toSource)
         /\ type # "REPLY" => IsRequest(Head(toSource)) /\ source_expected_reply = NoReply
         /\ type = "REPLY" => /\ ~IsRequest(Head(toSource))
                              /\ Head(toSource).cseq = source_send_cseq - 1
BY DEF SourceAccepts, ValidSequence, IsRequest

\* Each handler of the source is a step of its exchange.
LEMMA SourceSteps ==
  ASSUME SourceType, SourceGotMessage
  PROVE  SourceStep
<1> USE DEF SourceStep, ExchangeStep
<1>0. toSink \in Seq(Message) /\ source_send_cseq \in Nat
  BY DEF SourceType, ConnectionTypeOK, SourceTypeOK
<1>a. toSource # << >> => Head(toSource) \in Message
  BY ReadType DEF SourceType, ConnectionTypeOK
<1>1. CASE SourceHandleM1Reply
  BY <1>1, SourceAccepted DEF SourceHandleM1Reply, Takes
<1>2. CASE SourceHandleM2Options
  <2>1. /\ toSource # << >> /\ toSource' = Tail(toSource) /\ IsRequest(Head(toSource))
        /\ source_expected_reply = NoReply
    BY <1>2, SourceAccepted DEF SourceHandleM2Options
  <2>2. /\ ReplyTo(Head(toSource), 200, Nothing) \in Message
        /\ Request("GET_PARAMETER", source_send_cseq, Nothing) \in Message
    BY <1>0, <1>a, <2>1, AnswerType, AskedType, Words
  <2>3. toSink' = Append(Append(toSink, ReplyTo(Head(toSource), 200, Nothing)),
                         Request("GET_PARAMETER", source_send_cseq, Nothing))
    BY <1>0, <1>2, <2>2, AppendTwo DEF SourceHandleM2Options
  <2>4. source_expected_reply' = "GET_PARAMETER" /\ source_send_cseq' = source_send_cseq + 1
    BY <1>2 DEF SourceHandleM2Options, SourceReadyToRequest
  <2>5. Nothing \in Content /\ "GET_PARAMETER" \in Method
    BY Words
  <2> QED
    BY <2>1, <2>3, <2>4, <2>5 DEF AnswersAndAsks
<1>3. CASE SourceHandleM3Reply
  <2>1. SourceAccepts("REPLY")
    BY <1>3 DEF SourceHandleM3Reply
  <2>2. CASE Head(toSource).code = 200 /\ Head(toSource).content = Ports
    BY <1>3, <2>1, <2>2, SourceAccepted, Words
    DEF SourceHandleM3Reply, SourceReadyToRequest, TakesAndAsks
  <2>3. CASE ~(Head(toSource).code = 200 /\ Head(toSource).content = Ports)
    BY <1>3, <2>1, <2>3, SourceAccepted DEF SourceHandleM3Reply, Takes
  <2> QED
    BY <2>2, <2>3
<1>4. CASE SourceHandleM4Reply
  <2>1. SourceAccepts("REPLY")
    BY <1>4 DEF SourceHandleM4Reply
  <2>2. CASE Head(toSource).code = 200
    <3>1. "SETUP" \in Content
      BY Words DEF Trigger
    <3> QED
      BY <1>4, <2>1, <2>2, <3>1, SourceAccepted, Words
      DEF SourceHandleM4Reply, SourceReadyToRequest, SourceTriggerRequest, TakesAndAsks
  <2>3. CASE Head(toSource).code # 200
    BY <1>4, <2>1, <2>3, SourceAccepted DEF SourceHandleM4Reply, Takes
  <2> QED
    BY <2>2, <2>3
<1>5. CASE SourceHandleM5Reply
  BY <1>5, SourceAccepted DEF SourceHandleM5Reply, Takes
<1>6. CASE SourceHandleM6Setup
  <2>1. SourceAccepts("SETUP")
    BY <1>6 DEF SourceHandleM6Setup
  <2>2. toSink' = Append(toSink, ReplyTo(Head(toSource), 200, Session))
    BY <1>6 DEF SourceHandleM6Setup, SourceReplies
  <2>3. \E code \in {0, 200, 303, 400}, content \in Content :
          toSink' = Append(toSink, ReplyTo(Head(toSource), code, content))
    BY <2>2, Words
  <2>4. /\ toSource # << >> /\ toSource' = Tail(toSource)
        /\ IsRequest(Head(toSource)) /\ source_expected_reply = NoReply
    BY <2>1, SourceAccepted
  <2>5. Answers(toSource, toSink, source_expected_reply, source_send_cseq,
                toSource', toSink', source_expected_reply', source_send_cseq')
    BY <2>3, <2>4 DEF Answers
  <2> QED
    BY <2>5
<1>7. CASE SourceHandleM7Play \/ SourceHandleM9Pause \/ SourceHandleM8Teardown
  <2>1. PICK method \in Command, pipeline \in Pipeline, s \in State :
          SourceServes(method, pipeline, s)
    BY <1>7 DEF SourceHandleM7Play, SourceHandleM9Pause, SourceHandleM8Teardown, Command,
                Trigger, Pipeline, State, INIT, WFD_SESSION_PLAYING, WFD_SESSION_PAUSED
  <2>2. SourceAccepts(method) /\ method # "REPLY"
    BY <2>1 DEF SourceServes, Command, Trigger
  <2>3. toSink' = Append(toSink, ReplyTo(Head(toSource), 200, Nothing))
    BY <2>1 DEF SourceServes, SourceReplies
  <2>4. \E code \in {0, 200, 303, 400}, content \in Content :
          toSink' = Append(toSink, ReplyTo(Head(toSource), code, content))
    BY <2>3, Words
  <2>5. /\ toSource # << >> /\ toSource' = Tail(toSource)
        /\ IsRequest(Head(toSource)) /\ source_expected_reply = NoReply
    BY <2>2, SourceAccepted
  <2>6. Answers(toSource, toSink, source_expected_reply, source_send_cseq,
                toSource', toSink', source_expected_reply', source_send_cseq')
    BY <2>4, <2>5 DEF Answers
  <2> QED
    BY <2>6
<1>8. CASE SourceHasNoPipeline
  <2>1. PICK method \in Command : SourceAccepts(method)
    BY <1>8 DEF SourceHasNoPipeline
  <2> QED
    BY <1>8, <2>1, SourceAccepted DEF SourceHasNoPipeline, Drops
<1>9. CASE SourceHandleParameter
  <2>1. PICK method \in {"GET_PARAMETER", "SET_PARAMETER"} : SourceAccepts(method)
    BY <1>9 DEF SourceHandleParameter
  <2> QED
    BY <1>9, <2>1, SourceAccepted, Words DEF SourceHandleParameter, SourceReplies, Answers
<1>10. CASE SourceIgnoresRequest \/ SourceIgnoresReply
  <2>1. PICK type : SourceAccepts(type)
    BY <1>10 DEF SourceIgnoresRequest, SourceIgnoresReply
  <2> QED
    BY <1>10, <2>1, SourceAccepted DEF SourceIgnoresRequest, SourceIgnoresReply, Drops
<1>11. CASE SourceRefuses
  <2>1. CASE Parses(Head(toSource)) /\ Head(toSource).type # "REPLY"
    BY <1>11, <2>1, Words DEF SourceRefuses, SourceReplies, sourceVars, Answers, IsRequest
  <2>2. CASE ~(Parses(Head(toSource)) /\ Head(toSource).type # "REPLY")
    BY <1>11, <2>2 DEF SourceRefuses, sourceVars, Drops
  <2> QED
    BY <2>1, <2>2
<1> QED
  BY <1>1, <1>2, <1>3, <1>4, <1>5, <1>6, <1>7, <1>8, <1>9, <1>10, <1>11
  DEF SourceGotMessage
=============================================================================
