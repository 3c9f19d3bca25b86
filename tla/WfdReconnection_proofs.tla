------------------------- MODULE WfdReconnection_proofs -------------------------
(***************************************************************************)
(* What holds of a session for any number of commands and any users, and,  *)
(* in the second half, across any number of sinks.                         *)
(***************************************************************************)
EXTENDS WfdReconnection, MiracHandlers_proofs

-----------------------------------------------------------------------------
(* Type correctness.                                                       *)

\* The types of the initial state.
LEMMA InitType ==
  ASSUME Init
  PROVE  TypeOK
<1>1. ConnectionTypeOK
  BY DEF Init, ConnectionInit, ConnectionTypeOK
<1>2. SinkTypeOK
  BY DEF Init, SinkInit, SinkTypeOK
<1>3. SourceTypeOK
  BY DEF Init, SourceInit, SourceTypeOK, Pipeline
<1>4. sink_commands \in 0 .. MaxSinkCommands /\ source_commands \in 0 .. MaxSourceCommands
  BY BoundsAssumption DEF Init, BoundsAssumption
<1> QED
  BY <1>1, <1>2, <1>3, <1>4 DEF TypeOK

\* Every step keeps the types.
LEMMA StepType ==
  ASSUME TypeOK, [Next]_vars
  PROVE  TypeOK'
<1> USE BoundsAssumption DEF BoundsAssumption
<1>1. SinkType /\ SourceType
  BY DEF TypeOK, SinkType, SourceType
<1>2. CASE SinkProgram
  <2>1. SinkType'
    BY <1>1, <1>2, SinkStepType DEF SinkProgram
  <2> QED
    BY <1>2, <2>1 DEF SinkProgram, TypeOK, SinkType, sourceVars, SourceTypeOK
<1>3. CASE SourceProgram
  <2>1. SourceType'
    BY <1>1, <1>3, SourceStepType DEF SourceProgram
  <2> QED
    BY <1>3, <2>1 DEF SourceProgram, TypeOK, SourceType, sinkVars, SinkTypeOK
<1>4. ASSUME NEW command \in Command, SinkUser(command)
      PROVE  TypeOK'
  <2>1. SinkType'
    BY <1>1, <1>4, SinkCommandType DEF SinkUser
  <2>2. sink_commands' \in 0 .. MaxSinkCommands
    BY <1>4 DEF SinkUser, TypeOK
  <2> QED
    BY <1>4, <2>1, <2>2 DEF SinkUser, TypeOK, SinkType, sourceVars, SourceTypeOK
<1>5. ASSUME NEW command \in Command, SourceUser(command)
      PROVE  TypeOK'
  <2>1. SourceType'
    BY <1>1, <1>5, SourceCommandType DEF SourceUser
  <2>2. source_commands' \in 0 .. MaxSourceCommands
    BY <1>5 DEF SourceUser, TypeOK
  <2> QED
    BY <1>5, <2>1, <2>2 DEF SourceUser, TypeOK, SourceType, sinkVars, SinkTypeOK
<1>6. CASE UNCHANGED vars
  BY <1>6 DEF vars, connection, sinkVars, sourceVars, TypeOK, ConnectionTypeOK,
              SinkTypeOK, SourceTypeOK
<1> QED
  BY <1>2, <1>3, <1>4, <1>5, <1>6 DEF Next

(***************************************************************************)
(* The session variables, the counters and both directions of the          *)
(* connection hold values of their types in every state, whatever number   *)
(* of commands the users type and in whatever state they type them.        *)
(***************************************************************************)
THEOREM TypeCorrect == Spec => []TypeOK
<1>1. Init => TypeOK
  BY InitType
<1>2. TypeOK /\ [Next]_vars => TypeOK'
  BY StepType
<1> QED
  BY <1>1, <1>2, PTL DEF Spec

-----------------------------------------------------------------------------
(* The order of the exchanges is inductive.                                *)

\* A step of either program's exchange, with the other's variables unchanged.
LEMMA SinkStepKeepsOrder ==
  ASSUME TypeOK, ExchangesInOrder, SinkStep,
         UNCHANGED <<source_expected_reply, source_send_cseq>>
  PROVE  /\ ExchangeInOrder(toSource', toSink', sink_expected_reply', sink_send_cseq')
         /\ ExchangeInOrder(toSink', toSource', source_expected_reply', source_send_cseq')
<1>1. /\ toSink \in Seq(Message) /\ toSource \in Seq(Message)
      /\ sink_send_cseq \in Nat /\ source_send_cseq \in Nat
  BY DEF TypeOK, ConnectionTypeOK, SinkTypeOK, SourceTypeOK
<1>2. /\ ExchangeInOrder(toSource, toSink, sink_expected_reply, sink_send_cseq)
      /\ ExchangeInOrder(toSink, toSource, source_expected_reply, source_send_cseq)
  BY DEF ExchangesInOrder
<1>3. ExchangeStep(toSink, toSource, sink_expected_reply, sink_send_cseq,
                   toSink', toSource', sink_expected_reply', sink_send_cseq')
  BY DEF SinkStep
<1>4. /\ ExchangeInOrder(toSource', toSink', sink_expected_reply', sink_send_cseq')
      /\ ExchangeInOrder(toSink', toSource', source_expected_reply, source_send_cseq)
  BY <1>1, <1>2, <1>3, StepKeepsOrder
<1> QED
  BY <1>4

LEMMA SourceStepKeepsOrder ==
  ASSUME TypeOK, ExchangesInOrder, SourceStep,
         UNCHANGED <<sink_expected_reply, sink_send_cseq>>
  PROVE  /\ ExchangeInOrder(toSink', toSource', source_expected_reply', source_send_cseq')
         /\ ExchangeInOrder(toSource', toSink', sink_expected_reply', sink_send_cseq')
<1>1. /\ toSink \in Seq(Message) /\ toSource \in Seq(Message)
      /\ sink_send_cseq \in Nat /\ source_send_cseq \in Nat
  BY DEF TypeOK, ConnectionTypeOK, SinkTypeOK, SourceTypeOK
<1>2. /\ ExchangeInOrder(toSource, toSink, sink_expected_reply, sink_send_cseq)
      /\ ExchangeInOrder(toSink, toSource, source_expected_reply, source_send_cseq)
  BY DEF ExchangesInOrder
<1>3. ExchangeStep(toSource, toSink, source_expected_reply, source_send_cseq,
                   toSource', toSink', source_expected_reply', source_send_cseq')
  BY DEF SourceStep
<1>4. /\ ExchangeInOrder(toSink', toSource', source_expected_reply', source_send_cseq')
      /\ ExchangeInOrder(toSource', toSink', sink_expected_reply, sink_send_cseq)
  BY <1>1, <1>2, <1>3, StepKeepsOrder
<1> QED
  BY <1>4

\* Both programs are connected when one of them reads a message.
LEMMA SinkReads ==
  ASSUME ExchangesInOrder, SinkGotMessage
  PROVE  sink_connected /\ source_connected /\ sink_connected' = sink_connected
<1>1. sink_connected /\ toSink # << >> /\ sink_connected' = sink_connected
  BY DEF SinkGotMessage, SinkAccepts, SinkHandleM1Options, SinkHandleM2Reply,
         SinkHandleM3GetParameter, SinkHandleM4SetParameter, SinkHandleM5Trigger,
         SinkHandleM6SetupReply, SinkHandleM7PlayReply, SinkHandleM8TeardownReply,
         SinkHandleM9PauseReply, SinkMovesOnReply, SinkIgnoresRequest, SinkIgnoresReply,
         SinkRefuses, sinkVars
<1> QED
  BY <1>1 DEF ExchangesInOrder, NothingBeforeConnection

LEMMA SourceReads ==
  ASSUME ExchangesInOrder, SourceGotMessage
  PROVE  sink_connected /\ source_connected /\ source_connected' = source_connected
<1>1. source_connected /\ toSource # << >> /\ source_connected' = source_connected
  BY DEF SourceGotMessage, SourceAccepts, SourceHandleM1Reply, SourceHandleM2Options,
         SourceHandleM3Reply, SourceHandleM4Reply, SourceHandleM5Reply,
         SourceHandleM6Setup, SourceServes, SourceHandleM7Play, SourceHandleM9Pause,
         SourceHandleM8Teardown, SourceHasNoPipeline, SourceHandleParameter,
         SourceIgnoresRequest, SourceIgnoresReply, SourceRefuses, sourceVars
<1> QED
  BY <1>1 DEF ExchangesInOrder, NothingBeforeConnection

\* A request added to a queue of requests.
LEMMA OnlyRequests ==
  ASSUME NEW queue \in Seq(Message), \A i \in 1 .. Len(queue) : IsRequest(queue[i]),
         NEW m \in Message, IsRequest(m)
  PROVE  \A i \in 1 .. Len(Append(queue, m)) : IsRequest(Append(queue, m)[i])
<1>1. \A i \in 1 .. Len(Append(queue, m)) :
        \/ i \in 1 .. Len(queue) /\ Append(queue, m)[i] = queue[i]
        \/ Append(queue, m)[i] = m
  OBVIOUS
<1> QED
  BY <1>1

\* Whatever the sink's program does keeps the exchanges in order.
LEMMA SinkProgramKeepsOrder ==
  ASSUME TypeOK, ExchangesInOrder, SinkProgram
  PROVE  ExchangesInOrder'
<1>0. /\ toSink \in Seq(Message) /\ toSource \in Seq(Message)
      /\ sink_send_cseq \in Nat /\ source_send_cseq \in Nat
      /\ SinkType
  BY DEF TypeOK, ConnectionTypeOK, SinkTypeOK, SourceTypeOK, SinkType
<1>1. UNCHANGED <<source_connected, source_expected_reply, source_send_cseq>>
  BY DEF SinkProgram, sourceVars
<1>2. CASE SinkOnConnected
  <2>1. /\ ~sink_connected /\ sink_connected' /\ UNCHANGED <<toSink, toSource>>
    BY <1>2 DEF SinkOnConnected, connection
  <2>2. toSource = << >> /\ \A i \in 1 .. Len(toSink) : IsRequest(toSink[i])
    BY <2>1 DEF ExchangesInOrder, NothingBeforeConnection
  <2>3. ExchangeInOrder(toSource, toSink, sink_expected_reply', sink_send_cseq')
    BY <1>0, <2>2 DEF ExchangeInOrder
  <2> QED
    BY <1>1, <2>1, <2>3 DEF ExchangesInOrder, NothingBeforeConnection
<1>3. CASE SinkGotMessage
  <2>1. SinkStep
    BY <1>0, <1>3, SinkSteps
  <2>2. /\ ExchangeInOrder(toSource', toSink', sink_expected_reply', sink_send_cseq')
        /\ ExchangeInOrder(toSink', toSource', source_expected_reply', source_send_cseq')
    BY <1>1, <2>1, SinkStepKeepsOrder
  <2> QED
    BY <1>1, <1>3, <2>2, SinkReads DEF ExchangesInOrder, NothingBeforeConnection
<1> QED
  BY <1>2, <1>3 DEF SinkProgram

\* Whatever the source's program does keeps the exchanges in order.
LEMMA SourceProgramKeepsOrder ==
  ASSUME TypeOK, ExchangesInOrder, SourceProgram
  PROVE  ExchangesInOrder'
<1>0. /\ toSink \in Seq(Message) /\ toSource \in Seq(Message)
      /\ sink_send_cseq \in Nat /\ source_send_cseq \in Nat
      /\ SourceType
  BY DEF TypeOK, ConnectionTypeOK, SinkTypeOK, SourceTypeOK, SourceType
<1>1. UNCHANGED <<sink_connected, sink_expected_reply, sink_send_cseq>>
  BY DEF SourceProgram, sinkVars
<1>2. CASE SourceOnConnected
  <2> DEFINE m == Request("OPTIONS", source_send_cseq, Nothing)
  <2>1. /\ ~source_connected /\ source_connected' /\ toSource' = toSource
        /\ toSink' = Append(toSink, m)
        /\ source_expected_reply' = "OPTIONS" /\ source_send_cseq' = source_send_cseq + 1
    BY <1>2 DEF SourceOnConnected, SourceReadyToRequest
  <2>2. m \in Message /\ IsRequest(m)
    BY <1>0, AskedType, Words
  <2>3. SourceStep
    BY <2>1, Words DEF SourceStep, ExchangeStep, Asks
  <2>4. /\ ExchangeInOrder(toSink', toSource', source_expected_reply', source_send_cseq')
        /\ ExchangeInOrder(toSource', toSink', sink_expected_reply', sink_send_cseq')
    BY <1>1, <2>3, SourceStepKeepsOrder
  <2> HIDE DEF m
  <2>5. ~sink_connected =>
          toSource' = << >> /\ \A i \in 1 .. Len(toSink') : IsRequest(toSink'[i])
    BY <1>0, <2>1, <2>2, OnlyRequests DEF ExchangesInOrder, NothingBeforeConnection
  <2> QED
    BY <1>1, <2>1, <2>4, <2>5 DEF ExchangesInOrder, NothingBeforeConnection
<1>3. CASE SourceGotMessage
  <2>1. SourceStep
    BY <1>0, <1>3, SourceSteps
  <2>2. /\ ExchangeInOrder(toSink', toSource', source_expected_reply', source_send_cseq')
        /\ ExchangeInOrder(toSource', toSink', sink_expected_reply', sink_send_cseq')
    BY <1>1, <2>1, SourceStepKeepsOrder
  <2> QED
    BY <1>1, <1>3, <2>2, SourceReads DEF ExchangesInOrder, NothingBeforeConnection
<1> QED
  BY <1>2, <1>3 DEF SourceProgram

\* So does a command typed at the sink, connected or not, ...
LEMMA SinkUserKeepsOrder ==
  ASSUME TypeOK, ExchangesInOrder, NEW command \in Command, SinkUser(command)
  PROVE  ExchangesInOrder'
<1>0. /\ toSink \in Seq(Message) /\ toSource \in Seq(Message)
      /\ sink_send_cseq \in Nat /\ source_send_cseq \in Nat
      /\ presentation_url \in Content
  BY Words DEF TypeOK, ConnectionTypeOK, SinkTypeOK, SourceTypeOK
<1>1. /\ UNCHANGED <<toSink, sink_connected>>
      /\ UNCHANGED <<source_connected, source_expected_reply, source_send_cseq>>
      /\ sink_expected_reply' = command /\ sink_send_cseq' = sink_send_cseq + 1
  BY DEF SinkUser, SinkCommand, SinkReadyToRequest, sourceVars
<1>2. CASE sink_connected
  <2> DEFINE m == Request(command, sink_send_cseq, presentation_url)
  <2>1. toSource' = Append(toSource, m)
    BY <1>2 DEF SinkUser, SinkCommand, SinkRequest
  <2>2. m \in Message /\ IsRequest(m)
    BY <1>0, AskedType, Words
  <2>3. SinkStep
    BY <1>0, <1>1, <2>1, Words DEF SinkStep, ExchangeStep, Asks
  <2>4. /\ ExchangeInOrder(toSource', toSink', sink_expected_reply', sink_send_cseq')
        /\ ExchangeInOrder(toSink', toSource', source_expected_reply', source_send_cseq')
    BY <1>1, <2>3, SinkStepKeepsOrder
  <2> HIDE DEF m
  <2>5. ~source_connected =>
          toSink' = << >> /\ \A i \in 1 .. Len(toSource') : IsRequest(toSource'[i])
    BY <1>0, <1>1, <2>1, <2>2, OnlyRequests DEF ExchangesInOrder, NothingBeforeConnection
  <2> QED
    BY <1>1, <1>2, <2>4, <2>5 DEF ExchangesInOrder, NothingBeforeConnection
<1>3. CASE ~sink_connected
  <2>1. toSource' = toSource
    BY <1>3 DEF SinkUser, SinkCommand
  <2>2. toSource = << >> /\ \A i \in 1 .. Len(toSink) : IsRequest(toSink[i])
    BY <1>3 DEF ExchangesInOrder, NothingBeforeConnection
  <2>3. ExchangeInOrder(toSource, toSink, sink_expected_reply', sink_send_cseq')
    BY <1>0, <2>2 DEF ExchangeInOrder
  <2> QED
    BY <1>1, <2>1, <2>3 DEF ExchangesInOrder, NothingBeforeConnection
<1> QED
  BY <1>2, <1>3

\* ... and one typed at the source.
LEMMA SourceUserKeepsOrder ==
  ASSUME TypeOK, ExchangesInOrder, NEW command \in Command, SourceUser(command)
  PROVE  ExchangesInOrder'
<1>0. /\ toSink \in Seq(Message) /\ toSource \in Seq(Message)
      /\ sink_send_cseq \in Nat /\ source_send_cseq \in Nat
      /\ command \in Content /\ "SET_PARAMETER" \in Method
  BY Words DEF TypeOK, ConnectionTypeOK, SinkTypeOK, SourceTypeOK
<1>1. /\ UNCHANGED <<toSource, source_connected>>
      /\ UNCHANGED <<sink_connected, sink_expected_reply, sink_send_cseq>>
      /\ source_expected_reply' = "SET_PARAMETER" /\ source_send_cseq' = source_send_cseq + 1
  BY DEF SourceUser, SourceCommand, SourceReadyToRequest, sinkVars
<1>2. CASE source_connected
  <2> DEFINE m == Request("SET_PARAMETER", source_send_cseq, command)
  <2>1. toSink' = Append(toSink, m)
    BY <1>2 DEF SourceUser, SourceCommand, SourceTriggerRequest
  <2>2. m \in Message /\ IsRequest(m)
    BY <1>0, AskedType
  <2>3. SourceStep
    BY <1>0, <1>1, <2>1 DEF SourceStep, ExchangeStep, Asks
  <2>4. /\ ExchangeInOrder(toSink', toSource', source_expected_reply', source_send_cseq')
        /\ ExchangeInOrder(toSource', toSink', sink_expected_reply', sink_send_cseq')
    BY <1>1, <2>3, SourceStepKeepsOrder
  <2> HIDE DEF m
  <2>5. ~sink_connected =>
          toSource' = << >> /\ \A i \in 1 .. Len(toSink') : IsRequest(toSink'[i])
    BY <1>0, <1>1, <2>1, <2>2, OnlyRequests DEF ExchangesInOrder, NothingBeforeConnection
  <2> QED
    BY <1>1, <1>2, <2>4, <2>5 DEF ExchangesInOrder, NothingBeforeConnection
<1>3. CASE ~source_connected
  <2>1. toSink' = toSink
    BY <1>3 DEF SourceUser, SourceCommand
  <2>2. toSink = << >> /\ \A i \in 1 .. Len(toSource) : IsRequest(toSource[i])
    BY <1>3 DEF ExchangesInOrder, NothingBeforeConnection
  <2>3. ExchangeInOrder(toSink, toSource, source_expected_reply', source_send_cseq')
    BY <1>0, <2>2 DEF ExchangeInOrder
  <2> QED
    BY <1>1, <2>1, <2>3 DEF ExchangesInOrder, NothingBeforeConnection
<1> QED
  BY <1>2, <1>3

-----------------------------------------------------------------------------
\* Nothing is under way in the initial state.
LEMMA InitInOrder ==
  ASSUME Init
  PROVE  ExchangesInOrder
BY DEF Init, ConnectionInit, SinkInit, SourceInit, ExchangesInOrder, ExchangeInOrder,
       NothingBeforeConnection

\* Every step keeps the exchanges in order.
LEMMA EveryStepKeepsOrder ==
  ASSUME TypeOK, ExchangesInOrder, [Next]_vars
  PROVE  ExchangesInOrder'
<1>1. CASE SinkProgram
  BY <1>1, SinkProgramKeepsOrder
<1>2. CASE SourceProgram
  BY <1>2, SourceProgramKeepsOrder
<1>3. ASSUME NEW command \in Command, SinkUser(command)
      PROVE  ExchangesInOrder'
  BY <1>3, SinkUserKeepsOrder
<1>4. ASSUME NEW command \in Command, SourceUser(command)
      PROVE  ExchangesInOrder'
  BY <1>4, SourceUserKeepsOrder
<1>5. CASE UNCHANGED vars
  BY <1>5 DEF vars, connection, sinkVars, sourceVars, ExchangesInOrder,
              ExchangeInOrder, NothingBeforeConnection
<1> QED
  BY <1>1, <1>2, <1>3, <1>4, <1>5 DEF Next

(***************************************************************************)
(* Requests and replies keep their order and their meaning, whatever the   *)
(* users type: each direction carries replies and then requests with       *)
(* growing CSeqs, the last of which belongs to expected_reply_.            *)
(***************************************************************************)
THEOREM OrderKept == Spec => []ExchangesInOrder
<1>1. Init => ExchangesInOrder
  BY InitInOrder
<1>2. TypeOK /\ ExchangesInOrder /\ [Next]_vars => ExchangesInOrder'
  BY EveryStepKeepsOrder
<1> QED
  BY <1>1, <1>2, TypeCorrect, PTL DEF Spec

\* What an exchange in order says of a reply.
LEMMA OrderAnswers ==
  ExchangesInOrder => ReplyAnswersExpectedRequest
BY DEF ExchangesInOrder, ExchangeInOrder, ReplyAnswersExpectedRequest, ValidSequence,
       IsRequest

\* What it says of a program that waits for nothing.
LEMMA OrderLeavesNothing ==
  ExchangesInOrder => NoOrphanExchange
BY DEF ExchangesInOrder, ExchangeInOrder, NoOrphanExchange, IsRequest

\* A reply that validate_message_sequence accepts answers the request the
\* program is waiting for.
THEOREM ReplyFitsRequest == Spec => []ReplyAnswersExpectedRequest
BY OrderAnswers, OrderKept, PTL

\* A program that waits for nothing has nothing under way.
THEOREM NothingLeftBehind == Spec => []NoOrphanExchange
BY OrderLeavesNothing, OrderKept, PTL

-----------------------------------------------------------------------------
(***************************************************************************)
(* The agreement of the two state machines, and the pipeline that is there *)
(* when it is commanded.  First what a step does to a queue, and what the  *)
(* handlers do to the session: one operator per effect, with the messages  *)
(* it adds to the connection.                                              *)
(***************************************************************************)

\* The messages of a queue.
In(queue) == {queue[i] : i \in 1 .. Len(queue)}

\* A queue to which the messages of a set have been added.
Grows(old, new, messages) ==
  /\ Len(new) \in Nat /\ Len(old) \in Nat /\ Len(old) <= Len(new)
  /\ \A i \in 1 .. Len(new) : \/ i \in 1 .. Len(old) /\ new[i] = old[i]
                              \/ i > Len(old) /\ new[i] \in messages
  /\ \A m \in messages : \E i \in Len(old) + 1 .. Len(new) : new[i] = m

LEMMA GrowsByNone ==
  ASSUME NEW queue \in Seq(Message)
  PROVE  Grows(queue, queue, {})
BY DEF Grows

LEMMA GrowsByOne ==
  ASSUME NEW queue \in Seq(Message), NEW m \in Message
  PROVE  Grows(queue, Append(queue, m), {m})
<1> DEFINE all == Append(queue, m)
<1>1. /\ Len(all) = Len(queue) + 1 /\ Len(queue) \in Nat
      /\ \A i \in 1 .. Len(all) : \/ i \in 1 .. Len(queue) /\ all[i] = queue[i]
                                  \/ i = Len(queue) + 1 /\ all[i] = m
  OBVIOUS
<1>2. all[Len(queue) + 1] = m
  OBVIOUS
<1> HIDE DEF all
<1> QED
  BY <1>1, <1>2 DEF Grows, all

\* Adding twice.
LEMMA GrowsTwice ==
  ASSUME NEW old, NEW mid, NEW new, NEW m, NEW n,
         Grows(old, mid, {m}), Grows(mid, new, {n})
  PROVE  Grows(old, new, {m, n})
<1>1. /\ Len(old) \in Nat /\ Len(mid) \in Nat /\ Len(new) \in Nat
      /\ Len(old) <= Len(mid) /\ Len(mid) <= Len(new)
  BY DEF Grows
<1>2. \A i \in 1 .. Len(new) : \/ i \in 1 .. Len(old) /\ new[i] = old[i]
                               \/ i > Len(old) /\ new[i] \in {m, n}
  BY <1>1 DEF Grows
<1>3. \E i \in Len(old) + 1 .. Len(new) : new[i] = n
  BY <1>1 DEF Grows
<1>4. \E i \in Len(old) + 1 .. Len(new) : new[i] = m
  <2>1. PICK i \in Len(old) + 1 .. Len(mid) : mid[i] = m
    BY <1>1 DEF Grows
  <2>2. i \in Len(old) + 1 .. Len(new) /\ new[i] = mid[i]
    BY <1>1 DEF Grows
  <2> QED
    BY <2>1, <2>2
<1> QED
  BY <1>1, <1>2, <1>3, <1>4 DEF Grows

LEMMA GrowsByTwo ==
  ASSUME NEW queue \in Seq(Message), NEW m \in Message, NEW n \in Message
  PROVE  Grows(queue, queue \o <<m, n>>, {m, n})
<1> DEFINE mid == Append(queue, m)
<1>1. mid \in Seq(Message)
  OBVIOUS
<1>2. Grows(queue, mid, {m})
  BY GrowsByOne
<1> HIDE DEF mid
<1>3. Grows(mid, Append(mid, n), {n})
  BY <1>1, GrowsByOne
<1>4. Grows(queue, Append(mid, n), {m, n})
  BY <1>2, <1>3, GrowsTwice
<1> QED
  BY <1>4, AppendTwo DEF mid

\* What a grown queue carries.
LEMMA GrownIn ==
  ASSUME NEW old, NEW new, NEW messages, Grows(old, new, messages)
  PROVE  In(new) = In(old) \cup messages
<1>1. /\ Len(new) \in Nat /\ Len(old) \in Nat /\ Len(old) <= Len(new)
  BY DEF Grows
<1>2. In(new) \subseteq In(old) \cup messages
  BY <1>1 DEF Grows, In
<1>3. messages \subseteq In(new)
  BY <1>1 DEF Grows, In
<1>4. In(old) \subseteq In(new)
  <2>1. \A i \in 1 .. Len(old) : i \in 1 .. Len(new) /\ new[i] = old[i]
    BY <1>1 DEF Grows
  <2> QED
    BY <2>1 DEF In
<1> QED
  BY <1>2, <1>3, <1>4

\* What reading a message leaves in a queue.
LEMMA Shrunk ==
  ASSUME NEW queue \in Seq(Message), queue # << >>
  PROVE  /\ Len(Tail(queue)) = Len(queue) - 1 /\ Len(queue) \in Nat \ {0}
         /\ \A i \in 1 .. Len(Tail(queue)) :
              i + 1 \in 1 .. Len(queue) /\ Tail(queue)[i] = queue[i + 1]
         /\ Head(queue) = queue[1]
         /\ Head(queue) \in In(queue)
         /\ In(Tail(queue)) \subseteq In(queue)
         /\ In(queue) \subseteq {Head(queue)} \cup In(Tail(queue))
<1> DEFINE rest == Tail(queue)
<1>1. /\ Len(rest) = Len(queue) - 1 /\ Len(queue) \in Nat \ {0}
      /\ \A i \in 1 .. Len(rest) : i + 1 \in 1 .. Len(queue) /\ rest[i] = queue[i + 1]
      /\ Head(queue) = queue[1]
  OBVIOUS
<1> HIDE DEF rest
<1>2. Head(queue) \in In(queue)
  BY <1>1 DEF In
<1>3. In(rest) \subseteq In(queue)
  BY <1>1 DEF In
<1>4. ASSUME NEW i \in 1 .. Len(queue), i # 1
      PROVE  queue[i] \in In(rest)
  <2>1. i - 1 \in 1 .. Len(rest) /\ rest[i - 1] = queue[i]
    BY <1>1, <1>4
  <2> QED
    BY <2>1 DEF In
<1>5. In(queue) \subseteq {Head(queue)} \cup In(rest)
  BY <1>1, <1>4 DEF In
<1> QED
  BY <1>1, <1>2, <1>3, <1>5 DEF rest

\* The messages of a queue are messages.
LEMMA InType ==
  ASSUME NEW queue \in Seq(Message)
  PROVE  In(queue) \subseteq Message
<1>1. \A i \in 1 .. Len(queue) : queue[i] \in Message
  OBVIOUS
<1> QED
  BY <1>1 DEF In

\* The state the source is in once it has answered a request of the sink.
ServedIn(method) ==
  CASE method = "SETUP"    -> WFD_SESSION_ESTABLISHMENT
    [] method = "PLAY"     -> WFD_SESSION_PLAYING
    [] method = "PAUSE"    -> WFD_SESSION_PAUSED
    [] method = "TEARDOWN" -> INIT

LEMMA ServedStates ==
  /\ ServedIn("SETUP") = WFD_SESSION_ESTABLISHMENT
  /\ ServedIn("PLAY") = WFD_SESSION_PLAYING
  /\ ServedIn("PAUSE") = WFD_SESSION_PAUSED
  /\ ServedIn("TEARDOWN") = INIT
BY DEF ServedIn

\* The presentation URL on its way, or what passes for it.
IsM4(m) == m.type = "SET_PARAMETER" /\ m.content \notin Trigger

-----------------------------------------------------------------------------
(* What the sink does with the head of its connection.                     *)

SinkUnmoved == UNCHANGED <<sink_state, sink_expected_reply, sink_send_cseq>>

\* Let through by validate_message_sequence.
SinkLetsThrough ==
  /\ IsRequest(Head(toSink))
  /\ sink_expected_reply = NoReply
  /\ sink_receive_cseq' = Head(toSink).cseq

\* M1.
SinkNegotiates ==
  /\ SinkLetsThrough
  /\ Head(toSink).type = "OPTIONS"
  /\ sink_state = INIT /\ sink_state' = CAPABILITY_NEGOTIATION
  /\ sink_expected_reply' = "OPTIONS" /\ sink_send_cseq' = sink_send_cseq + 1
  /\ Grows(toSource, toSource', {ReplyTo(Head(toSink), 200, Nothing),
                                 Request("OPTIONS", sink_send_cseq, Nothing)})
  /\ toSource = << >> => toSource' # << >> /\ ~IsRequest(Head(toSource'))

\* M3, and M4 without a URL.
SinkAnswers ==
  /\ SinkLetsThrough
  /\ SinkUnmoved
  /\ Head(toSink).type = "GET_PARAMETER" \/ IsM4(Head(toSink))
  /\ \E code \in {200, 303}, content \in Content :
       /\ Head(toSink).type = "SET_PARAMETER" => code = 303
       /\ Grows(toSource, toSource', {ReplyTo(Head(toSink), code, content)})

\* M4.
SinkLearnsUrl ==
  /\ SinkLetsThrough
  /\ IsM4(Head(toSink))
  /\ sink_state >= CAPABILITY_NEGOTIATION /\ sink_state' = RTSP_SESSION_ESTABLISHMENT
  /\ UNCHANGED <<sink_expected_reply, sink_send_cseq>>
  /\ Grows(toSource, toSource', {ReplyTo(Head(toSink), 200, Nothing)})

\* M5.
SinkFollows(trigger) ==
  /\ SinkLetsThrough
  /\ Head(toSink).type = "SET_PARAMETER" /\ Head(toSink).content = trigger
  /\ SinkObeys(trigger)
  /\ UNCHANGED sink_state
  /\ sink_expected_reply' = trigger /\ sink_send_cseq' = sink_send_cseq + 1
  /\ Grows(toSource, toSource', {ReplyTo(Head(toSink), 200, Nothing),
                                 Request(trigger, sink_send_cseq, presentation_url)})

\* The reply to the last request.
SinkTakesReply ==
  /\ ~IsRequest(Head(toSink))
  /\ Head(toSink).cseq = sink_send_cseq - 1
  /\ sink_expected_reply # NoReply
  /\ UNCHANGED sink_receive_cseq

\* M6 reply, with a session.
SinkAdoptsSession ==
  /\ SinkTakesReply
  /\ Head(toSink).code = 200 /\ sink_expected_reply = "SETUP"
  /\ sink_state = RTSP_SESSION_ESTABLISHMENT /\ sink_state' = WFD_SESSION_ESTABLISHMENT
  /\ sink_session' = Session
  /\ sink_expected_reply' = "PLAY" /\ sink_send_cseq' = sink_send_cseq + 1
  /\ Grows(toSource, toSource', {Request("PLAY", sink_send_cseq, presentation_url)})

\* M7, M8 and M9 replies.
SinkAdoptsState ==
  /\ SinkTakesReply
  /\ Head(toSink).code = 200 /\ sink_expected_reply \in Command
  /\ sink_expected_reply = "PLAY" => sink_state \in {WFD_SESSION_ESTABLISHMENT, WFD_SESSION_PAUSED}
  /\ sink_expected_reply = "PAUSE" => sink_state = WFD_SESSION_PLAYING
  /\ sink_expected_reply = "TEARDOWN" => sink_state \in {WFD_SESSION_PLAYING, WFD_SESSION_PAUSED}
  /\ sink_state' = ServedIn(sink_expected_reply)
  /\ sink_expected_reply' = NoReply
  /\ sink_send_cseq' = IF sink_state' = INIT THEN 1 ELSE sink_send_cseq
  /\ UNCHANGED toSource

\* Any other reply that is let through.
SinkGivesUp ==
  /\ SinkTakesReply
  /\ UNCHANGED <<sink_state, sink_send_cseq, toSource>>
  /\ sink_expected_reply' \in {sink_expected_reply, NoReply}
  /\ SinkHandlesReply => sink_expected_reply' = NoReply
  /\ Head(toSink).code = 200 /\ sink_expected_reply \in Trigger /\ SinkHandlesReply
       => sink_expected_reply = "SETUP" /\ Head(toSink).content # Session

SinkIgnores ==
  /\ SinkLetsThrough /\ SinkUnmoved /\ UNCHANGED toSource
  /\ ~SinkHandlesRequest(Head(toSink))

\* What is not let through: out of order, or no message at all.
SinkTurnsDown ==
  /\ SinkUnmoved /\ UNCHANGED sink_receive_cseq
  /\ IsRequest(Head(toSink)) /\ Head(toSink).type \notin Trigger
       => sink_expected_reply # NoReply \/ Head(toSink).cseq # sink_receive_cseq + 1
  /\ Head(toSink).type = "OPTIONS" => sink_expected_reply # NoReply
  /\ ~IsRequest(Head(toSink)) /\ Head(toSink).cseq = sink_send_cseq - 1
       => sink_expected_reply = NoReply
  /\ \/ UNCHANGED toSource
     \/ IsRequest(Head(toSink)) /\ Grows(toSource, toSource', {ReplyTo(Head(toSink), 400, Nothing)})

SinkEffect ==
  /\ toSink # << >> /\ toSink' = Tail(toSink)
  /\ UNCHANGED sink_connected
  /\ sink_session' = sink_session \/ SinkAdoptsSession
  /\ \/ SinkNegotiates
     \/ SinkAnswers
     \/ SinkLearnsUrl
     \/ \E trigger \in Trigger : SinkFollows(trigger)
     \/ SinkAdoptsSession
     \/ SinkAdoptsState
     \/ SinkGivesUp
     \/ SinkIgnores
     \/ SinkTurnsDown

-----------------------------------------------------------------------------
(* What the source does with the head of its connection.                   *)

SourceUnmoved == UNCHANGED <<source_up, source_state, source_pipeline>>

\* Let through by validate_message_sequence.
SourceLetsThrough ==
  /\ IsRequest(Head(toSource))
  /\ source_expected_reply = NoReply
  /\ Head(toSource).type = "OPTIONS" \/ Head(toSource).cseq = source_receive_cseq + 1
  /\ source_receive_cseq' = Head(toSource).cseq

SourceAsks(method, content) ==
  /\ source_expected_reply' = method /\ source_send_cseq' = source_send_cseq + 1
  /\ source_receive_cseq' = source_receive_cseq
  /\ Grows(toSink, toSink', {Request(method, source_send_cseq, content)})

\* M2, and M3.
SourceAsksCapabilities ==
  /\ SourceLetsThrough
  /\ Head(toSource).type = "OPTIONS"
  /\ source_state = CAPABILITY_NEGOTIATION /\ SourceUnmoved
  /\ source_expected_reply' = "GET_PARAMETER" /\ source_send_cseq' = source_send_cseq + 1
  /\ Grows(toSink, toSink', {ReplyTo(Head(toSource), 200, Nothing),
                             Request("GET_PARAMETER", source_send_cseq, Nothing)})

\* The reply to the last request.
SourceTakesReply ==
  /\ ~IsRequest(Head(toSource))
  /\ Head(toSource).cseq = source_send_cseq - 1
  /\ source_expected_reply # NoReply

\* M3 reply, and M4.
SourceSendsUrl ==
  /\ SourceTakesReply
  /\ source_expected_reply = "GET_PARAMETER"
  /\ source_state = CAPABILITY_NEGOTIATION /\ SourceUnmoved
  /\ SourceAsks("SET_PARAMETER", Url)

\* M4 reply, and the M5 that triggers SETUP.
SourceAsksForSetup ==
  /\ SourceTakesReply
  /\ Head(toSource).code = 200 /\ source_expected_reply = "SET_PARAMETER"
  /\ source_state = CAPABILITY_NEGOTIATION /\ source_state' = RTSP_SESSION_ESTABLISHMENT
  /\ UNCHANGED <<source_up, source_pipeline>>
  /\ SourceAsks("SET_PARAMETER", "SETUP")

\* Any other reply that is let through.
SourceStopsWaiting ==
  /\ SourceTakesReply
  /\ SourceUnmoved /\ UNCHANGED <<source_send_cseq, source_receive_cseq, toSink>>
  /\ \/ UNCHANGED source_expected_reply
     \/ /\ source_expected_reply' = NoReply
        /\ source_state = CAPABILITY_NEGOTIATION => source_expected_reply = "OPTIONS"
  /\ source_state = CAPABILITY_NEGOTIATION /\ source_expected_reply = "OPTIONS"
       => source_expected_reply' = NoReply

\* M6, M7, M8 and M9.
SourceServesRequest(method) ==
  /\ SourceLetsThrough
  /\ Head(toSource).type = method
  /\ method = "SETUP" => source_state = RTSP_SESSION_ESTABLISHMENT
  /\ method \in Command => /\ source_state >= RTSP_SESSION_ESTABLISHMENT
                           /\ source_pipeline # "none"
  /\ source_state' = ServedIn(method)
  /\ source_send_cseq' = IF source_state' = INIT THEN 1 ELSE source_send_cseq
  /\ source_pipeline' # "none"
  /\ UNCHANGED <<source_up, source_expected_reply>>
  /\ \E content \in Content :
       /\ method = "SETUP" => content = Session
       /\ Grows(toSink, toSink', {ReplyTo(Head(toSource), 200, content)})

\* A command before there is a pipeline.
SourceDies ==
  /\ SourceLetsThrough
  /\ Head(toSource).type \in Command
  /\ source_state >= RTSP_SESSION_ESTABLISHMENT /\ source_pipeline = "none"
  /\ UNCHANGED <<toSink, source_state, source_expected_reply, source_send_cseq>>

\* Any other request that is let through.
SourceGoesOn ==
  /\ SourceLetsThrough
  /\ Head(toSource).type = "SETUP" => source_state # RTSP_SESSION_ESTABLISHMENT
  /\ Head(toSource).type = "OPTIONS" => source_state # CAPABILITY_NEGOTIATION
  /\ SourceUnmoved /\ UNCHANGED <<source_expected_reply, source_send_cseq>>
  /\ \/ UNCHANGED toSink
     \/ /\ Head(toSource).type \notin Trigger
        /\ Grows(toSink, toSink', {ReplyTo(Head(toSource), 200, Nothing)})

\* What is not let through.
SourceTurnsDown ==
  /\ SourceUnmoved
  /\ UNCHANGED <<source_expected_reply, source_send_cseq, source_receive_cseq>>
  /\ Head(toSource).type = "OPTIONS" => source_expected_reply # NoReply
  /\ ~IsRequest(Head(toSource)) /\ Head(toSource).cseq = source_send_cseq - 1
       => source_expected_reply = NoReply
  /\ \/ UNCHANGED toSink
     \/ /\ IsRequest(Head(toSource))
        /\ Grows(toSink, toSink', {ReplyTo(Head(toSource), 400, Nothing)})

SourceEffect ==
  /\ toSource # << >> /\ toSource' = Tail(toSource)
  /\ UNCHANGED source_connected
  /\ \/ SourceAsksCapabilities
     \/ SourceSendsUrl
     \/ SourceAsksForSetup
     \/ SourceStopsWaiting
     \/ \E method \in Trigger : SourceServesRequest(method)
     \/ SourceDies
     \/ SourceGoesOn
     \/ SourceTurnsDown

-----------------------------------------------------------------------------
(* These are all the effects the handlers have.                            *)

LEMMA SinkPasses ==
  ASSUME SinkType, NEW type, SinkAccepts(type)
  PROVE  /\ toSink # << >> /\ toSink' = Tail(toSink) /\ Head(toSink).type = type
         /\ Head(toSink) \in Message
         /\ type # "REPLY" => SinkLetsThrough
         /\ type = "REPLY" => SinkTakesReply
<1>1. Head(toSink) \in Message /\ sink_receive_cseq \in Nat
  BY SinkAcceptsType DEF SinkType, SinkTypeOK
<1> QED
  BY <1>1 DEF SinkAccepts, ValidSequence, NextReceiveCSeq, IsRequest, SinkLetsThrough,
              SinkTakesReply

LEMMA SinkEffects ==
  ASSUME SinkType, SinkGotMessage
  PROVE  SinkEffect
<1>0. /\ toSource \in Seq(Message) /\ sink_send_cseq \in Nat
      /\ presentation_url \in Content
      /\ sink_state \in Int
  BY Words DEF SinkType, ConnectionTypeOK, SinkTypeOK, State, NotSet, INIT, WFD_SESSION_PAUSED
<1>a. toSink # << >> => Head(toSink) \in Message
  BY ReadType DEF SinkType, ConnectionTypeOK
<1>b. ASSUME toSink # << >>, IsRequest(Head(toSink)),
             NEW code \in {0, 200, 303, 400}, NEW content \in Content
      PROVE  Grows(toSource, Append(toSource, ReplyTo(Head(toSink), code, content)),
                   {ReplyTo(Head(toSink), code, content)})
  BY <1>0, <1>a, <1>b, AnswerType, GrowsByOne
<1>c. ASSUME toSink # << >>, IsRequest(Head(toSink)),
             NEW method \in Method, NEW asked \in Content
      PROVE  Grows(toSource, toSource \o <<ReplyTo(Head(toSink), 200, Nothing),
                                           Request(method, sink_send_cseq, asked)>>,
                   {ReplyTo(Head(toSink), 200, Nothing),
                    Request(method, sink_send_cseq, asked)})
  <2>1. /\ ReplyTo(Head(toSink), 200, Nothing) \in Message
        /\ Request(method, sink_send_cseq, asked) \in Message
    BY <1>0, <1>a, <1>c, AnswerType, AskedType, Words
  <2> QED
    BY <1>0, <2>1, GrowsByTwo
<1>1. CASE SinkHandleM1Options
  <2>1. SinkAccepts("OPTIONS")
    BY <1>1 DEF SinkHandleM1Options
  <2>2. toSink # << >> /\ toSink' = Tail(toSink) /\ Head(toSink).type = "OPTIONS"
        /\ SinkLetsThrough
    BY <2>1, SinkPasses
  <2>3. ASSUME toSource = << >>
        PROVE  toSource' # << >> /\ ~IsRequest(Head(toSource'))
    <3>1. ~IsRequest(ReplyTo(Head(toSink), 200, Nothing))
      BY <1>a, <2>2, AnswerType, Words DEF SinkLetsThrough
    <3>2. toSource' = <<ReplyTo(Head(toSink), 200, Nothing),
                        Request("OPTIONS", sink_send_cseq, Nothing)>>
      BY <1>1, <2>3 DEF SinkHandleM1Options
    <3> QED
      BY <3>1, <3>2
  <2>4. SinkNegotiates
    BY <1>1, <1>c, <2>2, <2>3, Words
    DEF SinkHandleM1Options, SinkNegotiates, SinkReadyToRequest, SinkLetsThrough
  <2> QED
    BY <1>1, <2>2, <2>4 DEF SinkEffect, SinkHandleM1Options
<1>2. CASE SinkHandleM2Reply
  <2>1. SinkAccepts("REPLY")
    BY <1>2 DEF SinkHandleM2Reply
  <2>2. toSink # << >> /\ toSink' = Tail(toSink) /\ SinkTakesReply
    BY <2>1, SinkPasses
  <2> QED
    BY <1>2, <2>2 DEF SinkEffect, SinkHandleM2Reply, SinkGivesUp, Trigger
<1>3. CASE SinkHandleM3GetParameter
  <2>1. SinkAccepts("GET_PARAMETER")
    BY <1>3 DEF SinkHandleM3GetParameter
  <2>2. toSink # << >> /\ toSink' = Tail(toSink) /\ Head(toSink).type = "GET_PARAMETER"
        /\ SinkLetsThrough
    BY <2>1, SinkPasses
  <2>3. Grows(toSource, toSource', {ReplyTo(Head(toSink), 200, Ports)})
    BY <1>3, <1>b, <2>2, Words DEF SinkHandleM3GetParameter, SinkLetsThrough
  <2>4. \E code \in {200, 303}, content \in Content :
          /\ Head(toSink).type = "SET_PARAMETER" => code = 303
          /\ Grows(toSource, toSource', {ReplyTo(Head(toSink), code, content)})
    <3>1. 200 \in {200, 303} /\ Ports \in Content /\ Head(toSink).type # "SET_PARAMETER"
      BY <2>2, Words
    <3> QED
      BY <2>3, <3>1
  <2>5. SinkAnswers
    BY <1>3, <2>2, <2>4 DEF SinkHandleM3GetParameter, SinkAnswers, SinkUnmoved
  <2> QED
    BY <1>3, <2>2, <2>5 DEF SinkEffect, SinkHandleM3GetParameter
<1>4. CASE SinkHandleM4SetParameter
  <2>1. SinkAccepts("SET_PARAMETER")
    BY <1>4 DEF SinkHandleM4SetParameter
  <2>2. toSink # << >> /\ toSink' = Tail(toSink) /\ Head(toSink).type = "SET_PARAMETER"
        /\ SinkLetsThrough
    BY <2>1, SinkPasses
  <2>3. UNCHANGED <<sink_connected, sink_expected_reply, sink_send_cseq, sink_session>>
    BY <1>4 DEF SinkHandleM4SetParameter
  <2>4. IsM4(Head(toSink)) /\ sink_state >= CAPABILITY_NEGOTIATION
    BY <1>4, <2>2 DEF SinkHandleM4SetParameter, IsM4
  <2>5. CASE sink_state = CAPABILITY_NEGOTIATION /\ Head(toSink).content \notin {Url, NoUrl}
    <3>1. sink_state' = sink_state
          /\ toSource' = Append(toSource, ReplyTo(Head(toSink), 303, Nothing))
      BY <1>4, <2>5 DEF SinkHandleM4SetParameter, SinkReplies
    <3>2. Grows(toSource, toSource', {ReplyTo(Head(toSink), 303, Nothing)})
      BY <1>b, <2>2, <3>1, Words DEF SinkLetsThrough
    <3>3. SinkAnswers
      BY <2>2, <2>3, <2>4, <3>1, <3>2, Words DEF SinkAnswers, SinkUnmoved
    <3> QED
      BY <2>2, <2>3, <3>3 DEF SinkEffect
  <2>6. CASE ~(sink_state = CAPABILITY_NEGOTIATION /\ Head(toSink).content \notin {Url, NoUrl})
    <3>1. sink_state' = RTSP_SESSION_ESTABLISHMENT
          /\ toSource' = Append(toSource, ReplyTo(Head(toSink), 200, Nothing))
      BY <1>4, <2>6 DEF SinkHandleM4SetParameter, SinkReplies
    <3>2. Grows(toSource, toSource', {ReplyTo(Head(toSink), 200, Nothing)})
      BY <1>b, <2>2, <3>1, Words DEF SinkLetsThrough
    <3>3. SinkLearnsUrl
      BY <2>2, <2>3, <2>4, <3>1, <3>2 DEF SinkLearnsUrl
    <3> QED
      BY <2>2, <2>3, <3>3 DEF SinkEffect
  <2> QED
    BY <2>5, <2>6
<1>5. CASE SinkHandleM5Trigger
  <2> DEFINE trigger == Head(toSink).content
  <2>1. SinkAccepts("SET_PARAMETER") /\ trigger \in Trigger
    BY <1>5 DEF SinkHandleM5Trigger
  <2>2. toSink # << >> /\ toSink' = Tail(toSink) /\ Head(toSink).type = "SET_PARAMETER"
        /\ SinkLetsThrough
    BY <2>1, SinkPasses
  <2>3. toSource' = toSource \o <<ReplyTo(Head(toSink), 200, Nothing),
                                  Request(trigger, sink_send_cseq, presentation_url)>>
    BY <1>5 DEF SinkHandleM5Trigger, SinkRequest
  <2>4. trigger \in Method
    BY <2>1, Words
  <2>5. Head(toSink).content = trigger /\ SinkObeys(trigger)
        /\ UNCHANGED <<sink_connected, sink_state, sink_session>>
        /\ sink_expected_reply' = trigger /\ sink_send_cseq' = sink_send_cseq + 1
    BY <1>5 DEF SinkHandleM5Trigger, SinkReadyToRequest
  <2> HIDE DEF trigger
  <2>6. SinkFollows(trigger)
    BY <1>0, <1>c, <2>2, <2>3, <2>4, <2>5 DEF SinkFollows, SinkLetsThrough
  <2> QED
    BY <2>1, <2>2, <2>5, <2>6 DEF SinkEffect
<1>6. CASE SinkHandleM6SetupReply
  <2>1. SinkAccepts("REPLY") /\ UNCHANGED sink_connected
    BY <1>6 DEF SinkHandleM6SetupReply
  <2>2. toSink # << >> /\ toSink' = Tail(toSink) /\ SinkTakesReply
    BY <2>1, SinkPasses
  <2>3. CASE Head(toSink).code = 200 /\ Head(toSink).content = Session
    <3>1. /\ sink_expected_reply = "SETUP" /\ sink_state = RTSP_SESSION_ESTABLISHMENT
          /\ sink_state' = WFD_SESSION_ESTABLISHMENT /\ sink_session' = Session
          /\ sink_expected_reply' = "PLAY" /\ sink_send_cseq' = sink_send_cseq + 1
          /\ toSource' = Append(toSource, Request("PLAY", sink_send_cseq, presentation_url))
      BY <1>6, <2>3 DEF SinkHandleM6SetupReply, SinkReadyToRequest, SinkRequest
    <3>2. Grows(toSource, toSource', {Request("PLAY", sink_send_cseq, presentation_url)})
      BY <1>0, <3>1, AskedType, GrowsByOne, Words
    <3>3. SinkAdoptsSession
      BY <2>2, <2>3, <3>1, <3>2 DEF SinkAdoptsSession
    <3> QED
      BY <2>1, <2>2, <3>3 DEF SinkEffect
  <2>4. CASE ~(Head(toSink).code = 200 /\ Head(toSink).content = Session)
    BY <1>6, <2>1, <2>2, <2>4 DEF SinkEffect, SinkHandleM6SetupReply, SinkGivesUp
  <2> QED
    BY <2>3, <2>4
<1>7. CASE SinkHandleM7PlayReply \/ SinkHandleM8TeardownReply \/ SinkHandleM9PauseReply
  <2>1. SinkAccepts("REPLY")
    BY <1>7 DEF SinkHandleM7PlayReply, SinkHandleM8TeardownReply, SinkHandleM9PauseReply
  <2>2. toSink # << >> /\ toSink' = Tail(toSink) /\ SinkTakesReply
    BY <2>1, SinkPasses
  <2>3. sink_expected_reply \in Command /\ SinkMovesOnReply(ServedIn(sink_expected_reply))
    BY <1>7, ServedStates DEF SinkHandleM7PlayReply, SinkHandleM8TeardownReply,
       SinkHandleM9PauseReply, Command, Trigger
  <2>4. /\ sink_expected_reply' = NoReply
        /\ UNCHANGED <<toSource, sink_connected, sink_session>>
    BY <2>3 DEF SinkMovesOnReply
  <2>5. CASE Head(toSink).code = 200
    <3>1. /\ sink_state' = ServedIn(sink_expected_reply)
          /\ sink_send_cseq' = IF sink_state' = INIT THEN 1 ELSE sink_send_cseq
      BY <2>3, <2>5 DEF SinkMovesOnReply, SinkSetState
    <3>2. SinkAdoptsState
      BY <1>7, <2>2, <2>3, <2>4, <2>5, <3>1
      DEF SinkAdoptsState, SinkHandleM7PlayReply, SinkHandleM8TeardownReply,
          SinkHandleM9PauseReply
    <3> QED
      BY <2>2, <2>4, <3>2 DEF SinkEffect
  <2>6. CASE Head(toSink).code # 200
    BY <2>2, <2>3, <2>4, <2>6 DEF SinkEffect, SinkGivesUp, SinkMovesOnReply
  <2> QED
    BY <2>5, <2>6
<1>8. CASE SinkIgnoresRequest
  <2>1. PICK method \in Method : SinkAccepts(method)
    BY <1>8 DEF SinkIgnoresRequest
  <2>2. toSink # << >> /\ toSink' = Tail(toSink) /\ SinkLetsThrough
    BY <2>1, SinkPasses DEF Method
  <2> QED
    BY <1>8, <2>2 DEF SinkEffect, SinkIgnoresRequest, SinkIgnores, SinkUnmoved
<1>9. CASE SinkIgnoresReply
  <2>1. SinkAccepts("REPLY")
    BY <1>9 DEF SinkIgnoresReply
  <2>2. toSink # << >> /\ toSink' = Tail(toSink) /\ SinkTakesReply
    BY <2>1, SinkPasses
  <2> QED
    BY <1>9, <2>2 DEF SinkEffect, SinkIgnoresReply, SinkGivesUp
<1>10. CASE SinkRefuses
  <2>1. toSink # << >> /\ toSink' = Tail(toSink) /\ UNCHANGED sinkVars
    BY <1>10 DEF SinkRefuses
  <2>2. /\ IsRequest(Head(toSink)) /\ Head(toSink).type \notin Trigger
             => sink_expected_reply # NoReply \/ Head(toSink).cseq # sink_receive_cseq + 1
        /\ Head(toSink).type = "OPTIONS" => sink_expected_reply # NoReply
        /\ ~IsRequest(Head(toSink)) /\ Head(toSink).cseq = sink_send_cseq - 1
             => sink_expected_reply = NoReply
    BY <1>10 DEF SinkRefuses, Parses, ValidSequence, IsRequest, Trigger
  <2>3. \/ UNCHANGED toSource
        \/ /\ IsRequest(Head(toSink))
           /\ Grows(toSource, toSource', {ReplyTo(Head(toSink), 400, Nothing)})
    <3>1. CASE Parses(Head(toSink)) /\ Head(toSink).type # "REPLY"
      <4>1. toSource' = Append(toSource, ReplyTo(Head(toSink), 400, Nothing))
        BY <1>10, <3>1 DEF SinkRefuses, SinkReplies
      <4>2. IsRequest(Head(toSink))
        BY <3>1 DEF IsRequest
      <4> QED
        BY <1>b, <2>1, <4>1, <4>2, Words
    <3>2. CASE ~(Parses(Head(toSink)) /\ Head(toSink).type # "REPLY")
      BY <1>10, <3>2 DEF SinkRefuses
    <3> QED
      BY <3>1, <3>2
  <2> QED
    BY <2>1, <2>2, <2>3 DEF SinkEffect, SinkTurnsDown, SinkUnmoved, sinkVars
<1> QED
  BY <1>1, <1>2, <1>3, <1>4, <1>5, <1>6, <1>7, <1>8, <1>9, <1>10 DEF SinkGotMessage

LEMMA SourcePasses ==
  ASSUME SourceType, NEW type, SourceAccepts(type)
  PROVE  /\ toSource # << >> /\ toSource' = Tail(toSource) /\ Head(toSource).type = type
         /\ Head(toSource) \in Message
         /\ type # "REPLY" => SourceLetsThrough
         /\ type = "REPLY" => SourceTakesReply /\ UNCHANGED source_receive_cseq
<1>1. Head(toSource) \in Message /\ source_receive_cseq \in Nat
  BY SourceAcceptsType DEF SourceType, SourceTypeOK
<1> QED
  BY <1>1 DEF SourceAccepts, ValidSequence, NextReceiveCSeq, IsRequest, SourceLetsThrough,
              SourceTakesReply

LEMMA SourceEffects ==
  ASSUME SourceType, SourceGotMessage
  PROVE  SourceEffect
<1>0. /\ toSink \in Seq(Message) /\ source_send_cseq \in Nat
      /\ source_state \in Int
  BY DEF SourceType, ConnectionTypeOK, SourceTypeOK, State, NotSet, INIT, WFD_SESSION_PAUSED
<1>a. toSource # << >> => Head(toSource) \in Message
  BY ReadType DEF SourceType, ConnectionTypeOK
<1>b. ASSUME toSource # << >>, IsRequest(Head(toSource)),
             NEW code \in {0, 200, 303, 400}, NEW content \in Content
      PROVE  Grows(toSink, Append(toSink, ReplyTo(Head(toSource), code, content)),
                   {ReplyTo(Head(toSource), code, content)})
  BY <1>0, <1>a, <1>b, AnswerType, GrowsByOne
<1>c. ASSUME NEW method \in Method, NEW asked \in Content
      PROVE  Grows(toSink, Append(toSink, Request(method, source_send_cseq, asked)),
                   {Request(method, source_send_cseq, asked)})
  BY <1>0, AskedType, GrowsByOne
<1>1. CASE SourceHandleM1Reply \/ SourceHandleM5Reply
  <2>1. SourceAccepts("REPLY")
    BY <1>1 DEF SourceHandleM1Reply, SourceHandleM5Reply
  <2>2. toSource # << >> /\ toSource' = Tail(toSource) /\ SourceTakesReply
        /\ UNCHANGED source_receive_cseq
    BY <2>1, SourcePasses
  <2>3. SourceStopsWaiting /\ UNCHANGED source_connected
    BY <1>0, <1>1, <2>2
    DEF SourceHandleM1Reply, SourceHandleM5Reply, SourceStopsWaiting, SourceUnmoved,
        CAPABILITY_NEGOTIATION, RTSP_SESSION_ESTABLISHMENT
  <2> QED
    BY <2>2, <2>3 DEF SourceEffect
<1>2. CASE SourceHandleM2Options
  <2>1. SourceAccepts("OPTIONS")
    BY <1>2 DEF SourceHandleM2Options
  <2>2. toSource # << >> /\ toSource' = Tail(toSource) /\ Head(toSource).type = "OPTIONS"
        /\ SourceLetsThrough
    BY <2>1, SourcePasses
  <2>3. /\ ReplyTo(Head(toSource), 200, Nothing) \in Message
        /\ Request("GET_PARAMETER", source_send_cseq, Nothing) \in Message
    BY <1>0, <1>a, <2>2, AnswerType, AskedType, Words DEF SourceLetsThrough
  <2>4. Grows(toSink, toSink', {ReplyTo(Head(toSource), 200, Nothing),
                                Request("GET_PARAMETER", source_send_cseq, Nothing)})
    BY <1>0, <1>2, <2>3, GrowsByTwo DEF SourceHandleM2Options
  <2>5. SourceAsksCapabilities /\ UNCHANGED source_connected
    BY <1>2, <2>2, <2>4
    DEF SourceHandleM2Options, SourceAsksCapabilities, SourceReadyToRequest, SourceUnmoved
  <2> QED
    BY <2>2, <2>5 DEF SourceEffect
<1>3. CASE SourceHandleM3Reply
  <2>1. SourceAccepts("REPLY") /\ UNCHANGED source_connected
    BY <1>3 DEF SourceHandleM3Reply
  <2>2. toSource # << >> /\ toSource' = Tail(toSource) /\ SourceTakesReply
        /\ UNCHANGED source_receive_cseq
    BY <2>1, SourcePasses
  <2>3. CASE Head(toSource).code = 200 /\ Head(toSource).content = Ports
    <3>1. Grows(toSink, toSink', {Request("SET_PARAMETER", source_send_cseq, Url)})
      BY <1>3, <1>c, <2>3, Words DEF SourceHandleM3Reply
    <3>2. SourceSendsUrl
      BY <1>3, <2>2, <2>3, <3>1
      DEF SourceHandleM3Reply, SourceSendsUrl, SourceAsks, SourceReadyToRequest, SourceUnmoved
    <3> QED
      BY <2>1, <2>2, <3>2 DEF SourceEffect
  <2>4. CASE ~(Head(toSource).code = 200 /\ Head(toSource).content = Ports)
    <3>1. SourceStopsWaiting
      BY <1>3, <2>2, <2>4 DEF SourceHandleM3Reply, SourceStopsWaiting, SourceUnmoved
    <3> QED
      BY <2>1, <2>2, <3>1 DEF SourceEffect
  <2> QED
    BY <2>3, <2>4
<1>4. CASE SourceHandleM4Reply
  <2>1. SourceAccepts("REPLY") /\ UNCHANGED source_connected
    BY <1>4 DEF SourceHandleM4Reply
  <2>2. toSource # << >> /\ toSource' = Tail(toSource) /\ SourceTakesReply
        /\ UNCHANGED source_receive_cseq
    BY <2>1, SourcePasses
  <2>3. CASE Head(toSource).code = 200
    <3>0. "SETUP" \in Content
      BY DEF Content, Trigger
    <3>1. Grows(toSink, toSink', {Request("SET_PARAMETER", source_send_cseq, "SETUP")})
      BY <1>4, <1>c, <2>3, <3>0, Words DEF SourceHandleM4Reply, SourceTriggerRequest
    <3>2. SourceAsksForSetup
      BY <1>4, <2>2, <2>3, <3>1
      DEF SourceHandleM4Reply, SourceAsksForSetup, SourceAsks, SourceReadyToRequest
    <3> QED
      BY <2>1, <2>2, <3>2 DEF SourceEffect
  <2>4. CASE Head(toSource).code # 200
    <3>1. SourceStopsWaiting
      BY <1>4, <2>2, <2>4 DEF SourceHandleM4Reply, SourceStopsWaiting, SourceUnmoved
    <3> QED
      BY <2>1, <2>2, <3>1 DEF SourceEffect
  <2> QED
    BY <2>3, <2>4
<1>5. CASE SourceHandleM6Setup
  <2>1. SourceAccepts("SETUP")
    BY <1>5 DEF SourceHandleM6Setup
  <2>2. toSource # << >> /\ toSource' = Tail(toSource) /\ Head(toSource).type = "SETUP"
        /\ SourceLetsThrough
    BY <2>1, SourcePasses
  <2>3. Grows(toSink, toSink', {ReplyTo(Head(toSource), 200, Session)})
    BY <1>5, <1>b, <2>2, Words DEF SourceHandleM6Setup, SourceReplies, SourceLetsThrough
  <2>4. \E content \in Content :
          /\ "SETUP" = "SETUP" => content = Session
          /\ Grows(toSink, toSink', {ReplyTo(Head(toSource), 200, content)})
    BY <2>3, Words
  <2>5. /\ source_state = RTSP_SESSION_ESTABLISHMENT
        /\ source_state' = WFD_SESSION_ESTABLISHMENT
        /\ source_send_cseq' = IF source_state' = INIT THEN 1 ELSE source_send_cseq
        /\ source_pipeline' = "READY"
        /\ UNCHANGED <<source_up, source_connected, source_expected_reply>>
    BY <1>5 DEF SourceHandleM6Setup, SourceSetState
  <2>6. "SETUP" \in Trigger /\ "SETUP" \notin Command
    BY DEF Trigger, Command
  <2>7. SourceServesRequest("SETUP")
    BY <2>2, <2>4, <2>5, <2>6, ServedStates DEF SourceServesRequest
  <2> QED
    BY <2>2, <2>5, <2>6, <2>7 DEF SourceEffect
<1>6. CASE SourceHandleM7Play \/ SourceHandleM9Pause \/ SourceHandleM8Teardown
  <2>1. PICK method \in Command, pipeline \in Pipeline \ {"none"} :
          SourceServes(method, pipeline, ServedIn(method))
    BY <1>6, ServedStates DEF SourceHandleM7Play, SourceHandleM9Pause, SourceHandleM8Teardown,
                Command, Trigger, Pipeline
  <2>2. SourceAccepts(method) /\ method # "REPLY" /\ method # "SETUP" /\ method \in Trigger
    BY <2>1 DEF SourceServes, Command, Trigger
  <2>3. toSource # << >> /\ toSource' = Tail(toSource) /\ Head(toSource).type = method
        /\ SourceLetsThrough
    BY <2>2, SourcePasses
  <2>4. Grows(toSink, toSink', {ReplyTo(Head(toSource), 200, Nothing)})
    BY <2>1, <1>b, <2>3, Words DEF SourceServes, SourceReplies, SourceLetsThrough
  <2>5. \E content \in Content :
          /\ method = "SETUP" => content = Session
          /\ Grows(toSink, toSink', {ReplyTo(Head(toSource), 200, content)})
    BY <2>2, <2>4, Words
  <2>6. SourceServesRequest(method) /\ UNCHANGED source_connected
    BY <2>1, <2>2, <2>3, <2>5 DEF SourceServes, SourceSetState, SourceServesRequest
  <2> QED
    BY <2>2, <2>3, <2>6 DEF SourceEffect
<1>7. CASE SourceHasNoPipeline
  <2>1. PICK method \in Command : SourceAccepts(method)
    BY <1>7 DEF SourceHasNoPipeline
  <2>2. toSource # << >> /\ toSource' = Tail(toSource) /\ Head(toSource).type = method
        /\ SourceLetsThrough
    BY <2>1, SourcePasses DEF Command, Trigger
  <2> QED
    BY <1>7, <2>2 DEF SourceEffect, SourceDies, SourceHasNoPipeline
<1>8. CASE SourceHandleParameter
  <2>1. PICK method \in {"GET_PARAMETER", "SET_PARAMETER"} : SourceAccepts(method)
    BY <1>8 DEF SourceHandleParameter
  <2>2. toSource # << >> /\ toSource' = Tail(toSource) /\ Head(toSource).type = method
        /\ SourceLetsThrough
    BY <2>1, SourcePasses
  <2>3. Grows(toSink, toSink', {ReplyTo(Head(toSource), 200, Nothing)})
    BY <1>8, <1>b, <2>2, Words DEF SourceHandleParameter, SourceReplies, SourceLetsThrough
  <2>4. Head(toSource).type \notin Trigger
    BY <2>2 DEF Trigger
  <2>5. SourceGoesOn /\ UNCHANGED source_connected
    BY <1>8, <2>2, <2>3, <2>4 DEF SourceHandleParameter, SourceGoesOn, SourceUnmoved
  <2> QED
    BY <2>2, <2>5 DEF SourceEffect
<1>9. CASE SourceIgnoresRequest
  <2>1. PICK method \in Method : SourceAccepts(method)
    BY <1>9 DEF SourceIgnoresRequest
  <2>2. toSource # << >> /\ toSource' = Tail(toSource) /\ Head(toSource).type = method
        /\ SourceLetsThrough
    BY <2>1, SourcePasses DEF Method
  <2>3. /\ Head(toSource).type = "SETUP" => source_state # RTSP_SESSION_ESTABLISHMENT
        /\ Head(toSource).type = "OPTIONS" => source_state # CAPABILITY_NEGOTIATION
    <3>1. ASSUME NEW m, m.type = "SETUP", source_state = RTSP_SESSION_ESTABLISHMENT
          PROVE  SourceHandlesRequest(m)
      BY <3>1 DEF SourceHandlesRequest, Command, Trigger
    <3>2. ASSUME NEW m, m.type = "OPTIONS", source_state = CAPABILITY_NEGOTIATION
          PROVE  SourceHandlesRequest(m)
      BY <3>2 DEF SourceHandlesRequest, Command, Trigger
    <3> QED
      BY <1>9, <3>1, <3>2 DEF SourceIgnoresRequest
  <2>4. SourceGoesOn /\ UNCHANGED source_connected
    BY <1>9, <2>2, <2>3 DEF SourceIgnoresRequest, SourceGoesOn, SourceUnmoved
  <2> QED
    BY <2>2, <2>4 DEF SourceEffect
<1>10. CASE SourceIgnoresReply
  <2>1. SourceAccepts("REPLY")
    BY <1>10 DEF SourceIgnoresReply
  <2>2. toSource # << >> /\ toSource' = Tail(toSource) /\ SourceTakesReply
        /\ UNCHANGED source_receive_cseq
    BY <2>1, SourcePasses
  <2>3. SourceStopsWaiting /\ UNCHANGED source_connected
    BY <1>10, <2>2 DEF SourceIgnoresReply, SourceHandlesReply, SourceStopsWaiting, SourceUnmoved
  <2> QED
    BY <2>2, <2>3 DEF SourceEffect
<1>11. CASE SourceRefuses
  <2>1. toSource # << >> /\ toSource' = Tail(toSource) /\ UNCHANGED sourceVars
    BY <1>11 DEF SourceRefuses
  <2>2. \/ UNCHANGED toSink
        \/ /\ IsRequest(Head(toSource))
           /\ Grows(toSink, toSink', {ReplyTo(Head(toSource), 400, Nothing)})
    <3>1. CASE Parses(Head(toSource)) /\ Head(toSource).type # "REPLY"
      <4>1. toSink' = Append(toSink, ReplyTo(Head(toSource), 400, Nothing))
        BY <1>11, <3>1 DEF SourceRefuses, SourceReplies
      <4>2. IsRequest(Head(toSource))
        BY <3>1 DEF IsRequest
      <4> QED
        BY <1>b, <2>1, <4>1, <4>2, Words
    <3>2. CASE ~(Parses(Head(toSource)) /\ Head(toSource).type # "REPLY")
      BY <1>11, <3>2 DEF SourceRefuses
    <3> QED
      BY <3>1, <3>2
  <2>3. /\ Head(toSource).type = "OPTIONS" => source_expected_reply # NoReply
        /\ ~IsRequest(Head(toSource)) /\ Head(toSource).cseq = source_send_cseq - 1
             => source_expected_reply = NoReply
    BY <1>11 DEF SourceRefuses, Parses, ValidSequence, IsRequest, Trigger
  <2> QED
    BY <2>1, <2>2, <2>3 DEF SourceEffect, SourceTurnsDown, SourceUnmoved, sourceVars
<1> QED
  BY <1>1, <1>2, <1>3, <1>4, <1>5, <1>6, <1>7, <1>8, <1>9, <1>10, <1>11
  DEF SourceGotMessage


-----------------------------------------------------------------------------
(* What an exchange in order says of the messages under way.               *)

Orderly(requests, replies, expected_reply, send_cseq) ==
  /\ \A m \in In(requests) : IsRequest(m) =>
       /\ expected_reply # NoReply
       /\ m.cseq < send_cseq
       /\ m.cseq = send_cseq - 1 => m.type = expected_reply
  /\ \A m \in In(replies) : ~IsRequest(m) =>
       /\ expected_reply # NoReply
       /\ m.cseq < send_cseq
       /\ m.cseq = send_cseq - 1 => m.answers = expected_reply
  /\ \A m \in In(requests), n \in In(replies) :
       IsRequest(m) /\ ~IsRequest(n) => n.cseq < m.cseq

LEMMA OrderIn ==
  ASSUME NEW requests, NEW replies, NEW e, NEW s, ExchangeInOrder(requests, replies, e, s)
  PROVE  Orderly(requests, replies, e, s)
BY DEF ExchangeInOrder, Orderly, In

\* The first request is the oldest.
LEMMA OldestFirst ==
  ASSUME NEW requests \in Seq(Message), NEW replies, NEW e, NEW s,
         ExchangeInOrder(requests, replies, e, s), requests # << >>,
         IsRequest(Head(requests)), NEW m \in In(Tail(requests)), IsRequest(m)
  PROVE  Head(requests).cseq < m.cseq
<1>1. PICK i \in 1 .. Len(Tail(requests)) : m = Tail(requests)[i]
  BY DEF In
<1>2. i + 1 \in 1 .. Len(requests) /\ m = requests[i + 1] /\ Head(requests) = requests[1]
      /\ 1 \in 1 .. Len(requests) /\ 1 < i + 1
  BY <1>1, Shrunk
<1> QED
  BY <1>2 DEF ExchangeInOrder

\* Once the last reply has come, nothing of the exchange is under way.
LEMMA LastReply ==
  ASSUME NEW requests \in Seq(Message), NEW replies \in Seq(Message), NEW e, NEW s \in Nat,
         ExchangeInOrder(requests, replies, e, s), replies # << >>,
         ~IsRequest(Head(replies)), Head(replies).cseq = s - 1
  PROVE  /\ \A m \in In(requests) : ~IsRequest(m)
         /\ \A m \in In(Tail(replies)) : IsRequest(m)
BY Take DEF In

-----------------------------------------------------------------------------
(* The invariant.                                                          *)

Before == {NotSet, CAPABILITY_NEGOTIATION, RTSP_SESSION_ESTABLISHMENT}

\* How far each program is while the other is where it is.
Phases ==
  /\ source_up
  /\ sink_connected <=> sink_state # NotSet
  /\ source_connected <=> source_state # NotSet
  /\ source_state >= WFD_SESSION_ESTABLISHMENT => source_pipeline # "none"
  /\ source_state = NotSet => sink_state <= INIT
  /\ source_state \in Before => sink_state <= RTSP_SESSION_ESTABLISHMENT
  /\ source_state >= RTSP_SESSION_ESTABLISHMENT => sink_state >= RTSP_SESSION_ESTABLISHMENT

\* M1..M4: what is under way belongs to the phase both are in.
Negotiation ==
  /\ \A m \in In(toSink) :
       m.type \in {"OPTIONS", "GET_PARAMETER"} \/ IsM4(m)
         => source_state = CAPABILITY_NEGOTIATION
  /\ \A m \in In(toSink) : IsM4(m) =>
       source_expected_reply = "SET_PARAMETER" /\ sink_state <= CAPABILITY_NEGOTIATION
  /\ \A m, n \in In(toSink) : IsM4(m) /\ IsM4(n) => m.cseq = n.cseq
  /\ \A m \in In(toSink) : m.type \notin Trigger
  /\ \A m \in In(toSource) : m.type = "OPTIONS" => sink_state = CAPABILITY_NEGOTIATION
  /\ \A m \in In(toSource) :
       /\ ~IsRequest(m) /\ m.code = 200 /\ m.answers = "SET_PARAMETER"
       /\ source_state = CAPABILITY_NEGOTIATION
       => sink_state >= RTSP_SESSION_ESTABLISHMENT
  /\ source_state = CAPABILITY_NEGOTIATION /\ sink_state >= RTSP_SESSION_ESTABLISHMENT
       => source_expected_reply = "SET_PARAMETER"

\* The answer to the sink's last request tells the state the source is still in.
Served ==
  \A m \in In(toSink) :
    ~IsRequest(m) /\ m.code = 200 /\ m.answers \in Trigger /\ m.cseq = sink_send_cseq - 1
      => source_state = ServedIn(m.answers)

\* The source has not received more than the sink has sent.
Counted ==
  /\ ~sink_connected => source_receive_cseq = 0
  /\ sink_connected /\ source_state \in Before => source_receive_cseq < sink_send_cseq

\* The source numbers its requests one by one.
Consecutive ==
  source_state \in {CAPABILITY_NEGOTIATION, RTSP_SESSION_ESTABLISHMENT} =>
    \A m \in In(toSink) : IsRequest(m) =>
       \/ m.cseq + 1 = source_send_cseq
       \/ \E n \in In(toSink) : IsRequest(n) /\ n.cseq = m.cseq + 1

SettingUp ==
  /\ source_state \in {CAPABILITY_NEGOTIATION, RTSP_SESSION_ESTABLISHMENT}
  /\ sink_state = RTSP_SESSION_ESTABLISHMENT

\* The source has received all that the sink has sent.
AllReceived == source_receive_cseq + 1 = sink_send_cseq

(***************************************************************************)
(* While the session is being set up, a sink all of whose requests have    *)
(* been received waits for nothing and has the source's next request next. *)
(***************************************************************************)
NextInLine == SettingUp /\ AllReceived =>
  /\ sink_expected_reply = NoReply
  /\ toSink = << >> => source_send_cseq = sink_receive_cseq + 1
  /\ toSink # << >> => Head(toSink).cseq = sink_receive_cseq + 1

\* Beyond the first messages to the source, only a SETUP can come next.
OnlySetupAfter(j) ==
  /\ ~AllReceived
  /\ \A i \in 1 .. Len(toSource) :
       i > j /\ IsRequest(toSource[i]) /\ toSource[i].cseq = source_receive_cseq + 1
         => toSource[i].type = "SETUP"

(***************************************************************************)
(* A source that has asked for the session lets no request through but     *)
(* SETUP: not now, if it waits for no reply, and not after the reply it    *)
(* waits for.                                                              *)
(***************************************************************************)
SetupFirst ==
  source_state = RTSP_SESSION_ESTABLISHMENT =>
    /\ source_expected_reply = NoReply => OnlySetupAfter(0)
    /\ \A j \in 1 .. Len(toSource) :
         ~IsRequest(toSource[j]) /\ toSource[j].cseq = source_send_cseq - 1
           => OnlySetupAfter(j)

SessionInv ==
  /\ TypeOK
  /\ ExchangesInOrder
  /\ Phases
  /\ Negotiation
  /\ Served
  /\ Counted
  /\ Consecutive
  /\ NextInLine
  /\ SetupFirst


-----------------------------------------------------------------------------
(* What a step does to the states of the two programs.                     *)

LEMMA Facts ==
  ASSUME SessionInv
  PROVE  /\ SinkType /\ SourceType
         /\ toSink \in Seq(Message) /\ toSource \in Seq(Message)
         /\ In(toSink) \subseteq Message /\ In(toSource) \subseteq Message
         /\ sink_state \in -1 .. 5 /\ source_state \in -1 .. 5
         /\ sink_send_cseq \in Nat /\ sink_receive_cseq \in Nat
         /\ source_send_cseq \in Nat /\ source_receive_cseq \in Nat
         /\ presentation_url \in Content
         /\ ExchangeInOrder(toSource, toSink, sink_expected_reply, sink_send_cseq)
         /\ ExchangeInOrder(toSink, toSource, source_expected_reply, source_send_cseq)
         /\ Orderly(toSource, toSink, sink_expected_reply, sink_send_cseq)
         /\ Orderly(toSink, toSource, source_expected_reply, source_send_cseq)
<1>1. /\ SinkType /\ SourceType
      /\ toSink \in Seq(Message) /\ toSource \in Seq(Message)
      /\ sink_send_cseq \in Nat /\ sink_receive_cseq \in Nat
      /\ source_send_cseq \in Nat /\ source_receive_cseq \in Nat
      /\ presentation_url \in Content
  BY Words DEF SessionInv, TypeOK, SinkType, SourceType, ConnectionTypeOK, SinkTypeOK, SourceTypeOK
<1>2. sink_state \in -1 .. 5 /\ source_state \in -1 .. 5
  BY DEF SessionInv, TypeOK, SinkTypeOK, SourceTypeOK, State, NotSet, INIT, WFD_SESSION_PAUSED
<1>3. /\ ExchangeInOrder(toSource, toSink, sink_expected_reply, sink_send_cseq)
      /\ ExchangeInOrder(toSink, toSource, source_expected_reply, source_send_cseq)
  BY DEF SessionInv, ExchangesInOrder
<1> QED
  BY <1>1, <1>2, <1>3, InType, OrderIn

\* What is known when the sink reads.
LEMMA SinkHandles ==
  ASSUME SessionInv, SinkGotMessage
  PROVE  /\ SinkEffect
         /\ sink_connected /\ source_connected
         /\ toSink # << >> /\ toSink' = Tail(toSink)
         /\ Head(toSink) \in In(toSink) /\ Head(toSink) \in Message
         /\ In(toSink') \subseteq In(toSink)
<1>1. SinkEffect
  BY Facts, SinkEffects
<1>2. toSink # << >> /\ toSink' = Tail(toSink) /\ toSink \in Seq(Message)
  BY <1>1, Facts DEF SinkEffect
<1>3. sink_connected /\ source_connected
  BY SinkReads DEF SessionInv
<1>4. Head(toSink) \in In(toSink) /\ In(toSink') \subseteq In(toSink)
  BY <1>2, Shrunk
<1> QED
  BY <1>1, <1>2, <1>3, <1>4, Facts

\* What is known when the source reads.
LEMMA SourceHandles ==
  ASSUME SessionInv, SourceGotMessage
  PROVE  /\ SourceEffect
         /\ sink_connected /\ source_connected
         /\ toSource # << >> /\ toSource' = Tail(toSource)
         /\ Head(toSource) \in In(toSource) /\ Head(toSource) \in Message
         /\ In(toSource') \subseteq In(toSource)
<1>1. SourceEffect
  BY Facts, SourceEffects
<1>2. toSource # << >> /\ toSource' = Tail(toSource) /\ toSource \in Seq(Message)
  BY <1>1, Facts DEF SourceEffect
<1>3. sink_connected /\ source_connected
  BY SourceReads DEF SessionInv
<1>4. Head(toSource) \in In(toSource) /\ In(toSource') \subseteq In(toSource)
  BY <1>2, Shrunk
<1> QED
  BY <1>1, <1>2, <1>3, <1>4, Facts

\* The moves of the sink's state, with what the source's is at the time.
SinkMoves ==
  \/ sink_state' = sink_state
  \/ /\ sink_state = INIT /\ sink_state' = CAPABILITY_NEGOTIATION
     /\ source_state = CAPABILITY_NEGOTIATION /\ SinkNegotiates
  \/ /\ sink_state = CAPABILITY_NEGOTIATION /\ sink_state' = RTSP_SESSION_ESTABLISHMENT
     /\ source_state = CAPABILITY_NEGOTIATION /\ SinkLearnsUrl
  \/ /\ sink_state = RTSP_SESSION_ESTABLISHMENT
     /\ source_state = WFD_SESSION_ESTABLISHMENT /\ sink_state' = source_state
  \/ /\ sink_state = WFD_SESSION_ESTABLISHMENT
     /\ source_state = WFD_SESSION_PLAYING /\ sink_state' = source_state
  \/ /\ sink_state \in {WFD_SESSION_PLAYING, WFD_SESSION_PAUSED}
     /\ source_state \in {WFD_SESSION_PLAYING, WFD_SESSION_PAUSED, INIT}
     /\ sink_state' = source_state

\* A reply with code 200 is the source's: it names the source's state.
LEMMA SinkIsServed ==
  ASSUME SessionInv, toSink # << >>, SinkTakesReply, Head(toSink).code = 200,
         sink_expected_reply \in Trigger
  PROVE  source_state = ServedIn(sink_expected_reply)
<1>1. Head(toSink) \in In(toSink)
  BY Facts, Shrunk
<1>2. Head(toSink).answers = sink_expected_reply
  BY <1>1, Facts DEF SinkTakesReply, Orderly
<1> QED
  BY <1>1, <1>2 DEF SinkTakesReply, SessionInv, Served

LEMMA SinkMovesAlong ==
  ASSUME SessionInv, SinkGotMessage
  PROVE  SinkMoves
<1> USE DEF INIT, CAPABILITY_NEGOTIATION, RTSP_SESSION_ESTABLISHMENT,
            WFD_SESSION_ESTABLISHMENT, WFD_SESSION_PLAYING, WFD_SESSION_PAUSED
<1>0. Head(toSink) \in In(toSink) /\ toSink # << >> /\ SinkEffect
  BY SinkHandles
<1>1. CASE SinkNegotiates
  BY <1>0, <1>1 DEF SinkNegotiates, SessionInv, Negotiation, SinkMoves
<1>2. CASE SinkLearnsUrl
  <2>1. source_state = CAPABILITY_NEGOTIATION /\ sink_state <= CAPABILITY_NEGOTIATION
    BY <1>0, <1>2 DEF SinkLearnsUrl, SessionInv, Negotiation
  <2> QED
    BY <1>2, <2>1, Facts DEF SinkLearnsUrl, SinkMoves
<1>3. CASE SinkAdoptsSession
  <2>1. sink_expected_reply \in Trigger
    BY <1>3 DEF SinkAdoptsSession, Trigger
  <2>2. source_state = WFD_SESSION_ESTABLISHMENT
    BY <1>0, <1>3, <2>1, SinkIsServed, ServedStates DEF SinkAdoptsSession
  <2> QED
    BY <1>3, <2>2 DEF SinkAdoptsSession, SinkMoves
<1>4. CASE SinkAdoptsState
  <2>1. sink_expected_reply \in Trigger /\ sink_expected_reply \in {"PLAY", "PAUSE", "TEARDOWN"}
    BY <1>4 DEF SinkAdoptsState, Command, Trigger
  <2>2. source_state = ServedIn(sink_expected_reply) /\ sink_state' = source_state
    BY <1>0, <1>4, <2>1, SinkIsServed DEF SinkAdoptsState
  <2> QED
    BY <1>4, <2>1, <2>2, ServedStates DEF SinkAdoptsState, SinkMoves
<1>5. CASE ~(SinkNegotiates \/ SinkLearnsUrl \/ SinkAdoptsSession \/ SinkAdoptsState)
  BY <1>0, <1>5 DEF SinkEffect, SinkAnswers, SinkUnmoved, SinkFollows, SinkGivesUp,
                    SinkIgnores, SinkTurnsDown, SinkMoves
<1> QED
  BY <1>1, <1>2, <1>3, <1>4, <1>5

\* The moves of the source's state, with what the sink's is at the time.
SourceMoves ==
  /\ source_up' = source_up
  /\ \/ source_state' = source_state /\ source_pipeline' = source_pipeline
     \/ /\ source_state = CAPABILITY_NEGOTIATION
        /\ source_state' = RTSP_SESSION_ESTABLISHMENT
        /\ sink_state = RTSP_SESSION_ESTABLISHMENT
     \/ /\ source_state = RTSP_SESSION_ESTABLISHMENT
        /\ source_state' = WFD_SESSION_ESTABLISHMENT /\ source_pipeline' # "none"
     \/ /\ source_state >= WFD_SESSION_ESTABLISHMENT
        /\ source_state' \in {WFD_SESSION_PLAYING, WFD_SESSION_PAUSED, INIT}
        /\ source_pipeline' # "none"

\* A source that has asked for the session is not commanded.
LEMMA NoEarlyCommand ==
  ASSUME SessionInv, toSource # << >>, SourceLetsThrough,
         source_state = RTSP_SESSION_ESTABLISHMENT
  PROVE  Head(toSource).type = "SETUP"
<1> USE DEF INIT, CAPABILITY_NEGOTIATION, RTSP_SESSION_ESTABLISHMENT,
            WFD_SESSION_ESTABLISHMENT, WFD_SESSION_PLAYING, WFD_SESSION_PAUSED
<1>1. /\ Head(toSource) \in In(toSource) /\ Head(toSource) = toSource[1]
      /\ 1 \in 1 .. Len(toSource)
  BY Facts, Shrunk
<1>2. Head(toSource).type # "OPTIONS"
  BY <1>1, Facts DEF SessionInv, Negotiation, Phases
<1>3. OnlySetupAfter(0)
  BY DEF SourceLetsThrough, SessionInv, SetupFirst
<1> QED
  BY <1>1, <1>2, <1>3 DEF OnlySetupAfter, SourceLetsThrough

LEMMA NeverDies ==
  ASSUME SessionInv, toSource # << >>
  PROVE  ~SourceDies
<1> SUFFICES ASSUME SourceDies PROVE FALSE
  OBVIOUS
<1> USE DEF INIT, CAPABILITY_NEGOTIATION, RTSP_SESSION_ESTABLISHMENT,
            WFD_SESSION_ESTABLISHMENT, WFD_SESSION_PLAYING, WFD_SESSION_PAUSED
<1>1. source_state # RTSP_SESSION_ESTABLISHMENT
  BY NoEarlyCommand DEF SourceDies, Command, Trigger
<1>2. source_state >= WFD_SESSION_ESTABLISHMENT
  BY <1>1, Facts DEF SourceDies
<1> QED
  BY <1>2 DEF SourceDies, SessionInv, Phases

LEMMA SourceMovesAlong ==
  ASSUME SessionInv, SourceGotMessage
  PROVE  SourceMoves
<1> USE DEF INIT, CAPABILITY_NEGOTIATION, RTSP_SESSION_ESTABLISHMENT,
            WFD_SESSION_ESTABLISHMENT, WFD_SESSION_PLAYING, WFD_SESSION_PAUSED
<1>0. Head(toSource) \in In(toSource) /\ toSource # << >> /\ SourceEffect
  BY SourceHandles
<1>1. CASE SourceAsksForSetup
  <2>1. Head(toSource).answers = "SET_PARAMETER"
    BY <1>0, <1>1, Facts DEF SourceAsksForSetup, SourceTakesReply, Orderly
  <2>2. sink_state >= RTSP_SESSION_ESTABLISHMENT
    BY <1>0, <1>1, <2>1 DEF SourceAsksForSetup, SourceTakesReply, SessionInv, Negotiation
  <2>3. sink_state <= RTSP_SESSION_ESTABLISHMENT
    BY <1>1 DEF SourceAsksForSetup, SessionInv, Phases, Before
  <2> QED
    BY <1>1, <2>2, <2>3, Facts DEF SourceAsksForSetup, SourceMoves
<1>2. ASSUME NEW method \in Trigger, SourceServesRequest(method)
      PROVE  SourceMoves
  <2>1. CASE method = "SETUP"
    BY <1>2, <2>1, ServedStates DEF SourceServesRequest, SourceMoves
  <2>2. CASE method # "SETUP"
    <3>1. method \in Command /\ method \in {"PLAY", "PAUSE", "TEARDOWN"}
      BY <2>2 DEF Command, Trigger
    <3>2. source_state # RTSP_SESSION_ESTABLISHMENT
      BY <1>0, <1>2, <2>2, NoEarlyCommand DEF SourceServesRequest
    <3>3. source_state >= WFD_SESSION_ESTABLISHMENT
      BY <1>2, <3>1, <3>2, Facts DEF SourceServesRequest
    <3> QED
      BY <1>2, <3>1, <3>3, ServedStates DEF SourceServesRequest, SourceMoves
  <2> QED
    BY <2>1, <2>2
<1>3. ~SourceDies
  BY <1>0, NeverDies
<1>4. CASE SourceAsksCapabilities \/ SourceSendsUrl \/ SourceStopsWaiting
            \/ SourceGoesOn \/ SourceTurnsDown
  BY <1>4 DEF SourceAsksCapabilities, SourceSendsUrl, SourceStopsWaiting, SourceGoesOn,
              SourceTurnsDown, SourceUnmoved, SourceMoves
<1> QED
  BY <1>0, <1>1, <1>2, <1>3, <1>4 DEF SourceEffect


-----------------------------------------------------------------------------
(* The steps that no message brings about.                                 *)

SinkConnects ==
  /\ ~sink_connected /\ sink_connected'
  /\ sink_state' = INIT /\ sink_send_cseq' = 1
  /\ UNCHANGED <<toSink, toSource, sink_expected_reply, sink_receive_cseq, sourceVars>>

SinkTypes(command) ==
  /\ sink_expected_reply' = command /\ sink_send_cseq' = sink_send_cseq + 1
  /\ \/ /\ sink_connected
        /\ Grows(toSource, toSource', {Request(command, sink_send_cseq, presentation_url)})
     \/ ~sink_connected /\ UNCHANGED toSource
  /\ UNCHANGED <<toSink, sink_connected, sink_state, sink_receive_cseq, sourceVars>>

SourceConnects ==
  /\ ~source_connected /\ source_connected'
  /\ source_state' = CAPABILITY_NEGOTIATION
  /\ SourceAsks("OPTIONS", Nothing)
  /\ UNCHANGED <<toSource, source_up, source_pipeline, sinkVars>>

SourceTypes(command) ==
  /\ \/ source_connected /\ SourceAsks("SET_PARAMETER", command)
     \/ /\ ~source_connected
        /\ source_expected_reply' = "SET_PARAMETER"
        /\ source_send_cseq' = source_send_cseq + 1
        /\ UNCHANGED <<toSink, source_receive_cseq>>
  /\ UNCHANGED <<toSource, source_up, source_connected, source_state, source_pipeline, sinkVars>>

SessionStep ==
  \/ SinkGotMessage /\ UNCHANGED sourceVars
  \/ SinkConnects
  \/ \E command \in Command : SinkTypes(command)
  \/ SourceGotMessage /\ UNCHANGED sinkVars
  \/ SourceConnects
  \/ \E command \in Command : SourceTypes(command)
  \/ UNCHANGED <<toSink, toSource, sinkVars, sourceVars>>

LEMMA SessionSteps ==
  ASSUME SessionInv, [Next]_vars
  PROVE  SessionStep
<1>1. CASE SinkProgram
  <2>1. SinkOnConnected => SinkConnects
    BY <1>1 DEF SinkProgram, SinkOnConnected, SinkSetState, SinkConnects, connection
  <2> QED
    BY <1>1, <2>1 DEF SinkProgram, SessionStep
<1>2. CASE SourceProgram
  <2>1. Request("OPTIONS", source_send_cseq, Nothing) \in Message
    BY Facts, AskedType, Words
  <2>2. SourceOnConnected => Grows(toSink, toSink', {Request("OPTIONS", source_send_cseq, Nothing)})
    BY <2>1, Facts, GrowsByOne DEF SourceOnConnected
  <2>3. SourceOnConnected => SourceConnects
    BY <1>2, <2>2 DEF SourceProgram, SourceOnConnected, SourceReadyToRequest, SourceConnects,
                      SourceAsks
  <2> QED
    BY <1>2, <2>3 DEF SourceProgram, SessionStep
<1>3. ASSUME NEW command \in Command, SinkUser(command)
      PROVE  SinkTypes(command)
  <2>1. Request(command, sink_send_cseq, presentation_url) \in Message
    BY Facts, AskedType, Words
  <2>2. sink_connected =>
          Grows(toSource, toSource', {Request(command, sink_send_cseq, presentation_url)})
    BY <1>3, <2>1, Facts, GrowsByOne DEF SinkUser, SinkCommand, SinkRequest
  <2> QED
    BY <1>3, <2>2 DEF SinkUser, SinkCommand, SinkReadyToRequest, SinkTypes
<1>4. ASSUME NEW command \in Command, SourceUser(command)
      PROVE  SourceTypes(command)
  <2>1. Request("SET_PARAMETER", source_send_cseq, command) \in Message
    BY Facts, AskedType, Words
  <2>2. source_connected =>
          Grows(toSink, toSink', {Request("SET_PARAMETER", source_send_cseq, command)})
    BY <1>4, <2>1, Facts, GrowsByOne DEF SourceUser, SourceCommand, SourceTriggerRequest
  <2>3. UNCHANGED <<toSource, source_up, source_connected, source_state, source_pipeline, sinkVars>>
    BY <1>4 DEF SourceUser, SourceCommand
  <2>4. source_expected_reply' = "SET_PARAMETER" /\ source_send_cseq' = source_send_cseq + 1
        /\ UNCHANGED source_receive_cseq
    BY <1>4 DEF SourceUser, SourceCommand, SourceReadyToRequest
  <2>5. ~source_connected => UNCHANGED toSink
    BY <1>4 DEF SourceUser, SourceCommand
  <2> QED
    BY <2>2, <2>3, <2>4, <2>5 DEF SourceTypes, SourceAsks
<1>5. CASE UNCHANGED vars
  BY <1>5 DEF vars, connection, SessionStep
<1> QED
  BY <1>1, <1>2, <1>3, <1>4, <1>5 DEF Next, SessionStep

-----------------------------------------------------------------------------
(* The phases are kept.                                                    *)

LEMMA PhasesKept ==
  ASSUME SessionInv, SessionStep
  PROVE  Phases'
<1> USE DEF NotSet, INIT, CAPABILITY_NEGOTIATION, RTSP_SESSION_ESTABLISHMENT,
            WFD_SESSION_ESTABLISHMENT, WFD_SESSION_PLAYING, WFD_SESSION_PAUSED
<1>0. Phases /\ sink_state \in -1 .. 5 /\ source_state \in -1 .. 5
  BY Facts DEF SessionInv
<1>1. CASE SinkGotMessage /\ UNCHANGED sourceVars
  <2>1. SinkMoves /\ sink_connected /\ source_connected /\ UNCHANGED sink_connected
    BY <1>1, SinkMovesAlong, SinkHandles DEF SinkEffect
  <2> QED
    BY <1>0, <1>1, <2>1 DEF SinkMoves, Phases, Before, sourceVars
<1>2. CASE SinkConnects
  BY <1>0, <1>2 DEF SinkConnects, Phases, Before, sourceVars
<1>3. ASSUME NEW command \in Command, SinkTypes(command)
      PROVE  Phases'
  BY <1>0, <1>3 DEF SinkTypes, Phases, Before, sourceVars
<1>4. CASE SourceGotMessage /\ UNCHANGED sinkVars
  <2>1. SourceMoves /\ sink_connected /\ source_connected /\ UNCHANGED source_connected
    BY <1>4, SourceMovesAlong, SourceHandles DEF SourceEffect
  <2> QED
    BY <1>0, <1>4, <2>1 DEF SourceMoves, Phases, Before, sinkVars
<1>5. CASE SourceConnects
  BY <1>0, <1>5 DEF SourceConnects, Phases, Before, sinkVars
<1>6. ASSUME NEW command \in Command, SourceTypes(command)
      PROVE  Phases'
  BY <1>0, <1>6 DEF SourceTypes, Phases, Before, sinkVars
<1>7. CASE UNCHANGED <<toSink, toSource, sinkVars, sourceVars>>
  BY <1>0, <1>7 DEF Phases, Before, sinkVars, sourceVars
<1> QED
  BY <1>1, <1>2, <1>3, <1>4, <1>5, <1>6, <1>7 DEF SessionStep


-----------------------------------------------------------------------------
(* Numbers and answers.                                                    *)

\* The fields of what is sent.
LEMMA Fields ==
  ASSUME NEW method, NEW cseq, NEW content, NEW m, NEW code
  PROVE  /\ Request(method, cseq, content).type = method
         /\ Request(method, cseq, content).cseq = cseq
         /\ Request(method, cseq, content).content = content
         /\ ReplyTo(m, code, content).type = "REPLY"
         /\ ReplyTo(m, code, content).cseq = m.cseq
         /\ ReplyTo(m, code, content).code = code
         /\ ReplyTo(m, code, content).answers = m.type
BY DEF Request, ReplyTo

\* The sink restarts its numbering with the source gone before it.
LEMMA SinkNumbers ==
  ASSUME SessionInv, SinkGotMessage
  PROVE  \/ sink_send_cseq' \in {sink_send_cseq, sink_send_cseq + 1}
         \/ /\ source_state \notin Before
            /\ SinkTakesReply
<1>1. SinkEffect /\ toSink # << >>
  BY SinkHandles
<1>2. CASE SinkAdoptsState
  <2>1. sink_expected_reply \in Trigger
    BY <1>2 DEF SinkAdoptsState, Command
  <2>2. source_state = ServedIn(sink_expected_reply)
    BY <1>1, <1>2, <2>1, SinkIsServed DEF SinkAdoptsState
  <2>3. source_state \notin Before
    BY <2>1, <2>2, ServedStates
    DEF Trigger, Before, NotSet, INIT, CAPABILITY_NEGOTIATION, RTSP_SESSION_ESTABLISHMENT,
        WFD_SESSION_ESTABLISHMENT, WFD_SESSION_PLAYING, WFD_SESSION_PAUSED
  <2> QED
    BY <1>2, <2>3 DEF SinkAdoptsState
<1>3. CASE ~SinkAdoptsState
  BY <1>1, <1>3 DEF SinkEffect, SinkNegotiates, SinkAnswers, SinkLearnsUrl, SinkUnmoved,
       SinkFollows, SinkAdoptsSession, SinkGivesUp, SinkIgnores, SinkTurnsDown
<1> QED
  BY <1>2, <1>3

\* What the source has received, it has received from the sink.
LEMMA SourceNumbers ==
  ASSUME SessionInv, SourceGotMessage
  PROVE  \/ source_receive_cseq' = source_receive_cseq
         \/ /\ SourceLetsThrough
            /\ source_receive_cseq' = Head(toSource).cseq
            /\ source_receive_cseq' < sink_send_cseq
            /\ sink_expected_reply # NoReply
<1>1. SourceEffect /\ toSource # << >> /\ Head(toSource) \in In(toSource) /\ ~SourceDies
  BY SourceHandles, NeverDies
<1>2. SourceLetsThrough => /\ source_receive_cseq' = Head(toSource).cseq
                           /\ source_receive_cseq' < sink_send_cseq
                           /\ sink_expected_reply # NoReply
  BY <1>1, Facts DEF SourceLetsThrough, Orderly
<1>3. SourceLetsThrough \/ source_receive_cseq' = source_receive_cseq
  BY <1>1 DEF SourceEffect, SourceAsksCapabilities, SourceSendsUrl, SourceAsksForSetup,
       SourceAsks, SourceStopsWaiting, SourceServesRequest, SourceGoesOn, SourceTurnsDown
<1> QED
  BY <1>2, <1>3

LEMMA CountedKept ==
  ASSUME SessionInv, SessionStep
  PROVE  Counted'
<1>0. /\ Counted /\ Phases /\ sink_send_cseq \in Nat /\ source_receive_cseq \in Nat
      /\ source_state \in -1 .. 5
  BY Facts DEF SessionInv
<1>1. CASE SinkGotMessage /\ UNCHANGED sourceVars
  <2>1. sink_connected /\ UNCHANGED sink_connected
    BY <1>1, SinkHandles DEF SinkEffect
  <2> QED
    BY <1>0, <1>1, <2>1, SinkNumbers DEF Counted, sourceVars
<1>2. CASE SinkConnects
  BY <1>0, <1>2 DEF SinkConnects, Counted, sourceVars
<1>3. ASSUME NEW command \in Command, SinkTypes(command)
      PROVE  Counted'
  BY <1>0, <1>3 DEF SinkTypes, Counted, sourceVars
<1>4. CASE SourceGotMessage /\ UNCHANGED sinkVars
  <2>1. sink_connected
    BY <1>4, SourceHandles
  <2>2. source_state' \in Before => source_state \in Before
    BY <1>0, <1>4, SourceMovesAlong
    DEF SourceMoves, Before, NotSet, INIT, CAPABILITY_NEGOTIATION, RTSP_SESSION_ESTABLISHMENT,
        WFD_SESSION_ESTABLISHMENT, WFD_SESSION_PLAYING, WFD_SESSION_PAUSED
  <2> QED
    BY <1>0, <1>4, <2>1, <2>2, SourceNumbers DEF Counted, sinkVars
<1>5. CASE SourceConnects
  <2>1. source_state \in Before
    BY <1>0, <1>5 DEF SourceConnects, Phases, Before
  <2> QED
    BY <1>0, <1>5, <2>1 DEF SourceConnects, SourceAsks, Counted, sinkVars
<1>6. ASSUME NEW command \in Command, SourceTypes(command)
      PROVE  Counted'
  BY <1>0, <1>6 DEF SourceTypes, SourceAsks, Counted, sinkVars
<1>7. CASE UNCHANGED <<toSink, toSource, sinkVars, sourceVars>>
  BY <1>0, <1>7 DEF Counted, sinkVars, sourceVars
<1> QED
  BY <1>1, <1>2, <1>3, <1>4, <1>5, <1>6, <1>7 DEF SessionStep

LEMMA ServedKept ==
  ASSUME SessionInv, SessionStep
  PROVE  Served'
<1>0. /\ Served
      /\ sink_send_cseq \in Nat
      /\ toSink \in Seq(Message)
      /\ \A m \in In(toSink) : m \in Message /\ m.cseq \in Nat
      /\ \A m \in In(toSink) : ~IsRequest(m) => m.cseq < sink_send_cseq
  BY Facts DEF SessionInv, Orderly, Message
<1>1. CASE SinkGotMessage /\ UNCHANGED sourceVars
  <2>1. toSink # << >> /\ toSink' = Tail(toSink) /\ In(toSink') \subseteq In(toSink)
    BY <1>1, SinkHandles
  <2>2. SinkTakesReply => \A m \in In(toSink') : IsRequest(m)
    BY <2>1, Facts, LastReply DEF SinkTakesReply
  <2> QED
    BY <1>0, <1>1, <2>1, <2>2, SinkNumbers DEF Served, sourceVars
<1>2. CASE SinkConnects
  <2>1. \A m \in In(toSink) : IsRequest(m)
    BY <1>2 DEF SinkConnects, SessionInv, ExchangesInOrder, NothingBeforeConnection, In
  <2> QED
    BY <1>2, <2>1 DEF SinkConnects, Served
<1>3. ASSUME NEW command \in Command, SinkTypes(command)
      PROVE  Served'
  BY <1>0, <1>3 DEF SinkTypes, Served, sourceVars
<1>4. CASE SourceGotMessage /\ UNCHANGED sinkVars
  <2>0. UNCHANGED sink_send_cseq
    BY <1>4 DEF sinkVars
  <2>1. /\ SourceEffect /\ toSource # << >> /\ Head(toSource) \in In(toSource)
        /\ Head(toSource) \in Message /\ ~SourceDies
    BY <1>4, SourceHandles, NeverDies
  <2>2. CASE SourceAsksCapabilities
    <3>1. In(toSink') = In(toSink) \cup {ReplyTo(Head(toSource), 200, Nothing),
                                Request("GET_PARAMETER", source_send_cseq, Nothing)}
      BY <2>2, GrownIn DEF SourceAsksCapabilities
    <3> QED
      BY <1>0, <2>0, <2>2, <3>1, Fields
      DEF SourceAsksCapabilities, SourceUnmoved, Served, IsRequest, Trigger
  <2>3. CASE SourceSendsUrl
    <3>1. In(toSink') = In(toSink) \cup {Request("SET_PARAMETER", source_send_cseq, Url)}
      BY <2>3, GrownIn DEF SourceSendsUrl, SourceAsks
    <3> QED
      BY <1>0, <2>0, <2>3, <3>1, Fields DEF SourceSendsUrl, SourceUnmoved, Served, IsRequest
  <2>4. CASE SourceAsksForSetup
    <3>1. In(toSink') = In(toSink) \cup {Request("SET_PARAMETER", source_send_cseq, "SETUP")}
      BY <2>4, GrownIn DEF SourceAsksForSetup, SourceAsks
    <3>2. \A method \in Trigger : source_state # ServedIn(method)
      BY <2>4, ServedStates
      DEF SourceAsksForSetup, Trigger, INIT, CAPABILITY_NEGOTIATION,
          WFD_SESSION_ESTABLISHMENT, WFD_SESSION_PLAYING, WFD_SESSION_PAUSED
    <3> QED
      BY <1>0, <2>0, <2>4, <3>1, <3>2, Fields DEF SourceAsksForSetup, Served, IsRequest
  <2>5. CASE SourceStopsWaiting
    BY <1>0, <2>0, <2>5 DEF SourceStopsWaiting, SourceUnmoved, Served
  <2>6. ASSUME NEW method \in Trigger, SourceServesRequest(method)
        PROVE  Served'
    <3>1. PICK content \in Content : Grows(toSink, toSink', {ReplyTo(Head(toSource), 200, content)})
      BY <2>6 DEF SourceServesRequest
    <3>2. In(toSink') = In(toSink) \cup {ReplyTo(Head(toSource), 200, content)}
      BY <3>1, GrownIn
    <3>3. \A m \in In(toSink) : ~IsRequest(m) => m.cseq # sink_send_cseq - 1
      <4>1. Head(toSource).cseq < sink_send_cseq /\ Head(toSource).cseq \in Nat
        BY <2>1, <2>6, Facts DEF SourceServesRequest, SourceLetsThrough, Orderly, Message
      <4>2. \A m \in In(toSink) : ~IsRequest(m) => m.cseq < Head(toSource).cseq
        BY <2>1, <2>6, Facts DEF SourceServesRequest, SourceLetsThrough, Orderly
      <4> QED
        BY <1>0, <4>1, <4>2
    <3>4. ReplyTo(Head(toSource), 200, content).answers = method /\ source_state' = ServedIn(method)
      BY <2>6, Fields DEF SourceServesRequest
    <3> QED
      BY <2>0, <3>2, <3>3, <3>4 DEF Served
  <2>7. CASE SourceGoesOn
    <3>1. CASE UNCHANGED toSink
      BY <1>0, <2>0, <2>7, <3>1 DEF SourceGoesOn, SourceUnmoved, Served
    <3>2. CASE Head(toSource).type \notin Trigger
               /\ Grows(toSink, toSink', {ReplyTo(Head(toSource), 200, Nothing)})
      <4>1. In(toSink') = In(toSink) \cup {ReplyTo(Head(toSource), 200, Nothing)}
        BY <3>2, GrownIn
      <4> QED
        BY <1>0, <2>0, <2>7, <3>2, <4>1, Fields DEF SourceGoesOn, SourceUnmoved, Served
    <3> QED
      BY <2>7, <3>1, <3>2 DEF SourceGoesOn
  <2>8. CASE SourceTurnsDown
    <3>1. CASE UNCHANGED toSink
      BY <1>0, <2>0, <2>8, <3>1 DEF SourceTurnsDown, SourceUnmoved, Served
    <3>2. CASE Grows(toSink, toSink', {ReplyTo(Head(toSource), 400, Nothing)})
      <4>1. In(toSink') = In(toSink) \cup {ReplyTo(Head(toSource), 400, Nothing)}
        BY <3>2, GrownIn
      <4> QED
        BY <1>0, <2>0, <2>8, <4>1, Fields DEF SourceTurnsDown, SourceUnmoved, Served
    <3> QED
      BY <2>8, <3>1, <3>2 DEF SourceTurnsDown
  <2> QED
    BY <2>1, <2>2, <2>3, <2>4, <2>5, <2>6, <2>7, <2>8 DEF SourceEffect
<1>5. CASE SourceConnects
  <2>1. toSink = << >>
    BY <1>5 DEF SourceConnects, SessionInv, ExchangesInOrder, NothingBeforeConnection
  <2>2. In(toSink') = In(toSink) \cup {Request("OPTIONS", source_send_cseq, Nothing)}
    BY <1>5, GrownIn DEF SourceConnects, SourceAsks
  <2>3. In(toSink) = {}
    BY <2>1 DEF In
  <2> QED
    BY <2>2, <2>3, Fields DEF Served, IsRequest
<1>6. ASSUME NEW command \in Command, SourceTypes(command)
      PROVE  Served'
  <2>1. In(toSink') \subseteq In(toSink) \cup {Request("SET_PARAMETER", source_send_cseq, command)}
    BY <1>6, GrownIn DEF SourceTypes, SourceAsks
  <2> QED
    BY <1>0, <1>6, <2>1, Fields DEF SourceTypes, sinkVars, Served, IsRequest
<1>7. CASE UNCHANGED <<toSink, toSource, sinkVars, sourceVars>>
  BY <1>0, <1>7 DEF Served, sinkVars, sourceVars
<1> QED
  BY <1>1, <1>2, <1>3, <1>4, <1>5, <1>6, <1>7 DEF SessionStep


-----------------------------------------------------------------------------
(* The negotiation is kept.                                                *)

\* A trigger is obeyed once the URL is there.
LEMMA ObeyedFrom ==
  ASSUME NEW trigger \in Trigger, SinkObeys(trigger)
  PROVE  sink_state >= RTSP_SESSION_ESTABLISHMENT
<1> USE DEF RTSP_SESSION_ESTABLISHMENT, WFD_SESSION_PLAYING, WFD_SESSION_PAUSED
<1>1. CASE trigger = "SETUP"
  BY <1>1 DEF SinkObeys
<1>2. CASE trigger = "PLAY"
  BY <1>2 DEF SinkObeys
<1>3. CASE trigger = "PAUSE"
  BY <1>3 DEF SinkObeys
<1>4. CASE trigger = "TEARDOWN"
  BY <1>4 DEF SinkObeys
<1> QED
  BY <1>1, <1>2, <1>3, <1>4 DEF Trigger

\* What the sink adds to the connection when it reads.
SinkAdds(m) ==
  /\ m.type = "OPTIONS" => SinkNegotiates
  /\ IsRequest(m) => /\ m.cseq = sink_send_cseq /\ sink_send_cseq' = sink_send_cseq + 1
                     /\ \A trigger \in Trigger : SinkFollows(trigger) => m.type = trigger
  /\ ~IsRequest(m) => \/ SinkNegotiates \/ SinkAnswers \/ SinkLearnsUrl \/ SinkTurnsDown
                      \/ \E trigger \in Trigger : SinkFollows(trigger)
  /\ ~IsRequest(m) /\ m.code = 200 /\ m.answers = "SET_PARAMETER"
       => SinkLearnsUrl \/ \E trigger \in Trigger : SinkFollows(trigger)

LEMMA SinkGrows ==
  ASSUME SinkEffect, toSource \in Seq(Message)
  PROVE  \E messages : /\ Grows(toSource, toSource', messages)
                       /\ \A m \in messages : SinkAdds(m)
<1>1. SinkEffect
  OBVIOUS
<1>2. CASE SinkNegotiates
  <2> DEFINE reply == ReplyTo(Head(toSink), 200, Nothing)
             request == Request("OPTIONS", sink_send_cseq, Nothing)
  <2>1. SinkAdds(reply)
    BY <1>2, Fields DEF SinkNegotiates, IsRequest, SinkAdds
  <2>2. ASSUME NEW trigger \in Trigger
        PROVE  ~SinkFollows(trigger)
    BY <1>2 DEF SinkNegotiates, SinkFollows
  <2>3. SinkAdds(request)
    BY <1>2, <2>2, Fields DEF SinkNegotiates, IsRequest, SinkAdds
  <2>4. Grows(toSource, toSource', {reply, request})
    BY <1>2 DEF SinkNegotiates
  <2> QED
    BY <2>1, <2>3, <2>4
<1>3. CASE SinkAnswers
  <2>1. PICK code \in {200, 303}, content \in Content :
          /\ Head(toSink).type = "SET_PARAMETER" => code = 303
          /\ Grows(toSource, toSource', {ReplyTo(Head(toSink), code, content)})
    BY <1>3 DEF SinkAnswers
  <2>2. SinkAdds(ReplyTo(Head(toSink), code, content))
    BY <1>3, <2>1, Fields DEF IsRequest, SinkAdds
  <2> QED
    BY <2>1, <2>2
<1>4. CASE SinkLearnsUrl
  <2>1. SinkAdds(ReplyTo(Head(toSink), 200, Nothing))
    BY <1>4, Fields DEF IsRequest, SinkAdds
  <2> QED
    BY <1>4, <2>1 DEF SinkLearnsUrl
<1>5. ASSUME NEW trigger \in Trigger, SinkFollows(trigger)
      PROVE  \E messages : /\ Grows(toSource, toSource', messages)
                           /\ \A m \in messages : SinkAdds(m)
  <2> DEFINE reply == ReplyTo(Head(toSink), 200, Nothing)
             request == Request(trigger, sink_send_cseq, presentation_url)
  <2>1. SinkAdds(reply)
    BY <1>5, Fields DEF IsRequest, SinkAdds
  <2>2. SinkAdds(request)
    BY <1>5, Fields DEF SinkFollows, IsRequest, SinkAdds, Trigger
  <2>3. Grows(toSource, toSource', {reply, request})
    BY <1>5 DEF SinkFollows
  <2> QED
    BY <2>1, <2>2, <2>3
<1>6. CASE SinkAdoptsSession
  <2> DEFINE request == Request("PLAY", sink_send_cseq, presentation_url)
  <2>1. ASSUME NEW trigger \in Trigger
        PROVE  ~SinkFollows(trigger)
    BY <1>6 DEF SinkAdoptsSession, SinkTakesReply, SinkFollows, SinkLetsThrough
  <2>2. SinkAdds(request)
    BY <1>6, <2>1, Fields DEF SinkAdoptsSession, IsRequest, SinkAdds
  <2> QED
    BY <1>6, <2>2 DEF SinkAdoptsSession
<1>7. CASE UNCHANGED toSource
  <2>1. Grows(toSource, toSource', {})
    BY <1>7, GrowsByNone
  <2> QED
    BY <2>1
<1>8. CASE SinkTurnsDown /\ toSource' # toSource
  <2>1. SinkAdds(ReplyTo(Head(toSink), 400, Nothing))
    BY <1>8, Fields DEF IsRequest, SinkAdds
  <2> QED
    BY <1>8, <2>1 DEF SinkTurnsDown
<1> QED
  BY <1>1, <1>2, <1>3, <1>4, <1>5, <1>6, <1>7, <1>8
  DEF SinkEffect, SinkAdoptsState, SinkGivesUp, SinkIgnores

LEMMA SinkWrites ==
  ASSUME SinkEffect, toSource \in Seq(Message), NEW m \in In(toSource'), m \notin In(toSource)
  PROVE  SinkAdds(m)
BY SinkGrows, GrownIn

LEMMA SinkKeepsNegotiation ==
  ASSUME SessionInv, SinkGotMessage, UNCHANGED sourceVars
  PROVE  Negotiation'
<1> USE DEF INIT, CAPABILITY_NEGOTIATION, RTSP_SESSION_ESTABLISHMENT,
            WFD_SESSION_ESTABLISHMENT, WFD_SESSION_PLAYING, WFD_SESSION_PAUSED
<1>0. /\ Negotiation /\ SinkMoves /\ UNCHANGED <<source_state, source_expected_reply>>
      /\ toSink # << >> /\ toSink' = Tail(toSink) /\ Head(toSink) \in In(toSink)
      /\ In(toSink') \subseteq In(toSink)
      /\ sink_state \in -1 .. 5 /\ source_state \in -1 .. 5
  BY SinkMovesAlong, SinkHandles, Facts DEF SessionInv, sourceVars
<1>1. \A m \in In(toSink') :
        m.type \in {"OPTIONS", "GET_PARAMETER"} \/ IsM4(m)
          => source_state' = CAPABILITY_NEGOTIATION
  BY <1>0 DEF Negotiation
<1>2. ASSUME NEW m \in In(toSink'), IsM4(m)
      PROVE  source_expected_reply' = "SET_PARAMETER" /\ sink_state' <= CAPABILITY_NEGOTIATION
  <2>1. m \in In(toSink) /\ source_expected_reply = "SET_PARAMETER"
        /\ sink_state <= CAPABILITY_NEGOTIATION
    BY <1>0, <1>2 DEF Negotiation
  <2>2. ~SinkLearnsUrl
    <3> SUFFICES ASSUME SinkLearnsUrl PROVE FALSE
      OBVIOUS
    <3>1. m.cseq = Head(toSink).cseq
      BY <1>0, <1>2, <2>1 DEF SinkLearnsUrl, Negotiation
    <3>2. Head(toSink).cseq < m.cseq
      BY <1>0, <1>2, Facts, OldestFirst DEF SinkLearnsUrl, SinkLetsThrough, IsM4, IsRequest
    <3>3. m.cseq \in Nat
      BY <2>1, Facts DEF Message
    <3> QED
      BY <3>1, <3>2, <3>3
  <2> QED
    BY <1>0, <2>1, <2>2 DEF SinkMoves
<1>3. \A m, n \in In(toSink') : IsM4(m) /\ IsM4(n) => m.cseq = n.cseq
  BY <1>0 DEF Negotiation
<1>4. \A m \in In(toSink') : m.type \notin Trigger
  BY <1>0 DEF Negotiation
<1>5. ASSUME NEW m \in In(toSource'), m.type = "OPTIONS"
      PROVE  sink_state' = CAPABILITY_NEGOTIATION
  <2>1. CASE m \in In(toSource)
    <3>1. sink_state = CAPABILITY_NEGOTIATION /\ sink_expected_reply # NoReply
      BY <1>0, <1>5, <2>1, Facts DEF Negotiation, Orderly, IsRequest
    <3>2. ~SinkLearnsUrl
      BY <3>1 DEF SinkLearnsUrl, SinkLetsThrough
    <3> QED
      BY <1>0, <3>1, <3>2 DEF SinkMoves
  <2>2. CASE m \notin In(toSource)
    BY <1>5, <2>2, SinkHandles, Facts, SinkWrites DEF SinkAdds, SinkNegotiates
  <2> QED
    BY <2>1, <2>2
<1>6. ASSUME NEW m \in In(toSource'), ~IsRequest(m), m.code = 200,
             m.answers = "SET_PARAMETER", source_state' = CAPABILITY_NEGOTIATION
      PROVE  sink_state' >= RTSP_SESSION_ESTABLISHMENT
  <2>1. CASE m \in In(toSource)
    BY <1>0, <1>6, <2>1 DEF Negotiation, SinkMoves
  <2>2. CASE m \notin In(toSource)
    <3>1. ASSUME NEW trigger \in Trigger, SinkFollows(trigger)
          PROVE  sink_state' >= RTSP_SESSION_ESTABLISHMENT
      BY <3>1, ObeyedFrom DEF SinkFollows
    <3> QED
      BY <1>6, <2>2, <3>1, SinkHandles, Facts, SinkWrites DEF SinkAdds, SinkLearnsUrl
  <2> QED
    BY <2>1, <2>2
<1>7. source_state' = CAPABILITY_NEGOTIATION /\ sink_state' >= RTSP_SESSION_ESTABLISHMENT
        => source_expected_reply' = "SET_PARAMETER"
  BY <1>0 DEF Negotiation, SinkMoves, SinkLearnsUrl
<1> QED
  BY <1>1, <1>2, <1>3, <1>4, <1>5, <1>6, <1>7 DEF Negotiation

\* A source that has let something through has no request under way.
LEMMA SourceWasAnswered ==
  ASSUME SessionInv, SourceGotMessage
  PROVE  SourceTurnsDown \/ \A m \in In(toSink) : ~IsRequest(m)
<1>1. SourceEffect /\ toSource # << >> /\ ~SourceDies
  BY SourceHandles, NeverDies
<1>2. SourceLetsThrough => \A m \in In(toSink) : ~IsRequest(m)
  BY Facts DEF SourceLetsThrough, Orderly
<1>3. SourceTakesReply => \A m \in In(toSink) : ~IsRequest(m)
  BY <1>1, Facts, LastReply DEF SourceTakesReply
<1> QED
  BY <1>1, <1>2, <1>3 DEF SourceEffect, SourceAsksCapabilities, SourceSendsUrl,
     SourceAsksForSetup, SourceStopsWaiting, SourceServesRequest, SourceGoesOn

\* What the source adds to the connection when it reads.
SourceWritesOnly(m) ==
  \/ ~IsRequest(m)
  \/ SourceAsksCapabilities /\ m = Request("GET_PARAMETER", source_send_cseq, Nothing)
  \/ SourceSendsUrl /\ m = Request("SET_PARAMETER", source_send_cseq, Url)
  \/ SourceAsksForSetup /\ m = Request("SET_PARAMETER", source_send_cseq, "SETUP")

LEMMA SourceWrites ==
  ASSUME SourceEffect, NEW m \in In(toSink'), m \notin In(toSink)
  PROVE  SourceWritesOnly(m)
<1>1. SourceEffect /\ ~SourceDies
  BY DEF SourceDies
<1>2. CASE SourceAsksCapabilities
  <2>1. m \in {ReplyTo(Head(toSource), 200, Nothing),
               Request("GET_PARAMETER", source_send_cseq, Nothing)}
    BY <1>2, GrownIn DEF SourceAsksCapabilities
  <2> QED
    BY <1>2, <2>1, Fields DEF SourceWritesOnly, IsRequest
<1>3. CASE SourceSendsUrl
  BY <1>3, GrownIn DEF SourceSendsUrl, SourceAsks, SourceWritesOnly
<1>4. CASE SourceAsksForSetup
  BY <1>4, GrownIn DEF SourceAsksForSetup, SourceAsks, SourceWritesOnly
<1>5. CASE SourceStopsWaiting
  BY <1>5 DEF SourceStopsWaiting
<1>6. ASSUME NEW method \in Trigger, SourceServesRequest(method)
      PROVE  SourceWritesOnly(m)
  <2>1. PICK content \in Content : Grows(toSink, toSink', {ReplyTo(Head(toSource), 200, content)})
    BY <1>6 DEF SourceServesRequest
  <2>2. m = ReplyTo(Head(toSource), 200, content)
    BY <2>1, GrownIn
  <2> QED
    BY <2>2, Fields DEF SourceWritesOnly, IsRequest
<1>7. CASE SourceGoesOn \/ SourceTurnsDown
  <2>1. PICK code \in {200, 400} : Grows(toSink, toSink', {ReplyTo(Head(toSource), code, Nothing)})
    BY <1>7 DEF SourceGoesOn, SourceTurnsDown
  <2>2. m = ReplyTo(Head(toSource), code, Nothing)
    BY <2>1, GrownIn
  <2> QED
    BY <2>2, Fields DEF SourceWritesOnly, IsRequest
<1> QED
  BY <1>1, <1>2, <1>3, <1>4, <1>5, <1>6, <1>7 DEF SourceEffect

LEMMA SourceKeepsNegotiation ==
  ASSUME SessionInv, SourceGotMessage, UNCHANGED sinkVars
  PROVE  Negotiation'
<1> USE DEF INIT, CAPABILITY_NEGOTIATION, RTSP_SESSION_ESTABLISHMENT,
            WFD_SESSION_ESTABLISHMENT, WFD_SESSION_PLAYING, WFD_SESSION_PAUSED
<1>0. /\ Negotiation /\ SourceMoves /\ UNCHANGED sink_state
      /\ SourceEffect /\ ~SourceDies
      /\ In(toSource') \subseteq In(toSource)
      /\ sink_state \in -1 .. 5 /\ source_state \in -1 .. 5
  BY SourceMovesAlong, SourceHandles, NeverDies, Facts DEF SessionInv, sinkVars
\* The requests under way afterwards are those it sends, or all those before.
<1>1. ASSUME NEW m \in In(toSink'), IsRequest(m)
      PROVE  \/ SourceTurnsDown /\ m \in In(toSink)
             \/ SourceAsksCapabilities /\ m = Request("GET_PARAMETER", source_send_cseq, Nothing)
             \/ SourceSendsUrl /\ m = Request("SET_PARAMETER", source_send_cseq, Url)
             \/ SourceAsksForSetup /\ m = Request("SET_PARAMETER", source_send_cseq, "SETUP")
  BY <1>1, SourceHandles, SourceWasAnswered, SourceWrites DEF SourceWritesOnly
<1>a. \A m : IsM4(m) \/ m.type \in {"OPTIONS", "GET_PARAMETER"} \/ m.type \in Trigger => IsRequest(m)
  BY DEF IsM4, IsRequest, Trigger
<1>b. "SETUP" \in Trigger /\ Url \notin Trigger
      /\ "GET_PARAMETER" \notin Trigger /\ "SET_PARAMETER" \notin Trigger
  BY DEF Trigger, Url
<1>2. SourceTurnsDown => UNCHANGED <<source_state, source_expected_reply>>
  BY DEF SourceTurnsDown, SourceUnmoved
<1>3. ASSUME NEW m \in In(toSink'), m.type \in {"OPTIONS", "GET_PARAMETER"} \/ IsM4(m)
      PROVE  source_state' = CAPABILITY_NEGOTIATION
  BY <1>0, <1>1, <1>a, <1>b, <1>2, <1>3, Fields
  DEF Negotiation, SourceAsksCapabilities, SourceSendsUrl, SourceUnmoved, IsM4
<1>4. ASSUME NEW m \in In(toSink'), IsM4(m)
      PROVE  source_expected_reply' = "SET_PARAMETER" /\ sink_state' <= CAPABILITY_NEGOTIATION
  <2>1. CASE SourceTurnsDown /\ m \in In(toSink)
    BY <1>0, <1>2, <1>4, <2>1 DEF Negotiation
  <2>2. CASE SourceSendsUrl
    BY <1>0, <2>2 DEF SourceSendsUrl, SourceAsks, Negotiation
  <2> QED
    BY <1>1, <1>a, <1>b, <1>4, <2>1, <2>2, Fields DEF IsM4
<1>5. ASSUME NEW m \in In(toSink'), NEW n \in In(toSink'), IsM4(m), IsM4(n)
      PROVE  m.cseq = n.cseq
  <2>1. \A l \in {m, n} : \/ SourceTurnsDown /\ l \in In(toSink)
                          \/ SourceSendsUrl /\ l = Request("SET_PARAMETER", source_send_cseq, Url)
    BY <1>1, <1>a, <1>b, <1>5, Fields DEF IsM4
  <2>2. ~(SourceTurnsDown /\ SourceSendsUrl)
    BY DEF SourceTurnsDown, SourceSendsUrl, SourceAsks
  <2> QED
    BY <1>0, <1>5, <2>1, <2>2 DEF Negotiation
<1>6. \A m \in In(toSink') : m.type \notin Trigger
  BY <1>0, <1>1, <1>a, <1>b, Fields DEF Negotiation
<1>7. \A m \in In(toSource') : m.type = "OPTIONS" => sink_state' = CAPABILITY_NEGOTIATION
  BY <1>0 DEF Negotiation
<1>8. \A m \in In(toSource') :
        /\ ~IsRequest(m) /\ m.code = 200 /\ m.answers = "SET_PARAMETER"
        /\ source_state' = CAPABILITY_NEGOTIATION
        => sink_state' >= RTSP_SESSION_ESTABLISHMENT
  BY <1>0 DEF Negotiation, SourceMoves
<1>9. ASSUME source_state' = CAPABILITY_NEGOTIATION, sink_state' >= RTSP_SESSION_ESTABLISHMENT
      PROVE  source_expected_reply' = "SET_PARAMETER"
  <2>1. source_state = CAPABILITY_NEGOTIATION /\ source_expected_reply = "SET_PARAMETER"
    BY <1>0, <1>9 DEF SourceMoves, Negotiation
  <2>2. ~SourceLetsThrough
    BY <2>1 DEF SourceLetsThrough, NoReply
  <2> QED
    BY <1>0, <2>1, <2>2
    DEF SourceEffect, SourceAsksCapabilities, SourceSendsUrl, SourceAsks, SourceAsksForSetup,
        SourceStopsWaiting, SourceServesRequest, SourceGoesOn, SourceTurnsDown
<1> QED
  BY <1>3, <1>4, <1>5, <1>6, <1>7, <1>8, <1>9 DEF Negotiation

LEMMA NegotiationKept ==
  ASSUME SessionInv, SessionStep
  PROVE  Negotiation'
<1> USE DEF NotSet, INIT, CAPABILITY_NEGOTIATION, RTSP_SESSION_ESTABLISHMENT,
            WFD_SESSION_ESTABLISHMENT, WFD_SESSION_PLAYING, WFD_SESSION_PAUSED
<1>0. /\ Negotiation /\ Phases /\ ExchangesInOrder
      /\ sink_state \in -1 .. 5 /\ source_state \in -1 .. 5
  BY Facts DEF SessionInv
<1>1. CASE SinkGotMessage /\ UNCHANGED sourceVars
  BY <1>1, SinkKeepsNegotiation
<1>2. CASE SinkConnects
  <2>1. toSource = << >>
    BY <1>0, <1>2 DEF SinkConnects, ExchangesInOrder, NothingBeforeConnection
  <2>2. In(toSource) = {}
    BY <2>1 DEF In
  <2> QED
    BY <1>0, <1>2, <2>2 DEF SinkConnects, Phases, Negotiation, sourceVars
<1>3. ASSUME NEW command \in Command, SinkTypes(command)
      PROVE  Negotiation'
  <2>1. In(toSource') \subseteq
          In(toSource) \cup {Request(command, sink_send_cseq, presentation_url)}
    BY <1>3, GrownIn DEF SinkTypes
  <2>2. command # "OPTIONS" /\ command # "REPLY"
    BY DEF Command, Trigger
  <2> QED
    BY <1>0, <1>3, <2>1, <2>2, Fields DEF SinkTypes, Negotiation, sourceVars, IsRequest
<1>4. CASE SourceGotMessage /\ UNCHANGED sinkVars
  BY <1>4, SourceKeepsNegotiation
<1>5. CASE SourceConnects
  <2>1. toSink = << >> /\ \A m \in In(toSource) : IsRequest(m)
    BY <1>0, <1>5 DEF SourceConnects, ExchangesInOrder, NothingBeforeConnection, In
  <2>2. In(toSink) = {}
    BY <2>1 DEF In
  <2>3. In(toSink') = {Request("OPTIONS", source_send_cseq, Nothing)}
    BY <1>5, <2>2, GrownIn DEF SourceConnects, SourceAsks
  <2>4. sink_state <= INIT
    BY <1>0, <1>5 DEF SourceConnects, Phases
  <2> QED
    BY <1>0, <1>5, <2>1, <2>3, <2>4, Fields
    DEF SourceConnects, Negotiation, sinkVars, IsM4, Trigger
<1>6. ASSUME NEW command \in Command, SourceTypes(command)
      PROVE  Negotiation'
  <2>1. In(toSink') \subseteq In(toSink) \cup {Request("SET_PARAMETER", source_send_cseq, command)}
    BY <1>6, GrownIn DEF SourceTypes, SourceAsks
  <2>2. command \in Trigger /\ "SET_PARAMETER" \notin Trigger
    BY DEF Command, Trigger
  <2>3. ~IsM4(Request("SET_PARAMETER", source_send_cseq, command))
    BY <2>2, Fields DEF IsM4
  <2>4. source_expected_reply' = "SET_PARAMETER"
    BY <1>6 DEF SourceTypes, SourceAsks
  <2> QED
    BY <1>0, <1>6, <2>1, <2>2, <2>3, <2>4, Fields DEF SourceTypes, Negotiation, sinkVars
<1>7. CASE UNCHANGED <<toSink, toSource, sinkVars, sourceVars>>
  BY <1>0, <1>7 DEF Negotiation, sinkVars, sourceVars
<1> QED
  BY <1>1, <1>2, <1>3, <1>4, <1>5, <1>6, <1>7 DEF SessionStep


-----------------------------------------------------------------------------
(* The numbers stay consecutive.                                           *)

LEMMA ConsecutiveKept ==
  ASSUME SessionInv, SessionStep
  PROVE  Consecutive'
<1> USE DEF NotSet, INIT, CAPABILITY_NEGOTIATION, RTSP_SESSION_ESTABLISHMENT,
            WFD_SESSION_ESTABLISHMENT, WFD_SESSION_PLAYING, WFD_SESSION_PAUSED
<1>0. /\ Consecutive /\ Phases /\ ExchangesInOrder
      /\ sink_state \in -1 .. 5 /\ source_state \in -1 .. 5 /\ source_send_cseq \in Nat
      /\ \A m \in In(toSink) : m.cseq \in Nat
  BY Facts DEF SessionInv, Message
<1>1. CASE SinkGotMessage /\ UNCHANGED sourceVars
  <2>1. /\ toSink # << >> /\ toSink' = Tail(toSink) /\ toSink \in Seq(Message)
        /\ UNCHANGED <<source_state, source_send_cseq>>
    BY <1>1, SinkHandles, Facts DEF sourceVars
  <2>2. /\ In(toSink') \subseteq In(toSink) /\ In(toSink) \subseteq {Head(toSink)} \cup In(toSink')
        /\ Head(toSink) \in In(toSink)
    BY <2>1, Shrunk
  <2>3. ASSUME NEW m \in In(toSink'), IsRequest(m), IsRequest(Head(toSink))
        PROVE  Head(toSink).cseq < m.cseq
    BY <2>1, <2>3, Facts, OldestFirst
  <2>4. ASSUME NEW m \in In(toSink'), IsRequest(m), NEW n \in In(toSink), IsRequest(n),
               n.cseq = m.cseq + 1
        PROVE  n \in In(toSink')
    BY <1>0, <2>2, <2>3, <2>4
  <2> QED
    BY <1>0, <2>1, <2>2, <2>4 DEF Consecutive
<1>2. CASE SinkConnects
  BY <1>0, <1>2 DEF SinkConnects, Consecutive, sourceVars
<1>3. ASSUME NEW command \in Command, SinkTypes(command)
      PROVE  Consecutive'
  BY <1>0, <1>3 DEF SinkTypes, Consecutive, sourceVars
<1>4. CASE SourceGotMessage /\ UNCHANGED sinkVars
  <2>1. SourceMoves /\ SourceEffect
    BY <1>4, SourceMovesAlong, SourceHandles
  <2>2. CASE SourceTurnsDown
    <3>1. ASSUME NEW m \in In(toSink'), IsRequest(m)
          PROVE  m \in In(toSink)
      BY <1>0, <2>1, <2>2, <3>1, SourceWrites
      DEF SourceWritesOnly, SourceTurnsDown, SourceUnmoved, SourceAsksCapabilities,
          SourceSendsUrl, SourceAsksForSetup, SourceAsks
    <3>2. In(toSink) \subseteq In(toSink')
      BY <2>2, GrownIn DEF SourceTurnsDown
    <3> QED
      BY <1>0, <2>2, <3>1, <3>2 DEF SourceTurnsDown, SourceUnmoved, Consecutive
  <2>3. CASE ~SourceTurnsDown
    <3>1. ASSUME NEW m \in In(toSink'), IsRequest(m)
          PROVE  m.cseq = source_send_cseq /\ source_send_cseq' = source_send_cseq + 1
      <4>1. SourceWritesOnly(m)
        BY <1>4, <2>1, <2>3, <3>1, SourceWasAnswered, SourceWrites
      <4> QED
        BY <3>1, <4>1, Fields
        DEF SourceWritesOnly, SourceAsksCapabilities, SourceSendsUrl, SourceAsksForSetup,
            SourceAsks
    <3> QED
      BY <1>0, <3>1 DEF Consecutive
  <2> QED
    BY <2>2, <2>3
<1>5. CASE SourceConnects
  <2>1. toSink = << >>
    BY <1>0, <1>5 DEF SourceConnects, ExchangesInOrder, NothingBeforeConnection
  <2>2. In(toSink) = {}
    BY <2>1 DEF In
  <2>3. In(toSink') = {Request("OPTIONS", source_send_cseq, Nothing)}
    BY <1>5, <2>2, GrownIn DEF SourceConnects, SourceAsks
  <2> QED
    BY <1>0, <1>5, <2>3, Fields DEF SourceConnects, SourceAsks, Consecutive
<1>6. ASSUME NEW command \in Command, SourceTypes(command)
      PROVE  Consecutive'
  <2>1. CASE source_connected
    <3>1. In(toSink') = In(toSink) \cup {Request("SET_PARAMETER", source_send_cseq, command)}
      BY <1>6, <2>1, GrownIn DEF SourceTypes, SourceAsks
    <3>2. source_send_cseq' = source_send_cseq + 1 /\ UNCHANGED source_state
      BY <1>6 DEF SourceTypes, SourceAsks
    <3>3. IsRequest(Request("SET_PARAMETER", source_send_cseq, command))
      BY Fields DEF IsRequest
    <3> QED
      BY <1>0, <3>1, <3>2, <3>3, Fields DEF Consecutive
  <2>2. CASE ~source_connected
    BY <1>0, <1>6, <2>2 DEF SourceTypes, Phases, Consecutive
  <2> QED
    BY <2>1, <2>2
<1>7. CASE UNCHANGED <<toSink, toSource, sinkVars, sourceVars>>
  BY <1>0, <1>7 DEF Consecutive, sinkVars, sourceVars
<1> QED
  BY <1>1, <1>2, <1>3, <1>4, <1>5, <1>6, <1>7 DEF SessionStep


-----------------------------------------------------------------------------
(* The next in line, and what may come next.                               *)

\* The first message of a grown queue.
LEMMA GrownHead ==
  ASSUME NEW old \in Seq(Message), NEW new \in Seq(Message), NEW m, Grows(old, new, {m})
  PROVE  /\ new # << >>
         /\ old = << >> => Head(new) = m
         /\ old # << >> => Head(new) = Head(old)
<1>1. Len(new) \in Nat /\ Len(old) \in Nat /\ Len(new) >= Len(old)
  BY DEF Grows
<1>2. Len(new) >= 1
  BY <1>1 DEF Grows
<1>3. new # << >> /\ Head(new) = new[1]
  BY <1>2
<1>4. old # << >> => Len(old) >= 1 /\ Head(old) = old[1]
  OBVIOUS
<1>5. old = << >> => Len(old) = 0
  OBVIOUS
<1> QED
  BY <1>1, <1>2, <1>3, <1>4, <1>5 DEF Grows

\* The sink has taken a request: the source's next one is next.
LEMMA LineMovesOn ==
  ASSUME SessionInv, SinkGotMessage, SinkLetsThrough,
         source_state \in {CAPABILITY_NEGOTIATION, RTSP_SESSION_ESTABLISHMENT}
  PROVE  /\ toSink' = << >> => source_send_cseq = sink_receive_cseq' + 1
         /\ toSink' # << >> => Head(toSink').cseq = sink_receive_cseq' + 1
<1> DEFINE rest == Tail(toSink)
<1>0. /\ toSink # << >> /\ toSink' = rest /\ Head(toSink) \in In(toSink)
      /\ toSink \in Seq(Message) /\ rest \in Seq(Message) /\ toSource \in Seq(Message)
      /\ source_send_cseq \in Nat
      /\ IsRequest(Head(toSink)) /\ sink_receive_cseq' = Head(toSink).cseq
      /\ In(toSink) \subseteq {Head(toSink)} \cup In(rest)
      /\ \A m \in In(toSink) : m.cseq \in Nat
  <2>1. /\ toSink # << >> /\ toSink' = rest /\ Head(toSink) \in In(toSink)
        /\ toSink \in Seq(Message) /\ toSource \in Seq(Message) /\ source_send_cseq \in Nat
    BY SinkHandles, Facts
  <2>2. rest \in Seq(Message) /\ In(toSink) \subseteq {Head(toSink)} \cup In(rest)
    BY <2>1, ReadType, Shrunk
  <2>3. \A m \in In(toSink) : m.cseq \in Nat
    BY Facts DEF Message
  <2> QED
    BY <2>1, <2>2, <2>3 DEF SinkLetsThrough
<1>1. \A m \in In(toSink) : IsRequest(m) /\ m.cseq < source_send_cseq
  BY Facts DEF SinkLetsThrough, Orderly
<1>2. \/ Head(toSink).cseq + 1 = source_send_cseq
      \/ \E n \in In(toSink) : IsRequest(n) /\ n.cseq = Head(toSink).cseq + 1
  BY <1>0 DEF SessionInv, Consecutive
<1>3. CASE rest = << >>
  <2>1. In(rest) = {}
    BY <1>3 DEF In
  <2>2. \A n \in In(toSink) : n.cseq = Head(toSink).cseq /\ n.cseq \in Nat
    BY <1>0, <2>1
  <2>3. source_send_cseq = sink_receive_cseq' + 1
    BY <1>0, <1>2, <2>2
  <2> HIDE DEF rest
  <2> QED
    BY <1>0, <1>3, <2>3
<1>4. CASE rest # << >>
  <2> DEFINE next == Head(rest)
  <2>1. /\ next \in In(rest) /\ In(rest) \subseteq In(toSink)
        /\ In(rest) \subseteq {next} \cup In(Tail(rest))
        /\ In(Tail(rest)) \subseteq In(rest)
    BY <1>0, <1>4, Shrunk
  <2>2. IsRequest(next) /\ next.cseq < source_send_cseq /\ next.cseq \in Nat
    BY <1>0, <1>1, <2>1
  <2>3. Head(toSink).cseq < next.cseq
    BY <1>0, <2>1, <2>2, Facts, OldestFirst
  <2>4. ExchangeInOrder(rest, toSource, source_expected_reply, source_send_cseq)
    BY <1>0, Facts, DropFromRequests
  <2> HIDE DEF rest
  <2>5. ASSUME NEW n \in In(Tail(rest)), IsRequest(n)
        PROVE  next.cseq < n.cseq
    BY <1>0, <1>4, <2>2, <2>4, <2>5, OldestFirst
  <2> HIDE DEF next
  <2>6. PICK n \in In(toSink) : IsRequest(n) /\ n.cseq = Head(toSink).cseq + 1
    BY <1>0, <1>2, <2>2, <2>3
  <2>7. n \in In(rest)
    BY <1>0, <2>6
  <2>8. n = next \/ next.cseq < n.cseq
    BY <2>1, <2>5, <2>6, <2>7
  <2>9. next.cseq = Head(toSink).cseq + 1
    BY <1>0, <2>2, <2>3, <2>6, <2>8
  <2> QED
    BY <1>0, <1>4, <2>9 DEF next
<1> QED
  BY <1>0, <1>3, <1>4

\* The sink turns nothing down while all it has sent has been received.
LEMMA NothingTurnedDown ==
  ASSUME SessionInv, SinkGotMessage, SinkTurnsDown, SettingUp
  PROVE  ~AllReceived
<1> SUFFICES ASSUME AllReceived PROVE FALSE
  OBVIOUS
<1>1. toSink # << >> /\ Head(toSink) \in In(toSink)
  BY SinkHandles
<1>2. sink_expected_reply = NoReply /\ Head(toSink).cseq = sink_receive_cseq + 1
  BY <1>1 DEF SessionInv, NextInLine
<1>3. IsRequest(Head(toSink))
  BY <1>1, <1>2, Facts DEF Orderly
<1>4. Head(toSink).type \notin Trigger
  BY <1>1 DEF SessionInv, Negotiation
<1> QED
  BY <1>2, <1>3, <1>4 DEF SinkTurnsDown

LEMMA SinkKeepsLine ==
  ASSUME SessionInv, SinkGotMessage, UNCHANGED sourceVars
  PROVE  NextInLine'
<1> USE DEF NotSet, INIT, CAPABILITY_NEGOTIATION, RTSP_SESSION_ESTABLISHMENT,
            WFD_SESSION_ESTABLISHMENT, WFD_SESSION_PLAYING, WFD_SESSION_PAUSED
<1> SUFFICES ASSUME SettingUp', AllReceived'
             PROVE  /\ sink_expected_reply' = NoReply
                    /\ toSink' = << >> => source_send_cseq' = sink_receive_cseq' + 1
                    /\ toSink' # << >> => Head(toSink').cseq = sink_receive_cseq' + 1
  BY DEF NextInLine
<1>0. /\ UNCHANGED <<source_state, source_send_cseq, source_receive_cseq>>
      /\ source_state \in {CAPABILITY_NEGOTIATION, RTSP_SESSION_ESTABLISHMENT}
      /\ sink_state' = RTSP_SESSION_ESTABLISHMENT
      /\ SinkEffect /\ SinkMoves /\ sink_connected
      /\ sink_send_cseq \in Nat /\ source_receive_cseq \in Nat
      /\ sink_state \in -1 .. 5
  BY SinkHandles, SinkMovesAlong, Facts DEF sourceVars, SettingUp
<1>1. source_receive_cseq < sink_send_cseq
  BY <1>0 DEF SessionInv, Counted, Before
<1>2. CASE SinkLetsThrough /\ UNCHANGED <<sink_expected_reply, sink_send_cseq>>
  BY <1>0, <1>2, LineMovesOn DEF SinkLetsThrough
<1>3. CASE sink_send_cseq' = sink_send_cseq + 1
  BY <1>0, <1>1, <1>3 DEF AllReceived
<1>4. CASE SinkTakesReply /\ sink_state = RTSP_SESSION_ESTABLISHMENT
           /\ UNCHANGED sink_send_cseq
  <2>1. SettingUp /\ AllReceived
    BY <1>0, <1>4 DEF SettingUp, AllReceived
  <2> QED
    BY <1>4, <2>1 DEF SinkTakesReply, SessionInv, NextInLine
<1>5. CASE SinkTurnsDown
  <2>1. SettingUp /\ AllReceived
    BY <1>0, <1>5 DEF SettingUp, AllReceived, SinkTurnsDown, SinkUnmoved
  <2> QED
    BY <1>5, <2>1, NothingTurnedDown
<1>6. CASE SinkAdoptsState
  BY <1>0, <1>6 DEF SinkAdoptsState, SinkMoves, Command, Trigger
<1>7. SinkGivesUp => sink_state = RTSP_SESSION_ESTABLISHMENT
  BY <1>0 DEF SinkGivesUp
<1> QED
  BY <1>0, <1>2, <1>3, <1>4, <1>5, <1>6, <1>7
  DEF SinkEffect, SinkNegotiates, SinkAnswers, SinkLearnsUrl, SinkUnmoved, SinkFollows,
      SinkAdoptsSession, SinkGivesUp, SinkIgnores

\* While the session is being set up, the source lets SETUP through and nothing else.
LEMMA OnlySetupGetsThrough ==
  ASSUME SessionInv, SourceGotMessage, SettingUp, SourceLetsThrough
  PROVE  source_state' = WFD_SESSION_ESTABLISHMENT
<1> USE DEF NotSet, INIT, CAPABILITY_NEGOTIATION, RTSP_SESSION_ESTABLISHMENT,
            WFD_SESSION_ESTABLISHMENT, WFD_SESSION_PLAYING, WFD_SESSION_PAUSED
<1>0. toSource # << >> /\ SourceEffect /\ ~SourceDies
  BY SourceHandles, NeverDies
<1>1. source_state = RTSP_SESSION_ESTABLISHMENT
  BY DEF SettingUp, SourceLetsThrough, SessionInv, Negotiation, NoReply
<1>2. Head(toSource).type = "SETUP"
  BY <1>0, <1>1, NoEarlyCommand
<1>3. ~SourceTakesReply /\ ~SourceTurnsDown
  <2>1. ~SourceTurnsDown \/ UNCHANGED source_receive_cseq
    BY DEF SourceTurnsDown
  <2>2. source_receive_cseq' = source_receive_cseq + 1
    BY <1>2 DEF SourceLetsThrough
  <2> QED
    BY <2>1, <2>2, Facts DEF SourceTakesReply, SourceLetsThrough
<1> QED
  BY <1>0, <1>1, <1>2, <1>3, ServedStates
  DEF SourceEffect, SourceAsksCapabilities, SourceSendsUrl, SourceAsksForSetup,
      SourceStopsWaiting, SourceServesRequest, SourceGoesOn

LEMMA SourceKeepsLine ==
  ASSUME SessionInv, SourceGotMessage, UNCHANGED sinkVars, toSink' \in Seq(Message)
  PROVE  NextInLine'
<1> USE DEF NotSet, INIT, CAPABILITY_NEGOTIATION, RTSP_SESSION_ESTABLISHMENT,
            WFD_SESSION_ESTABLISHMENT, WFD_SESSION_PLAYING, WFD_SESSION_PAUSED
<1> SUFFICES ASSUME SettingUp', AllReceived'
             PROVE  /\ sink_expected_reply' = NoReply
                    /\ toSink' = << >> => source_send_cseq' = sink_receive_cseq' + 1
                    /\ toSink' # << >> => Head(toSink').cseq = sink_receive_cseq' + 1
  BY DEF NextInLine
<1>0. /\ UNCHANGED <<sink_state, sink_expected_reply, sink_send_cseq, sink_receive_cseq>>
      /\ SourceEffect /\ SourceMoves /\ ~SourceDies
      /\ toSource # << >> /\ Head(toSource) \in In(toSource)
      /\ source_state \in -1 .. 5
      /\ toSink \in Seq(Message)
  BY SourceHandles, SourceMovesAlong, NeverDies, Facts DEF sinkVars
<1>1. SettingUp /\ source_state' # WFD_SESSION_ESTABLISHMENT
  BY <1>0 DEF SettingUp, SourceMoves
<1>2. ~SourceLetsThrough
  BY <1>1, OnlySetupGetsThrough
<1>3. AllReceived
  BY <1>0, <1>2, SourceNumbers DEF AllReceived
<1>4. /\ sink_expected_reply = NoReply
      /\ toSink = << >> => source_send_cseq = sink_receive_cseq + 1
      /\ toSink # << >> => Head(toSink).cseq = sink_receive_cseq + 1
  BY <1>1, <1>3 DEF SessionInv, NextInLine
<1>5. ~IsRequest(Head(toSource))
  BY <1>0, <1>4, Facts DEF Orderly
<1>6. CASE UNCHANGED <<toSink, source_send_cseq>>
  BY <1>0, <1>4, <1>6
<1>7. ~SourceSendsUrl
  BY <1>1 DEF SourceSendsUrl, SettingUp, SessionInv, Negotiation
<1>8. CASE SourceAsksForSetup
  <2> DEFINE m == Request("SET_PARAMETER", source_send_cseq, "SETUP")
  <2>1. Grows(toSink, toSink', {m})
    BY <1>8 DEF SourceAsksForSetup, SourceAsks
  <2>2. toSink' # << >> /\ Head(toSink') \in {m, Head(toSink)}
        /\ (toSink = << >> => Head(toSink') = m) /\ (toSink # << >> => Head(toSink') = Head(toSink))
    BY <1>0, <2>1, GrownHead
  <2>3. m.cseq = source_send_cseq
    BY Fields
  <2> HIDE DEF m
  <2> QED
    BY <1>0, <1>4, <2>2, <2>3
<1> QED
  BY <1>0, <1>2, <1>5, <1>6, <1>7, <1>8
  DEF SourceEffect, SourceAsksCapabilities, SourceStopsWaiting, SourceServesRequest,
      SourceGoesOn, SourceTurnsDown

LEMMA NextInLineKept ==
  ASSUME SessionInv, SessionStep, TypeOK'
  PROVE  NextInLine'
<1> USE DEF NotSet, INIT, CAPABILITY_NEGOTIATION, RTSP_SESSION_ESTABLISHMENT,
            WFD_SESSION_ESTABLISHMENT, WFD_SESSION_PLAYING, WFD_SESSION_PAUSED
<1>0. /\ NextInLine /\ Phases /\ Counted
      /\ sink_state \in -1 .. 5 /\ source_state \in -1 .. 5
      /\ sink_send_cseq \in Nat /\ source_receive_cseq \in Nat
      /\ toSink \in Seq(Message) /\ toSink' \in Seq(Message)
  BY Facts DEF SessionInv, TypeOK, ConnectionTypeOK
<1>1. CASE SinkGotMessage /\ UNCHANGED sourceVars
  BY <1>1, SinkKeepsLine
<1>2. CASE SinkConnects
  BY <1>2 DEF SinkConnects, NextInLine, SettingUp
<1>3. ASSUME NEW command \in Command, SinkTypes(command)
      PROVE  NextInLine'
  BY <1>0, <1>3 DEF SinkTypes, NextInLine, SettingUp, AllReceived, Phases, Counted, Before, sourceVars
<1>4. CASE SourceGotMessage /\ UNCHANGED sinkVars
  BY <1>0, <1>4, SourceKeepsLine
<1>5. CASE SourceConnects
  BY <1>0, <1>5 DEF SourceConnects, Phases, NextInLine, SettingUp, sinkVars
<1>6. ASSUME NEW command \in Command, SourceTypes(command)
      PROVE  NextInLine'
  <2> DEFINE m == Request("SET_PARAMETER", source_send_cseq, command)
  <2>1. CASE source_connected
    <3>1. Grows(toSink, toSink', {m}) /\ source_send_cseq' = source_send_cseq + 1
          /\ UNCHANGED <<source_state, source_receive_cseq>>
      BY <1>6, <2>1 DEF SourceTypes, SourceAsks
    <3>2. toSink' # << >>
          /\ (toSink = << >> => Head(toSink') = m) /\ (toSink # << >> => Head(toSink') = Head(toSink))
      BY <1>0, <3>1, GrownHead
    <3>3. m.cseq = source_send_cseq
      BY Fields
    <3>4. UNCHANGED <<sink_state, sink_expected_reply, sink_send_cseq, sink_receive_cseq>>
      BY <1>6 DEF SourceTypes, sinkVars
    <3> HIDE DEF m
    <3> QED
      BY <1>0, <3>1, <3>2, <3>3, <3>4 DEF NextInLine, SettingUp, AllReceived
  <2>2. CASE ~source_connected
    BY <1>0, <1>6, <2>2 DEF SourceTypes, Phases, NextInLine, SettingUp
  <2> QED
    BY <2>1, <2>2
<1>7. CASE UNCHANGED <<toSink, toSource, sinkVars, sourceVars>>
  BY <1>0, <1>7 DEF NextInLine, SettingUp, AllReceived, sinkVars, sourceVars
<1> QED
  BY <1>1, <1>2, <1>3, <1>4, <1>5, <1>6, <1>7 DEF SessionStep


\* What the sink adds to the connection is newer than what the source has next.
LEMMA StillOnlySetup ==
  ASSUME NEW messages, Grows(toSource, toSource', messages),
         \A m \in messages : IsRequest(m) => m.cseq = sink_send_cseq,
         UNCHANGED source_receive_cseq, NEW j \in Nat, OnlySetupAfter(j), ~AllReceived'
  PROVE  OnlySetupAfter(j)'
<1>1. ASSUME NEW i \in 1 .. Len(toSource'), i > j, IsRequest(toSource'[i]),
             toSource'[i].cseq = source_receive_cseq' + 1
      PROVE  toSource'[i].type = "SETUP"
  <2>1. CASE i \in 1 .. Len(toSource) /\ toSource'[i] = toSource[i]
    BY <1>1, <2>1 DEF OnlySetupAfter
  <2>2. CASE toSource'[i] \in messages
    BY <1>1, <2>2 DEF OnlySetupAfter, AllReceived
  <2> QED
    BY <1>1, <2>1, <2>2 DEF Grows
<1> QED
  BY <1>1 DEF OnlySetupAfter

LEMMA SinkKeepsSetupFirst ==
  ASSUME SessionInv, SinkGotMessage, UNCHANGED sourceVars
  PROVE  SetupFirst'
<1> USE DEF NotSet, INIT, CAPABILITY_NEGOTIATION, RTSP_SESSION_ESTABLISHMENT,
            WFD_SESSION_ESTABLISHMENT, WFD_SESSION_PLAYING, WFD_SESSION_PAUSED
<1> SUFFICES ASSUME source_state' = RTSP_SESSION_ESTABLISHMENT
             PROVE  /\ source_expected_reply' = NoReply => OnlySetupAfter(0)'
                    /\ \A j \in 1 .. Len(toSource') :
                         ~IsRequest(toSource'[j]) /\ toSource'[j].cseq = source_send_cseq' - 1
                           => OnlySetupAfter(j)'
  BY DEF SetupFirst
<1>0. /\ UNCHANGED <<source_state, source_expected_reply, source_send_cseq, source_receive_cseq>>
      /\ source_state = RTSP_SESSION_ESTABLISHMENT
      /\ sink_connected /\ SinkMoves /\ SinkEffect
      /\ sink_send_cseq \in Nat /\ source_receive_cseq \in Nat /\ sink_state \in -1 .. 5
      /\ toSource \in Seq(Message) /\ Len(toSource) \in Nat
  BY SinkHandles, SinkMovesAlong, Facts DEF sourceVars
<1>1. sink_state = RTSP_SESSION_ESTABLISHMENT /\ SettingUp
  BY <1>0 DEF SessionInv, Phases, Before, SettingUp
<1>2. source_receive_cseq < sink_send_cseq
  BY <1>0 DEF SessionInv, Counted, Before
<1>3. sink_send_cseq' \in {sink_send_cseq, sink_send_cseq + 1}
  BY <1>0, SinkNumbers DEF Before
<1>4. ~AllReceived => ~AllReceived'
  BY <1>0, <1>2, <1>3 DEF AllReceived
<1>5. PICK messages : /\ Grows(toSource, toSource', messages)
                      /\ \A m \in messages : SinkAdds(m)
  BY SinkHandles, Facts, SinkGrows
<1>6. ASSUME NEW j \in Nat, OnlySetupAfter(j)
      PROVE  OnlySetupAfter(j)'
  <2>1. ~AllReceived'
    BY <1>4, <1>6 DEF OnlySetupAfter
  <2> QED
    BY <1>0, <1>5, <1>6, <2>1, StillOnlySetup DEF SinkAdds
<1>7. source_expected_reply' = NoReply => OnlySetupAfter(0)'
  BY <1>0, <1>6 DEF SessionInv, SetupFirst
<1>8. ASSUME NEW j \in 1 .. Len(toSource'), ~IsRequest(toSource'[j]),
             toSource'[j].cseq = source_send_cseq' - 1
      PROVE  OnlySetupAfter(j)'
  <2>1. CASE j \in 1 .. Len(toSource) /\ toSource'[j] = toSource[j]
    <3>1. OnlySetupAfter(j)
      BY <1>0, <1>8, <2>1 DEF SessionInv, SetupFirst
    <3> QED
      BY <1>6, <2>1, <3>1
  <2>2. CASE j > Len(toSource) /\ toSource'[j] \in messages
    <3>1. ~SinkNegotiates /\ ~SinkAnswers /\ ~SinkLearnsUrl
      <4>1. Head(toSink) \in In(toSink)
        BY SinkHandles
      <4> QED
        BY <1>0, <1>1, <4>1
        DEF SinkNegotiates, SinkAnswers, SinkLearnsUrl, SessionInv, Negotiation
    <3>2. \/ SinkTurnsDown
          \/ \E trigger \in Trigger : SinkFollows(trigger)
      BY <1>5, <1>8, <2>2, <3>1 DEF SinkAdds
    <3>3. ASSUME NEW i \in 1 .. Len(toSource'), i > j
          PROVE  SinkAdds(toSource'[i])
      BY <1>0, <1>5, <2>2, <3>3 DEF Grows
    <3>4. CASE SinkTurnsDown
      <4>1. ~AllReceived'
        BY <1>1, <1>4, <3>4, NothingTurnedDown
      <4>2. UNCHANGED sink_send_cseq
        BY <3>4 DEF SinkTurnsDown, SinkUnmoved
      <4>3. \A i \in 1 .. Len(toSource') : i > j => ~IsRequest(toSource'[i])
        BY <1>0, <3>3, <4>2 DEF SinkAdds
      <4> QED
        BY <4>1, <4>3 DEF OnlySetupAfter
    <3>5. ASSUME NEW trigger \in Trigger, SinkFollows(trigger)
          PROVE  OnlySetupAfter(j)'
      <4>1. trigger = "SETUP"
        <5>1. CASE trigger = "PLAY"
          BY <1>1, <3>5, <5>1 DEF SinkFollows, SinkObeys
        <5>2. CASE trigger = "PAUSE"
          BY <1>1, <3>5, <5>2 DEF SinkFollows, SinkObeys
        <5>3. CASE trigger = "TEARDOWN"
          BY <1>1, <3>5, <5>3 DEF SinkFollows, SinkObeys
        <5> QED
          BY <5>1, <5>2, <5>3 DEF Trigger
      <4>2. ~AllReceived'
        BY <1>0, <1>2, <3>5 DEF SinkFollows, AllReceived
      <4>3. \A i \in 1 .. Len(toSource') :
              i > j /\ IsRequest(toSource'[i]) => toSource'[i].type = "SETUP"
        BY <3>3, <3>5, <4>1 DEF SinkAdds
      <4> QED
        BY <4>2, <4>3 DEF OnlySetupAfter
    <3> QED
      BY <3>2, <3>4, <3>5
  <2> QED
    BY <1>5, <1>8, <2>1, <2>2 DEF Grows
<1> QED
  BY <1>7, <1>8

\* A message less at the front.
LEMMA OneLess ==
  ASSUME toSource \in Seq(Message), toSource # << >>, toSource' = Tail(toSource),
         UNCHANGED <<source_receive_cseq, sink_send_cseq>>,
         NEW j \in Nat, OnlySetupAfter(j + 1) \/ OnlySetupAfter(j)
  PROVE  OnlySetupAfter(j)'
<1>1. /\ \A i \in 1 .. Len(toSource') : i + 1 \in 1 .. Len(toSource) /\ toSource'[i] = toSource[i + 1]
      /\ \A i \in 1 .. Len(toSource') : i \in Nat
  BY Shrunk
<1>2. ~AllReceived'
  BY DEF OnlySetupAfter, AllReceived
<1>3. ASSUME NEW i \in 1 .. Len(toSource'), i > j, IsRequest(toSource'[i]),
             toSource'[i].cseq = source_receive_cseq' + 1
      PROVE  toSource'[i].type = "SETUP"
  <2>1. i + 1 > j + 1 /\ i + 1 > j /\ i + 1 \in 1 .. Len(toSource) /\ toSource'[i] = toSource[i + 1]
    BY <1>1, <1>3
  <2> QED
    BY <1>3, <2>1 DEF OnlySetupAfter
<1> QED
  BY <1>2, <1>3 DEF OnlySetupAfter

LEMMA SourceKeepsSetupFirst ==
  ASSUME SessionInv, SourceGotMessage, UNCHANGED sinkVars
  PROVE  SetupFirst'
<1> USE DEF NotSet, INIT, CAPABILITY_NEGOTIATION, RTSP_SESSION_ESTABLISHMENT,
            WFD_SESSION_ESTABLISHMENT, WFD_SESSION_PLAYING, WFD_SESSION_PAUSED
<1> SUFFICES ASSUME source_state' = RTSP_SESSION_ESTABLISHMENT
             PROVE  /\ source_expected_reply' = NoReply => OnlySetupAfter(0)'
                    /\ \A j \in 1 .. Len(toSource') :
                         ~IsRequest(toSource'[j]) /\ toSource'[j].cseq = source_send_cseq' - 1
                           => OnlySetupAfter(j)'
  BY DEF SetupFirst
<1>0. /\ UNCHANGED sink_send_cseq
      /\ SourceEffect /\ SourceMoves /\ ~SourceDies
      /\ toSource \in Seq(Message) /\ toSource # << >> /\ toSource' = Tail(toSource)
      /\ source_send_cseq \in Nat
      /\ sink_state \in -1 .. 5
  BY SourceHandles, SourceMovesAlong, NeverDies, Facts DEF sinkVars
<1>1. /\ Len(toSource) \in Nat \ {0} /\ Head(toSource) = toSource[1] /\ 1 \in 1 .. Len(toSource)
      /\ Len(toSource') = Len(toSource) - 1
      /\ \A j \in 1 .. Len(toSource') : j + 1 \in 1 .. Len(toSource) /\ toSource'[j] = toSource[j + 1]
      /\ In(toSource') \subseteq In(toSource)
  BY <1>0, Shrunk
<1>2. CASE SourceAsksForSetup
  <2>1. source_expected_reply' # NoReply /\ source_send_cseq' = source_send_cseq + 1
    BY <1>2 DEF SourceAsksForSetup, SourceAsks, NoReply
  <2>2. \A j \in 1 .. Len(toSource') : ~IsRequest(toSource'[j]) => toSource'[j].cseq < source_send_cseq
    <3>1. \A j \in 1 .. Len(toSource') : toSource'[j] \in In(toSource)
      BY <1>1 DEF In
    <3> QED
      BY <3>1, Facts DEF Orderly
  <2>3. \A j \in 1 .. Len(toSource') : toSource'[j].cseq \in Nat
    <3>1. \A j \in 1 .. Len(toSource') : toSource'[j] \in In(toSource)
      BY <1>1 DEF In
    <3> QED
      BY <3>1, Facts DEF Message
  <2> QED
    BY <1>0, <2>1, <2>2, <2>3
<1>3. CASE ~SourceAsksForSetup
  <2>1. source_state = RTSP_SESSION_ESTABLISHMENT
    <3>1. ASSUME NEW method \in Trigger, SourceServesRequest(method)
          PROVE  source_state = RTSP_SESSION_ESTABLISHMENT
      <4>1. source_state # CAPABILITY_NEGOTIATION
        BY <3>1 DEF SourceServesRequest, Trigger, Command
      <4> QED
        BY <1>0, <4>1 DEF SourceMoves
    <3>2. CASE SourceUnmoved
      BY <3>2 DEF SourceUnmoved
    <3>3. SourceUnmoved \/ \E method \in Trigger : SourceServesRequest(method)
      BY <1>0, <1>3
      DEF SourceEffect, SourceAsksCapabilities, SourceSendsUrl, SourceStopsWaiting,
          SourceGoesOn, SourceTurnsDown
    <3> QED
      BY <3>1, <3>2, <3>3
  <2>2. SettingUp
    BY <1>0, <2>1 DEF SettingUp, SessionInv, Phases, Before
  <2>3. ~SourceLetsThrough
    BY <2>2, OnlySetupGetsThrough
  <2>4. CASE SourceStopsWaiting
    <3>1. /\ ~IsRequest(toSource[1]) /\ toSource[1].cseq = source_send_cseq - 1
          /\ UNCHANGED <<source_receive_cseq, source_send_cseq>>
      BY <1>1, <2>4 DEF SourceStopsWaiting, SourceTakesReply
    <3>2. OnlySetupAfter(0 + 1)
      BY <1>1, <2>1, <3>1 DEF SessionInv, SetupFirst
    <3>3. OnlySetupAfter(0)'
      BY <1>0, <3>1, <3>2, OneLess
    <3>4. \A m \in In(toSource') : IsRequest(m)
      BY <1>0, <1>1, <3>1, Facts, LastReply
    <3>5. \A j \in 1 .. Len(toSource') : IsRequest(toSource'[j])
      BY <3>4 DEF In
    <3> QED
      BY <3>3, <3>5
  <2>5. CASE SourceTurnsDown
    <3>1. UNCHANGED <<source_expected_reply, source_receive_cseq, source_send_cseq>>
      BY <2>5 DEF SourceTurnsDown
    <3>2. source_expected_reply' = NoReply => OnlySetupAfter(0)'
      BY <1>0, <2>1, <3>1, OneLess DEF SessionInv, SetupFirst
    <3>3. ASSUME NEW j \in 1 .. Len(toSource'), ~IsRequest(toSource'[j]),
                 toSource'[j].cseq = source_send_cseq' - 1
          PROVE  OnlySetupAfter(j)'
      <4>1. OnlySetupAfter(j + 1)
        BY <1>1, <2>1, <3>1, <3>3 DEF SessionInv, SetupFirst
      <4>2. j \in Nat
        OBVIOUS
      <4> QED
        BY <1>0, <3>1, <4>1, <4>2, OneLess
    <3> QED
      BY <3>2, <3>3
  <2> QED
    BY <1>0, <1>3, <2>1, <2>3, <2>4, <2>5
    DEF SourceEffect, SourceAsksCapabilities, SourceSendsUrl, SourceServesRequest, SourceGoesOn
<1> QED
  BY <1>2, <1>3

LEMMA SetupFirstKept ==
  ASSUME SessionInv, SessionStep
  PROVE  SetupFirst'
<1> USE DEF NotSet, INIT, CAPABILITY_NEGOTIATION, RTSP_SESSION_ESTABLISHMENT,
            WFD_SESSION_ESTABLISHMENT, WFD_SESSION_PLAYING, WFD_SESSION_PAUSED
<1>0. /\ SetupFirst /\ Phases /\ Counted
      /\ sink_state \in -1 .. 5 /\ source_state \in -1 .. 5
      /\ sink_send_cseq \in Nat /\ source_receive_cseq \in Nat /\ source_send_cseq \in Nat
      /\ toSource \in Seq(Message)
  BY Facts DEF SessionInv
<1>1. CASE SinkGotMessage /\ UNCHANGED sourceVars
  BY <1>1, SinkKeepsSetupFirst
<1>2. CASE SinkConnects
  BY <1>0, <1>2 DEF SinkConnects, Phases, SetupFirst, sourceVars
<1>3. ASSUME NEW command \in Command, SinkTypes(command)
      PROVE  SetupFirst'
  <2> SUFFICES ASSUME source_state' = RTSP_SESSION_ESTABLISHMENT
               PROVE  /\ source_expected_reply' = NoReply => OnlySetupAfter(0)'
                      /\ \A j \in 1 .. Len(toSource') :
                           ~IsRequest(toSource'[j]) /\ toSource'[j].cseq = source_send_cseq' - 1
                             => OnlySetupAfter(j)'
    BY DEF SetupFirst
  <2> DEFINE m == Request(command, sink_send_cseq, presentation_url)
  <2>1. /\ UNCHANGED <<source_state, source_expected_reply, source_send_cseq, source_receive_cseq>>
        /\ sink_send_cseq' = sink_send_cseq + 1
        /\ sink_connected /\ Grows(toSource, toSource', {m})
    BY <1>0, <1>3 DEF SinkTypes, sourceVars, Phases
  <2>2. ~AllReceived'
    BY <1>0, <2>1 DEF Counted, Before, AllReceived
  <2>3. IsRequest(m) /\ m.cseq = sink_send_cseq
    BY Fields DEF IsRequest, Command, Trigger
  <2> HIDE DEF m
  <2>4. ASSUME NEW j \in Nat, OnlySetupAfter(j)
        PROVE  OnlySetupAfter(j)'
    BY <2>1, <2>2, <2>3, <2>4, StillOnlySetup
  <2>5. ASSUME NEW j \in 1 .. Len(toSource'), ~IsRequest(toSource'[j]),
               toSource'[j].cseq = source_send_cseq' - 1
        PROVE  OnlySetupAfter(j)'
    <3>1. j \in 1 .. Len(toSource) /\ toSource'[j] = toSource[j] /\ j \in Nat
      BY <2>1, <2>3, <2>5 DEF Grows
    <3>2. OnlySetupAfter(j)
      BY <1>0, <2>1, <2>5, <3>1 DEF SetupFirst
    <3> QED
      BY <2>4, <3>1, <3>2
  <2> QED
    BY <1>0, <2>1, <2>4, <2>5 DEF SetupFirst
<1>4. CASE SourceGotMessage /\ UNCHANGED sinkVars
  BY <1>4, SourceKeepsSetupFirst
<1>5. CASE SourceConnects
  BY <1>5 DEF SourceConnects, SetupFirst
<1>6. ASSUME NEW command \in Command, SourceTypes(command)
      PROVE  SetupFirst'
  <2>1. /\ source_expected_reply' # NoReply /\ source_send_cseq' = source_send_cseq + 1
        /\ UNCHANGED toSource
    BY <1>6 DEF SourceTypes, SourceAsks, NoReply
  <2>2. \A j \in 1 .. Len(toSource) :
          toSource[j].cseq \in Nat /\ (~IsRequest(toSource[j]) => toSource[j].cseq < source_send_cseq)
    <3>1. \A j \in 1 .. Len(toSource) : toSource[j] \in In(toSource)
      BY DEF In
    <3> QED
      BY <3>1, Facts DEF Orderly, Message
  <2> QED
    BY <1>0, <2>1, <2>2 DEF SetupFirst
<1>7. CASE UNCHANGED <<toSink, toSource, sinkVars, sourceVars>>
  BY <1>0, <1>7 DEF SetupFirst, OnlySetupAfter, AllReceived, sinkVars, sourceVars
<1> QED
  BY <1>1, <1>2, <1>3, <1>4, <1>5, <1>6, <1>7 DEF SessionStep

-----------------------------------------------------------------------------
(* The theorems.                                                           *)

LEMMA InitSession ==
  ASSUME Init
  PROVE  SessionInv
<1> USE DEF NotSet, INIT, CAPABILITY_NEGOTIATION, RTSP_SESSION_ESTABLISHMENT,
            WFD_SESSION_ESTABLISHMENT, WFD_SESSION_PLAYING, WFD_SESSION_PAUSED
<1>1. TypeOK /\ ExchangesInOrder
  BY InitType, InitInOrder
<1>2. In(toSink) = {} /\ In(toSource) = {}
  BY DEF Init, ConnectionInit, In
<1>3. Phases /\ Negotiation /\ Served /\ Counted /\ Consecutive /\ NextInLine /\ SetupFirst
  BY <1>2 DEF Init, SinkInit, SourceInit, Phases, Before, Negotiation, Served, Counted,
              Consecutive, NextInLine, SettingUp, SetupFirst
<1> QED
  BY <1>1, <1>3 DEF SessionInv

LEMMA SessionInvKept ==
  ASSUME SessionInv, [Next]_vars
  PROVE  SessionInv'
<1>1. SessionStep
  BY SessionSteps
<1>2. TypeOK' /\ ExchangesInOrder'
  BY StepType, EveryStepKeepsOrder DEF SessionInv
<1>3. Phases' /\ Negotiation' /\ Served' /\ Counted' /\ Consecutive' /\ NextInLine' /\ SetupFirst'
  BY <1>1, <1>2, PhasesKept, NegotiationKept, ServedKept, CountedKept, ConsecutiveKept,
     NextInLineKept, SetupFirstKept
<1> QED
  BY <1>2, <1>3 DEF SessionInv

\* The inductive invariant of a session: how far each program is, what of their
\* exchange is under way, and what that says of the other.
THEOREM SessionKept == Spec => []SessionInv
<1>1. Init => SessionInv
  BY InitSession
<1>2. SessionInv /\ [Next]_vars => SessionInv'
  BY SessionInvKept
<1> QED
  BY <1>1, <1>2, PTL DEF Spec

(***************************************************************************)
(* The pipeline a command is given to is always there: the source never    *)
(* lets a PLAY, PAUSE or TEARDOWN through between its M5 and the SETUP.     *)
(***************************************************************************)
THEOREM PipelineIsThere == Spec => []SourceHasPipelineToCommand
<1>1. SessionInv => SourceHasPipelineToCommand
  BY DEF SessionInv, Phases, SourceHasPipelineToCommand
<1> QED
  BY <1>1, SessionKept, PTL

\* A step of the two programs is a step of the agreement, or none.
LEMMA AgreementStep ==
  ASSUME SessionInv, SessionStep
  PROVE  [Agreement!Next]_(Agreement!vars)
<1> USE DEF NotSet, INIT, CAPABILITY_NEGOTIATION, RTSP_SESSION_ESTABLISHMENT,
            WFD_SESSION_ESTABLISHMENT, WFD_SESSION_PLAYING, WFD_SESSION_PAUSED
<1> USE DEF Agreement!vars, Agreement!Next, Agreement!SinkConnects, Agreement!SourceConnects,
            Agreement!SinkNegotiates, Agreement!SourceFollows, Agreement!SourceLeads,
            Agreement!SinkAdopts, Agreement!Running, Agreement!Streaming
<1>0. Phases /\ sink_state \in -1 .. 5 /\ source_state \in -1 .. 5
  BY Facts DEF SessionInv
<1>1. CASE SinkGotMessage /\ UNCHANGED sourceVars
  BY <1>0, <1>1, SinkMovesAlong DEF SinkMoves, sourceVars
<1>2. CASE SinkConnects
  BY <1>0, <1>2 DEF SinkConnects, Phases, sourceVars
<1>3. ASSUME NEW command \in Command, SinkTypes(command)
      PROVE  UNCHANGED <<sink_state, source_state>>
  BY <1>3 DEF SinkTypes, sourceVars
<1>4. CASE SourceGotMessage /\ UNCHANGED sinkVars
  <2>1. UNCHANGED sink_state
    BY <1>4 DEF sinkVars
  <2> QED
    BY <1>0, <1>4, <2>1, SourceMovesAlong DEF SourceMoves, Phases
<1>5. CASE SourceConnects
  BY <1>0, <1>5 DEF SourceConnects, Phases, sinkVars
<1>6. ASSUME NEW command \in Command, SourceTypes(command)
      PROVE  UNCHANGED <<sink_state, source_state>>
  BY <1>6 DEF SourceTypes, sinkVars
<1>7. CASE UNCHANGED <<toSink, toSource, sinkVars, sourceVars>>
  BY <1>7 DEF sinkVars, sourceVars
<1> QED
  BY <1>1, <1>2, <1>3, <1>4, <1>5, <1>6, <1>7 DEF SessionStep

(***************************************************************************)
(* Whatever the users type and whenever, the two state machines implement  *)
(* the agreement: neither runs ahead of what the other allows, and the     *)
(* sink only ever takes the state the source is in at that moment.         *)
(***************************************************************************)
THEOREM AgreementImplemented == Spec => ImplementsAgreement
<1>1. Init => Agreement!Init
  BY DEF Init, SinkInit, SourceInit, Agreement!Init
<1>2. SessionInv /\ [Next]_vars => [Agreement!Next]_(Agreement!vars)
  BY SessionSteps, AgreementStep
<1> QED
  BY <1>1, <1>2, SessionKept, PTL DEF Spec, ImplementsAgreement, Agreement!Spec

-----------------------------------------------------------------------------
(* Patient users: the two programs take turns.                             *)

\* Of two messages under way in one direction, the first is a reply without a
\* body, to a request of one of these methods.
ReplyFirst(queue, methods) ==
  Len(queue) = 2 => /\ ~IsRequest(queue[1])
                    /\ queue[1].content # Ports
                    /\ queue[1].answers \in methods

(***************************************************************************)
(* Only one program has anything to read, and never more than a reply and  *)
(* a request.  The reply of two is to M1, to M2 or to an M5: none of those *)
(* to which the reader answers with a request.                             *)
(***************************************************************************)
TakingTurns ==
  /\ toSink = << >> \/ toSource = << >>
  /\ Len(toSink) <= 2 /\ Len(toSource) <= 2
  /\ ReplyFirst(toSink, {"OPTIONS"})
  /\ ReplyFirst(toSource, {"OPTIONS", "SET_PARAMETER"})
  /\ Len(toSource) = 2 /\ toSource[1].answers = "SET_PARAMETER"
       => source_state # CAPABILITY_NEGOTIATION
  /\ ~source_connected => toSource = << >>
  /\ \A m \in In(toSink) : m.type = "SET_PARAMETER" /\ m.content \in Trigger
       => source_state # CAPABILITY_NEGOTIATION

\* A reply that passes validate_message_sequence answers what is expected.
LEMMA ReplyTaken ==
  ASSUME NEW requests \in Seq(Message), NEW replies \in Seq(Message), NEW e, NEW s,
         NEW r, ExchangeInOrder(requests, replies, e, s),
         replies # << >>, Head(replies).type = "REPLY",
         ValidSequence(Head(replies), e, s, r)
  PROVE  Head(replies).answers = e
<1>1. 1 \in 1 .. Len(replies) /\ Head(replies) = replies[1]
  OBVIOUS
<1>2. ~IsRequest(replies[1]) /\ replies[1].cseq = s - 1
  BY <1>1 DEF IsRequest, ValidSequence
<1> QED
  BY <1>1, <1>2 DEF ExchangeInOrder

\* What the sink writes when it has read a message and nothing is under way to
\* the source: nothing, one message, or its reply and a request.
SinkSaysOne ==
  /\ \E m \in Message : toSource' = << m >>
  /\ IsRequest(Head(toSink)) \/ Head(toSink).answers = "SETUP"

SinkSaysTwo ==
  /\ \E m \in Message : toSource' = << ReplyTo(Head(toSink), 200, Nothing), m >>
  /\ \/ Head(toSink).type = "OPTIONS"
     \/ Head(toSink).type = "SET_PARAMETER" /\ Head(toSink).content \in Trigger

LEMMA SinkSpeaks ==
  ASSUME SessionInv, SinkGotMessage, toSource = << >>
  PROVE  toSource' = << >> \/ SinkSaysOne \/ SinkSaysTwo
<1>0. /\ toSink \in Seq(Message) /\ toSink # << >> /\ Head(toSink) \in Message
      /\ sink_send_cseq \in Nat /\ presentation_url \in Content
  BY Facts, SinkHandles
<1>1. \A m : Append(toSource, m) = << m >>
  OBVIOUS
<1>2. \A m, n : toSource \o << m, n >> = << m, n >>
  OBVIOUS
<1>3. IsRequest(Head(toSink)) => \A code \in {200, 303, 400}, content \in Content :
         ReplyTo(Head(toSink), code, content) \in Message
  BY <1>0, AnswerType
<1>4. /\ Nothing \in Content /\ Ports \in Content
      /\ \A method \in Method : Request(method, sink_send_cseq, Nothing) \in Message
      /\ \A method \in Method : SinkRequest(method) \in Message
  BY <1>0, AskedType, Words DEF SinkRequest
<1>5. CASE SinkHandleM1Options
  BY <1>2, <1>4, <1>5 DEF SinkHandleM1Options, SinkAccepts, SinkSaysTwo, Method
<1>6. CASE SinkHandleM3GetParameter
  BY <1>1, <1>3, <1>4, <1>6 DEF SinkHandleM3GetParameter, SinkAccepts, SinkSaysOne, IsRequest
<1>7. CASE SinkHandleM4SetParameter
  BY <1>1, <1>3, <1>4, <1>7
  DEF SinkHandleM4SetParameter, SinkAccepts, SinkReplies, SinkSaysOne, IsRequest
<1>8. CASE SinkHandleM5Trigger
  <2>1. Head(toSink).content \in Method
    BY <1>8 DEF SinkHandleM5Trigger, Trigger, Method
  <2> QED
    BY <1>2, <1>4, <1>8, <2>1 DEF SinkHandleM5Trigger, SinkAccepts, SinkSaysTwo
<1>9. CASE SinkHandleM6SetupReply
  <2>1. Head(toSink).answers = "SETUP"
    BY <1>0, <1>9, Facts, ReplyTaken DEF SinkHandleM6SetupReply, SinkAccepts
  <2> QED
    BY <1>1, <1>4, <1>9, <2>1 DEF SinkHandleM6SetupReply, SinkSaysOne, Method
<1>10. CASE SinkRefuses
  BY <1>1, <1>3, <1>4, <1>10 DEF SinkRefuses, SinkReplies, SinkSaysOne, IsRequest
<1>11. CASE SinkHandleM2Reply \/ SinkHandleM7PlayReply \/ SinkHandleM8TeardownReply
            \/ SinkHandleM9PauseReply \/ SinkIgnoresRequest \/ SinkIgnoresReply
  BY <1>11 DEF SinkHandleM2Reply, SinkHandleM7PlayReply, SinkHandleM8TeardownReply,
               SinkHandleM9PauseReply, SinkMovesOnReply, SinkIgnoresRequest, SinkIgnoresReply
<1> QED
  BY <1>5, <1>6, <1>7, <1>8, <1>9, <1>10, <1>11 DEF SinkGotMessage

\* The same of the source.  It asks for the session when the reply to M4 has
\* come, and in no other state than that.
SourceSaysOne ==
  /\ \E m \in Message :
       /\ toSink' = << m >>
       /\ m.type = "SET_PARAMETER" /\ m.content \in Trigger
            => source_state' = RTSP_SESSION_ESTABLISHMENT
  /\ \/ IsRequest(Head(toSource))
     \/ Head(toSource).answers = "GET_PARAMETER"
     \/ /\ Head(toSource).answers = "SET_PARAMETER"
        /\ source_state = CAPABILITY_NEGOTIATION

SourceSaysTwo ==
  /\ \E m \in Message :
       /\ toSink' = << ReplyTo(Head(toSource), 200, Nothing), m >>
       /\ m.type = "GET_PARAMETER"
  /\ Head(toSource).type = "OPTIONS"

\* Different words.
LEMMA Unlike == Url \notin Trigger /\ Nothing # Ports
BY Zenon DEF Url, Trigger, Nothing, Ports

LEMMA SourceSpeaks ==
  ASSUME SessionInv, SourceGotMessage, toSink = << >>
  PROVE  toSink' = << >> \/ SourceSaysOne \/ SourceSaysTwo
<1>0. /\ toSource \in Seq(Message) /\ toSource # << >> /\ Head(toSource) \in Message
      /\ source_send_cseq \in Nat
  BY Facts, SourceHandles
<1>1. \A m : Append(toSink, m) = << m >>
  OBVIOUS
<1>2. \A m, n : toSink \o << m, n >> = << m, n >>
  OBVIOUS
<1>3. ASSUME IsRequest(Head(toSource)), NEW code \in {200, 303, 400}, NEW content \in Content
      PROVE  /\ ReplyTo(Head(toSource), code, content) \in Message
             /\ ReplyTo(Head(toSource), code, content).type = "REPLY"
  <2>1. ReplyTo(Head(toSource), code, content) \in Message
    BY <1>0, <1>3, AnswerType
  <2> QED
    BY <2>1, Fields
<1>4. /\ Nothing \in Content /\ Session \in Content /\ Url \in Content
      /\ "SETUP" \in Trigger /\ Trigger \subseteq Content
      /\ \A method \in Method, content \in Content :
           /\ Request(method, source_send_cseq, content) \in Message
           /\ Request(method, source_send_cseq, content).type = method
           /\ Request(method, source_send_cseq, content).content = content
  <2>1. "SETUP" \in Trigger
    BY DEF Trigger
  <2>2. \A method \in Method, content \in Content :
           Request(method, source_send_cseq, content) \in Message
    BY <1>0, AskedType
  <2>3. \A method, content :
           /\ Request(method, source_send_cseq, content).type = method
           /\ Request(method, source_send_cseq, content).content = content
    BY DEF Request
  <2> QED
    BY <2>1, <2>2, <2>3, Words
<1>5. CASE SourceHandleM2Options
  BY <1>2, <1>4, <1>5 DEF SourceHandleM2Options, SourceAccepts, SourceSaysTwo, Method
<1>6. CASE SourceHandleM3Reply
  <2>1. Head(toSource).answers = "GET_PARAMETER"
    BY <1>0, <1>6, Facts, ReplyTaken DEF SourceHandleM3Reply, SourceAccepts
  <2> QED
    BY <1>1, <1>4, <1>6, <2>1, Unlike DEF SourceHandleM3Reply, SourceSaysOne, Method
<1>7. CASE SourceHandleM4Reply
  <2>1. Head(toSource).answers = "SET_PARAMETER"
    BY <1>0, <1>7, Facts, ReplyTaken DEF SourceHandleM4Reply, SourceAccepts
  <2> QED
    BY <1>1, <1>4, <1>7, <2>1
    DEF SourceHandleM4Reply, SourceTriggerRequest, SourceSaysOne, Method
<1>8. CASE SourceHandleM6Setup
  BY <1>1, <1>3, <1>4, <1>8
  DEF SourceHandleM6Setup, SourceAccepts, SourceReplies, SourceSaysOne, IsRequest
<1>9. ASSUME NEW method \in Command, NEW pipeline, NEW s, SourceServes(method, pipeline, s)
      PROVE  SourceSaysOne
  BY <1>1, <1>3, <1>4, <1>9
  DEF SourceServes, SourceAccepts, SourceReplies, SourceSaysOne, IsRequest, Command, Trigger
<1>10. CASE SourceHandleParameter
  BY <1>1, <1>3, <1>4, <1>10
  DEF SourceHandleParameter, SourceAccepts, SourceReplies, SourceSaysOne, IsRequest
<1>11. CASE SourceRefuses
  BY <1>1, <1>3, <1>4, <1>11 DEF SourceRefuses, SourceReplies, SourceSaysOne, IsRequest
<1>12. CASE SourceHandleM1Reply \/ SourceHandleM5Reply \/ SourceHasNoPipeline
            \/ SourceIgnoresRequest \/ SourceIgnoresReply
  BY <1>12 DEF SourceHandleM1Reply, SourceHandleM5Reply, SourceHasNoPipeline,
               SourceIgnoresRequest, SourceIgnoresReply
<1>13. CASE SourceHandleM7Play \/ SourceHandleM8Teardown \/ SourceHandleM9Pause
  BY <1>9, <1>13 DEF SourceHandleM7Play, SourceHandleM8Teardown, SourceHandleM9Pause,
                     Command, Trigger
<1> QED
  BY <1>5, <1>6, <1>7, <1>8, <1>10, <1>11, <1>12, <1>13 DEF SourceGotMessage

\* Short queues and what they carry.
LEMMA ShortQueues ==
  /\ In(<< >>) = {} /\ Len(<< >>) = 0
  /\ \A m \in Message : In(<< m >>) = {m} /\ Len(<< m >>) = 1
  /\ \A m, n \in Message : /\ In(<< m, n >>) = {m, n} /\ Len(<< m, n >>) = 2
                            /\ << m, n >>[1] = m
BY DEF In

\* One less of at most two.
LEMMA OneLessOfTwo ==
  ASSUME NEW queue \in Seq(Message), queue # << >>, Len(queue) <= 2
  PROVE  /\ Len(queue) \in 1 .. 2 /\ Len(Tail(queue)) = Len(queue) - 1
         /\ Len(Tail(queue)) <= 1
         /\ Tail(queue) = << >> \/ Len(queue) = 2
<1>1. Len(queue) \in Nat \ {0} /\ Len(Tail(queue)) = Len(queue) - 1
  OBVIOUS
<1>2. Len(queue) = 1 => Tail(queue) = << >>
  <2>1. Tail(queue) \in Seq(Message)
    OBVIOUS
  <2>2. Tail(queue) = << >> <=> Len(Tail(queue)) = 0
    BY <2>1, EmptySeq
  <2> QED
    BY <1>1, <2>2
<1>3. Len(queue) = 1 \/ Len(queue) = 2
  BY <1>1
<1> QED
  BY <1>1, <1>2, <1>3

\* The handlers of either program keep the turns.
LEMMA SinkTakesTurns ==
  ASSUME SessionInv, TakingTurns, SinkGotMessage, UNCHANGED sourceVars
  PROVE  TakingTurns'
<1>0. /\ toSink \in Seq(Message) /\ toSink # << >> /\ toSink' = Tail(toSink)
      /\ Head(toSink) \in Message /\ Head(toSink) \in In(toSink)
      /\ toSource = << >> /\ source_connected
      /\ In(toSink') \subseteq In(toSink)
  BY Facts, SinkHandles DEF TakingTurns
<1>1. UNCHANGED <<source_state, source_connected>>
  BY DEF sourceVars
<1>2. /\ Len(toSink') <= 1 /\ Len(toSink) \in 1 .. 2 /\ Len(toSink') = Len(toSink) - 1
      /\ toSink' = << >> \/ Len(toSink) = 2
  <2>1. Len(toSink) <= 2
    BY DEF TakingTurns
  <2> QED
    BY <1>0, <2>1, OneLessOfTwo
<1>3. Len(toSink) = 2 => /\ Head(toSink).type = "REPLY"
                         /\ Head(toSink).answers = "OPTIONS"
  BY <1>0 DEF TakingTurns, ReplyFirst, IsRequest
<1>5. ReplyFirst(toSink', {"OPTIONS"})
  <2>1. Len(toSink') # 2
    BY <1>2
  <2> QED
    BY <2>1 DEF ReplyFirst
<1>6. \A m \in In(toSink') : m.type = "SET_PARAMETER" /\ m.content \in Trigger
        => source_state' # CAPABILITY_NEGOTIATION
  BY <1>0, <1>1 DEF TakingTurns
<1>7. CASE toSource' = << >>
  <2>1. Len(toSource') = 0
    BY <1>7
  <2> QED
    BY <1>2, <1>5, <1>6, <1>7, <2>1 DEF TakingTurns, ReplyFirst
<1>8. CASE SinkSaysOne
  <2>1. Len(toSource') = 1
    BY <1>8, ShortQueues DEF SinkSaysOne
  <2>2. toSink' = << >>
    BY <1>2, <1>3, <1>8 DEF SinkSaysOne, IsRequest
  <2> QED
    BY <1>0, <1>1, <1>2, <1>5, <1>6, <2>1, <2>2 DEF TakingTurns, ReplyFirst
<1>9. CASE SinkSaysTwo
  <2>1. toSink' = << >>
    BY <1>2, <1>3, <1>9 DEF SinkSaysTwo
  <2>2. PICK m \in Message : toSource' = << ReplyTo(Head(toSink), 200, Nothing), m >>
    BY <1>9 DEF SinkSaysTwo
  <2>3. Len(toSource') = 2 /\ toSource'[1] = ReplyTo(Head(toSink), 200, Nothing)
    BY <2>2
  <2>4. /\ toSource'[1].type = "REPLY" /\ toSource'[1].content = Nothing
        /\ toSource'[1].answers = Head(toSink).type
    BY <2>3 DEF ReplyTo
  <2>5. ReplyFirst(toSource', {"OPTIONS", "SET_PARAMETER"})
    BY <1>9, <2>4, Unlike DEF ReplyFirst, SinkSaysTwo, IsRequest
  <2>6. Head(toSink).type = "SET_PARAMETER" => source_state # CAPABILITY_NEGOTIATION
    BY <1>0, <1>9 DEF SinkSaysTwo, TakingTurns
  <2> QED
    BY <1>0, <1>1, <1>2, <1>5, <1>6, <2>1, <2>3, <2>4, <2>5, <2>6 DEF TakingTurns
<1> QED
  BY <1>0, <1>7, <1>8, <1>9, SinkSpeaks

LEMMA SourceTakesTurns ==
  ASSUME SessionInv, TakingTurns, SourceGotMessage, UNCHANGED sinkVars
  PROVE  TakingTurns'
<1>0. /\ toSource \in Seq(Message) /\ toSource # << >> /\ toSource' = Tail(toSource)
      /\ Head(toSource) \in Message
      /\ toSink = << >> /\ source_connected
  BY Facts, SourceHandles DEF TakingTurns
<1>1. source_connected'
  BY <1>0, SourceHandles DEF SourceEffect
<1>2. /\ Len(toSource') <= 1 /\ Len(toSource) \in 1 .. 2 /\ Len(toSource') = Len(toSource) - 1
      /\ toSource' = << >> \/ Len(toSource) = 2
  <2>1. Len(toSource) <= 2
    BY DEF TakingTurns
  <2> QED
    BY <1>0, <2>1, OneLessOfTwo
<1>3. Len(toSource) = 2 =>
        /\ Head(toSource).type = "REPLY"
        /\ Head(toSource).answers \in {"OPTIONS", "SET_PARAMETER"}
        /\ Head(toSource).answers = "SET_PARAMETER" => source_state # CAPABILITY_NEGOTIATION
  BY <1>0 DEF TakingTurns, ReplyFirst, IsRequest
<1>5. ReplyFirst(toSource', {"OPTIONS", "SET_PARAMETER"}) /\ Len(toSource') # 2
  BY <1>2 DEF ReplyFirst
<1>6. CASE toSink' = << >>
  <2>1. Len(toSink') = 0 /\ In(toSink') = {}
    BY <1>6, ShortQueues
  <2> QED
    BY <1>1, <1>2, <1>5, <1>6, <2>1 DEF TakingTurns, ReplyFirst
<1>7. CASE SourceSaysOne
  <2>1. PICK m \in Message : /\ toSink' = << m >>
                             /\ m.type = "SET_PARAMETER" /\ m.content \in Trigger
                                  => source_state' = RTSP_SESSION_ESTABLISHMENT
    BY <1>7 DEF SourceSaysOne
  <2>2. Len(toSink') = 1 /\ In(toSink') = {m}
    BY <2>1, ShortQueues
  <2>3. toSource' = << >>
    BY <1>2, <1>3, <1>7 DEF SourceSaysOne, IsRequest
  <2>4. \A n \in In(toSink') : n.type = "SET_PARAMETER" /\ n.content \in Trigger
          => source_state' # CAPABILITY_NEGOTIATION
    BY <2>1, <2>2 DEF RTSP_SESSION_ESTABLISHMENT, CAPABILITY_NEGOTIATION
  <2> QED
    BY <1>1, <1>2, <1>5, <2>2, <2>3, <2>4 DEF TakingTurns, ReplyFirst
<1>8. CASE SourceSaysTwo
  <2>1. toSource' = << >>
    BY <1>2, <1>3, <1>8 DEF SourceSaysTwo
  <2>2. PICK m \in Message : /\ toSink' = << ReplyTo(Head(toSource), 200, Nothing), m >>
                             /\ m.type = "GET_PARAMETER"
    BY <1>8 DEF SourceSaysTwo
  <2>3. ReplyTo(Head(toSource), 200, Nothing) \in Message
    BY <1>0, <1>8, AnswerType, Words DEF SourceSaysTwo, IsRequest
  <2>4. /\ Len(toSink') = 2 /\ toSink'[1] = ReplyTo(Head(toSource), 200, Nothing)
        /\ In(toSink') = {ReplyTo(Head(toSource), 200, Nothing), m}
    BY <2>2, <2>3, ShortQueues
  <2>5. /\ ReplyTo(Head(toSource), 200, Nothing).type = "REPLY"
        /\ ReplyTo(Head(toSource), 200, Nothing).content = Nothing
        /\ ReplyTo(Head(toSource), 200, Nothing).answers = "OPTIONS"
    BY <1>8 DEF ReplyTo, SourceSaysTwo
  <2>6. ReplyFirst(toSink', {"OPTIONS"})
    BY <2>4, <2>5, Unlike DEF ReplyFirst, IsRequest
  <2>7. \A n \in In(toSink') : n.type # "SET_PARAMETER"
    BY <2>2, <2>4, <2>5
  <2> QED
    BY <1>1, <1>2, <1>5, <2>1, <2>4, <2>6, <2>7 DEF TakingTurns
<1> QED
  BY <1>0, <1>6, <1>7, <1>8, SourceSpeaks

LEMMA TurnsAreTaken ==
  ASSUME SessionInv, TakingTurns, [Next]_vars, Users = "patient"
  PROVE  TakingTurns'
<1> USE DEF NotSet, INIT, CAPABILITY_NEGOTIATION, RTSP_SESSION_ESTABLISHMENT,
            WFD_SESSION_ESTABLISHMENT, WFD_SESSION_PLAYING, WFD_SESSION_PAUSED
<1>0. source_send_cseq \in Nat /\ sink_send_cseq \in Nat /\ presentation_url \in Content
  BY Facts
<1>1. CASE SinkOnConnected /\ UNCHANGED sourceVars
  BY <1>1 DEF SinkOnConnected, connection, TakingTurns, sourceVars
<1>2. CASE SinkGotMessage /\ UNCHANGED sourceVars
  BY <1>2, SinkTakesTurns
<1>3. CASE SourceOnConnected
  <2>1. toSink = << >> /\ toSource = << >>
    BY <1>3 DEF SourceOnConnected, TakingTurns, SessionInv, ExchangesInOrder, NothingBeforeConnection
  <2> DEFINE m == Request("OPTIONS", source_send_cseq, Nothing)
  <2>2. m \in Message /\ m.type = "OPTIONS"
    BY <1>0, AskedType, Words DEF Request
  <2>3. toSink' = << m >> /\ toSource' = << >> /\ source_connected'
    BY <1>3, <2>1 DEF SourceOnConnected
  <2> HIDE DEF m
  <2>4. Len(toSink') = 1 /\ In(toSink') = {m} /\ Len(toSource') = 0
    BY <2>2, <2>3, ShortQueues
  <2> QED
    BY <2>2, <2>3, <2>4 DEF TakingTurns, ReplyFirst
<1>4. CASE SourceGotMessage /\ UNCHANGED sinkVars
  BY <1>4, SourceTakesTurns
<1>5. ASSUME NEW command \in Command, SinkUser(command)
      PROVE  TakingTurns'
  <2>1. Quiet /\ sink_state \in {WFD_SESSION_PLAYING, WFD_SESSION_PAUSED}
    BY <1>5 DEF SinkUser, MayType, Sensible, Command, Trigger
  <2>2. source_connected /\ sink_connected
    BY <2>1, Facts DEF SessionInv, Phases
  <2> DEFINE m == SinkRequest(command)
  <2>3. m \in Message
    BY <1>0, AskedType, Words DEF SinkRequest
  <2>4. toSource' = << m >> /\ toSink' = << >> /\ source_connected'
    BY <1>5, <2>1, <2>2 DEF SinkUser, SinkCommand, Quiet, sourceVars
  <2> HIDE DEF m
  <2>5. Len(toSource') = 1 /\ In(toSink') = {} /\ Len(toSink') = 0
    BY <2>3, <2>4, ShortQueues
  <2> QED
    BY <2>4, <2>5 DEF TakingTurns, ReplyFirst
<1>6. ASSUME NEW command \in Command, SourceUser(command)
      PROVE  TakingTurns'
  <2>1. Quiet /\ source_state \in {WFD_SESSION_PLAYING, WFD_SESSION_PAUSED}
    BY <1>6 DEF SourceUser, MayType, Sensible, Command, Trigger
  <2>2. source_connected
    BY <2>1 DEF SessionInv, Phases
  <2> DEFINE m == SourceTriggerRequest(command)
  <2>3. m \in Message
    BY <1>0, AskedType, Words DEF SourceTriggerRequest
  <2>4. /\ toSink' = << m >> /\ toSource' = << >> /\ source_connected'
        /\ source_state' # CAPABILITY_NEGOTIATION
    BY <1>6, <2>1, <2>2 DEF SourceUser, SourceCommand, Quiet
  <2> HIDE DEF m
  <2>5. Len(toSink') = 1 /\ Len(toSource') = 0
    BY <2>3, <2>4, ShortQueues
  <2> QED
    BY <2>4, <2>5 DEF TakingTurns, ReplyFirst
<1>7. CASE UNCHANGED vars
  BY <1>7 DEF vars, connection, sourceVars, TakingTurns
<1> QED
  BY <1>1, <1>2, <1>3, <1>4, <1>5, <1>6, <1>7 DEF Next, SinkProgram, SourceProgram, sourceVars, sinkVars

(***************************************************************************)
(* With patient users nothing follows a body before it has been handled,   *)
(* in either direction and at any moment of the session: the traffic is    *)
(* that of which the broker loses nothing (see MiracBroker, "body_last").  *)
(***************************************************************************)
THEOREM NothingBehindABody ==
  ASSUME Users = "patient"
  PROVE  Spec => []NothingFollowsABody
<1>1. Init => TakingTurns
  BY ShortQueues DEF Init, ConnectionInit, SourceInit, TakingTurns, ReplyFirst
<1>2. SessionInv /\ TakingTurns /\ [Next]_vars => TakingTurns'
  BY TurnsAreTaken
<1>3. SessionInv /\ TakingTurns => NothingFollowsABody
  <2> SUFFICES ASSUME SessionInv, TakingTurns PROVE NothingFollowsABody
    OBVIOUS
  <2>1. Len(toSink) \in Nat /\ Len(toSource) \in Nat
    BY Facts
  <2>2. Len(toSink) <= 2 /\ Len(toSource) <= 2
    BY DEF TakingTurns
  <2>3. Len(toSink) = 2 => ~HasBody(toSink[1])
    BY DEF TakingTurns, ReplyFirst, HasBody, IsRequest
  <2>4. Len(toSource) = 2 => ~HasBody(toSource[1])
    BY DEF TakingTurns, ReplyFirst, HasBody, IsRequest
  <2>5. \A n \in Nat : n <= 2 => \A i \in 1 .. n : i = n \/ (i = 1 /\ n = 2)
    OBVIOUS
  <2> QED
    BY <2>1, <2>2, <2>3, <2>4, <2>5 DEF NothingFollowsABody
<1> QED
  BY <1>1, <1>2, <1>3, SessionKept, PTL DEF Spec

-----------------------------------------------------------------------------
(***************************************************************************)
(* What holds of the exchange between sink and source holds across any     *)
(* number of sinks, for any users.  A step of ReconnectionNext is a step   *)
(* of WfdSession, or a new sink, which begins with an empty connection, or *)
(* a step of the source on the connection of a sink that has ended.  The   *)
(* last may leave the source anything of its types: nothing is in the new  *)
(* connection that could be mistaken for an answer, because the source has *)
(* not taken it up.  With users who are not hasty more is true: the two    *)
(* programs come to the same session state, see CarefulInv.                *)
(***************************************************************************)

\* The old connection is held only until the new one is taken up.
OldConnectionOK ==
  /\ source_holds_old \in BOOLEAN
  /\ old_toSource \in Seq(Message)
  /\ source_holds_old => ~source_connected

\* The inductive invariant.
InOrder == TypeOK /\ OldConnectionOK /\ ExchangesInOrder

-----------------------------------------------------------------------------
(* Steps on the old connection.                                            *)

\* What such a step leaves alone and keeps the types of.
OldStep ==
  /\ UNCHANGED <<connection, sinkVars, source_connected, source_holds_old, sink_commands>>
  /\ SourceTypeOK'
  /\ source_commands' \in 0 .. MaxSourceCommands
  /\ old_toSource' \in Seq(Message)

\* Reading a message of the sink that has ended.
LEMMA OldAcceptsType ==
  ASSUME TypeOK, OldConnectionOK, NEW type, Old!SourceAccepts(type)
  PROVE  /\ source_holds_old
         /\ old_toSource' \in Seq(Message)
         /\ source_receive_cseq' \in Nat
<1>1. /\ source_holds_old /\ old_toSource # << >>
      /\ old_toSource' = Tail(old_toSource)
      /\ source_receive_cseq' = NextReceiveCSeq(Head(old_toSource), source_receive_cseq)
  BY DEF Old!SourceAccepts, Old!NextReceiveCSeq, NextReceiveCSeq
<1>2. Head(old_toSource) \in Message /\ Tail(old_toSource) \in Seq(Message)
  BY <1>1, ReadType DEF OldConnectionOK
<1> QED
  BY <1>1, <1>2, ReceiveCSeqType DEF TypeOK, SourceTypeOK

\* Every handler keeps the types of the source.
LEMMA OldHandlerType ==
  ASSUME TypeOK, OldConnectionOK, Old!SourceGotMessage, UNCHANGED source_connected
  PROVE  /\ source_holds_old
         /\ SourceTypeOK'
         /\ old_toSource' \in Seq(Message)
<1> USE DEF SourceTypeOK, State, Method, NoReply, Pipeline, NotSet, INIT,
            CAPABILITY_NEGOTIATION, RTSP_SESSION_ESTABLISHMENT,
            WFD_SESSION_ESTABLISHMENT, WFD_SESSION_PLAYING, WFD_SESSION_PAUSED,
            Old!NoReply, Old!INIT, Old!RTSP_SESSION_ESTABLISHMENT,
            Old!WFD_SESSION_ESTABLISHMENT, Old!WFD_SESSION_PLAYING,
            Old!WFD_SESSION_PAUSED, Old!Command, Old!Trigger, Command, Trigger
<1>0. SourceTypeOK
  BY DEF TypeOK
<1>1. CASE Old!SourceHandleM1Reply \/ Old!SourceHandleM5Reply
  <2>1. Old!SourceAccepts("REPLY")
    BY <1>1 DEF Old!SourceHandleM1Reply, Old!SourceHandleM5Reply
  <2> QED
    BY <1>0, <1>1, <2>1, OldAcceptsType DEF Old!SourceHandleM1Reply, Old!SourceHandleM5Reply
<1>2. CASE Old!SourceHandleM2Options
  <2>1. Old!SourceAccepts("OPTIONS")
    BY <1>2 DEF Old!SourceHandleM2Options
  <2> QED
    BY <1>0, <1>2, <2>1, OldAcceptsType DEF Old!SourceHandleM2Options, Old!SourceReadyToRequest
<1>3. CASE Old!SourceHandleM3Reply \/ Old!SourceHandleM4Reply
  <2>1. Old!SourceAccepts("REPLY")
    BY <1>3 DEF Old!SourceHandleM3Reply, Old!SourceHandleM4Reply
  <2> QED
    BY <1>0, <1>3, <2>1, OldAcceptsType
       DEF Old!SourceHandleM3Reply, Old!SourceHandleM4Reply, Old!SourceReadyToRequest
<1>4. CASE Old!SourceHandleM6Setup
  <2>1. Old!SourceAccepts("SETUP")
    BY <1>4 DEF Old!SourceHandleM6Setup
  <2> QED
    BY <1>0, <1>4, <2>1, OldAcceptsType DEF Old!SourceHandleM6Setup, Old!SourceSetState
<1>5. CASE Old!SourceHandleM7Play \/ Old!SourceHandleM9Pause \/ Old!SourceHandleM8Teardown
  <2>1. PICK method \in Command, pipeline \in Pipeline, s \in State :
          Old!SourceServes(method, pipeline, s)
    BY <1>5 DEF Old!SourceHandleM7Play, Old!SourceHandleM9Pause, Old!SourceHandleM8Teardown
  <2>2. Old!SourceAccepts(method)
    BY <2>1 DEF Old!SourceServes
  <2> QED
    BY <1>0, <2>1, <2>2, OldAcceptsType DEF Old!SourceServes, Old!SourceSetState
<1>6. CASE Old!SourceHasNoPipeline \/ Old!SourceIgnoresRequest \/ Old!SourceIgnoresReply
  <2>1. PICK type : Old!SourceAccepts(type)
    BY <1>6 DEF Old!SourceHasNoPipeline, Old!SourceIgnoresRequest, Old!SourceIgnoresReply
  <2> QED
    BY <1>0, <1>6, <2>1, OldAcceptsType
       DEF Old!SourceHasNoPipeline, Old!SourceIgnoresRequest, Old!SourceIgnoresReply
<1>7. CASE Old!SourceHandleParameter
  <2>1. PICK type : Old!SourceAccepts(type)
    BY <1>7 DEF Old!SourceHandleParameter
  <2> QED
    BY <1>0, <1>7, <2>1, OldAcceptsType DEF Old!SourceHandleParameter
<1>8. CASE Old!SourceRefuses
  <2>1. source_holds_old /\ old_toSource' \in Seq(Message)
    BY <1>8, ReadType DEF Old!SourceRefuses, OldConnectionOK
  <2> QED
    BY <1>0, <1>8, <2>1 DEF Old!SourceRefuses, Old!sourceVars
<1> QED
  BY <1>1, <1>2, <1>3, <1>4, <1>5, <1>6, <1>7, <1>8 DEF Old!SourceGotMessage

\* Reading on the old connection is such a step.
LEMMA ReadsOldIsOldStep ==
  ASSUME TypeOK, OldConnectionOK, SourceReadsOld
  PROVE  OldStep /\ source_holds_old
<1>1. Old!SourceGotMessage /\ UNCHANGED <<Elsewhere, source_holds_old, source_commands>>
  BY DEF SourceReadsOld
<1>2. UNCHANGED source_connected
  BY <1>1 DEF Elsewhere
<1> QED
  BY <1>1, <1>2, OldHandlerType DEF OldStep, Elsewhere, TypeOK

\* So is a handler whose reply throws.
LEMMA ReplyThrowsIsOldStep ==
  ASSUME TypeOK, OldConnectionOK, SourceReplyThrows
  PROVE  OldStep /\ source_holds_old
<1>1. PICK method \in Trigger \cup {"OPTIONS"} :
        /\ Old!SourceAccepts(method)
        /\ source_pipeline' \in PipelineOfRequest(method)
  BY DEF SourceReplyThrows
<1>2. source_pipeline' \in Pipeline
  BY <1>1 DEF PipelineOfRequest, Pipeline, Trigger, TypeOK, SourceTypeOK
<1>3. UNCHANGED <<Elsewhere, source_up, source_holds_old, source_state,
                  source_expected_reply, source_send_cseq, source_commands>>
  BY DEF SourceReplyThrows
<1> QED
  BY <1>1, <1>2, <1>3, OldAcceptsType DEF OldStep, Elsewhere, TypeOK, SourceTypeOK

\* And so is a line typed at a source that holds a dead connection.
LEMMA UserMeetsOldIsOldStep ==
  ASSUME TypeOK, OldConnectionOK, NEW command \in Command, SourceUserMeetsOld(command)
  PROVE  OldStep /\ source_holds_old
<1>1. /\ source_holds_old
      /\ source_commands' \in 0 .. MaxSourceCommands
      /\ UNCHANGED <<Elsewhere, source_holds_old>>
  BY BoundsAssumption DEF SourceUserMeetsOld, TypeOK, BoundsAssumption
<1>2. SourceTypeOK' /\ old_toSource' = old_toSource
  <2>1. CASE Old!SourceCommand(command)
    BY <1>1, <2>1 DEF Old!SourceCommand, Old!SourceReadyToRequest, Elsewhere, TypeOK,
                      SourceTypeOK, Method
  <2>2. CASE /\ source_up' = FALSE
             /\ UNCHANGED <<source_state, source_expected_reply, source_send_cseq,
                            source_receive_cseq, source_pipeline, oldVars>>
    BY <1>1, <2>2 DEF Elsewhere, TypeOK, SourceTypeOK, oldVars
  <2> QED
    BY <2>1, <2>2 DEF SourceUserMeetsOld
<1> QED
  BY <1>1, <1>2 DEF OldStep, Elsewhere, OldConnectionOK

\* With the new connection not taken up, the source's part of it is empty.
LEMMA OldStepKeepsOrder ==
  ASSUME InOrder, OldStep, source_holds_old
  PROVE  InOrder'
<1>1. /\ UNCHANGED <<connection, sinkVars, source_connected>>
      /\ ~source_connected
  BY DEF InOrder, OldConnectionOK, OldStep
<1>2. TypeOK'
  BY DEF InOrder, OldStep, TypeOK, ConnectionTypeOK, SinkTypeOK, connection, sinkVars
<1>3. OldConnectionOK'
  BY DEF InOrder, OldStep, OldConnectionOK
<1>4. toSink = << >> /\ \A i \in 1 .. Len(toSource) : IsRequest(toSource[i])
  BY <1>1 DEF InOrder, ExchangesInOrder, NothingBeforeConnection
<1>5. ExchangeInOrder(toSink, toSource, source_expected_reply', source_send_cseq')
  BY <1>4 DEF ExchangeInOrder
<1>6. ExchangesInOrder'
  BY <1>1, <1>5 DEF InOrder, ExchangesInOrder, NothingBeforeConnection, connection, sinkVars
<1> QED
  BY <1>2, <1>3, <1>6 DEF InOrder

-----------------------------------------------------------------------------
\* A new sink begins with nothing under way.
LEMMA RestartKeepsOrder ==
  ASSUME InOrder, SinkRestarts
  PROVE  InOrder'
<1>1. /\ toSink' = << >> /\ toSource' = << >>
      /\ ~source_connected' /\ ~sink_connected'
  BY DEF SinkRestarts
<1>2. TypeOK'
  <2>1. ConnectionTypeOK'
    BY <1>1, EmptyType DEF ConnectionTypeOK
  <2>2. SinkTypeOK'
    BY DEF SinkRestarts, SinkTypeOK
  <2>3. SourceTypeOK'
    BY DEF SinkRestarts, InOrder, TypeOK, SourceTypeOK
  <2> QED
    BY <2>1, <2>2, <2>3 DEF SinkRestarts, InOrder, TypeOK
<1>3. OldConnectionOK'
  BY DEF SinkRestarts, InOrder, OldConnectionOK, TypeOK, ConnectionTypeOK
<1>4. ExchangesInOrder'
  BY <1>1 DEF ExchangesInOrder, ExchangeInOrder, NothingBeforeConnection
<1> QED
  BY <1>2, <1>3, <1>4 DEF InOrder

\* A step of the session is what it was without restarts.
LEMMA SessionStepKeepsOrder ==
  ASSUME InOrder, Next, OldConnectionOK'
  PROVE  InOrder'
BY StepType, EveryStepKeepsOrder DEF InOrder

\* Steps that touch the new connection only.
LEMMA OldConnectionKept ==
  ASSUME OldConnectionOK, UNCHANGED oldVars, source_holds_old => UNCHANGED source_connected
  PROVE  OldConnectionOK'
BY DEF OldConnectionOK, oldVars

\* Every step keeps the inductive invariant.
LEMMA ReconnectionStep ==
  ASSUME InOrder, [ReconnectionNext]_allVars
  PROVE  InOrder'
<1> USE DEF InOrder
<1>1. CASE SinkRuns
  <2>1. Next /\ UNCHANGED oldVars /\ UNCHANGED source_connected
    BY <1>1 DEF SinkRuns, Next, SinkProgram, sourceVars
  <2> QED
    BY <2>1, OldConnectionKept, SessionStepKeepsOrder
<1>2. CASE SourceTakesUp
  <2>1. Next
    BY <1>2 DEF SourceTakesUp, Next, SourceProgram
  <2>2. OldConnectionOK'
    BY <1>2, EmptyType DEF SourceTakesUp, OldConnectionOK
  <2> QED
    BY <2>1, <2>2, SessionStepKeepsOrder
<1>3. CASE /\ SourceGotMessage
           /\ UNCHANGED <<sinkVars, sink_commands, source_commands, oldVars, restarts>>
  <2>1. Next
    BY <1>3 DEF Next, SourceProgram
  <2>2. UNCHANGED source_connected
    BY <1>3, SourceReads
  <2> QED
    BY <1>3, <2>1, <2>2, OldConnectionKept, SessionStepKeepsOrder
<1>4. CASE SourceReadsOld
  BY <1>4, ReadsOldIsOldStep, OldStepKeepsOrder
<1>5. CASE SourceReplyThrows
  BY <1>5, ReplyThrowsIsOldStep, OldStepKeepsOrder
<1>6. CASE SinkRestarts
  BY <1>6, RestartKeepsOrder
<1>7. ASSUME NEW command \in Command, UserTypes(command)
      PROVE  InOrder'
  <2>1. CASE SinkUser(command) /\ UNCHANGED oldVars
    <3>1. Next /\ UNCHANGED source_connected
      BY <2>1 DEF Next, SinkUser, sourceVars
    <3> QED
      BY <2>1, <3>1, OldConnectionKept, SessionStepKeepsOrder
  <2>2. CASE SourceUser(command) /\ UNCHANGED oldVars
    <3>1. Next /\ UNCHANGED source_connected
      BY <2>2 DEF Next, SourceUser, SourceCommand
    <3> QED
      BY <2>2, <3>1, OldConnectionKept, SessionStepKeepsOrder
  <2>3. CASE SourceUserMeetsOld(command)
    BY <2>3, UserMeetsOldIsOldStep, OldStepKeepsOrder
  <2> QED
    BY <1>7, <2>1, <2>2, <2>3 DEF UserTypes
<1>8. CASE UNCHANGED allVars
  <2>1. [Next]_vars /\ UNCHANGED oldVars /\ UNCHANGED source_connected
    BY <1>8 DEF allVars, vars, sourceVars
  <2> QED
    BY <2>1, OldConnectionKept, StepType, EveryStepKeepsOrder
<1> QED
  BY <1>1, <1>2, <1>3, <1>4, <1>5, <1>6, <1>7, <1>8 DEF ReconnectionNext, SourceRuns

(***************************************************************************)
(* The exchange stays in order however often the sink is started again,    *)
(* and whatever its predecessors left in the source.                       *)
(***************************************************************************)
THEOREM OrderKeptAcrossRestarts == ReconnectionSpec => []InOrder
<1>1. ReconnectionInit => InOrder
  BY InitType, InitInOrder, EmptyType DEF ReconnectionInit, InOrder, OldConnectionOK
<1>2. InOrder /\ [ReconnectionNext]_allVars => InOrder'
  BY ReconnectionStep
<1> QED
  BY <1>1, <1>2, PTL DEF ReconnectionSpec

(***************************************************************************)
(* A reply that validate_message_sequence lets through answers the request *)
(* the program is waiting for, in the session of any sink after the first  *)
(* too: send_cseq_ of the source goes on counting, and no reply to an      *)
(* earlier sink's exchange can be taken for one to this sink's.            *)
(***************************************************************************)
THEOREM ReplyFitsRequestAcrossRestarts ==
  ReconnectionSpec => []ReplyAnswersExpectedRequest
<1>1. InOrder => ReplyAnswersExpectedRequest
  BY OrderAnswers DEF InOrder
<1> QED
  BY <1>1, OrderKeptAcrossRestarts, PTL

\* Nor does a new sink, or a source that has lost one, leave anything behind
\* in their connection when it stops waiting.
THEOREM NothingLeftBehindAcrossRestarts ==
  ReconnectionSpec => []NoOrphanExchange
<1>1. InOrder => NoOrphanExchange
  BY OrderLeavesNothing DEF InOrder
<1> QED
  BY <1>1, OrderKeptAcrossRestarts, PTL

-----------------------------------------------------------------------------
(***************************************************************************)
(* Careful users.  One request at a time is under way in either direction, *)
(* so a message tells its reader where the writer is: while the source     *)
(* negotiates, the reply it waits for says how far the sink has come, and  *)
(* afterwards the two differ only by an answer the sink has not yet read.  *)
(***************************************************************************)

\* Of a program's requests and the replies to them only the last is under way.
LastOnly(requests, replies, send_cseq) ==
  /\ \A m \in In(requests) : IsRequest(m) => m.cseq = send_cseq - 1
  /\ \A m \in In(replies) : ~IsRequest(m) => m.cseq = send_cseq - 1

OneAtATime ==
  /\ LastOnly(toSource, toSink, sink_send_cseq)
  /\ LastOnly(toSink, toSource, source_send_cseq)

\* The sink by itself.
SinkOK ==
  /\ sink_connected <=> sink_state # NotSet
  /\ sink_expected_reply # NoReply => SinkHandlesReply
  /\ sink_state >= WFD_SESSION_ESTABLISHMENT => sink_session = Session

NotTakenUp == toSink = << >> /\ toSource = << >> /\ sink_state <= INIT

\* While the source negotiates, what it waits for tells where the sink is.
Negotiating ==
  \/ /\ source_expected_reply = "OPTIONS"
     /\ \A m \in In(toSink) : m.type = "OPTIONS"
     /\ \/ sink_state <= INIT /\ toSource = << >>
        \/ /\ sink_state = CAPABILITY_NEGOTIATION /\ sink_expected_reply = "OPTIONS"
           /\ toSink = << >> /\ toSource # << >> /\ ~IsRequest(Head(toSource))
  \/ /\ source_expected_reply = NoReply
     /\ sink_state = CAPABILITY_NEGOTIATION /\ sink_expected_reply = "OPTIONS"
     /\ toSink = << >>
  \/ source_expected_reply = "GET_PARAMETER" /\ sink_state = CAPABILITY_NEGOTIATION
  \/ /\ source_expected_reply = "SET_PARAMETER"
     /\ sink_state \in {CAPABILITY_NEGOTIATION, RTSP_SESSION_ESTABLISHMENT}

UnderWay ==
  /\ \A m \in In(toSink) :
       /\ m.type = "OPTIONS" => source_state = CAPABILITY_NEGOTIATION
       /\ IsM4(m) => /\ source_state = CAPABILITY_NEGOTIATION
                     /\ source_expected_reply = "SET_PARAMETER"
                     /\ sink_state = CAPABILITY_NEGOTIATION
       /\ m.type = "SET_PARAMETER" /\ m.content \in Trigger
            => source_state # CAPABILITY_NEGOTIATION
  /\ \A m \in In(toSource) :
       /\ ~IsRequest(m) /\ m.code = 200 /\ m.answers = "SET_PARAMETER"
       /\ source_state = CAPABILITY_NEGOTIATION
       => sink_state = RTSP_SESSION_ESTABLISHMENT

\* The sink's request has been served.
IsServed(m) == ~IsRequest(m) /\ m.code = 200 /\ m.answers \in Trigger

ServedNow ==
  \A m \in In(toSink) : IsServed(m) =>
    /\ source_state = ServedIn(m.answers)
    /\ m.answers = "SETUP" => m.content = Session

\* Beyond the negotiation the states differ only while the sink has an answer
\* to read.
Following ==
  source_state # CAPABILITY_NEGOTIATION /\ source_state # sink_state =>
    \E m \in In(toSink) : IsServed(m)

InSession ==
  /\ source_state # NotSet
  /\ source_state = CAPABILITY_NEGOTIATION => Negotiating
  /\ UnderWay
  /\ ServedNow
  /\ Following

CarefulInv ==
  /\ InOrder
  /\ OneAtATime
  /\ SinkOK
  /\ IF source_connected THEN InSession ELSE NotTakenUp

-----------------------------------------------------------------------------
(* One request at a time.                                                  *)

\* A request under way is the only message of its exchange, and so is a reply.
LEMMA Alone ==
  ASSUME NEW requests \in Seq(Message), NEW replies \in Seq(Message), NEW e, NEW s \in Nat,
         ExchangeInOrder(requests, replies, e, s), LastOnly(requests, replies, s)
  PROVE  /\ \A m \in In(requests) : IsRequest(m) =>
              /\ e # NoReply /\ m.type = e
              /\ \A n \in In(replies) : IsRequest(n)
         /\ \A n \in In(replies) : ~IsRequest(n) =>
              /\ e # NoReply /\ n.answers = e /\ n.cseq = s - 1
              /\ \A m \in In(requests) : ~IsRequest(m)
         /\ requests # << >> /\ IsRequest(Head(requests)) =>
              \A m \in In(Tail(requests)) : ~IsRequest(m)
         /\ replies # << >> /\ ~IsRequest(Head(replies)) =>
              \A m \in In(Tail(replies)) : IsRequest(m)
<1>1. Orderly(requests, replies, e, s)
  BY OrderIn
<1>2. \A m \in In(requests), n \in In(replies) : ~(IsRequest(m) /\ ~IsRequest(n))
  BY <1>1 DEF Orderly, LastOnly
<1>3. ASSUME requests # << >>, IsRequest(Head(requests)),
             NEW m \in In(Tail(requests)), IsRequest(m)
      PROVE  FALSE
  <2>1. Head(requests) \in In(requests) /\ m \in In(requests)
    BY <1>3, Shrunk
  <2>2. Head(requests).cseq = s - 1 /\ m.cseq = s - 1
    BY <1>3, <2>1 DEF LastOnly
  <2>3. Head(requests).cseq < m.cseq
    BY <1>3, OldestFirst
  <2> QED
    BY <2>2, <2>3
<1>4. ASSUME replies # << >>, ~IsRequest(Head(replies))
      PROVE  \A m \in In(Tail(replies)) : IsRequest(m)
  <2>1. Head(replies).cseq = s - 1
    BY <1>4, Shrunk DEF LastOnly
  <2> QED
    BY <1>4, <2>1, LastReply
<1>5. \A m \in In(requests) : IsRequest(m) => e # NoReply /\ m.type = e
  BY <1>1 DEF Orderly, LastOnly
<1>6. \A n \in In(replies) : ~IsRequest(n) => e # NoReply /\ n.answers = e /\ n.cseq = s - 1
  BY <1>1 DEF Orderly, LastOnly
<1> QED
  BY <1>2, <1>3, <1>4, <1>5, <1>6

\* One more message in a queue.
LEMMA OneMore ==
  ASSUME NEW queue \in Seq(Message), NEW m \in Message
  PROVE  In(Append(queue, m)) = In(queue) \cup {m}
BY GrowsByOne, GrownIn

\* Where nothing of an exchange is under way, nothing old is.
LEMMA NothingOld ==
  ASSUME NEW requests, NEW replies, \A m \in In(requests) : ~IsRequest(m),
         \A m \in In(replies) : IsRequest(m), NEW s
  PROVE  LastOnly(requests, replies, s)
BY DEF LastOnly

\* The program sends a request when nothing else of its exchange is under way.
LEMMA AskAlone ==
  ASSUME NEW requests \in Seq(Message), NEW replies, NEW s \in Nat,
         NEW method \in Method, NEW content \in Content,
         \A m \in In(requests) : ~IsRequest(m), \A m \in In(replies) : IsRequest(m)
  PROVE  LastOnly(Append(requests, Request(method, s, content)), replies, s + 1)
<1>1. Request(method, s, content) \in Message /\ Request(method, s, content).cseq = s
  BY AskedType DEF Request
<1>2. In(Append(requests, Request(method, s, content)))
        = In(requests) \cup {Request(method, s, content)}
  BY <1>1, OneMore
<1> QED
  BY <1>1, <1>2 DEF LastOnly

\* The steps of a program keep it so, if it asks only when it waits for nothing.
LEMMA StepKeepsLast ==
  ASSUME NEW in \in Seq(Message), NEW out \in Seq(Message), NEW e, NEW s \in Nat,
         NEW e2, NEW s2 \in Nat,
         ExchangeInOrder(out, in, e, s), ExchangeInOrder(in, out, e2, s2),
         LastOnly(out, in, s), LastOnly(in, out, s2)
  PROVE  \A in1, out1, e1, s1 :
           /\ ExchangeStep(in, out, e, s, in1, out1, e1, s1)
           /\ Asks(in, out, e, s, in1, out1, e1, s1) => e = NoReply
           => LastOnly(out1, in1, s1) /\ LastOnly(in1, out1, s2)
<1> TAKE in1, out1, e1, s1
<1> HAVE /\ ExchangeStep(in, out, e, s, in1, out1, e1, s1)
         /\ Asks(in, out, e, s, in1, out1, e1, s1) => e = NoReply
<1>0. in # << >> => /\ Head(in) \in Message /\ Tail(in) \in Seq(Message)
                    /\ Head(in) \in In(in) /\ In(Tail(in)) \subseteq In(in)
  BY ReadType, Shrunk
<1>a. Orderly(out, in, e, s)
  BY OrderIn
<1>1. CASE Drops(in, out, e, s, in1, out1, e1, s1)
  BY <1>0, <1>1 DEF Drops, LastOnly
<1>2. CASE Answers(in, out, e, s, in1, out1, e1, s1)
  <2>1. PICK code \in {0, 200, 303, 400}, content \in Content :
          out1 = Append(out, ReplyTo(Head(in), code, content))
    BY <1>2 DEF Answers
  <2> DEFINE m == ReplyTo(Head(in), code, content)
  <2>2. in # << >> /\ in1 = Tail(in) /\ IsRequest(Head(in))
    BY <1>2 DEF Answers
  <2>3. m \in Message /\ ~IsRequest(m) /\ m.cseq = Head(in).cseq
    BY <1>0, <2>2, AnswerType DEF ReplyTo
  <2>4. In(out1) = In(out) \cup {m}
    BY <2>1, <2>3, OneMore
  <2> HIDE DEF m
  <2>5. LastOnly(in1, out1, s2)
    BY <1>0, <2>2, <2>3, <2>4 DEF LastOnly
  <2>6. LastOnly(out1, in1, s)
    BY <1>0, <2>2, <2>3, <2>4 DEF LastOnly
  <2>7. CASE e = NoReply
    <3>1. /\ \A n \in In(out1) : ~IsRequest(n)
          /\ \A n \in In(in1) : IsRequest(n)
      BY <1>0, <1>a, <2>2, <2>3, <2>4, <2>7 DEF Orderly
    <3> QED
      BY <2>5, <3>1, NothingOld
  <2> QED
    BY <1>2, <2>5, <2>6, <2>7 DEF Answers
<1>3. CASE AnswersAndAsks(in, out, e, s, in1, out1, e1, s1)
  <2>1. PICK code \in {0, 200, 303, 400}, content \in Content, asked \in Content :
          out1 = Append(Append(out, ReplyTo(Head(in), code, content)),
                        Request(e1, s, asked))
    BY <1>3 DEF AnswersAndAsks
  <2> DEFINE m == ReplyTo(Head(in), code, content)
             mid == Append(out, m)
             n == Request(e1, s, asked)
  <2>2. /\ in # << >> /\ in1 = Tail(in) /\ IsRequest(Head(in)) /\ e = NoReply
        /\ e1 \in Method /\ s1 = s + 1
    BY <1>3 DEF AnswersAndAsks
  <2>3. m \in Message /\ ~IsRequest(m) /\ m.cseq = Head(in).cseq
    BY <1>0, <2>2, AnswerType DEF ReplyTo
  <2>4. mid \in Seq(Message) /\ In(mid) = In(out) \cup {m}
    BY <2>3, OneMore, AppendType
  <2>5. n \in Message /\ IsRequest(n)
    BY <2>2, AskedType
  <2>6. In(Append(mid, n)) = In(mid) \cup {n}
    BY <2>4, <2>5, OneMore
  <2> HIDE DEF m
  <2>7. /\ \A l \in In(mid) : ~IsRequest(l)
        /\ \A l \in In(in1) : IsRequest(l)
    BY <1>0, <1>a, <2>2, <2>3, <2>4 DEF Orderly
  <2> HIDE DEF mid
  <2>8. LastOnly(out1, in1, s1)
    BY <2>1, <2>2, <2>4, <2>7, AskAlone DEF mid, m
  <2> HIDE DEF n
  <2>9. LastOnly(in1, Append(mid, n), s2)
    BY <1>0, <2>2, <2>3, <2>4, <2>5, <2>6 DEF LastOnly
  <2> QED
    BY <2>1, <2>8, <2>9 DEF mid, m, n
<1>4. CASE Takes(in, out, e, s, in1, out1, e1, s1)
  <2>1. in # << >> /\ in1 = Tail(in) /\ ~IsRequest(Head(in)) /\ Head(in).cseq = s - 1
        /\ out1 = out
    BY <1>4 DEF Takes
  <2>2. /\ \A m \in In(out) : ~IsRequest(m)
        /\ \A m \in In(in1) : IsRequest(m)
    BY <2>1, LastReply
  <2>3. LastOnly(out1, in1, s1)
    BY <2>1, <2>2, NothingOld
  <2>4. LastOnly(in1, out1, s2)
    BY <1>0, <2>1 DEF LastOnly
  <2> QED
    BY <2>3, <2>4
<1>5. CASE TakesAndAsks(in, out, e, s, in1, out1, e1, s1)
  <2>1. /\ in # << >> /\ in1 = Tail(in) /\ ~IsRequest(Head(in)) /\ Head(in).cseq = s - 1
        /\ e1 \in Method /\ s1 = s + 1
    BY <1>5 DEF TakesAndAsks
  <2>2. PICK asked \in Content : out1 = Append(out, Request(e1, s, asked))
    BY <1>5 DEF TakesAndAsks
  <2>3. /\ \A m \in In(out) : ~IsRequest(m)
        /\ \A m \in In(in1) : IsRequest(m)
    BY <2>1, LastReply
  <2>4. LastOnly(out1, in1, s1)
    BY <2>1, <2>2, <2>3, AskAlone
  <2> DEFINE n == Request(e1, s, asked)
  <2>5. n \in Message /\ IsRequest(n) /\ In(out1) = In(out) \cup {n}
    BY <2>1, <2>2, AskedType, OneMore
  <2> HIDE DEF n
  <2>6. LastOnly(in1, out1, s2)
    BY <1>0, <2>1, <2>5 DEF LastOnly
  <2> QED
    BY <2>4, <2>6
<1>6. CASE Asks(in, out, e, s, in1, out1, e1, s1)
  <2>1. in1 = in /\ e1 \in Method /\ s1 = s + 1 /\ e = NoReply
    BY <1>6 DEF Asks
  <2>2. PICK asked \in Content : out1 = Append(out, Request(e1, s, asked))
    BY <1>6 DEF Asks
  <2>3. /\ \A m \in In(out) : ~IsRequest(m)
        /\ \A m \in In(in1) : IsRequest(m)
    BY <1>a, <2>1 DEF Orderly
  <2>4. LastOnly(out1, in1, s1)
    BY <2>1, <2>2, <2>3, AskAlone
  <2> DEFINE n == Request(e1, s, asked)
  <2>5. n \in Message /\ IsRequest(n) /\ In(out1) = In(out) \cup {n}
    BY <2>1, <2>2, AskedType, OneMore
  <2> HIDE DEF n
  <2>6. LastOnly(in1, out1, s2)
    BY <2>1, <2>5 DEF LastOnly
  <2> QED
    BY <2>4, <2>6
<1> QED
  BY <1>1, <1>2, <1>3, <1>4, <1>5, <1>6 DEF ExchangeStep

-----------------------------------------------------------------------------
(* What is known when a program of careful users reads.                    *)

\* The types and orders the lemmas below keep needing.
LEMMA CarefulFacts ==
  ASSUME InOrder, OneAtATime
  PROVE  /\ SinkType /\ SourceType
         /\ toSink \in Seq(Message) /\ toSource \in Seq(Message)
         /\ sink_state \in -1 .. 5 /\ source_state \in -1 .. 5
         /\ sink_send_cseq \in Nat /\ source_send_cseq \in Nat
         /\ presentation_url \in Content
         /\ ExchangeInOrder(toSource, toSink, sink_expected_reply, sink_send_cseq)
         /\ ExchangeInOrder(toSink, toSource, source_expected_reply, source_send_cseq)
         /\ LastOnly(toSource, toSink, sink_send_cseq)
         /\ LastOnly(toSink, toSource, source_send_cseq)
<1>1. /\ SinkType /\ SourceType
      /\ toSink \in Seq(Message) /\ toSource \in Seq(Message)
      /\ sink_send_cseq \in Nat /\ source_send_cseq \in Nat
      /\ presentation_url \in Content
  BY Words DEF InOrder, TypeOK, SinkType, SourceType, ConnectionTypeOK, SinkTypeOK, SourceTypeOK
<1>2. sink_state \in -1 .. 5 /\ source_state \in -1 .. 5
  BY DEF InOrder, TypeOK, SinkTypeOK, SourceTypeOK, State, NotSet, INIT, WFD_SESSION_PAUSED
<1> QED
  BY <1>1, <1>2 DEF InOrder, ExchangesInOrder, OneAtATime

\* The sink's exchange, and the source's.
LEMMA SinkAlone ==
  ASSUME InOrder, OneAtATime
  PROVE  /\ \A m \in In(toSource) : IsRequest(m) =>
              /\ sink_expected_reply # NoReply /\ m.type = sink_expected_reply
              /\ \A n \in In(toSink) : IsRequest(n)
         /\ \A n \in In(toSink) : ~IsRequest(n) =>
              /\ sink_expected_reply # NoReply /\ n.answers = sink_expected_reply
              /\ n.cseq = sink_send_cseq - 1
              /\ \A m \in In(toSource) : ~IsRequest(m)
         /\ toSource # << >> /\ IsRequest(Head(toSource)) =>
              \A m \in In(Tail(toSource)) : ~IsRequest(m)
         /\ toSink # << >> /\ ~IsRequest(Head(toSink)) =>
              \A m \in In(Tail(toSink)) : IsRequest(m)
BY CarefulFacts, Alone

LEMMA SourceAlone ==
  ASSUME InOrder, OneAtATime
  PROVE  /\ \A m \in In(toSink) : IsRequest(m) =>
              /\ source_expected_reply # NoReply /\ m.type = source_expected_reply
              /\ \A n \in In(toSource) : IsRequest(n)
         /\ \A n \in In(toSource) : ~IsRequest(n) =>
              /\ source_expected_reply # NoReply /\ n.answers = source_expected_reply
              /\ n.cseq = source_send_cseq - 1
              /\ \A m \in In(toSink) : ~IsRequest(m)
         /\ toSink # << >> /\ IsRequest(Head(toSink)) =>
              \A m \in In(Tail(toSink)) : ~IsRequest(m)
         /\ toSource # << >> /\ ~IsRequest(Head(toSource)) =>
              \A m \in In(Tail(toSource)) : IsRequest(m)
BY CarefulFacts, Alone

\* The sink reads a request that is alone, or the one reply it waits for.
LEMMA SinkHears ==
  ASSUME InOrder, OneAtATime, SinkGotMessage
  PROVE  /\ SinkEffect /\ sink_connected /\ source_connected
         /\ toSink # << >> /\ toSink' = Tail(toSink)
         /\ Head(toSink) \in In(toSink)
         /\ In(toSink') \subseteq In(toSink)
         /\ In(toSink) \subseteq {Head(toSink)} \cup In(toSink')
         /\ IsRequest(Head(toSink)) => /\ Head(toSink).type = source_expected_reply
                                       /\ \A m \in In(toSink') : ~IsRequest(m)
         /\ ~IsRequest(Head(toSink)) => /\ Head(toSink).answers = sink_expected_reply
                                        /\ \A m \in In(toSink') : IsRequest(m)
                                        /\ ~SinkTurnsDown
         /\ sink_expected_reply = NoReply => \A m \in In(toSink) : IsRequest(m)
<1>1. SinkEffect
  BY CarefulFacts, SinkEffects
<1>2. toSink # << >> /\ toSink' = Tail(toSink)
  BY <1>1 DEF SinkEffect
<1>3. sink_connected /\ source_connected
  BY SinkReads DEF InOrder
<1>4. /\ Head(toSink) \in In(toSink) /\ In(toSink') \subseteq In(toSink)
      /\ In(toSink) \subseteq {Head(toSink)} \cup In(toSink')
  BY <1>2, CarefulFacts, Shrunk
<1>5. IsRequest(Head(toSink)) => /\ Head(toSink).type = source_expected_reply
                                 /\ \A m \in In(toSink') : ~IsRequest(m)
  BY <1>2, <1>4, SourceAlone
<1>6. ~IsRequest(Head(toSink)) => /\ Head(toSink).answers = sink_expected_reply
                                  /\ sink_expected_reply # NoReply
                                  /\ Head(toSink).cseq = sink_send_cseq - 1
                                  /\ \A m \in In(toSink') : IsRequest(m)
  BY <1>2, <1>4, SinkAlone
<1>7. ~IsRequest(Head(toSink)) => ~SinkTurnsDown
  BY <1>6 DEF SinkTurnsDown
<1>8. sink_expected_reply = NoReply => \A m \in In(toSink) : IsRequest(m)
  BY SinkAlone
<1> QED
  BY <1>1, <1>2, <1>3, <1>4, <1>5, <1>6, <1>7, <1>8

\* And so does the source.
LEMMA SourceHears ==
  ASSUME InOrder, OneAtATime, SourceGotMessage
  PROVE  /\ SourceEffect /\ sink_connected /\ source_connected
         /\ toSource # << >> /\ toSource' = Tail(toSource)
         /\ Head(toSource) \in In(toSource)
         /\ In(toSource') \subseteq In(toSource)
         /\ IsRequest(Head(toSource)) => /\ Head(toSource).type = sink_expected_reply
                                         /\ \A m \in In(toSink) : IsRequest(m)
         /\ ~IsRequest(Head(toSource)) => /\ Head(toSource).answers = source_expected_reply
                                          /\ \A m \in In(toSink) : ~IsRequest(m)
                                          /\ ~SourceTurnsDown
         /\ source_expected_reply = NoReply => \A m \in In(toSink) : ~IsRequest(m)
<1>1. SourceEffect
  BY CarefulFacts, SourceEffects
<1>2. toSource # << >> /\ toSource' = Tail(toSource)
  BY <1>1 DEF SourceEffect
<1>3. sink_connected /\ source_connected
  BY SourceReads DEF InOrder
<1>4. Head(toSource) \in In(toSource) /\ In(toSource') \subseteq In(toSource)
  BY <1>2, CarefulFacts, Shrunk
<1>5. IsRequest(Head(toSource)) => /\ Head(toSource).type = sink_expected_reply
                                   /\ \A m \in In(toSink) : IsRequest(m)
  BY <1>4, SinkAlone
<1>6. ~IsRequest(Head(toSource)) => /\ Head(toSource).answers = source_expected_reply
                                    /\ source_expected_reply # NoReply
                                    /\ Head(toSource).cseq = source_send_cseq - 1
                                    /\ \A m \in In(toSink) : ~IsRequest(m)
  BY <1>4, SourceAlone
<1>7. ~IsRequest(Head(toSource)) => ~SourceTurnsDown
  BY <1>6 DEF SourceTurnsDown
<1>8. source_expected_reply = NoReply => \A m \in In(toSink) : ~IsRequest(m)
  BY SourceAlone
<1> QED
  BY <1>1, <1>2, <1>3, <1>4, <1>5, <1>6, <1>7, <1>8

-----------------------------------------------------------------------------
(* Requests one at a time, when a program reads.                           *)

\* A sink that reads asks nothing while it waits for something.
LEMMA SinkKeepsLast ==
  ASSUME InOrder, OneAtATime, SinkGotMessage, UNCHANGED sourceVars
  PROVE  OneAtATime'
<1>1. SinkStep /\ toSink # << >> /\ toSink' = Tail(toSink)
  BY CarefulFacts, SinkSteps, SinkHears
<1>2. Len(Tail(toSink)) # Len(toSink)
  BY <1>1, CarefulFacts, Shrunk
<1>3. ~Asks(toSink, toSource, sink_expected_reply, sink_send_cseq,
            toSink', toSource', sink_expected_reply', sink_send_cseq')
  BY <1>1, <1>2 DEF Asks
<1>4. /\ LastOnly(toSource', toSink', sink_send_cseq')
      /\ LastOnly(toSink', toSource', source_send_cseq)
  BY <1>1, <1>3, CarefulFacts, StepKeepsLast DEF SinkStep
<1> QED
  BY <1>4 DEF OneAtATime, sourceVars

\* Nor does the source.
LEMMA SourceKeepsLast ==
  ASSUME InOrder, OneAtATime, SourceGotMessage, UNCHANGED sinkVars
  PROVE  OneAtATime'
<1>1. SourceStep /\ toSource # << >> /\ toSource' = Tail(toSource)
  BY CarefulFacts, SourceSteps, SourceHears
<1>2. Len(Tail(toSource)) # Len(toSource)
  BY <1>1, CarefulFacts, Shrunk
<1>3. ~Asks(toSource, toSink, source_expected_reply, source_send_cseq,
            toSource', toSink', source_expected_reply', source_send_cseq')
  BY <1>1, <1>2 DEF Asks
<1>4. /\ LastOnly(toSink', toSource', source_send_cseq')
      /\ LastOnly(toSource', toSink', sink_send_cseq)
  BY <1>1, <1>3, CarefulFacts, StepKeepsLast DEF SourceStep
<1> QED
  BY <1>4 DEF OneAtATime, sinkVars

-----------------------------------------------------------------------------
(* The sink reads.                                                         *)

\* A trigger is obeyed where the reply to its request is handled.
LEMMA ObeyedHandles ==
  ASSUME NEW trigger \in Trigger, SinkObeys(trigger), sink_state' = sink_state,
         sink_expected_reply' = trigger
  PROVE  SinkHandlesReply'
<1> USE DEF RTSP_SESSION_ESTABLISHMENT, WFD_SESSION_PLAYING, WFD_SESSION_PAUSED, SinkHandlesReply
<1>1. CASE trigger = "SETUP"
  BY <1>1 DEF SinkObeys
<1>2. CASE trigger = "PLAY"
  BY <1>2 DEF SinkObeys
<1>3. CASE trigger = "PAUSE"
  BY <1>3 DEF SinkObeys
<1>4. CASE trigger = "TEARDOWN"
  BY <1>4 DEF SinkObeys
<1> QED
  BY <1>1, <1>2, <1>3, <1>4 DEF Trigger

\* The sink never waits for a reply it would not handle.
LEMMA SinkStaysOK ==
  ASSUME InOrder, OneAtATime, SinkOK, SinkGotMessage
  PROVE  SinkOK'
<1> USE DEF NotSet, INIT, CAPABILITY_NEGOTIATION, RTSP_SESSION_ESTABLISHMENT,
            WFD_SESSION_ESTABLISHMENT, WFD_SESSION_PLAYING, WFD_SESSION_PAUSED
<1>0. SinkEffect /\ sink_connected /\ sink_connected' /\ sink_state \in 0 .. 5
  BY SinkHears, CarefulFacts DEF SinkEffect, SinkOK
<1>1. CASE SinkNegotiates
  BY <1>0, <1>1 DEF SinkNegotiates, SinkOK, SinkHandlesReply
<1>2. CASE SinkLearnsUrl
  BY <1>0, <1>2 DEF SinkLearnsUrl, SinkLetsThrough, SinkOK
<1>3. ASSUME NEW trigger \in Trigger, SinkFollows(trigger)
      PROVE  SinkOK'
  <2>1. SinkHandlesReply'
    BY <1>3, ObeyedHandles DEF SinkFollows
  <2>2. UNCHANGED <<sink_state, sink_session>>
    BY <1>0, <1>3 DEF SinkFollows, SinkLetsThrough, SinkEffect, SinkAdoptsSession, SinkTakesReply
  <2> QED
    BY <1>0, <2>1, <2>2 DEF SinkOK
<1>4. CASE SinkAdoptsSession
  BY <1>0, <1>4 DEF SinkAdoptsSession, SinkOK, SinkHandlesReply
<1>5. CASE SinkAdoptsState
  <2>1. /\ sink_expected_reply' = NoReply /\ sink_state >= WFD_SESSION_ESTABLISHMENT
        /\ sink_expected_reply \in {"PLAY", "PAUSE", "TEARDOWN"}
        /\ sink_state' = ServedIn(sink_expected_reply)
    BY <1>5 DEF SinkAdoptsState, Command, Trigger
  <2>2. UNCHANGED sink_session
    BY <1>0, <2>1 DEF SinkEffect, SinkAdoptsSession
  <2> QED
    BY <1>0, <2>1, <2>2, ServedStates DEF SinkOK
<1>6. CASE SinkGivesUp
  <2>1. /\ UNCHANGED <<sink_state, sink_session>> /\ sink_expected_reply' = NoReply
    BY <1>0, <1>6 DEF SinkGivesUp, SinkTakesReply, SinkEffect, SinkAdoptsSession, SinkOK
  <2> QED
    BY <1>0, <2>1 DEF SinkOK
<1>7. CASE SinkAnswers \/ SinkIgnores \/ SinkTurnsDown
  <2>1. UNCHANGED <<sink_state, sink_expected_reply, sink_session>>
    BY <1>0, <1>7 DEF SinkAnswers, SinkIgnores, SinkTurnsDown, SinkUnmoved, SinkEffect,
                      SinkAdoptsSession
  <2> QED
    BY <1>0, <2>1 DEF SinkOK, SinkHandlesReply
<1> QED
  BY <1>0, <1>1, <1>2, <1>3, <1>4, <1>5, <1>6, <1>7 DEF SinkEffect

\* What the head of its connection tells the sink of the source.
LEMMA SinkReadsMind ==
  ASSUME InOrder, OneAtATime, SinkOK, InSession, SinkGotMessage
  PROVE  /\ SinkNegotiates => source_state = CAPABILITY_NEGOTIATION
         /\ SinkLearnsUrl => /\ source_state = CAPABILITY_NEGOTIATION
                             /\ source_expected_reply = "SET_PARAMETER"
         /\ \A trigger \in Trigger :
              SinkFollows(trigger) => source_state # CAPABILITY_NEGOTIATION
         /\ SinkAdoptsSession \/ SinkAdoptsState =>
              source_state = sink_state' /\ source_state # CAPABILITY_NEGOTIATION
         /\ SinkGivesUp => ~IsServed(Head(toSink))
<1> USE DEF NotSet, INIT, CAPABILITY_NEGOTIATION, RTSP_SESSION_ESTABLISHMENT,
            WFD_SESSION_ESTABLISHMENT, WFD_SESSION_PLAYING, WFD_SESSION_PAUSED
<1>0. /\ Head(toSink) \in In(toSink)
      /\ ~IsRequest(Head(toSink)) => Head(toSink).answers = sink_expected_reply
  BY SinkHears
<1>1. SinkNegotiates => source_state = CAPABILITY_NEGOTIATION
  BY <1>0 DEF SinkNegotiates, InSession, UnderWay
<1>2. SinkLearnsUrl => /\ source_state = CAPABILITY_NEGOTIATION
                       /\ source_expected_reply = "SET_PARAMETER"
  BY <1>0 DEF SinkLearnsUrl, InSession, UnderWay
<1>3. ASSUME NEW trigger \in Trigger, SinkFollows(trigger)
      PROVE  source_state # CAPABILITY_NEGOTIATION
  BY <1>0, <1>3 DEF SinkFollows, InSession, UnderWay
<1>4. ASSUME SinkAdoptsSession \/ SinkAdoptsState
      PROVE  source_state = sink_state' /\ source_state # CAPABILITY_NEGOTIATION
  <2>1. ~IsRequest(Head(toSink)) /\ Head(toSink).code = 200 /\ sink_expected_reply \in Trigger
    BY <1>4 DEF SinkAdoptsSession, SinkAdoptsState, SinkTakesReply, Command, Trigger
  <2>2. source_state = ServedIn(sink_expected_reply)
    BY <1>0, <2>1 DEF InSession, ServedNow, IsServed
  <2>3. sink_state' = ServedIn(sink_expected_reply)
    BY <1>4, ServedStates DEF SinkAdoptsSession, SinkAdoptsState
  <2>4. source_state # CAPABILITY_NEGOTIATION
    BY <2>1, <2>2, ServedStates DEF Trigger
  <2> QED
    BY <2>2, <2>3, <2>4
<1>5. ASSUME SinkGivesUp, IsServed(Head(toSink))
      PROVE  FALSE
  <2>1. Head(toSink).code = 200 /\ sink_expected_reply \in Trigger /\ SinkHandlesReply
    BY <1>0, <1>5 DEF IsServed, SinkGivesUp, SinkTakesReply, SinkOK
  <2>2. sink_expected_reply = "SETUP" /\ Head(toSink).content # Session
    BY <1>5, <2>1 DEF SinkGivesUp
  <2> QED
    BY <1>0, <1>5, <2>2 DEF IsServed, InSession, ServedNow
<1> QED
  BY <1>1, <1>2, <1>3, <1>4, <1>5

\* The answer that makes up the difference is read only by moving.
LEMMA SinkKeepsFollowing ==
  ASSUME InOrder, OneAtATime, SinkOK, InSession, SinkGotMessage, UNCHANGED sourceVars
  PROVE  Following'
<1> SUFFICES ASSUME source_state # CAPABILITY_NEGOTIATION, source_state # sink_state'
             PROVE  \E m \in In(toSink') : IsServed(m)
  BY DEF Following, sourceVars
<1>0. /\ SinkEffect
      /\ Head(toSink) \in In(toSink)
      /\ In(toSink) \subseteq {Head(toSink)} \cup In(toSink')
      /\ ~IsRequest(Head(toSink)) => ~SinkTurnsDown
      /\ sink_expected_reply = NoReply => \A m \in In(toSink) : IsRequest(m)
  BY SinkHears
<1>1. ~SinkNegotiates /\ ~SinkLearnsUrl /\ ~SinkAdoptsSession /\ ~SinkAdoptsState
  BY SinkReadsMind
<1>2. sink_state' = sink_state
  BY <1>0, <1>1 DEF SinkEffect, SinkAnswers, SinkFollows, SinkGivesUp, SinkIgnores,
                    SinkTurnsDown, SinkUnmoved
<1>3. PICK m \in In(toSink) : IsServed(m)
  BY <1>2 DEF InSession, Following
<1>4. m # Head(toSink)
  <2>1. SUFFICES ASSUME IsServed(Head(toSink)) PROVE FALSE
    BY <1>3
  <2>2. ~IsRequest(Head(toSink))
    BY <2>1 DEF IsServed
  <2>3. ~SinkGivesUp
    BY <2>1, SinkReadsMind
  <2> QED
    BY <1>0, <1>1, <2>2, <2>3
    DEF SinkEffect, SinkAnswers, SinkFollows, SinkIgnores, SinkLetsThrough
<1> QED
  BY <1>0, <1>3, <1>4

\* The sink moves by M1 and M4 alone while the source negotiates.
LEMMA SinkKeepsUnderWay ==
  ASSUME InOrder, OneAtATime, SinkOK, InSession, SinkGotMessage, UNCHANGED sourceVars
  PROVE  UnderWay'
<1> USE DEF INIT, CAPABILITY_NEGOTIATION, RTSP_SESSION_ESTABLISHMENT
<1>0. /\ SinkEffect /\ UnderWay
      /\ In(toSink') \subseteq In(toSink)
      /\ IsRequest(Head(toSink)) => \A m \in In(toSink') : ~IsRequest(m)
      /\ UNCHANGED <<source_state, source_expected_reply>>
  BY SinkHears DEF sourceVars, InSession
<1>1. \A m : IsM4(m) \/ m.type = "OPTIONS" => IsRequest(m)
  BY DEF IsM4, IsRequest
\* The state moves by M1, by M4 or beyond the negotiation.
<1>2. \/ sink_state' = sink_state
      \/ \A m \in In(toSink') : ~IsRequest(m)
      \/ source_state # CAPABILITY_NEGOTIATION
  BY <1>0, SinkReadsMind
  DEF SinkEffect, SinkNegotiates, SinkAnswers, SinkLearnsUrl, SinkLetsThrough, SinkFollows,
      SinkGivesUp, SinkIgnores, SinkTurnsDown, SinkUnmoved
<1>3. \A m \in In(toSink') :
        /\ m.type = "OPTIONS" => source_state' = CAPABILITY_NEGOTIATION
        /\ m.type = "SET_PARAMETER" /\ m.content \in Trigger
             => source_state' # CAPABILITY_NEGOTIATION
  BY <1>0 DEF UnderWay
<1>4. \A m \in In(toSink') : IsM4(m) =>
        /\ source_state' = CAPABILITY_NEGOTIATION
        /\ source_expected_reply' = "SET_PARAMETER"
        /\ sink_state' = CAPABILITY_NEGOTIATION
  BY <1>0, <1>1, <1>2 DEF UnderWay
<1>5. ASSUME NEW m \in In(toSource'), ~IsRequest(m), m.code = 200,
             m.answers = "SET_PARAMETER", source_state' = CAPABILITY_NEGOTIATION
      PROVE  sink_state' = RTSP_SESSION_ESTABLISHMENT
  <2>1. CASE m \in In(toSource)
    <3>1. sink_state = RTSP_SESSION_ESTABLISHMENT
      BY <1>0, <1>5, <2>1 DEF UnderWay
    <3>2. ~SinkNegotiates
      BY <3>1 DEF SinkNegotiates
    <3> QED
      BY <1>0, <1>5, <3>1, <3>2, SinkReadsMind
      DEF SinkEffect, SinkAnswers, SinkLearnsUrl, SinkFollows, SinkGivesUp, SinkIgnores,
          SinkTurnsDown, SinkUnmoved
  <2>2. CASE m \notin In(toSource)
    <3>1. SinkAdds(m)
      BY <1>0, <2>2, CarefulFacts, SinkWrites
    <3>2. SinkLearnsUrl
      BY <1>0, <1>5, <3>1, SinkReadsMind DEF SinkAdds
    <3> QED
      BY <3>2 DEF SinkLearnsUrl
  <2> QED
    BY <2>1, <2>2
<1> QED
  BY <1>3, <1>4, <1>5 DEF UnderWay

\* A queue that carries nothing is empty.
LEMMA NothingIn ==
  ASSUME NEW queue \in Seq(Message), In(queue) = {}
  PROVE  queue = << >>
<1>1. Len(queue) \in Nat
  OBVIOUS
<1>2. ASSUME Len(queue) # 0
      PROVE  FALSE
  <2>1. 1 \in 1 .. Len(queue)
    BY <1>1, <1>2
  <2>2. queue[1] \in In(queue)
    BY <2>1 DEF In
  <2> QED
    BY <2>2
<1> QED
  BY <1>2, EmptySeq

\* M1 is handled in INIT, where a connected sink begins.
LEMMA HandlesM1 ==
  ASSUME NEW m, m.type = "OPTIONS"
  PROVE  SinkHandlesRequest(m) <=> sink_state = INIT
BY DEF SinkHandlesRequest

\* The sink follows the negotiation: it can neither refuse nor ignore M1.
LEMMA SinkKeepsNegotiating ==
  ASSUME InOrder, OneAtATime, SinkOK, InSession, SinkGotMessage, UNCHANGED sourceVars,
         source_state = CAPABILITY_NEGOTIATION
  PROVE  Negotiating'
<1> USE DEF NotSet, INIT, CAPABILITY_NEGOTIATION, RTSP_SESSION_ESTABLISHMENT
<1>0. /\ SinkEffect /\ sink_connected /\ Negotiating
      /\ toSink # << >> /\ Head(toSink) \in In(toSink)
      /\ In(toSink') \subseteq In(toSink)
      /\ IsRequest(Head(toSink)) => /\ Head(toSink).type = source_expected_reply
                                    /\ \A m \in In(toSink') : ~IsRequest(m)
      /\ UNCHANGED source_expected_reply
      /\ sink_state \in -1 .. 5
  BY SinkHears, CarefulFacts DEF sourceVars, InSession
<1>1. \A m : m.type = "OPTIONS" => IsRequest(m)
  BY DEF IsRequest
<1>2. CASE SinkNegotiates
  <2>1. /\ source_expected_reply = "OPTIONS" /\ sink_state = INIT /\ IsRequest(Head(toSink))
    BY <1>0, <1>1, <1>2 DEF SinkNegotiates
  <2>2. (\A m \in In(toSink) : m.type = "OPTIONS") /\ toSource = << >>
    BY <1>0, <2>1 DEF Negotiating
  <2>3. In(toSink') = {}
    BY <1>0, <1>1, <2>1, <2>2
  <2>4. toSink' = << >>
    <3>1. toSink' \in Seq(Message)
      BY <1>0, CarefulFacts, ReadType DEF SinkEffect
    <3> QED
      BY <2>3, <3>1, NothingIn
  <2>5. /\ toSource' # << >> /\ ~IsRequest(Head(toSource'))
        /\ sink_state' = CAPABILITY_NEGOTIATION /\ sink_expected_reply' = "OPTIONS"
    BY <1>2, <2>2 DEF SinkNegotiates
  <2> QED
    BY <1>0, <2>1, <2>3, <2>4, <2>5 DEF Negotiating
<1>3. CASE SinkLearnsUrl
  <2>1. source_expected_reply = "SET_PARAMETER"
    BY <1>3, SinkReadsMind
  <2> QED
    BY <1>0, <1>3, <2>1 DEF SinkLearnsUrl, Negotiating
<1>4. ASSUME sink_state' = sink_state,
             source_expected_reply \in {"GET_PARAMETER", "SET_PARAMETER"}
      PROVE  Negotiating'
  BY <1>0, <1>4 DEF Negotiating
<1>5. ASSUME SinkAnswers \/ SinkGivesUp \/ SinkIgnores \/ SinkTurnsDown
      PROVE  source_expected_reply \in {"GET_PARAMETER", "SET_PARAMETER"}
  <2> SUFFICES ASSUME source_expected_reply \notin {"GET_PARAMETER", "SET_PARAMETER"}
               PROVE  FALSE
    OBVIOUS
  <2>1. Head(toSink).type = "OPTIONS" /\ sink_state <= INIT
    BY <1>0 DEF Negotiating
  <2>2. IsRequest(Head(toSink)) /\ sink_state = INIT
    BY <1>0, <1>1, <2>1 DEF SinkOK
  <2>3. ~SinkAnswers /\ ~SinkGivesUp
    BY <2>1, <2>2 DEF SinkAnswers, SinkGivesUp, SinkTakesReply, IsM4
  <2>4. ~SinkIgnores
    BY <2>1, <2>2, HandlesM1 DEF SinkIgnores
  <2>5. sink_expected_reply = NoReply
    BY <2>2 DEF SinkOK, SinkHandlesReply, WFD_SESSION_ESTABLISHMENT, WFD_SESSION_PLAYING,
                WFD_SESSION_PAUSED
  <2> QED
    BY <1>5, <2>1, <2>3, <2>4, <2>5 DEF SinkTurnsDown
<1>6. SinkAnswers \/ SinkGivesUp \/ SinkIgnores \/ SinkTurnsDown => sink_state' = sink_state
  BY DEF SinkAnswers, SinkGivesUp, SinkIgnores, SinkTurnsDown, SinkUnmoved
<1> QED
  BY <1>0, <1>2, <1>3, <1>4, <1>5, <1>6, SinkReadsMind DEF SinkEffect

\* What the sink reads leaves the two in the same session.
LEMMA SinkKeepsCareful ==
  ASSUME CarefulInv, SinkGotMessage, UNCHANGED sourceVars, InOrder'
  PROVE  CarefulInv'
<1>1. InOrder /\ OneAtATime /\ SinkOK /\ source_connected /\ InSession
  BY SinkHears DEF CarefulInv
<1>2. source_connected' /\ source_state' = source_state
  BY <1>1 DEF sourceVars
<1>3. ServedNow'
  <2>1. In(toSink') \subseteq In(toSink)
    BY <1>1, SinkHears
  <2> QED
    BY <1>1, <1>2, <2>1 DEF InSession, ServedNow
<1> QED
  BY <1>1, <1>2, <1>3, SinkKeepsLast, SinkStaysOK, SinkKeepsUnderWay, SinkKeepsNegotiating,
     SinkKeepsFollowing
  DEF CarefulInv, InSession

-----------------------------------------------------------------------------
(* The source reads.                                                       *)

\* What the source adds to its connection: it asks nothing, and serves nothing.
SaysNothing ==
  /\ In(toSink) \subseteq In(toSink')
  /\ \A m \in In(toSink') : m \in In(toSink) \/ ~(IsRequest(m) \/ IsServed(m))

\* Only a 200 to one of the sink's M6 to M9 says that it has been served.
LEMMA RepliesSayNothing ==
  ASSUME NEW request, NEW code, NEW content, request.type \in Trigger => code # 200,
         Grows(toSink, toSink', {ReplyTo(request, code, content)})
  PROVE  SaysNothing
<1> DEFINE m == ReplyTo(request, code, content)
<1>1. In(toSink') = In(toSink) \cup {m}
  BY GrownIn
<1>2. m.type = "REPLY" /\ m.code = code /\ m.answers = request.type
  BY Fields
<1> HIDE DEF m
<1>3. ~IsRequest(m) /\ ~IsServed(m)
  BY <1>2 DEF IsRequest, IsServed
<1> QED
  BY <1>1, <1>3 DEF SaysNothing

\* A source that says nothing stays where it is.
LEMMA NothingSaid ==
  ASSUME InSession, UNCHANGED <<source_state, sink_state>>, SaysNothing,
         In(toSource') \subseteq In(toSource),
         \/ UNCHANGED source_expected_reply
         \/ \A m \in In(toSink) : ~IsRequest(m)
  PROVE  UnderWay' /\ ServedNow' /\ Following'
<1>1. \A m \in In(toSink') :
        /\ m.type = "OPTIONS" => source_state' = CAPABILITY_NEGOTIATION
        /\ m.type = "SET_PARAMETER" /\ m.content \in Trigger
             => source_state' # CAPABILITY_NEGOTIATION
  BY DEF InSession, UnderWay, SaysNothing, IsRequest
<1>2. \A m \in In(toSink') : IsM4(m) =>
        /\ source_state' = CAPABILITY_NEGOTIATION
        /\ source_expected_reply' = "SET_PARAMETER"
        /\ sink_state' = CAPABILITY_NEGOTIATION
  BY DEF InSession, UnderWay, SaysNothing, IsRequest, IsM4
<1>3. \A m \in In(toSource') :
        /\ ~IsRequest(m) /\ m.code = 200 /\ m.answers = "SET_PARAMETER"
        /\ source_state' = CAPABILITY_NEGOTIATION
        => sink_state' = RTSP_SESSION_ESTABLISHMENT
  BY DEF InSession, UnderWay
<1>4. ServedNow'
  BY DEF InSession, ServedNow, SaysNothing
<1>5. Following'
  BY DEF InSession, Following, SaysNothing
<1> QED
  BY <1>1, <1>2, <1>3, <1>4, <1>5 DEF UnderWay

\* M2 and M3: the source had read everything up to M2.
LEMMA SourceAsksInSession ==
  ASSUME InOrder, OneAtATime, InSession, SourceGotMessage, UNCHANGED sinkVars,
         SourceAsksCapabilities
  PROVE  InSession'
<1> USE DEF INIT, CAPABILITY_NEGOTIATION, RTSP_SESSION_ESTABLISHMENT
<1>0. /\ toSource # << >> /\ In(toSource') \subseteq In(toSource)
      /\ UNCHANGED <<sink_state, sink_expected_reply, source_state>>
      /\ source_state = CAPABILITY_NEGOTIATION /\ source_expected_reply = NoReply
      /\ Negotiating /\ UnderWay
  BY SourceHears
  DEF SourceAsksCapabilities, SourceLetsThrough, SourceUnmoved, sinkVars, InSession
<1>1. sink_state = CAPABILITY_NEGOTIATION /\ toSink = << >>
  BY <1>0 DEF Negotiating, NoReply
<1> DEFINE reply == ReplyTo(Head(toSource), 200, Nothing)
           request == Request("GET_PARAMETER", source_send_cseq, Nothing)
<1>2. In(toSink') = {reply, request}
  <2>1. In(toSink) = {}
    BY <1>1 DEF In
  <2> QED
    BY <2>1, GrownIn DEF SourceAsksCapabilities
<1>3. /\ reply.type = "REPLY" /\ reply.answers = "OPTIONS"
      /\ request.type = "GET_PARAMETER"
  BY Fields DEF SourceAsksCapabilities
<1> HIDE DEF reply, request
<1>4. Negotiating'
  BY <1>0, <1>1 DEF SourceAsksCapabilities, Negotiating
<1>5. UnderWay'
  BY <1>0, <1>2, <1>3 DEF UnderWay, IsM4
<1>6. ServedNow'
  BY <1>2, <1>3 DEF ServedNow, IsServed, IsRequest, Trigger, Command
<1>7. Following'
  BY <1>0 DEF Following
<1> QED
  BY <1>0, <1>4, <1>5, <1>6, <1>7 DEF InSession, NotSet

\* M3 reply and M4: no earlier M4 is under way.
LEMMA SourceSendsUrlInSession ==
  ASSUME InOrder, OneAtATime, InSession, SourceGotMessage, UNCHANGED sinkVars, SourceSendsUrl
  PROVE  InSession'
<1> USE DEF INIT, CAPABILITY_NEGOTIATION, RTSP_SESSION_ESTABLISHMENT
<1>0. /\ In(toSource') \subseteq In(toSource)
      /\ UNCHANGED <<sink_state, sink_expected_reply, source_state>>
      /\ source_state = CAPABILITY_NEGOTIATION /\ source_expected_reply = "GET_PARAMETER"
      /\ Negotiating /\ UnderWay /\ ServedNow
      /\ \A m \in In(toSink) : ~IsRequest(m)
  BY SourceHears DEF SourceSendsUrl, SourceTakesReply, SourceUnmoved, sinkVars, InSession
<1>1. sink_state = CAPABILITY_NEGOTIATION
  BY <1>0 DEF Negotiating, NoReply
<1> DEFINE request == Request("SET_PARAMETER", source_send_cseq, Url)
<1>2. In(toSink') = In(toSink) \cup {request}
  BY GrownIn DEF SourceSendsUrl, SourceAsks
<1>3. request.type = "SET_PARAMETER" /\ request.content \notin Trigger
  BY Fields, Unlike
<1> HIDE DEF request
<1>4. source_expected_reply' = "SET_PARAMETER"
  BY DEF SourceSendsUrl, SourceAsks
<1>5. Negotiating'
  BY <1>0, <1>1, <1>4 DEF Negotiating
<1>6. UnderWay'
  BY <1>0, <1>1, <1>2, <1>3, <1>4 DEF UnderWay, IsM4, IsRequest
<1>7. ServedNow'
  BY <1>0, <1>2, <1>3 DEF ServedNow, IsServed, IsRequest
<1>8. Following'
  BY <1>0 DEF Following
<1> QED
  BY <1>0, <1>5, <1>6, <1>7, <1>8 DEF InSession, NotSet

\* M4 reply and M5: the sink has the URL.
LEMMA SourceAsksForSetupInSession ==
  ASSUME InOrder, OneAtATime, InSession, SourceGotMessage, UNCHANGED sinkVars,
         SourceAsksForSetup
  PROVE  InSession'
<1> USE DEF INIT, CAPABILITY_NEGOTIATION, RTSP_SESSION_ESTABLISHMENT,
            WFD_SESSION_ESTABLISHMENT, WFD_SESSION_PLAYING, WFD_SESSION_PAUSED
<1>0. /\ Head(toSource) \in In(toSource) /\ In(toSource') \subseteq In(toSource)
      /\ UNCHANGED sink_state
      /\ ~IsRequest(Head(toSource)) /\ Head(toSource).code = 200
      /\ Head(toSource).answers = "SET_PARAMETER"
      /\ source_state = CAPABILITY_NEGOTIATION
      /\ source_state' = RTSP_SESSION_ESTABLISHMENT
      /\ UnderWay /\ ServedNow
      /\ \A m \in In(toSink) : ~IsRequest(m)
  BY SourceHears DEF SourceAsksForSetup, SourceTakesReply, sinkVars, InSession
<1>1. sink_state = RTSP_SESSION_ESTABLISHMENT
  BY <1>0 DEF UnderWay
<1> DEFINE request == Request("SET_PARAMETER", source_send_cseq, "SETUP")
<1>2. In(toSink') = In(toSink) \cup {request}
  BY GrownIn DEF SourceAsksForSetup, SourceAsks
<1>3. request.type = "SET_PARAMETER" /\ request.content = "SETUP"
  BY Fields
<1> HIDE DEF request
\* The source has served nothing in its negotiation.
<1>4. \A m \in In(toSink) : ~IsServed(m)
  BY <1>0, ServedStates DEF ServedNow, IsServed, Trigger, Command
<1>5. UnderWay'
  BY <1>0, <1>2, <1>3 DEF UnderWay, IsM4, IsRequest, Trigger
<1>6. ServedNow'
  BY <1>2, <1>3, <1>4 DEF ServedNow, IsServed, IsRequest
<1> QED
  BY <1>0, <1>1, <1>5, <1>6 DEF InSession, Following, NotSet

\* M6 to M9: the answer is alone in the connection.
LEMMA SourceServesInSession ==
  ASSUME InOrder, OneAtATime, InSession, SourceGotMessage, UNCHANGED sinkVars,
         NEW method \in Trigger, SourceServesRequest(method)
  PROVE  InSession'
<1> USE DEF INIT, CAPABILITY_NEGOTIATION, WFD_SESSION_ESTABLISHMENT, WFD_SESSION_PLAYING,
            WFD_SESSION_PAUSED
<1>0. /\ IsRequest(Head(toSource)) /\ Head(toSource).type = method
      /\ source_expected_reply = NoReply /\ source_state' = ServedIn(method)
  BY DEF SourceServesRequest, SourceLetsThrough
<1>1. In(toSink) = {}
  BY <1>0, SourceHears
<1>2. PICK content \in Content :
        /\ method = "SETUP" => content = Session
        /\ Grows(toSink, toSink', {ReplyTo(Head(toSource), 200, content)})
  BY DEF SourceServesRequest
<1> DEFINE reply == ReplyTo(Head(toSource), 200, content)
<1>3. In(toSink') = {reply}
  BY <1>1, <1>2, GrownIn
<1>4. /\ reply.type = "REPLY" /\ reply.code = 200 /\ reply.answers = method
      /\ reply.content = content
  BY <1>0, Fields DEF ReplyTo
<1> HIDE DEF reply
<1>5. source_state' \notin {NotSet, CAPABILITY_NEGOTIATION}
  BY <1>0, ServedStates DEF NotSet, Trigger, Command
<1>6. UnderWay'
  BY <1>3, <1>4, <1>5 DEF UnderWay, IsM4
<1>7. IsServed(reply)
  BY <1>4 DEF IsServed, IsRequest
<1>8. ServedNow'
  BY <1>0, <1>2, <1>3, <1>4 DEF ServedNow
<1> QED
  BY <1>3, <1>5, <1>6, <1>7, <1>8 DEF InSession, Following

\* The other messages change nothing between the two, but what the source
\* waits for.
LEMMA SourceWaitsInSession ==
  ASSUME InOrder, OneAtATime, InSession, SourceGotMessage, UNCHANGED sinkVars,
         SourceStopsWaiting \/ SourceDies \/ SourceGoesOn \/ SourceTurnsDown
  PROVE  InSession'
<1> USE DEF INIT, CAPABILITY_NEGOTIATION, RTSP_SESSION_ESTABLISHMENT
<1>0. /\ toSource # << >> /\ In(toSource') \subseteq In(toSource)
      /\ UNCHANGED <<sink_state, sink_expected_reply, source_state>>
      /\ IsRequest(Head(toSource)) => Head(toSource).type = sink_expected_reply
      /\ ~IsRequest(Head(toSource)) => /\ ~SourceTurnsDown
                                       /\ \A m \in In(toSink) : ~IsRequest(m)
      /\ source_state = CAPABILITY_NEGOTIATION => Negotiating
  BY SourceHears
  DEF sinkVars, SourceStopsWaiting, SourceDies, SourceGoesOn, SourceTurnsDown, SourceUnmoved,
      InSession
<1>1. SaysNothing
  <2>1. CASE UNCHANGED toSink
    BY <2>1 DEF SaysNothing
  <2>2. CASE ~UNCHANGED toSink
    <3>1. \E code \in {200, 400} :
            /\ Head(toSource).type \in Trigger => code # 200
            /\ Grows(toSink, toSink', {ReplyTo(Head(toSource), code, Nothing)})
      BY <2>2 DEF SourceStopsWaiting, SourceDies, SourceGoesOn, SourceTurnsDown
    <3> QED
      BY <3>1, RepliesSayNothing
  <2> QED
    BY <2>1, <2>2
<1>2. UNCHANGED source_expected_reply \/ \A m \in In(toSink) : ~IsRequest(m)
  BY <1>0 DEF SourceStopsWaiting, SourceTakesReply, SourceDies, SourceGoesOn, SourceTurnsDown
<1>3. ASSUME source_state = CAPABILITY_NEGOTIATION
      PROVE  Negotiating'
  <2>1. CASE source_expected_reply \in {"GET_PARAMETER", "SET_PARAMETER"}
    <3>1. UNCHANGED source_expected_reply
      BY <1>3, <2>1
      DEF SourceStopsWaiting, SourceDies, SourceGoesOn, SourceTurnsDown
    <3> QED
      BY <1>0, <1>3, <2>1, <3>1 DEF Negotiating, NoReply
  <2>2. CASE source_expected_reply = "OPTIONS"
    <3>1. /\ sink_state = CAPABILITY_NEGOTIATION /\ sink_expected_reply = "OPTIONS"
          /\ toSink = << >> /\ ~IsRequest(Head(toSource))
      BY <1>0, <1>3, <2>2 DEF Negotiating, NoReply
    <3>2. SourceStopsWaiting
      BY <1>0, <3>1 DEF SourceDies, SourceGoesOn, SourceLetsThrough
    <3>3. UNCHANGED toSink /\ source_expected_reply' = NoReply
      BY <1>3, <2>2, <3>2 DEF SourceStopsWaiting
    <3> QED
      BY <1>0, <3>1, <3>3 DEF Negotiating
  <2>3. CASE source_expected_reply = NoReply
    <3>1. sink_expected_reply = "OPTIONS"
      BY <1>0, <1>3, <2>3 DEF Negotiating, NoReply
    <3>2. ~SourceStopsWaiting /\ ~SourceDies
      BY <1>3, <2>3 DEF SourceStopsWaiting, SourceTakesReply, SourceDies
    <3>3. Head(toSource).type = "OPTIONS"
      BY <1>0, <3>1, <3>2 DEF SourceGoesOn, SourceLetsThrough
    <3> QED
      BY <1>3, <2>3, <3>2, <3>3 DEF SourceGoesOn, SourceTurnsDown
  <2> QED
    BY <1>0, <1>3, <2>1, <2>2, <2>3 DEF Negotiating
<1>4. UnderWay' /\ ServedNow' /\ Following'
  BY <1>0, <1>1, <1>2, NothingSaid
<1> QED
  BY <1>0, <1>3, <1>4 DEF InSession

\* What the source reads leaves the two in the same session.
LEMMA SourceKeepsCareful ==
  ASSUME CarefulInv, SourceGotMessage, UNCHANGED sinkVars, InOrder'
  PROVE  CarefulInv'
<1>1. InOrder /\ OneAtATime /\ SinkOK /\ source_connected /\ InSession /\ SourceEffect
  BY SourceHears DEF CarefulInv
<1>2. source_connected'
  BY <1>1 DEF SourceEffect
<1>3. SinkOK'
  BY <1>1 DEF SinkOK, SinkHandlesReply, sinkVars
<1>4. InSession'
  BY <1>1, SourceAsksInSession, SourceSendsUrlInSession, SourceAsksForSetupInSession,
     SourceServesInSession, SourceWaitsInSession
  DEF SourceEffect
<1> QED
  BY <1>1, <1>2, <1>3, <1>4, SourceKeepsLast DEF CarefulInv

-----------------------------------------------------------------------------
(* The other steps of the two programs and of their users.                 *)

\* An empty queue carries nothing.
LEMMA NoneIn == In(<< >>) = {}
BY DEF In

\* The sink takes up its connection, before or after the source does.
LEMMA SinkConnectsCareful ==
  ASSUME CarefulInv, SinkOnConnected, UNCHANGED sourceVars, InOrder'
  PROVE  CarefulInv'
<1> USE DEF NotSet, INIT, CAPABILITY_NEGOTIATION, RTSP_SESSION_ESTABLISHMENT,
            WFD_SESSION_ESTABLISHMENT, WFD_SESSION_PLAYING, WFD_SESSION_PAUSED
<1>0. /\ InOrder /\ OneAtATime /\ SinkOK
      /\ IF source_connected THEN InSession ELSE NotTakenUp
  BY DEF CarefulInv
<1>1. /\ sink_state = NotSet /\ sink_state' = INIT /\ sink_connected'
      /\ sink_expected_reply = NoReply
      /\ UNCHANGED <<toSink, toSource, sink_expected_reply, sink_session>>
      /\ UNCHANGED <<source_connected, source_state, source_expected_reply, source_send_cseq>>
  BY <1>0 DEF SinkOnConnected, SinkSetState, SinkOK, SinkHandlesReply, connection, sourceVars
<1>2. toSource = << >> /\ \A m \in In(toSink) : IsRequest(m)
  BY <1>0, <1>1 DEF InOrder, ExchangesInOrder, NothingBeforeConnection, SinkOK, In
<1>3. OneAtATime'
  <2>1. \A m \in In(toSource) : ~IsRequest(m)
    BY <1>2, NoneIn
  <2>2. LastOnly(toSource, toSink, sink_send_cseq')
    BY <1>2, <2>1, NothingOld
  <2> QED
    BY <1>0, <1>1, <2>2 DEF OneAtATime
<1>4. SinkOK'
  BY <1>1 DEF SinkOK
<1>5. CASE source_connected
  <2>1. InSession
    BY <1>0, <1>5
  <2>2. source_state = CAPABILITY_NEGOTIATION
    BY <1>1, <1>2, <2>1 DEF InSession, Following, IsServed
  <2>3. Negotiating'
    BY <1>1, <2>1, <2>2 DEF InSession, Negotiating
  <2>4. UnderWay'
    BY <1>1, <1>2, <2>1, NoneIn DEF InSession, UnderWay
  <2>5. ServedNow'
    BY <1>1, <2>1 DEF InSession, ServedNow
  <2> QED
    BY <1>0, <1>1, <1>3, <1>4, <1>5, <2>2, <2>3, <2>4, <2>5 DEF CarefulInv, InSession, Following
<1>6. CASE ~source_connected
  <2>1. NotTakenUp'
    BY <1>0, <1>1, <1>6 DEF NotTakenUp
  <2> QED
    BY <1>1, <1>3, <1>4, <1>6, <2>1 DEF CarefulInv
<1> QED
  BY <1>5, <1>6

\* Whatever the source was left with, it begins with M1 and nothing else.
LEMMA SourceTakesUpCareful ==
  ASSUME CarefulInv, SourceTakesUp, InOrder'
  PROVE  CarefulInv'
<1> USE DEF NotSet, INIT, CAPABILITY_NEGOTIATION
<1>0. /\ InOrder /\ OneAtATime /\ SinkOK /\ NotTakenUp
      /\ source_connected' /\ source_state' = CAPABILITY_NEGOTIATION
      /\ source_expected_reply' = "OPTIONS" /\ source_send_cseq' = source_send_cseq + 1
      /\ toSink' = Append(toSink, Request("OPTIONS", source_send_cseq, Nothing))
      /\ UNCHANGED toSource /\ UNCHANGED sinkVars
  BY DEF CarefulInv, SourceTakesUp, SourceOnConnected, SourceReadyToRequest
<1>1. toSink = << >> /\ toSource = << >> /\ sink_state <= INIT
  BY <1>0 DEF NotTakenUp
<1> DEFINE request == Request("OPTIONS", source_send_cseq, Nothing)
<1>2. In(toSink') = {request}
  <2>1. request \in Message
    BY <1>0, CarefulFacts, AskedType, Words
  <2> QED
    BY <1>0, <1>1, <2>1, NoneIn, CarefulFacts, OneMore
<1>3. request.type = "OPTIONS"
  BY Fields
<1> HIDE DEF request
<1>4. OneAtATime'
  <2>1. LastOnly(toSink', toSource, source_send_cseq + 1)
    <3>1. "OPTIONS" \in Method /\ Nothing \in Content
      BY Words
    <3> QED
      BY <1>0, <1>1, <3>1, CarefulFacts, NoneIn, AskAlone
  <2>2. LastOnly(toSource, toSink', sink_send_cseq)
    BY <1>1, <1>2, <1>3, NoneIn, NothingOld DEF IsRequest
  <2> QED
    BY <1>0, <2>1, <2>2 DEF OneAtATime, sinkVars
<1>5. SinkOK'
  BY <1>0 DEF SinkOK, SinkHandlesReply, sinkVars
<1>6. InSession'
  <2>1. Negotiating'
    BY <1>0, <1>1, <1>2, <1>3 DEF Negotiating, sinkVars
  <2>2. UnderWay'
    BY <1>0, <1>1, <1>2, <1>3, NoneIn DEF UnderWay, IsM4
  <2>3. ServedNow'
    BY <1>2, <1>3 DEF ServedNow, IsServed, IsRequest
  <2> QED
    BY <1>0, <2>1, <2>2, <2>3 DEF InSession, Following
<1> QED
  BY <1>0, <1>4, <1>5, <1>6 DEF CarefulInv

\* Without the source's connection there is nothing to lose.
LEMMA NotTakenUpCareful ==
  ASSUME InOrder', SinkOK', NotTakenUp', ~source_connected'
  PROVE  CarefulInv'
<1>1. LastOnly(toSource', toSink', sink_send_cseq')
  BY NoneIn, NothingOld DEF NotTakenUp
<1>2. LastOnly(toSink', toSource', source_send_cseq')
  BY NoneIn, NothingOld DEF NotTakenUp
<1> QED
  BY <1>1, <1>2 DEF CarefulInv, OneAtATime

\* A new sink is in no session, and the source has not met it.
LEMMA RestartsCareful ==
  ASSUME SinkRestarts, InOrder'
  PROVE  CarefulInv'
<1>1. SinkOK' /\ NotTakenUp' /\ ~source_connected'
  BY DEF SinkRestarts, SinkOK, NotTakenUp, NotSet, INIT, WFD_SESSION_ESTABLISHMENT
<1> QED
  BY <1>1, NotTakenUpCareful

\* Steps on the old connection do not touch the new one.
LEMMA OldStepCareful ==
  ASSUME CarefulInv, OldStep, source_holds_old, InOrder'
  PROVE  CarefulInv'
<1>1. SinkOK /\ NotTakenUp /\ ~source_connected
  BY DEF CarefulInv, InOrder, OldConnectionOK
<1>2. SinkOK' /\ NotTakenUp' /\ ~source_connected'
  BY <1>1 DEF OldStep, connection, sinkVars, SinkOK, SinkHandlesReply, NotTakenUp
<1> QED
  BY <1>2, NotTakenUpCareful

\* Where a careful user types.
LEMMA SensibleStates ==
  ASSUME NEW command \in Command, NEW state, Sensible(command, state)
  PROVE  /\ state \in {WFD_SESSION_PLAYING, WFD_SESSION_PAUSED}
         /\ command = "PLAY" => state = WFD_SESSION_PAUSED
         /\ command = "PAUSE" => state = WFD_SESSION_PLAYING
<1>1. CASE command = "PLAY"
  BY <1>1 DEF Sensible
<1>2. CASE command = "PAUSE"
  BY <1>2 DEF Sensible
<1>3. CASE command = "TEARDOWN"
  BY <1>3 DEF Sensible
<1> QED
  BY <1>1, <1>2, <1>3 DEF Command, Trigger

\* A careful command at the sink: there is a session, and nothing awaited.
LEMMA SinkUserCareful ==
  ASSUME Users # "hasty", CarefulInv, NEW command \in Command, SinkUser(command), InOrder'
  PROVE  CarefulInv'
<1> USE DEF NotSet, INIT, CAPABILITY_NEGOTIATION, RTSP_SESSION_ESTABLISHMENT,
            WFD_SESSION_ESTABLISHMENT, WFD_SESSION_PLAYING, WFD_SESSION_PAUSED
<1>0. /\ InOrder /\ OneAtATime /\ SinkOK
      /\ IF source_connected THEN InSession ELSE NotTakenUp
  BY DEF CarefulInv
<1>1. sink_expected_reply = NoReply /\ Sensible(command, sink_state)
  BY DEF SinkUser, MayType
<1>2. /\ sink_state \in {WFD_SESSION_PLAYING, WFD_SESSION_PAUSED}
      /\ command = "PLAY" => sink_state = WFD_SESSION_PAUSED
      /\ command = "PAUSE" => sink_state = WFD_SESSION_PLAYING
  BY <1>1, SensibleStates
<1>3. sink_connected /\ source_connected /\ InSession
  BY <1>0, <1>2 DEF SinkOK, NotTakenUp
<1>4. /\ sink_expected_reply' = command /\ sink_send_cseq' = sink_send_cseq + 1
      /\ toSource' = Append(toSource, Request(command, sink_send_cseq, presentation_url))
      /\ UNCHANGED <<toSink, sink_connected, sink_state, sink_session, sourceVars>>
  BY <1>3 DEF SinkUser, SinkCommand, SinkReadyToRequest, SinkRequest
<1>5. /\ \A m \in In(toSource) : ~IsRequest(m)
      /\ \A m \in In(toSink) : IsRequest(m)
  BY <1>0, <1>1, SinkAlone
<1>6. command \in Method
  BY DEF Method, Command, Trigger
<1> DEFINE request == Request(command, sink_send_cseq, presentation_url)
<1>7. /\ In(toSource') = In(toSource) \cup {request}
      /\ IsRequest(request)
  BY <1>0, <1>4, <1>6, CarefulFacts, AskedType, OneMore
<1> HIDE DEF request
<1>8. OneAtATime'
  <2>1. LastOnly(toSource', toSink, sink_send_cseq + 1)
    BY <1>0, <1>4, <1>5, <1>6, CarefulFacts, AskAlone
  <2>2. LastOnly(toSink, toSource', source_send_cseq)
    BY <1>0, <1>7 DEF OneAtATime, LastOnly
  <2> QED
    BY <1>4, <2>1, <2>2 DEF OneAtATime, sourceVars
<1>9. SinkOK'
  <2>1. SinkHandlesReply'
    BY <1>2, <1>4 DEF SinkHandlesReply, Command, Trigger
  <2> QED
    BY <1>0, <1>4, <2>1 DEF SinkOK
<1>10. source_state # CAPABILITY_NEGOTIATION
  BY <1>2, <1>3 DEF InSession, Negotiating
<1>11. InSession'
  BY <1>3, <1>4, <1>10 DEF InSession, UnderWay, ServedNow, Following, sourceVars
<1> QED
  BY <1>3, <1>4, <1>8, <1>9, <1>11 DEF CarefulInv, sourceVars

\* A careful command at the source, connected or waiting for a sink.
LEMMA SourceUserCareful ==
  ASSUME Users # "hasty", CarefulInv, NEW command \in Command, SourceUser(command), InOrder'
  PROVE  CarefulInv'
<1> USE DEF CAPABILITY_NEGOTIATION, WFD_SESSION_PLAYING, WFD_SESSION_PAUSED
<1>0. /\ InOrder /\ OneAtATime /\ SinkOK
      /\ IF source_connected THEN InSession ELSE NotTakenUp
  BY DEF CarefulInv
<1>1. source_expected_reply = NoReply /\ Sensible(command, source_state)
  BY DEF SourceUser, MayType
<1>2. source_state \in {WFD_SESSION_PLAYING, WFD_SESSION_PAUSED}
  BY <1>1, SensibleStates
<1>3. /\ source_send_cseq' = source_send_cseq + 1
      /\ UNCHANGED <<toSource, source_connected, source_state, sinkVars>>
      /\ ~source_connected => UNCHANGED toSink
      /\ source_connected =>
           toSink' = Append(toSink, Request("SET_PARAMETER", source_send_cseq, command))
  BY DEF SourceUser, SourceCommand, SourceReadyToRequest, SourceTriggerRequest
<1>4. SinkOK'
  BY <1>0, <1>3 DEF SinkOK, SinkHandlesReply, sinkVars
<1>5. CASE ~source_connected
  <2>1. NotTakenUp'
    BY <1>0, <1>3, <1>5 DEF NotTakenUp, sinkVars
  <2> QED
    BY <1>3, <1>4, <1>5, <2>1, NotTakenUpCareful
<1>6. CASE source_connected
  <2>1. InSession
    BY <1>0, <1>6
  <2>2. /\ \A m \in In(toSink) : ~IsRequest(m)
        /\ \A m \in In(toSource) : IsRequest(m)
    BY <1>0, <1>1, SourceAlone
  <2>3. "SET_PARAMETER" \in Method /\ command \in Content /\ command \in Trigger
    BY Words DEF Content, Command, Trigger
  <2> DEFINE request == Request("SET_PARAMETER", source_send_cseq, command)
  <2>4. /\ In(toSink') = In(toSink) \cup {request}
        /\ IsRequest(request)
    BY <1>0, <1>3, <1>6, <2>3, CarefulFacts, AskedType, OneMore
  <2>5. request.type = "SET_PARAMETER" /\ request.content = command
    BY Fields
  <2> HIDE DEF request
  <2>6. OneAtATime'
    <3>1. LastOnly(toSink', toSource, source_send_cseq + 1)
      BY <1>0, <1>3, <1>6, <2>2, <2>3, CarefulFacts, AskAlone
    <3>2. LastOnly(toSource, toSink', sink_send_cseq)
      BY <1>0, <2>4 DEF OneAtATime, LastOnly
    <3> QED
      BY <1>3, <3>1, <3>2 DEF OneAtATime, sinkVars
  <2>7. UnderWay'
    BY <1>2, <1>3, <2>2, <2>3, <2>4, <2>5 DEF UnderWay, IsM4, IsRequest
  <2>8. ServedNow'
    BY <1>3, <2>1, <2>4 DEF InSession, ServedNow, IsServed
  <2>9. Following'
    BY <1>3, <2>1, <2>4 DEF InSession, Following, sinkVars
  <2>10. InSession'
    BY <1>2, <1>3, <2>1, <2>7, <2>8, <2>9 DEF InSession
  <2> QED
    BY <1>3, <1>4, <1>6, <2>6, <2>10 DEF CarefulInv
<1> QED
  BY <1>5, <1>6

\* A step that changes nothing.
LEMMA CarefulStutter ==
  ASSUME CarefulInv, UNCHANGED allVars, InOrder'
  PROVE  CarefulInv'
<1>1. UNCHANGED <<toSink, toSource, sinkVars, sourceVars>>
  BY DEF allVars, vars, connection
<1>2. OneAtATime'
  BY <1>1 DEF CarefulInv, OneAtATime, sinkVars, sourceVars
<1>3. SinkOK'
  BY <1>1 DEF CarefulInv, SinkOK, SinkHandlesReply, sinkVars
<1>4. InSession => InSession'
  BY <1>1 DEF InSession, Negotiating, UnderWay, ServedNow, Following, sinkVars, sourceVars
<1>5. NotTakenUp => NotTakenUp'
  BY <1>1 DEF NotTakenUp, sinkVars
<1> QED
  BY <1>1, <1>2, <1>3, <1>4, <1>5 DEF CarefulInv, sourceVars

\* Every step of the programs and of users who are not hasty.
LEMMA CarefulStep ==
  ASSUME Users # "hasty", CarefulInv, [ReconnectionNext]_allVars
  PROVE  CarefulInv'
<1>0. InOrder /\ TypeOK /\ OldConnectionOK
  BY DEF CarefulInv, InOrder
<1>a. InOrder'
  BY <1>0, ReconnectionStep
<1>1. CASE SinkRuns
  BY <1>1, <1>a, SinkConnectsCareful, SinkKeepsCareful DEF SinkRuns, SinkProgram
<1>2. CASE SourceTakesUp
  BY <1>2, <1>a, SourceTakesUpCareful
<1>3. CASE /\ SourceGotMessage
           /\ UNCHANGED <<sinkVars, sink_commands, source_commands, oldVars, restarts>>
  BY <1>3, <1>a, SourceKeepsCareful
<1>4. CASE SourceReadsOld
  BY <1>0, <1>4, <1>a, ReadsOldIsOldStep, OldStepCareful
<1>5. CASE SourceReplyThrows
  BY <1>0, <1>5, <1>a, ReplyThrowsIsOldStep, OldStepCareful
<1>6. CASE SinkRestarts
  BY <1>6, <1>a, RestartsCareful
<1>7. ASSUME NEW command \in Command, UserTypes(command)
      PROVE  CarefulInv'
  BY <1>0, <1>7, <1>a, SinkUserCareful, SourceUserCareful, UserMeetsOldIsOldStep, OldStepCareful
  DEF UserTypes
<1>8. CASE UNCHANGED allVars
  BY <1>8, <1>a, CarefulStutter
<1> QED
  BY <1>1, <1>2, <1>3, <1>4, <1>5, <1>6, <1>7, <1>8 DEF ReconnectionNext, SourceRuns

\* The programs begin apart.
LEMMA CarefulInit ==
  ASSUME ReconnectionInit
  PROVE  CarefulInv
<1>1. InOrder
  BY InitType, InitInOrder, EmptyType DEF ReconnectionInit, InOrder, OldConnectionOK
<1>2. /\ toSink = << >> /\ toSource = << >> /\ ~source_connected
      /\ ~sink_connected /\ sink_state = NotSet /\ sink_expected_reply = NoReply
  BY DEF ReconnectionInit, Init, ConnectionInit, SinkInit, SourceInit
<1>3. OneAtATime
  BY <1>2, NoneIn, NothingOld DEF OneAtATime
<1>4. SinkOK /\ NotTakenUp
  BY <1>2 DEF SinkOK, NotTakenUp, NotSet, INIT, WFD_SESSION_ESTABLISHMENT
<1> QED
  BY <1>1, <1>2, <1>3, <1>4 DEF CarefulInv

(***************************************************************************)
(* With users who type only what makes sense, one request at a time is     *)
(* under way in either direction, and the two programs are in the same     *)
(* session or an answer is about to bring the sink to it, however often    *)
(* the sink is started again.                                              *)
(***************************************************************************)
THEOREM CarefulSession ==
  ASSUME Users # "hasty"
  PROVE  ReconnectionSpec => []CarefulInv
<1>1. ReconnectionInit => CarefulInv
  BY CarefulInit
<1>2. CarefulInv /\ [ReconnectionNext]_allVars => CarefulInv'
  BY CarefulStep
<1> QED
  BY <1>1, <1>2, PTL DEF ReconnectionSpec

(***************************************************************************)
(* Once everything sent has been handled, sink and source are in the same  *)
(* session state: commands that crossed and were both refused, and         *)
(* whatever an earlier sink left the source with, leave no difference.     *)
(***************************************************************************)
THEOREM StatesAgree ==
  ASSUME Users # "hasty"
  PROVE  ReconnectionSpec => []StatesAgreeAtRest
<1>1. CarefulInv => StatesAgreeAtRest
  <2> SUFFICES ASSUME CarefulInv, Quiet, Idle, source_connected
               PROVE  source_state = sink_state
    BY DEF StatesAgreeAtRest
  <2>1. InSession /\ toSink = << >> /\ sink_expected_reply = NoReply
        /\ source_expected_reply = NoReply
    BY DEF CarefulInv, Quiet, Idle
  <2>2. source_state # CAPABILITY_NEGOTIATION
    BY <2>1 DEF InSession, Negotiating, NoReply
  <2> QED
    BY <2>1, <2>2, NoneIn DEF InSession, Following
<1> QED
  BY <1>1, CarefulSession, PTL

(***************************************************************************)
(* The source plays or pauses a stream only for a sink that has the        *)
(* session of the SETUP reply and is in it: the source moves before the    *)
(* sink does, but never by more than the one answer the sink has to read.  *)
(***************************************************************************)
THEOREM StreamKeepsSession ==
  ASSUME Users # "hasty"
  PROVE  ReconnectionSpec => []StreamHasSession
<1>1. CarefulInv => StreamHasSession
  <2> USE DEF INIT, CAPABILITY_NEGOTIATION, RTSP_SESSION_ESTABLISHMENT,
              WFD_SESSION_ESTABLISHMENT, WFD_SESSION_PLAYING, WFD_SESSION_PAUSED
  <2> SUFFICES ASSUME CarefulInv, source_connected, source_state \in {4, 5}
               PROVE  sink_session = Session /\ sink_state >= 3
    BY DEF StreamHasSession
  <2>1. InOrder /\ OneAtATime /\ SinkOK /\ InSession
    BY DEF CarefulInv
  <2>2. CASE sink_state = source_state
    BY <2>1, <2>2 DEF SinkOK
  <2>3. CASE sink_state # source_state
    <3>1. PICK m \in In(toSink) : IsServed(m)
      BY <2>1, <2>3 DEF InSession, Following
    <3>2. /\ m.answers \in Trigger /\ source_state = ServedIn(m.answers)
          /\ sink_expected_reply = m.answers /\ SinkHandlesReply
      BY <2>1, <3>1, SinkAlone DEF IsServed, InSession, ServedNow, SinkOK
    <3>3. m.answers \in {"PLAY", "PAUSE"}
      BY <3>2, ServedStates DEF Trigger, Command
    <3>4. sink_state \in {3, 4, 5}
      BY <3>2, <3>3 DEF SinkHandlesReply
    <3> QED
      BY <2>1, <3>4 DEF SinkOK
  <2> QED
    BY <2>2, <2>3
<1> QED
  BY <1>1, CarefulSession, PTL
=============================================================================
