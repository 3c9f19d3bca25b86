------------------------- MODULE MiracProgram_proofs -------------------------
(***************************************************************************)
(* What holds of a program's connections for any number of sockets,        *)
(* addresses, connections and messages.                                    *)
(***************************************************************************)
EXTENDS MiracProgram, SequenceTheorems, TLAPS

-----------------------------------------------------------------------------
(* What is sent.                                                           *)

\* The numbers of messages.
Number == 1 .. MaxMessages

\* Sending, with its types: what NothingLostOrRepeated needs to be inductive.
SendingOK ==
  /\ sent \in 0 .. MaxMessages
  /\ send_buf \in Seq(Number)
  /\ posted \in Seq(Number)
  /\ accepted \in Seq(Number)
  /\ NothingLostOrRepeated

\* The kernel takes no more than it was offered, and sending neither makes nor
\* ends a connection.
LEMMA TakenType ==
  ASSUME NEW state, NEW n \in Nat, NEW end \in Send(state, n)
  PROVE  /\ end.taken \in 0 .. n
         /\ end.state = state \/ (state \in Connected /\ end.state \in Connected)
<1>1. CASE n = 0
  BY <1>1 DEF Send
<1>2. CASE n > 0 /\ state = "open"
  BY <1>2 DEF Send, Connected
<1>3. CASE n > 0 /\ state = "full"
  BY <1>3 DEF Send, Connected
<1>4. CASE n > 0 /\ state \notin Connected
  BY <1>4 DEF Send, Connected
<1> QED BY <1>1, <1>2, <1>3, <1>4 DEF Connected

\* A buffer is what has been taken and the rest.
LEMMA TakenAndRest ==
  ASSUME NEW buffer \in Seq(Number), NEW k \in 0 .. Len(buffer)
  PROVE  /\ SubSeq(buffer, 1, k) \in Seq(Number)
         /\ RestAfterSend(buffer, k) \in Seq(Number)
         /\ SubSeq(buffer, 1, k) \o RestAfterSend(buffer, k) = buffer
<1>1. SubSeq(buffer, 1, k) \o SubSeq(buffer, k + 1, Len(buffer)) = SubSeq(buffer, 1, Len(buffer))
  <2>1. Len(buffer) \in Nat
    BY LenProperties
  <2>2. /\ 1 \in 1 .. Len(buffer) + 1
        /\ k \in 1 - 1 .. Len(buffer)
        /\ Len(buffer) \in k .. Len(buffer)
    BY <2>1
  <2> QED BY <2>2, ConcatAdjacentSubSeq
<1>2. SubSeq(buffer, 1, Len(buffer)) = buffer
  BY SubSeqFull
<1>3. SubSeq(buffer, 1, k) \in Seq(Number)
  BY SubSeqProperties, ElementOfSeq, LenProperties
<1>4. SubSeq(buffer, k + 1, Len(buffer)) \in Seq(Number)
  <2>1. \A i \in k + 1 .. Len(buffer) : buffer[i] \in Number
    BY ElementOfSeq, LenProperties
  <2>2. k + 1 \in Int /\ Len(buffer) \in Int
    BY LenProperties
  <2> QED BY <2>1, <2>2, SubSeqProperties
<1> QED BY <1>1, <1>2, <1>3, <1>4 DEF RestAfterSend

LEMMA Associative ==
  \A s, t, u \in Seq(Number) : (s \o t) \o u = s \o (t \o u)
BY ConcatAssociative, SMT

\* Whatever the kernel takes, the history and the buffer stay together.
LEMMA SendKeepsHistory ==
  ASSUME NEW whole \in Seq(Number), NEW taken \in Seq(Number), NEW k \in 0 .. Len(whole)
  PROVE  /\ taken \o SubSeq(whole, 1, k) \in Seq(Number)
         /\ taken \o whole = (taken \o SubSeq(whole, 1, k)) \o RestAfterSend(whole, k)
<1> DEFINE first == SubSeq(whole, 1, k)
           rest == RestAfterSend(whole, k)
<1>1. first \in Seq(Number) /\ rest \in Seq(Number) /\ first \o rest = whole
  BY TakenAndRest
<1>2. (taken \o first) \o rest = taken \o (first \o rest)
  BY <1>1, Associative, Zenon
<1>3. taken \o first \in Seq(Number)
  BY <1>1, ConcatProperties
<1> QED BY <1>1, <1>2, <1>3

\* send() on a connection whose history is in order keeps it in order.
LEMMA PostKeepsSending ==
  ASSUME sent \in 0 .. MaxMessages,
         NEW buffer \in Seq(Number), NEW taken \in Seq(Number), NEW before,
         before = taken \o buffer,
         NEW sockets, NEW h, NEW w, NEW ok,
         Post(sockets, h, buffer, before, taken, w, ok)
  PROVE  SendingOK'
<1> DEFINE whole == buffer \o Pieces(sent + 1)
<1>0. sent < MaxMessages
  BY DEF Post
<1>1. Pieces(sent + 1) \in Seq(Number)
  BY <1>0, ProgramAssumption DEF Pieces, Number
<1>2. whole \in Seq(Number)
  BY <1>1, ConcatProperties
<1>3. PICK end \in Send(sockets[h], Len(whole)) :
        /\ sent' = sent + 1
        /\ send_buf' = RestAfterSend(whole, end.taken)
        /\ posted' = before \o Pieces(sent + 1)
        /\ accepted' = taken \o SubSeq(whole, 1, end.taken)
  BY DEF Post
<1>4. end.taken \in 0 .. Len(whole)
  BY <1>2, <1>3, TakenType, LenProperties
<1>5. posted' = taken \o whole
  BY <1>1, <1>3, Associative
<1>6. send_buf' \in Seq(Number)
  BY <1>2, <1>3, <1>4, TakenAndRest
<1>7. accepted' \in Seq(Number) /\ posted' = accepted' \o send_buf'
  BY <1>2, <1>3, <1>4, <1>5, SendKeepsHistory
<1>8. posted' \in Seq(Number)
  BY <1>2, <1>5, ConcatProperties
<1>9. sent' \in 0 .. MaxMessages
  BY <1>0, <1>3, ProgramAssumption
<1> QED BY <1>6, <1>7, <1>8, <1>9 DEF SendingOK, NothingLostOrRepeated

\* A message sent over the connection as it stands.
LEMMA PostOnConnection ==
  ASSUME SendingOK, NEW sockets, NEW h, NEW w, NEW ok,
         Post(sockets, h, send_buf, posted, accepted, w, ok)
  PROVE  SendingOK'
BY PostKeepsSending DEF SendingOK, NothingLostOrRepeated

LEMMA EmptyBuffersSending ==
  ASSUME SendingOK, NEW w, EmptyBuffers(w)
  PROVE  SendingOK'
<1>1. << >> \in Seq(Number) /\ << >> \o << >> = << >>
  BY EmptySeq, ConcatEmptySeq
<1> QED BY <1>1 DEF SendingOK, NothingLostOrRepeated, EmptyBuffers

LEMMA SendingUnchanged ==
  ASSUME SendingOK, UNCHANGED sending
  PROVE  SendingOK'
BY DEF SendingOK, NothingLostOrRepeated, sending

LEMMA SendingStep ==
  ASSUME SendingOK, [Next]_vars
  PROVE  SendingOK'
<1>1. ASSUME NEW h \in Handle, PeerAnswers(h) \/ PeerLeaves(h) \/ PeerReads(h)
      PROVE  SendingOK'
  BY <1>1, SendingUnchanged DEF PeerAnswers, PeerLeaves, PeerReads, NetworkChanges
<1>2. ASSUME NEW h \in Handle, ListenCallback(h)
      PROVE  SendingOK'
  <2>1. ASSUME NEW sockets, NEW new, NEW w, NEW ok, Post(sockets, new, << >>, << >>, << >>, w, ok)
        PROVE  SendingOK'
    <3>1. << >> \in Seq(Number) /\ << >> = << >> \o << >>
      BY EmptySeq, ConcatEmptySeq
    <3> QED BY <2>1, <3>1, PostKeepsSending DEF SendingOK
  <2> QED BY <1>2, <2>1, EmptyBuffersSending DEF ListenCallback
<1>3. ASSUME NEW h \in Handle, ConnectCallback(h)
      PROVE  SendingOK'
  BY <1>3, EmptyBuffersSending, SendingUnchanged DEF ConnectCallback
<1>4. ASSUME NEW h \in Handle, SendCallback(h)
      PROVE  SendingOK'
  <2>1. PICK end \in Send(sock[connection], Len(send_buf)) :
          /\ send_buf' = RestAfterSend(send_buf, end.taken)
          /\ accepted' = accepted \o SubSeq(send_buf, 1, end.taken)
    BY <1>4 DEF SendCallback
  <2>2. sent' = sent /\ posted' = posted
    BY <1>4 DEF SendCallback
  <2>3. end.taken \in 0 .. Len(send_buf)
    BY TakenType, LenProperties DEF SendingOK
  <2>4. send_buf' \in Seq(Number)
    BY <2>1, <2>3, TakenAndRest DEF SendingOK
  <2>5. accepted' \in Seq(Number) /\ accepted \o send_buf = accepted' \o send_buf'
    BY <2>1, <2>3, SendKeepsHistory DEF SendingOK
  <2> QED BY <2>2, <2>4, <2>5 DEF SendingOK, NothingLostOrRepeated
<1>5. ASSUME NEW h \in Handle, HandleHeader(h) \/ HandleBody(h)
      PROVE  SendingOK'
  BY <1>5, SendingUnchanged, PostOnConnection DEF HandleHeader, HandleBody, MayReply
<1>6. ASSUME NEW h \in Handle,
             AcceptFails(h) \/ SendCallbackWithoutConnection(h) \/ ReceiveThrows(h)
      PROVE  SendingOK'
  BY <1>6, SendingUnchanged DEF AcceptFails, SendCallbackWithoutConnection, ReceiveThrows
<1>7. ASSUME Command
      PROVE  SendingOK'
  BY <1>7, SendingUnchanged, PostOnConnection DEF Command
<1>8. ASSUME PeerConnects \/ CreateSink \/ InputFails \/ Signal
      PROVE  SendingOK'
  BY <1>8, SendingUnchanged DEF PeerConnects, CreateSink, InputFails, Signal
<1>9. ASSUME UNCHANGED vars
      PROVE  SendingOK'
  BY <1>9, SendingUnchanged DEF vars
<1> QED BY <1>1, <1>2, <1>3, <1>4, <1>5, <1>6, <1>7, <1>8, <1>9 DEF Next, MainLoop

(***************************************************************************)
(* Whatever send() is given on a connection, however little the kernel     *)
(* takes at a time and however many send_cb watches have been left behind, *)
(* it leaves once and in order (MiracBroker::send, MiracNetwork::Send).    *)
(***************************************************************************)
THEOREM NothingIsLostOrRepeated == Spec => []NothingLostOrRepeated
<1>1. Init => SendingOK
  <2> SUFFICES ASSUME Init PROVE SendingOK
    OBVIOUS
  <2>1. << >> \in Seq(Number) /\ << >> \o << >> = << >>
    BY EmptySeq, ConcatEmptySeq
  <2> QED BY <2>1, ProgramAssumption DEF Init, SendingOK, NothingLostOrRepeated
<1>2. SendingOK /\ [Next]_vars => SendingOK'
  BY SendingStep
<1>3. SendingOK => NothingLostOrRepeated
  BY DEF SendingOK
<1> QED BY <1>1, <1>2, <1>3, PTL DEF Spec

-----------------------------------------------------------------------------
(* What is read.                                                           *)

(***************************************************************************)
(* StaleHeaderMisreadOnce, made inductive: the header message_ waits with  *)
(* is of this connection or of one that was replaced; in the second case   *)
(* neither has it taken a body before nor has this connection lost one.    *)
(***************************************************************************)
ReadingOK ==
  /\ serial \in Nat
  /\ message_ \in Nat /\ message_ <= serial
  /\ misread \subseteq Nat \X Nat
  /\ \A p \in misread : p[2] <= serial
  /\ message_ # 0 /\ message_ # serial =>
       /\ message_ \in halves
       /\ \A p \in misread : p[1] # message_ /\ p[2] # serial
  /\ StaleHeaderMisreadOnce

LEMMA ReadingUnchanged ==
  ASSUME ReadingOK, UNCHANGED <<reading, serial>>
  PROVE  ReadingOK'
BY DEF ReadingOK, StaleHeaderMisreadOnce, reading

\* A new connection replaces the one message_ may be waiting on.
LEMMA NextConnectionReading ==
  ASSUME ReadingOK, NEW h, NextConnection(h)
  PROVE  ReadingOK'
<1>1. serial' = serial + 1 /\ message_' = message_ /\ misread' = misread
  BY DEF NextConnection
<1>2. halves \subseteq halves'
  BY DEF NextConnection
<1>3. message_ # 0 => message_ \in halves'
  BY DEF NextConnection, ReadingOK
<1>4. \A p \in misread : p \in Nat \X Nat /\ p[1] < p[2] /\ p[2] <= serial
  BY DEF ReadingOK, StaleHeaderMisreadOnce
<1>5. \A p \in misread : p[2] <= serial' /\ p[2] # serial'
  BY <1>1, <1>4 DEF ReadingOK
<1>6. message_ # 0 => \A p \in misread : p[1] # message_
  <2>1. CASE message_ = serial
    BY <1>4, <2>1 DEF ReadingOK
  <2>2. CASE message_ # serial
    BY <2>2 DEF ReadingOK
  <2> QED BY <2>1, <2>2
<1>7. StaleHeaderMisreadOnce'
  BY <1>1, <1>2 DEF ReadingOK, StaleHeaderMisreadOnce
<1>8. serial' \in Nat /\ message_' \in Nat /\ message_' <= serial' /\ misread' \subseteq Nat \X Nat
  BY <1>1 DEF ReadingOK
<1> QED BY <1>1, <1>3, <1>5, <1>6, <1>7, <1>8 DEF ReadingOK

LEMMA HandleHeaderReading ==
  ASSUME ReadingOK, NEW h, HandleHeader(h)
  PROVE  ReadingOK'
<1>1. serial' = serial /\ halves' = halves /\ misread' = misread
  BY DEF HandleHeader, Receives
<1>2. message_' \in {0, serial}
  BY DEF HandleHeader
<1> QED BY <1>1, <1>2 DEF ReadingOK, StaleHeaderMisreadOnce

LEMMA HandleBodyReading ==
  ASSUME ReadingOK, NEW h, HandleBody(h)
  PROVE  ReadingOK'
<1>1. serial' = serial /\ halves' = halves /\ message_' = 0 /\ message_ # 0
  BY DEF HandleBody, Receives, MessageTaken
<1>2. CASE message_ = serial
  BY <1>1, <1>2 DEF HandleBody, ReadingOK, StaleHeaderMisreadOnce
<1>3. CASE message_ # serial
  <2> DEFINE new == <<message_, serial>>
  <2>1. misread' = misread \union {new}
    BY <1>3 DEF HandleBody
  <2>2. new \in Nat \X Nat /\ new[1] = message_ /\ new[2] = serial
    BY DEF ReadingOK
  <2>3. message_ \in halves /\ message_ < serial
    BY <1>1, <1>3 DEF ReadingOK
  <2>4. \A p \in misread : p[1] # new[1] /\ p[2] # new[2]
    BY <1>1, <1>3, <2>2 DEF ReadingOK
  <2>5. \A p \in misread' : p[1] \in halves' /\ p[1] < p[2] /\ p[2] <= serial'
    BY <1>1, <2>1, <2>2, <2>3 DEF ReadingOK, StaleHeaderMisreadOnce
  <2>6. \A p, q \in misread' : p[1] = q[1] \/ p[2] = q[2] => p = q
    BY <2>1, <2>4 DEF ReadingOK, StaleHeaderMisreadOnce
  <2>7. misread' \subseteq Nat \X Nat
    BY <2>1, <2>2 DEF ReadingOK
  <2> QED BY <1>1, <2>5, <2>6, <2>7 DEF ReadingOK, StaleHeaderMisreadOnce
<1> QED BY <1>2, <1>3

LEMMA ReadingStep ==
  ASSUME ReadingOK, [Next]_vars
  PROVE  ReadingOK'
<1>1. ASSUME NEW h \in Handle, PeerAnswers(h) \/ PeerLeaves(h) \/ PeerReads(h)
      PROVE  ReadingOK'
  BY <1>1, ReadingUnchanged DEF PeerAnswers, PeerLeaves, PeerReads, NetworkChanges
<1>2. ASSUME NEW h \in Handle, ListenCallback(h)
      PROVE  ReadingOK'
  BY <1>2, NextConnectionReading DEF ListenCallback
<1>3. ASSUME NEW h \in Handle, ConnectCallback(h)
      PROVE  ReadingOK'
  BY <1>3, NextConnectionReading, ReadingUnchanged DEF ConnectCallback
<1>4. ASSUME NEW h \in Handle,
             \/ SendCallback(h) \/ AcceptFails(h)
             \/ SendCallbackWithoutConnection(h) \/ ReceiveThrows(h)
      PROVE  ReadingOK'
  BY <1>4, ReadingUnchanged
     DEF SendCallback, AcceptFails, SendCallbackWithoutConnection, ReceiveThrows
<1>5. ASSUME NEW h \in Handle, HandleHeader(h) \/ HandleBody(h)
      PROVE  ReadingOK'
  BY <1>5, HandleHeaderReading, HandleBodyReading
<1>6. ASSUME PeerConnects \/ CreateSink \/ Command \/ InputFails \/ Signal
      PROVE  ReadingOK'
  BY <1>6, ReadingUnchanged DEF PeerConnects, CreateSink, Command, InputFails, Signal
<1>7. ASSUME UNCHANGED vars
      PROVE  ReadingOK'
  BY <1>7, ReadingUnchanged DEF vars
<1> QED BY <1>1, <1>2, <1>3, <1>4, <1>5, <1>6, <1>7 DEF Next, MainLoop

(***************************************************************************)
(* A header left in message_ by a connection that was replaced costs one   *)
(* message of one later connection, and no connection loses two that way   *)
(* (MiracBroker::listen_cb, handle_header and handle_body).                *)
(***************************************************************************)
THEOREM StaleHeadersMisreadOnce == Spec => []StaleHeaderMisreadOnce
<1>1. Init => ReadingOK
  BY DEF Init, ReadingOK, StaleHeaderMisreadOnce
<1>2. ReadingOK /\ [Next]_vars => ReadingOK'
  BY ReadingStep
<1>3. ReadingOK => StaleHeaderMisreadOnce
  BY DEF ReadingOK
<1> QED BY <1>1, <1>2, <1>3, PTL DEF Spec

-----------------------------------------------------------------------------
(***************************************************************************)
(* Sockets and watches.  Neither the types nor the two watch properties    *)
(* are inductive: which handle is free, and which watch there is, depends  *)
(* on the program, and on how far it has come.                             *)
(***************************************************************************)
WatchCount == [Handle -> [Callback -> Nat]]

Unwatched(callback) == \A h \in Handle : watches[h][callback] = 0

\* A sink opens its sockets in order, one per address, and connect_cb watches
\* the first of them until the sink has a connection or has given up.
SinkSockets ==
  /\ callers = 0
  /\ Unwatched("listen_cb")
  /\ serial = IF connection = 0 THEN 0 ELSE 1
  /\ timer => ~broker /\ sock = AllFree /\ network = NoNetwork /\ watches = NoWatches
  /\ ~Unwatched("connect_cb") =>
       /\ connection = 0
       /\ network.handle = network.aptr /\ network.aptr <= network.addresses
       /\ \A h \in Handle : sock[h] = "free" <=> h > network.handle
       /\ \A h \in Handle : watches[h]["connect_cb"] = IF h = 1 THEN 1 ELSE 0

\* A source has the socket it listens on, and its connection's.
SourceSockets ==
  /\ ~timer
  /\ Unwatched("connect_cb")
  /\ serial + callers <= MaxConnections
  /\ phase = "loop" => network.handle # 0
  /\ network.handle # 0 =>
       /\ sock[network.handle] = "listening"
       /\ \A h \in Handle \ {network.handle, connection} : sock[h] = "free"

ProgramOK ==
  /\ role \in {"sink", "source"} /\ phase \in {"loop", "exited", "aborted"}
  /\ input \in BOOLEAN /\ timer \in BOOLEAN /\ broker \in BOOLEAN
  /\ sock \in [Handle -> SocketState] /\ network \in Network
  /\ connection \in 0 .. MaxHandles
  /\ watches \in WatchCount
  /\ callers \in Nat /\ serial \in Nat
  /\ broker <=> network.handle # 0 \/ connection # 0
  /\ connection # 0 => sock[connection] \in Connected \union {"gone"}
  /\ connection = 0 => Unwatched("receive_cb")
  /\ OpenConnectionIsWatched
  /\ FirstAttemptIsWatched
  /\ role = "sink" => SinkSockets
  /\ role = "source" => SourceSockets

LEMMA Added ==
  ASSUME NEW w \in WatchCount, NEW h \in Handle, NEW callback \in Callback
  PROVE  /\ Add(w, h, callback) \in WatchCount
         /\ \A k \in Handle, c \in Callback :
              Add(w, h, callback)[k][c] = IF k = h /\ c = callback THEN w[k][c] + 1 ELSE w[k][c]
BY DEF Add, WatchCount

LEMMA Removed ==
  ASSUME NEW w \in WatchCount, NEW h \in Handle, NEW callback \in Callback,
         w[h][callback] > 0
  PROVE  /\ Remove(w, h, callback) \in WatchCount
         /\ \A k \in Handle, c \in Callback :
              Remove(w, h, callback)[k][c] = IF k = h /\ c = callback THEN w[k][c] - 1 ELSE w[k][c]
<1>1. w[h][callback] \in Nat /\ w[h][callback] - 1 \in Nat
  BY DEF WatchCount
<1> QED
  BY <1>1 DEF Remove, WatchCount

\* The handle given out is the least that is free, when there is one.
LEMMA NewHandleIs ==
  ASSUME NEW s, NEW n \in Handle, s[n] = "free",
         \A h \in Handle : s[h] = "free" => n <= h
  PROVE  NewHandle(s) = n
<1> DEFINE free == {h \in Handle : s[h] = "free"}
<1>1. n \in free /\ \A h \in free : n <= h
  OBVIOUS
<1>2. \A m \in free : (\A h \in free : m <= h) => m = n
  BY <1>1 DEF Handle
<1> QED
  BY <1>1, <1>2 DEF NewHandle, Min

\* Sockets s become t by sending over h.
SendsOver(h, s, t) ==
  /\ t \in [Handle -> SocketState]
  /\ \A k \in Handle : \/ t[k] = s[k]
                       \/ k = h /\ s[k] \in Connected /\ t[k] \in Connected

\* What send() leaves of a message on a live connection is watched.
LEMMA PostWatches ==
  ASSUME NEW sockets \in [Handle -> SocketState], NEW h \in Handle, NEW w \in WatchCount,
         NEW buffer \in Seq(Number), NEW before, NEW taken, NEW ok,
         sent \in 0 .. MaxMessages,
         Post(sockets, h, buffer, before, taken, w, ok)
  PROVE  /\ SendsOver(h, sockets, sock')
         /\ watches' \in WatchCount
         /\ \A k \in Handle, c \in Callback :
              \/ watches'[k][c] = w[k][c]
              \/ k = h /\ c = "send_cb" /\ watches'[k][c] = w[k][c] + 1
         /\ sock'[h] \in Connected /\ send_buf' # << >> => watches'[h]["send_cb"] > 0
<1> DEFINE whole == buffer \o Pieces(sent + 1)
           n == Len(whole)
<1>1. /\ whole \in Seq(Number) /\ n \in Nat /\ n > 0
  <2>1. sent + 1 \in Number
    BY ProgramAssumption DEF Post, Number
  <2>2. Pieces(sent + 1) \in Seq(Number) /\ Len(Pieces(sent + 1)) = 2
    BY <2>1 DEF Pieces
  <2>3. whole \in Seq(Number) /\ n = Len(buffer) + 2 /\ Len(buffer) \in Nat
    <3>1. \A s, t \in Seq(Number) : /\ s \o t \in Seq(Number)
                                    /\ Len(s \o t) = Len(s) + Len(t) /\ Len(s) \in Nat
      BY ConcatProperties, LenProperties
    <3>2. whole \in Seq(Number) /\ n = Len(buffer) + Len(Pieces(sent + 1)) /\ Len(buffer) \in Nat
      BY <2>2, <3>1, Zenon
    <3> QED
      BY <2>2, <3>2
  <2> HIDE DEF whole, n
  <2> QED
    BY <2>3
<1>2. PICK end \in Send(sockets[h], n) :
        /\ sock' = [sockets EXCEPT ![h] = end.state]
        /\ send_buf' = RestAfterSend(whole, end.taken)
        /\ watches' = WatchTheRest(w, h, end.result)
  BY DEF Post
<1>3. /\ "send_cb" \in Callback
      /\ w[h]["send_cb"] \in Nat
  BY DEF Callback, WatchCount
<1>4. /\ Add(w, h, "send_cb") \in WatchCount
      /\ \A k \in Handle, c \in Callback :
           Add(w, h, "send_cb")[k][c] = IF k = h /\ c = "send_cb" THEN w[k][c] + 1 ELSE w[k][c]
  BY <1>3, Added
<1>5. end.result = "true" => end.taken = n
  BY <1>1, <1>2 DEF Send
<1>6. sockets[h] \in Connected => end.result \in {"true", "false"}
  BY <1>1, <1>2 DEF Send, Connected
<1>8. end.state = sockets[h] \/ (sockets[h] \in Connected /\ end.state \in Connected)
  <2> HIDE DEF n
  <2> QED BY <1>1, <1>2, TakenType
<1>9. SendsOver(h, sockets, sock')
  BY <1>2, <1>8 DEF SendsOver, Connected, SocketState
<1>10. sock'[h] \in Connected => sockets[h] \in Connected
  BY <1>9 DEF SendsOver
<1>7. end.result = "true" => send_buf' = << >>
  <2>1. n + 1 \in Int /\ n \in Int /\ n + 1 > n
    BY <1>1
  <2>2. SubSeq(whole, n + 1, n) = << >>
    BY <1>1, <2>1, SubSeqEmpty
  <2> QED
    BY <1>2, <1>5, <2>2 DEF RestAfterSend
<1> QED
  BY <1>2, <1>3, <1>4, <1>6, <1>7, <1>9, <1>10 DEF WatchTheRest

\* A step of the standard input, or a signal.
LEMMA SocketsUnchanged ==
  ASSUME ProgramOK, phase' \in {phase, "exited", "aborted"}, input' \in BOOLEAN,
         UNCHANGED <<role, timer, broker, sock, network, connection, watches,
                     callers, serial, send_buf>>
  PROVE  ProgramOK'
BY DEF ProgramOK, OpenConnectionIsWatched, FirstAttemptIsWatched, SinkSockets, SourceSockets,
       Unwatched, Is

\* Sending over the connection leaves the socket a source listens on alone.
LEMMA SendingKeepsListening ==
  ASSUME ProgramOK, role = "source", connection # 0, SendsOver(connection, sock, sock'),
         phase' \in {phase, "aborted"},
         UNCHANGED <<timer, network, connection, callers, serial>>,
         Unwatched("connect_cb")' <=> Unwatched("connect_cb")
  PROVE  SourceSockets'
<1>1. SourceSockets
  BY DEF ProgramOK
<1>2. network.handle # 0 => network.handle \in Handle
  BY DEF ProgramOK, Network, Handle
<1>3. \A k \in Handle : sock[k] \in {"listening", "free"} => sock'[k] = sock[k]
  BY DEF SendsOver, Connected
<1> QED
  BY <1>1, <1>2, <1>3 DEF SourceSockets

\* A message sent over the connection as it stands.
LEMMA PostKeepsWatches ==
  ASSUME ProgramOK, SendingOK, connection # 0,
         phase' \in {phase, "aborted"},
         UNCHANGED <<role, input, timer, broker, network, connection, callers, serial>>,
         NEW ok, Post(sock, connection, send_buf, posted, accepted, watches, ok)
  PROVE  ProgramOK'
<1>1. /\ connection \in Handle /\ watches \in WatchCount
      /\ send_buf \in Seq(Number) /\ sent \in 0 .. MaxMessages
      /\ sock \in [Handle -> SocketState]
  BY DEF ProgramOK, SendingOK, Handle
<1>2. /\ SendsOver(connection, sock, sock')
      /\ watches' \in WatchCount
      /\ \A k \in Handle, c \in Callback :
           \/ watches'[k][c] = watches[k][c]
           \/ k = connection /\ c = "send_cb" /\ watches'[k][c] = watches[k][c] + 1
      /\ sock'[connection] \in Connected /\ send_buf' # << >> =>
           watches'[connection]["send_cb"] > 0
  BY <1>1, PostWatches
<1>3. \A k \in Handle, c \in Callback \ {"send_cb"} : watches'[k][c] = watches[k][c]
  BY <1>2
<1>4. ~timer
  BY DEF ProgramOK, SinkSockets, SourceSockets
<1>5. /\ connection' \in Handle /\ sock'[connection] \in Connected \union {"gone"}
      /\ sock'[connection] \in Connected => sock[connection] \in Connected
  BY <1>1, <1>2 DEF ProgramOK, SendsOver
<1>6. OpenConnectionIsWatched' /\ FirstAttemptIsWatched'
  <2>1. watches'[connection]["receive_cb"] = watches[connection]["receive_cb"]
    BY <1>1, <1>3 DEF Callback
  <2> QED
    BY <1>1, <1>2, <1>5, <2>1 DEF ProgramOK, OpenConnectionIsWatched, FirstAttemptIsWatched
<1>7. \A c \in {"listen_cb", "connect_cb", "receive_cb"} : Unwatched(c)' <=> Unwatched(c)
  BY <1>3 DEF Unwatched, Callback
<1>8. role = "sink" => SinkSockets'
  BY <1>1, <1>4, <1>7 DEF ProgramOK, SinkSockets
<1>9. role = "source" => SourceSockets'
  BY <1>1, <1>2, <1>4, <1>7, SendingKeepsListening
<1> QED
  BY <1>1, <1>2, <1>5, <1>6, <1>8, <1>9 DEF ProgramOK, SendsOver

\* The network changes one socket, which is not a free one.
LEMMA NetworkKeepsSockets ==
  ASSUME ProgramOK, NEW h \in Handle, PeerAnswers(h) \/ PeerLeaves(h) \/ PeerReads(h)
  PROVE  ProgramOK'
<1>1. /\ sock' \in [Handle -> SocketState]
      /\ UNCHANGED <<role, phase, input, timer, broker, network, connection, watches,
                     callers, serial, send_buf>>
  BY DEF PeerAnswers, PeerLeaves, PeerReads, NetworkChanges, ProgramOK, SocketState, process, sending
<1>2. \E before, after \in SocketState :
        /\ sock[h] = before
        /\ sock' = [sock EXCEPT ![h] = after]
        /\ \/ before = "connecting" /\ after \in {"open", "refused"}
           \/ before \in Connected /\ after = "gone"
           \/ before = "full" /\ after = "open"
  BY DEF PeerAnswers, PeerLeaves, PeerReads, NetworkChanges, SocketState, Connected
<1>3. /\ sock[h] \in {"connecting"} \union Connected
      /\ sock'[h] \in {"open", "refused", "gone"}
      /\ sock[h] \in Connected => sock'[h] \in Connected \union {"gone"}
      /\ \A k \in Handle : k # h => sock'[k] = sock[k]
      /\ \A k \in Handle : sock'[k] = "free" <=> sock[k] = "free"
  BY <1>2 DEF ProgramOK, Connected
<1>4. ~timer \/ role # "sink"
  <2>1. sock # AllFree
    BY <1>3 DEF AllFree, Connected
  <2> QED
    BY <2>1 DEF ProgramOK, SinkSockets
<1>5. connection # 0 => connection \in Handle
  BY DEF ProgramOK, Handle
<1>6. network.handle # 0 => network.handle \in Handle
  BY DEF ProgramOK, Network, Handle
<1>7. connection # 0 => /\ sock'[connection] \in Connected \union {"gone"}
                        /\ sock'[connection] \in Connected => sock[connection] \in Connected
  BY <1>1, <1>3, <1>5 DEF ProgramOK, Connected
<1>8. OpenConnectionIsWatched'
  BY <1>1, <1>5, <1>7 DEF ProgramOK, OpenConnectionIsWatched
<1>9. FirstAttemptIsWatched'
  BY <1>1, <1>3, <1>6 DEF ProgramOK, FirstAttemptIsWatched
<1>10. role = "sink" => SinkSockets'
  BY <1>1, <1>3, <1>4 DEF ProgramOK, SinkSockets, Unwatched
<1>11. role = "source" => SourceSockets'
  BY <1>1, <1>3, <1>6 DEF ProgramOK, SourceSockets, Unwatched, Connected
<1> QED
  BY <1>1, <1>7, <1>8, <1>9, <1>10, <1>11 DEF ProgramOK, Unwatched

LEMMA PeerConnectsKeepsSockets ==
  ASSUME ProgramOK, PeerConnects
  PROVE  ProgramOK'
<1>1. /\ role = "source" /\ serial + callers < MaxConnections /\ callers' = callers + 1
      /\ UNCHANGED <<role, phase, input, timer, broker, sock, network, connection, watches,
                     serial, send_buf>>
  BY DEF PeerConnects, process, sending
<1>2. callers' \in Nat /\ serial + callers' <= MaxConnections
  BY <1>1, ProgramAssumption DEF ProgramOK
<1>3. SourceSockets'
  BY <1>1, <1>2 DEF ProgramOK, SourceSockets, Unwatched
<1> QED
  BY <1>1, <1>2, <1>3
  DEF ProgramOK, OpenConnectionIsWatched, FirstAttemptIsWatched, Unwatched, Is

LEMMA AcceptFailsKeepsSockets ==
  ASSUME ProgramOK, NEW h \in Handle, AcceptFails(h)
  PROVE  ProgramOK'
<1>1. watches[h]["listen_cb"] > 0 /\ callers > 0
  BY DEF AcceptFails, Dispatched
<1>2. role = "source"
  BY <1>1 DEF ProgramOK, SinkSockets, Unwatched
<1>3. /\ callers' = callers - 1
      /\ UNCHANGED <<role, phase, input, timer, broker, sock, network, connection, watches,
                     serial, send_buf>>
  BY DEF AcceptFails, process, sending
<1>4. callers' \in Nat /\ (serial + callers <= MaxConnections => serial + callers' <= MaxConnections)
  BY <1>1, <1>3, ProgramAssumption DEF ProgramOK
<1>5. SourceSockets'
  BY <1>2, <1>3, <1>4 DEF ProgramOK, SourceSockets, Unwatched
<1> QED
  BY <1>2, <1>3, <1>4, <1>5
  DEF ProgramOK, OpenConnectionIsWatched, FirstAttemptIsWatched, Unwatched, Is

\* A callback that has found its connection lost, or a send_cb, takes one
\* watch away.
LEMMA WatchTakenAway ==
  ASSUME ProgramOK, NEW h \in Handle, NEW callback \in {"receive_cb", "send_cb"},
         watches[h][callback] > 0, watches' = Remove(watches, h, callback),
         connection # 0, SendsOver(connection, sock, sock'),
         UNCHANGED <<role, phase, input, timer, broker, network, connection, callers, serial>>,
         OpenConnectionIsWatched'
  PROVE  ProgramOK'
<1>1. /\ watches' \in WatchCount
      /\ \A k \in Handle, c \in Callback :
           watches'[k][c] = IF k = h /\ c = callback THEN watches[k][c] - 1 ELSE watches[k][c]
  <2>1. watches \in WatchCount /\ callback \in Callback
    BY DEF ProgramOK, Callback
  <2> QED
    BY <2>1, Removed
<1>2. \A c \in {"listen_cb", "connect_cb"}, k \in Handle : watches'[k][c] = watches[k][c]
  BY <1>1 DEF Callback
<1>3. \A c \in {"listen_cb", "connect_cb"} : Unwatched(c)' <=> Unwatched(c)
  BY <1>2 DEF Unwatched
<1>4. ~timer
  BY DEF ProgramOK, SinkSockets, SourceSockets
<1>5. role = "sink" => SinkSockets'
  BY <1>3, <1>4 DEF ProgramOK, SinkSockets
<1>6. role = "source" => SourceSockets'
  BY <1>3, <1>4, SendingKeepsListening
<1>7. connection \in Handle /\ sock'[connection] \in Connected \union {"gone"}
  BY DEF ProgramOK, Handle, SendsOver
<1> QED
  BY <1>1, <1>5, <1>6, <1>7 DEF ProgramOK, FirstAttemptIsWatched, SendsOver

LEMMA ReceiveThrowsKeepsSockets ==
  ASSUME ProgramOK, NEW h \in Handle, ReceiveThrows(h)
  PROVE  ProgramOK'
<1>1. /\ watches[h]["receive_cb"] > 0 /\ watches' = Remove(watches, h, "receive_cb")
      /\ sock[connection] = "gone"
      /\ UNCHANGED <<role, phase, input, timer, broker, sock, network, connection, callers, serial>>
  BY DEF ReceiveThrows, Dispatched, process
<1>2. connection # 0
  BY <1>1 DEF ProgramOK, Unwatched
<1>3. OpenConnectionIsWatched'
  BY <1>1 DEF OpenConnectionIsWatched, Connected
<1>4. SendsOver(connection, sock, sock')
  BY <1>1 DEF SendsOver, ProgramOK
<1> QED
  BY <1>1, <1>2, <1>3, <1>4, WatchTakenAway

LEMMA SendCallbackKeepsSockets ==
  ASSUME ProgramOK, SendingOK, NEW h \in Handle, SendCallback(h)
  PROVE  ProgramOK'
<1>1. PICK end \in Send(sock[connection], Len(send_buf)) :
        /\ sock' = [sock EXCEPT ![connection] = end.state]
        /\ send_buf' = RestAfterSend(send_buf, end.taken)
        /\ watches' = IF end.result = "false" THEN watches ELSE Remove(watches, h, "send_cb")
  BY DEF SendCallback
<1>2. /\ watches[h]["send_cb"] > 0 /\ connection # 0 /\ connection \in Handle
      /\ UNCHANGED <<role, phase, input, timer, broker, network, connection, callers, serial>>
      /\ send_buf \in Seq(Number) /\ Len(send_buf) \in Nat
      /\ watches \in WatchCount
  BY LenProperties DEF SendCallback, Dispatched, process, ProgramOK, SendingOK, Handle
<1>3. sock[connection] \in Connected /\ end.result # "false" => send_buf' = << >>
  <2>1. SUFFICES ASSUME sock[connection] \in Connected, end.result # "false"
                 PROVE  send_buf' = << >>
    OBVIOUS
  <2>2. end.taken = Len(send_buf)
    BY <1>1, <1>2, <2>1 DEF Send, Connected
  <2>3. Len(send_buf) + 1 \in Int /\ Len(send_buf) \in Int /\ Len(send_buf) < Len(send_buf) + 1
    BY <1>2
  <2> QED
    BY <1>1, <2>2, <2>3, SubSeqEmpty DEF RestAfterSend
<1>4. send_buf' # << >> => send_buf # << >>
  <2>1. SUFFICES ASSUME send_buf = << >>
                 PROVE  send_buf' = << >>
    OBVIOUS
  <2>2. Len(send_buf) = 0
    BY <2>1
  <2>3. end.taken = 0
    BY <1>1, <1>2, <2>2, TakenType
  <2>4. SubSeq(send_buf, 0 + 1, 0) = << >>
    BY SubSeqEmpty
  <2> QED
    BY <1>1, <2>2, <2>3, <2>4 DEF RestAfterSend
<1>5. SendsOver(connection, sock, sock')
  <2>1. end.state = sock[connection] \/ (sock[connection] \in Connected /\ end.state \in Connected)
    BY <1>1, <1>2, TakenType
  <2>2. sock \in [Handle -> SocketState]
    BY DEF ProgramOK
  <2> QED
    BY <1>1, <1>2, <2>1, <2>2 DEF SendsOver, Connected, SocketState
<1>6. sock'[connection] \in Connected => sock[connection] \in Connected
  BY <1>2, <1>5 DEF SendsOver
<1>7. CASE end.result = "false"
  <2>1. watches' = watches
    BY <1>1, <1>7
  <2>2. OpenConnectionIsWatched'
    BY <1>2, <1>4, <1>6, <2>1 DEF ProgramOK, OpenConnectionIsWatched
  <2>3. Unwatched("connect_cb")' <=> Unwatched("connect_cb")
    BY <2>1 DEF Unwatched
  <2>4. role = "source" => SourceSockets'
    BY <1>2, <1>5, <2>3, SendingKeepsListening
  <2>5. ~timer
    BY <1>2 DEF ProgramOK, SinkSockets, SourceSockets
  <2>6. role = "sink" => SinkSockets'
    BY <1>2, <2>1, <2>5 DEF ProgramOK, SinkSockets, Unwatched
  <2>7. sock'[connection] \in Connected \union {"gone"} /\ sock' \in [Handle -> SocketState]
    BY <1>2, <1>5 DEF ProgramOK, SendsOver
  <2> QED
    BY <1>2, <2>1, <2>2, <2>4, <2>6, <2>7
    DEF ProgramOK, FirstAttemptIsWatched, Unwatched
<1>8. CASE end.result # "false"
  <2>1. watches' = Remove(watches, h, "send_cb")
    BY <1>1, <1>8
  <2>2. watches'[connection]["receive_cb"] = watches[connection]["receive_cb"]
    BY <1>2, <2>1, Removed DEF Callback
  <2>3. OpenConnectionIsWatched'
    BY <1>2, <1>3, <1>6, <1>8, <2>2 DEF ProgramOK, OpenConnectionIsWatched
  <2> QED
    BY <1>2, <1>5, <2>1, <2>3, WatchTakenAway
<1> QED
  BY <1>7, <1>8

\* listen_cb puts a new connection in the place of the old one.
LEMMA ListenCallbackKeepsSockets ==
  ASSUME ProgramOK, SendingOK, NEW h \in Handle, ListenCallback(h)
  PROVE  ProgramOK'
<1>1. /\ watches[h]["listen_cb"] > 0 /\ callers > 0 /\ callers' = callers - 1
      /\ UNCHANGED <<role, phase, input, timer, broker, network>>
      /\ phase = "loop"
  BY DEF ListenCallback, Dispatched, process
<1>2. role = "source" /\ SourceSockets /\ network.handle # 0 /\ network.handle \in Handle
  BY <1>1 DEF ProgramOK, SinkSockets, SourceSockets, Unwatched, Network, Handle
<1> DEFINE n == NewHandle(sock)
<1>3. n \in Handle /\ sock[n] = "free"
  <2> DEFINE free == {k \in Handle : sock[k] = "free"}
  <2>1. 1 \in Handle /\ 2 \in Handle /\ 3 \in Handle /\ Handle \subseteq Nat \ {0}
    BY NetworkAssumption, ProgramAssumption DEF Handle
  <2>2. \A k \in Handle \ {network.handle, connection} : sock[k] = "free"
    BY <1>2 DEF SourceSockets
  <2>3. PICK k \in {1, 2, 3} : sock[k] = "free" /\ \A j \in Handle : j < k => sock[j] # "free"
    <3>1. CASE sock[1] = "free"
      BY <2>1, <3>1
    <3>2. CASE sock[1] # "free" /\ sock[2] = "free"
      BY <2>1, <3>2
    <3>3. CASE sock[1] # "free" /\ sock[2] # "free"
      <4>1. sock[3] = "free"
        BY <2>1, <2>2, <3>3
      <4>2. \A j \in Handle : j < 3 => j = 1 \/ j = 2
        BY <2>1
      <4> QED
        BY <3>3, <4>1, <4>2
    <3> QED
      BY <3>1, <3>2, <3>3
  <2>4. \A j \in Handle : sock[j] = "free" => k <= j
    BY <2>1, <2>3
  <2>5. k \in Handle
    BY <2>1
  <2> QED
    BY <2>3, <2>4, <2>5, NewHandleIs
<1>4. PICK new \in Accept(sock) :
        LET sockets == Close(new.sock, connection)
        IN  \E peer \in PeerAddress(sockets[new.handle]) :
              LET w == IF peer = "known" THEN Add(watches, new.handle, "receive_cb") ELSE watches
              IN  /\ NextConnection(new.handle)
                  /\ IF peer = "known"
                     THEN \E ok \in BOOLEAN :
                            Post(sockets, new.handle, << >>, << >>, << >>, w, ok)
                     ELSE sock' = sockets /\ EmptyBuffers(w)
  BY DEF ListenCallback
<1> DEFINE sockets == Close(new.sock, connection)
<1>5. PICK state \in {"open", "gone"} :
        new.handle = n /\ new.sock = [sock EXCEPT ![n] = state]
  <2>1. new \in {[handle |-> n, sock |-> [sock EXCEPT ![n] = state]] : state \in {"open", "gone"}}
    BY <1>4 DEF Accept
  <2> HIDE DEF n
  <2>2. PICK state \in {"open", "gone"} : new = [handle |-> n, sock |-> [sock EXCEPT ![n] = state]]
    BY <2>1, Zenon
  <2> QED
    BY <2>2
<1>6. connection # 0 => connection \in Handle /\ connection # n /\ connection # network.handle
  BY <1>2, <1>3 DEF ProgramOK, SourceSockets, Handle, Connected
<1>7. /\ sockets \in [Handle -> SocketState]
      /\ sockets[n] = state
      /\ connection # 0 => sockets[connection] = "free"
      /\ \A k \in Handle \ {n, connection} : sockets[k] = sock[k]
  <2>1. sock \in [Handle -> SocketState] /\ state \in SocketState /\ "free" \in SocketState
    BY DEF ProgramOK, SocketState
  <2>2. new.sock \in [Handle -> SocketState]
    BY <1>3, <1>5, <2>1
  <2>3. CASE connection = 0
    BY <1>3, <1>4, <1>5, <2>1, <2>2, <2>3 DEF Close
  <2>4. CASE connection # 0
    BY <1>3, <1>4, <1>5, <1>6, <2>1, <2>2, <2>4 DEF Close
  <2> QED
    BY <2>3, <2>4
<1>8. connection' = n /\ serial' = serial + 1
  BY <1>4, <1>5 DEF NextConnection
<1>9. /\ SendsOver(n, sockets, sock')
      /\ watches' \in WatchCount
      /\ \A k \in Handle : watches'[k]["connect_cb"] = watches[k]["connect_cb"]
      /\ sock'[n] \in Connected => /\ watches'[n]["receive_cb"] > 0
                                   /\ send_buf' # << >> => watches'[n]["send_cb"] > 0
  <2>0. watches \in WatchCount /\ "receive_cb" \in Callback
    BY DEF ProgramOK, Callback
  <2> HIDE DEF sockets
  <2>1. PICK peer \in PeerAddress(state) :
          IF peer = "known"
          THEN \E ok \in BOOLEAN :
                 Post(sockets, n, << >>, << >>, << >>, Add(watches, n, "receive_cb"), ok)
          ELSE sock' = sockets /\ EmptyBuffers(watches)
    BY <1>4, <1>5, <1>7 DEF sockets
  <2>2. CASE peer = "known"
    <3> DEFINE w == Add(watches, n, "receive_cb")
    <3>1. /\ w \in WatchCount
          /\ \A k \in Handle, c \in Callback :
               w[k][c] = IF k = n /\ c = "receive_cb" THEN watches[k][c] + 1 ELSE watches[k][c]
      BY <1>3, <2>0, Added
    <3>2. PICK ok \in BOOLEAN : Post(sockets, n, << >>, << >>, << >>, w, ok)
      BY <2>1, <2>2
    <3>3. << >> \in Seq(Number) /\ sent \in 0 .. MaxMessages
      BY EmptySeq DEF SendingOK
    <3>4. watches[n]["receive_cb"] \in Nat
      BY <1>3, <2>0 DEF WatchCount
    <3> HIDE DEF w
    <3>5. /\ SendsOver(n, sockets, sock')
          /\ watches' \in WatchCount
          /\ \A k \in Handle, c \in Callback :
               \/ watches'[k][c] = w[k][c]
               \/ k = n /\ c = "send_cb" /\ watches'[k][c] = w[k][c] + 1
          /\ sock'[n] \in Connected /\ send_buf' # << >> => watches'[n]["send_cb"] > 0
      <4> HIDE DEF n
      <4> QED BY <1>3, <1>7, <3>1, <3>2, <3>3, PostWatches
    <3>6. \A k \in Handle : watches'[k]["connect_cb"] = watches[k]["connect_cb"]
      BY <3>1, <3>5 DEF Callback
    <3>7. watches'[n]["receive_cb"] = watches[n]["receive_cb"] + 1
      BY <1>3, <3>1, <3>5 DEF Callback
    <3> HIDE DEF n
    <3> QED
      BY <3>4, <3>5, <3>6, <3>7
  <2>3. CASE peer # "known"
    <3>1. state \notin Connected
      BY <2>3 DEF PeerAddress, Connected
    <3>2. sock' = sockets /\ EmptyBuffers(watches)
      BY <2>1, <2>3
    <3>3. SendsOver(n, sockets, sock')
      BY <1>7, <3>2 DEF SendsOver
    <3> QED
      BY <1>7, <2>0, <3>1, <3>2, <3>3 DEF EmptyBuffers
  <2> QED
    BY <2>2, <2>3
<1>10. n # 0 /\ n \in 0 .. MaxHandles
  BY <1>3 DEF Handle
<1>11. OpenConnectionIsWatched'
  BY <1>8, <1>9 DEF OpenConnectionIsWatched
<1>12. FirstAttemptIsWatched'
  BY <1>1, <1>2 DEF FirstAttemptIsWatched
<1>13. callers' \in Nat /\ serial' \in Nat /\ serial' + callers' = serial + callers
  BY <1>1, <1>8 DEF ProgramOK
<1> HIDE DEF sockets
<1>14. SourceSockets'
  <2>0. \A k \in Handle \ {n} : sock'[k] = sockets[k]
    BY <1>9 DEF SendsOver
  <2>1. network.handle # n
    BY <1>2, <1>3 DEF SourceSockets
  <2>2. sock'[network.handle] = "listening"
    BY <1>2, <1>6, <1>7, <2>0, <2>1 DEF SourceSockets
  <2>3. \A k \in Handle \ {network.handle, n} : sock'[k] = "free"
    <3>1. \A k \in Handle : k # 0
      BY DEF Handle
    <3> QED
      BY <1>2, <1>7, <2>0, <3>1 DEF SourceSockets
  <2>4. Unwatched("connect_cb")'
    BY <1>2, <1>9 DEF SourceSockets, Unwatched
  <2> HIDE DEF n
  <2>5. ~timer'
    BY <1>1, <1>2 DEF SourceSockets
  <2>6. serial' + callers' <= MaxConnections
    BY <1>2, <1>13 DEF SourceSockets
  <2> QED
    BY <1>1, <1>2, <1>8, <2>2, <2>3, <2>4, <2>5, <2>6 DEF SourceSockets
<1>15. /\ role' = "source" /\ phase' = "loop"
       /\ broker' = TRUE
  BY <1>1, <1>2 DEF ProgramOK
<1>16. /\ connection' # 0 => sock'[connection'] \in Connected \union {"gone"}
       /\ sock' \in [Handle -> SocketState]
  BY <1>3, <1>7, <1>8, <1>9 DEF SendsOver, Connected
<1> HIDE DEF n
<1> QED
  BY <1>1, <1>2, <1>8, <1>9, <1>10, <1>11, <1>12, <1>13, <1>14, <1>15, <1>16 DEF ProgramOK

\* connect_cb's Connect(NULL, NULL), when the sockets are in order, ends with
\* the attempt's own socket, with no address left, or with the next address on
\* a new socket.
SameAttempt(s, net, end) == end.result = "true" /\ end.sock = s /\ end.net = net

LastAttempt(s, net, end) ==
  /\ end.result = "throws"
  /\ end.sock = [s EXCEPT ![net.handle] = "idle"]
  /\ end.net \in Network
  /\ end.net.handle = net.handle /\ end.net.aptr = net.aptr + 1

NextAttempt(s, net, end) ==
  /\ net.handle + 1 \in Handle
  /\ end.net \in Network
  /\ end.net.handle = net.handle + 1 /\ end.net.aptr = net.aptr + 1
  /\ end.net.aptr <= end.net.addresses
  /\ \E state \in {"open", "connecting", "idle"} :
       /\ end.sock = [[s EXCEPT ![net.handle] = "idle"] EXCEPT ![net.handle + 1] = state]
       /\ end.result = CASE state = "open" -> "true"
                         [] state = "connecting" -> "false"
                         [] OTHER -> "throws"

LEMMA ConnectOutcome ==
  ASSUME NEW s \in [Handle -> SocketState], NEW net \in Network,
         net.handle \in Handle, net.handle = net.aptr, net.aptr <= net.addresses,
         \A h \in Handle : s[h] = "free" <=> h > net.handle,
         NEW end \in ConnectAgain(s, net)
  PROVE  SameAttempt(s, net, end) \/ LastAttempt(s, net, end) \/ NextAttempt(s, net, end)
<1> DEFINE i == net.handle
           idle == [s EXCEPT ![i] = "idle"]
           on == [net EXCEPT !.aptr = @ + 1]
<1>1. /\ i \in Handle /\ i \in Nat /\ net.aptr = i /\ net.addresses \in 0 .. MaxAddresses
      /\ i <= net.addresses
      /\ on = [handle |-> i, addresses |-> net.addresses, aptr |-> i + 1]
  BY NetworkAssumption DEF Network, Handle
<1>2. on \in Network
  BY <1>1, NetworkAssumption, ProgramAssumption DEF Network, Handle
<1>3. \/ end.result = "true" /\ end.sock = s /\ end.net = net
      \/ end \in ConnectTo(idle, on)
  BY DEF ConnectAgain, ConnectToNext
<1>4. CASE i + 1 > net.addresses /\ end \in ConnectTo(idle, on)
  <2>1. end = [result |-> "throws", sock |-> idle, net |-> on]
    BY <1>1, <1>4 DEF ConnectTo
  <2> QED
    BY <1>1, <1>2, <1>3, <2>1 DEF LastAttempt
<1>5. CASE ~(i + 1 > net.addresses) /\ end \in ConnectTo(idle, on)
  <2>1. i + 1 \in Handle /\ i + 1 <= net.addresses
    BY <1>1, <1>5, NetworkAssumption, ProgramAssumption DEF Handle
  <2>2. NewHandle(idle) = i + 1
    <3>1. \A h \in Handle : idle[h] = "free" <=> h > i
      BY <1>1 DEF Handle
    <3>2. idle[i + 1] = "free" /\ \A h \in Handle : idle[h] = "free" => i + 1 <= h
      BY <1>1, <2>1, <3>1 DEF Handle
    <3> HIDE DEF idle
    <3> QED
      BY <2>1, <3>2, NewHandleIs
  <2>3. end \in {[result |-> e[1], sock |-> [idle EXCEPT ![i + 1] = e[2]],
                  net |-> [on EXCEPT !.handle = i + 1]] :
                   e \in {<<"true", "open">>, <<"false", "connecting">>, <<"throws", "idle">>}}
    <3>1. ~(on.aptr > on.addresses)
      BY <1>1, <1>5
    <3> HIDE DEF idle, on
    <3> QED
      BY <1>5, <2>2, <3>1 DEF ConnectTo
  <2>4. PICK e \in {<<"true", "open">>, <<"false", "connecting">>, <<"throws", "idle">>} :
          end = [result |-> e[1], sock |-> [idle EXCEPT ![i + 1] = e[2]],
                 net |-> [on EXCEPT !.handle = i + 1]]
    BY <2>3, Zenon
  <2>5. /\ end.result = e[1] /\ end.sock = [idle EXCEPT ![i + 1] = e[2]]
        /\ end.net = [on EXCEPT !.handle = i + 1]
    BY <2>4
  <2>6. [on EXCEPT !.handle = i + 1] = [handle |-> i + 1, addresses |-> net.addresses, aptr |-> i + 1]
    <3> DEFINE r == [handle |-> i, addresses |-> net.addresses, aptr |-> i + 1]
    <3>1. [r EXCEPT !.handle = i + 1] = [handle |-> i + 1, addresses |-> net.addresses, aptr |-> i + 1]
      OBVIOUS
    <3>2. on = r
      BY <1>1
    <3> HIDE DEF on, r
    <3> QED
      BY <3>1, <3>2
  <2>7. /\ end.net = [handle |-> i + 1, addresses |-> net.addresses, aptr |-> i + 1]
        /\ end.net \in Network
    BY <1>1, <2>1, <2>5, <2>6, NetworkAssumption, ProgramAssumption DEF Network, Handle
  <2>8. e[2] \in {"open", "connecting", "idle"}
        /\ e[1] = CASE e[2] = "open" -> "true"
                    [] e[2] = "connecting" -> "false"
                    [] OTHER -> "throws"
    BY <2>4
  <2> HIDE DEF idle, on
  <2>9. /\ end.net.handle = i + 1 /\ end.net.aptr = net.aptr + 1
        /\ end.net.aptr <= end.net.addresses
    BY <1>1, <2>1, <2>7
  <2> QED
    BY <2>1, <2>5, <2>7, <2>8, <2>9 DEF idle, NextAttempt
<1> QED
  BY <1>3, <1>4, <1>5 DEF SameAttempt

\* A sink that is still connecting, and the watch on its first attempt.
LEMMA Connecting ==
  ASSUME ProgramOK, NEW h \in Handle, watches[h]["connect_cb"] > 0
  PROVE  /\ h = 1 /\ watches[1]["connect_cb"] = 1
         /\ role = "sink" /\ ~timer /\ broker
         /\ callers = 0 /\ serial = 0 /\ connection = 0
         /\ network.handle \in Handle
         /\ network.handle = network.aptr /\ network.aptr <= network.addresses
         /\ \A k \in Handle : sock[k] = "free" <=> k > network.handle
         /\ \A k \in Handle : /\ watches[k]["listen_cb"] = 0 /\ watches[k]["receive_cb"] = 0
                              /\ k # 1 => watches[k]["connect_cb"] = 0
<1>1. ~Unwatched("connect_cb")
  BY DEF Unwatched
<1>2. role = "sink" /\ SinkSockets
  BY <1>1 DEF ProgramOK, SourceSockets
<1>3. /\ connection = 0 /\ callers = 0 /\ serial = 0
      /\ network.handle = network.aptr /\ network.aptr <= network.addresses
      /\ \A k \in Handle : sock[k] = "free" <=> k > network.handle
      /\ \A k \in Handle : watches[k]["connect_cb"] = IF k = 1 THEN 1 ELSE 0
      /\ Unwatched("listen_cb") /\ Unwatched("receive_cb")
  BY <1>1, <1>2 DEF SinkSockets, ProgramOK
<1>4. 1 \in Handle
  BY NetworkAssumption DEF Handle
<1>5. ~timer
  <2>1. watches # NoWatches
    BY <1>3, <1>4 DEF NoWatches, Callback
  <2> QED
    BY <1>2, <2>1 DEF SinkSockets
<1>6. network.handle \in Handle
  BY <1>3 DEF ProgramOK, Network, Handle
<1>7. broker
  BY <1>6 DEF ProgramOK, Handle
<1> QED
  BY <1>2, <1>3, <1>4, <1>5, <1>6, <1>7 DEF Unwatched

\* A sink gets its connection: connect_cb's watch is gone, and receive_cb's is
\* there.
LEMMA SinkConnected ==
  ASSUME ProgramOK, NEW h \in Handle, watches[h]["connect_cb"] > 0,
         NEW n \in Handle, sock'[n] \in Connected \union {"gone"},
         sock' \in [Handle -> SocketState],
         connection' = n, serial' = serial + 1, network' = NoNetwork, send_buf' = << >>,
         watches' = Add(Remove(watches, h, "connect_cb"), n, "receive_cb"),
         UNCHANGED <<role, phase, input, timer, broker, callers>>
  PROVE  ProgramOK'
<1>1. /\ h = 1 /\ watches[1]["connect_cb"] = 1
      /\ role = "sink" /\ ~timer /\ broker
      /\ callers = 0 /\ serial = 0
      /\ \A k \in Handle : /\ watches[k]["listen_cb"] = 0
                           /\ k # 1 => watches[k]["connect_cb"] = 0
  BY Connecting
<1> DEFINE w == Remove(watches, h, "connect_cb")
<1>2. /\ w \in WatchCount
      /\ \A k \in Handle, c \in Callback :
           w[k][c] = IF k = h /\ c = "connect_cb" THEN watches[k][c] - 1 ELSE watches[k][c]
  <2>1. watches \in WatchCount /\ "connect_cb" \in Callback
    BY DEF ProgramOK, Callback
  <2> QED
    BY <2>1, Removed
<1> HIDE DEF w
<1>3. /\ watches' \in WatchCount
      /\ \A k \in Handle, c \in Callback :
           watches'[k][c] = IF k = n /\ c = "receive_cb" THEN w[k][c] + 1 ELSE w[k][c]
  <2>1. "receive_cb" \in Callback
    BY DEF Callback
  <2>2. watches' = Add(w, n, "receive_cb")
    BY DEF w
  <2> QED
    BY <1>2, <2>1, <2>2, Added
<1>4. Unwatched("listen_cb")' /\ Unwatched("connect_cb")'
  BY <1>1, <1>2, <1>3 DEF Unwatched, Callback
<1>5. watches'[n]["receive_cb"] > 0
  <2>1. w[n]["receive_cb"] \in Nat
    BY <1>2 DEF WatchCount, Callback
  <2> QED
    BY <1>3, <2>1 DEF Callback
<1>6. n # 0 /\ n \in 0 .. MaxHandles /\ NoNetwork \in Network
  BY NetworkAssumption DEF Handle, NoNetwork, Network
<1>7. OpenConnectionIsWatched' /\ FirstAttemptIsWatched'
  BY <1>5, <1>6 DEF OpenConnectionIsWatched, FirstAttemptIsWatched
<1>8. SinkSockets'
  BY <1>1, <1>4, <1>6 DEF SinkSockets
<1> QED
  BY <1>1, <1>3, <1>6, <1>7, <1>8 DEF ProgramOK

\* A sink stays without a connection, and its first attempt is over.
LEMMA SinkGivesUp ==
  ASSUME ProgramOK, NEW h \in Handle, watches[h]["connect_cb"] > 0,
         network' \in Network, network'.handle # 0,
         FirstAttemptIsWatched',
         sock' \in [Handle -> SocketState],
         watches' = Remove(watches, h, "connect_cb"),
         UNCHANGED <<role, phase, input, timer, broker, callers, connection, serial>>
  PROVE  ProgramOK'
<1>1. /\ h = 1 /\ watches[1]["connect_cb"] = 1
      /\ role = "sink" /\ ~timer /\ broker
      /\ callers = 0 /\ serial = 0 /\ connection = 0
      /\ \A k \in Handle : /\ watches[k]["listen_cb"] = 0 /\ watches[k]["receive_cb"] = 0
                           /\ k # 1 => watches[k]["connect_cb"] = 0
  BY Connecting
<1>2. /\ watches' \in WatchCount
      /\ \A k \in Handle, c \in Callback :
           watches'[k][c] = IF k = h /\ c = "connect_cb" THEN watches[k][c] - 1 ELSE watches[k][c]
  <2>1. watches \in WatchCount /\ "connect_cb" \in Callback
    BY DEF ProgramOK, Callback
  <2> QED
    BY <2>1, Removed
<1>3. Unwatched("listen_cb")' /\ Unwatched("connect_cb")' /\ Unwatched("receive_cb")'
  BY <1>1, <1>2 DEF Unwatched, Callback
<1>4. OpenConnectionIsWatched'
  BY <1>1 DEF OpenConnectionIsWatched, Is
<1>5. SinkSockets'
  BY <1>1, <1>3 DEF SinkSockets
<1> QED
  BY <1>1, <1>2, <1>3, <1>4, <1>5 DEF ProgramOK

LEMMA ConnectCallbackKeepsSockets ==
  ASSUME ProgramOK, NEW h \in Handle, ConnectCallback(h)
  PROVE  ProgramOK'
<1>1. /\ watches[h]["connect_cb"] > 0 /\ sock[h] # "connecting"
      /\ UNCHANGED <<role, phase, input, timer, broker, callers>>
  BY DEF ConnectCallback, Dispatched, process
<1>2. /\ h = 1 /\ role = "sink" /\ ~timer /\ broker
      /\ callers = 0 /\ serial = 0 /\ connection = 0
      /\ network.handle \in Handle
      /\ network.handle = network.aptr /\ network.aptr <= network.addresses
      /\ \A k \in Handle : sock[k] = "free" <=> k > network.handle
      /\ \A k \in Handle : /\ watches[k]["listen_cb"] = 0 /\ watches[k]["receive_cb"] = 0
                           /\ k # 1 => watches[k]["connect_cb"] = 0
      /\ watches[1]["connect_cb"] = 1
  BY <1>1, Connecting
<1> DEFINE i == network.handle
<1>3. sock \in [Handle -> SocketState] /\ network \in Network /\ i \in Nat \ {0}
  BY <1>2 DEF ProgramOK, Handle
<1>4. PICK end \in ConnectAgain(sock, network) :
        /\ sock' = end.sock
        /\ \/ /\ end.result = "true"
              /\ "known" \in PeerAddress(sock'[end.net.handle])
              /\ NextConnection(end.net.handle)
              /\ network' = NoNetwork
              /\ EmptyBuffers(Add(ConnectWatch(h, end.result), end.net.handle, "receive_cb"))
           \/ /\ end.result = "true" => "throws" \in PeerAddress(sock'[end.net.handle])
              /\ network' = end.net
              /\ watches' = ConnectWatch(h, end.result)
              /\ UNCHANGED <<connection, serial, sending, reading>>
  BY DEF ConnectCallback
<1> DEFINE n == end.net.handle
           made == /\ end.result = "true"
                   /\ "known" \in PeerAddress(sock'[n])
                   /\ NextConnection(n)
                   /\ network' = NoNetwork
                   /\ EmptyBuffers(Add(ConnectWatch(h, end.result), n, "receive_cb"))
           unmade == /\ end.result = "true" => "throws" \in PeerAddress(sock'[n])
                     /\ network' = end.net
                     /\ watches' = ConnectWatch(h, end.result)
                     /\ UNCHANGED <<connection, serial>>
<1>5. sock' = end.sock /\ (made \/ unmade)
  BY <1>4
<1>6. ASSUME made, n \in Handle, sock' \in [Handle -> SocketState]
      PROVE  ProgramOK'
  <2>1. sock'[n] \in Connected \union {"gone"}
    BY <1>6 DEF PeerAddress
  <2>2. watches' = Add(Remove(watches, h, "connect_cb"), n, "receive_cb")
    BY <1>6 DEF EmptyBuffers, ConnectWatch
  <2>3. connection' = n /\ serial' = serial + 1 /\ send_buf' = << >>
    BY <1>6 DEF NextConnection, EmptyBuffers
  <2> QED
    BY <1>1, <1>6, <2>1, <2>2, <2>3, SinkConnected
<1>7. SameAttempt(sock, network, end) \/ LastAttempt(sock, network, end)
      \/ NextAttempt(sock, network, end)
  BY <1>2, <1>3, ConnectOutcome
<1>8. n \in Handle /\ sock' \in [Handle -> SocketState] /\ end.net \in Network /\ n # 0
  <2>1. {"open", "connecting", "idle"} \subseteq SocketState /\ 0 \notin Handle
    BY DEF SocketState, Handle
  <2>2. CASE SameAttempt(sock, network, end)
    BY <1>2, <1>3, <1>5, <2>1, <2>2 DEF SameAttempt
  <2>3. CASE LastAttempt(sock, network, end)
    BY <1>2, <1>3, <1>5, <2>1, <2>3 DEF LastAttempt
  <2>4. CASE NextAttempt(sock, network, end)
    <3>1. sock' \in [Handle -> SocketState]
      BY <1>3, <1>5, <2>1, <2>4 DEF NextAttempt
    <3> QED
      BY <2>1, <2>4, <3>1 DEF NextAttempt
  <2> QED
    BY <1>7, <2>2, <2>3, <2>4
<1>9. CASE unmade /\ end.result # "false"
  <2>1. watches' = Remove(watches, h, "connect_cb")
    BY <1>9 DEF ConnectWatch
  <2>2. FirstAttemptIsWatched'
    <3>1. CASE SameAttempt(sock, network, end)
      <4>1. network' = network /\ sock' = sock
        BY <1>5, <1>9, <3>1 DEF SameAttempt
      <4>2. "throws" \in PeerAddress(sock[network.handle])
        BY <1>5, <1>9, <3>1 DEF SameAttempt
      <4>3. network.aptr = 1 => sock[network.handle] \notin {"connecting"} \union Connected
        BY <1>1, <1>2, <4>2 DEF PeerAddress, Connected
      <4> QED
        BY <4>1, <4>3 DEF FirstAttemptIsWatched
    <3>2. CASE end.net.aptr = network.aptr + 1
      <4>1. network'.aptr # 1
        BY <1>2, <1>3, <1>9, <3>2
      <4> QED
        BY <4>1 DEF FirstAttemptIsWatched
    <3> QED
      BY <1>7, <3>1, <3>2 DEF LastAttempt, NextAttempt
  <2> QED
    BY <1>1, <1>8, <1>9, <2>1, <2>2, SinkGivesUp
<1>10. CASE unmade /\ end.result = "false"
  <2>1. watches' = watches /\ network' = end.net
    BY <1>10 DEF ConnectWatch
  <2>2. /\ i + 1 \in Handle
        /\ network'.handle = i + 1 /\ network'.aptr = network.aptr + 1
        /\ network'.aptr <= network'.addresses
    BY <1>7, <1>10 DEF SameAttempt, LastAttempt, NextAttempt
  <2>3. \E state \in {"open", "connecting", "idle"} :
           sock' = [[sock EXCEPT ![i] = "idle"] EXCEPT ![i + 1] = state]
    BY <1>5, <1>7, <1>10 DEF SameAttempt, LastAttempt, NextAttempt
  <2>4. \A k \in Handle : sock'[k] = "free" <=> k > i + 1
    BY <1>2, <1>3, <2>2, <2>3 DEF Handle
  <2>5. network'.aptr # 1 /\ network'.aptr = network'.handle /\ network'.handle # 0
    BY <1>2, <1>3, <2>2
  <2>6. OpenConnectionIsWatched' /\ FirstAttemptIsWatched'
    BY <1>2, <1>10, <2>5 DEF OpenConnectionIsWatched, FirstAttemptIsWatched, Is
  <2>7. SinkSockets'
    BY <1>1, <1>2, <1>10, <2>1, <2>2, <2>4, <2>5 DEF SinkSockets, Unwatched
  <2>8. role' = "sink" /\ connection' = 0 /\ broker' = TRUE
    BY <1>1, <1>2, <1>10 DEF ProgramOK
  <2>9. Unwatched("receive_cb")'
    BY <1>2, <2>1 DEF Unwatched
  <2> QED
    BY <1>1, <1>8, <1>10, <2>1, <2>5, <2>6, <2>7, <2>8, <2>9 DEF ProgramOK
<1> HIDE DEF made, unmade
<1> QED
  BY <1>5, <1>6, <1>8, <1>9, <1>10

\* The constructor of the sink's broker opens the first socket and watches it.
LEMMA CreateSinkKeepsSockets ==
  ASSUME ProgramOK, CreateSink
  PROVE  ProgramOK'
<1>1. /\ timer
      /\ UNCHANGED <<role, phase, input, connection, callers, serial, send_buf>>
  BY DEF CreateSink, sending
<1>2. role = "sink" /\ SinkSockets
  BY <1>1 DEF ProgramOK, SourceSockets
<1>3. /\ ~broker /\ sock = AllFree /\ network = NoNetwork /\ watches = NoWatches
      /\ connection = 0 /\ serial = 0 /\ callers = 0
  <2>1. ~broker /\ sock = AllFree /\ network = NoNetwork /\ watches = NoWatches /\ callers = 0
    BY <1>1, <1>2 DEF SinkSockets
  <2>2. connection = 0
    BY <2>1 DEF ProgramOK
  <2> QED
    BY <1>2, <2>1, <2>2 DEF SinkSockets
<1>4. PICK end \in Connect(sock) :
        IF end.result = "throws"
        THEN UNCHANGED <<timer, broker, sock, network, watches>>
        ELSE /\ timer' = FALSE
             /\ broker' = TRUE
             /\ sock' = end.sock
             /\ network' = end.net
             /\ watches' = FirstWatch(watches, end.net.handle, end.result)
  BY DEF CreateSink
<1>5. 1 \in Handle /\ \A h \in Handle : 1 <= h /\ h \in Nat
  BY NetworkAssumption DEF Handle
<1>6. NewHandle(sock) = 1
  <2>1. \A h \in Handle : sock[h] = "free"
    BY <1>3 DEF AllFree
  <2> QED
    BY <1>5, <2>1, NewHandleIs
<1>7. CASE end.result = "throws"
  BY <1>1, <1>4, <1>7
  DEF ProgramOK, OpenConnectionIsWatched, FirstAttemptIsWatched, SinkSockets, SourceSockets,
      Unwatched, Is
<1>8. CASE end.result # "throws"
  <2>1. PICK a \in 0 .. MaxAddresses : end \in ConnectTo(sock, [NoNetwork EXCEPT !.addresses = a])
    BY DEF Connect
  <2> DEFINE net == [handle |-> 0, addresses |-> a, aptr |-> 1]
  <2>2. end \in ConnectTo(sock, net)
    <3>1. [NoNetwork EXCEPT !.addresses = a] = net
      BY DEF NoNetwork
    <3> QED
      BY <2>1, <3>1
  <2>3. ~(net.aptr > net.addresses)
    <3>1. SUFFICES ASSUME net.aptr > net.addresses
                   PROVE  FALSE
      OBVIOUS
    <3>2. end = [result |-> "throws", sock |-> sock, net |-> net]
      BY <2>2, <3>1 DEF ConnectTo
    <3> QED
      BY <1>8, <3>2
  <2>4. PICK e \in {<<"true", "open">>, <<"false", "connecting">>, <<"throws", "idle">>} :
          end = [result |-> e[1], sock |-> [sock EXCEPT ![1] = e[2]],
                 net |-> [net EXCEPT !.handle = 1]]
    <3> HIDE DEF net
    <3>1. end \in {[result |-> e[1], sock |-> [sock EXCEPT ![1] = e[2]],
                    net |-> [net EXCEPT !.handle = 1]] :
                     e \in {<<"true", "open">>, <<"false", "connecting">>, <<"throws", "idle">>}}
      BY <1>6, <2>2, <2>3 DEF ConnectTo
    <3> QED
      BY <3>1, Zenon
  <2>5. /\ sock' = [sock EXCEPT ![1] = e[2]]
        /\ network' = [handle |-> 1, addresses |-> a, aptr |-> 1]
        /\ end.net.handle = 1 /\ end.result = e[1]
        /\ ~timer' /\ timer' \in BOOLEAN /\ broker' = TRUE
        /\ watches' = FirstWatch(watches, 1, e[1])
    BY <1>4, <1>8, <2>4
  <2>6. a \in Nat /\ 1 <= a /\ network' \in Network
    BY <1>5, <2>3, <2>5, NetworkAssumption, ProgramAssumption DEF Network, Handle
  <2>7. /\ \A h \in Handle : sock'[h] = IF h = 1 THEN e[2] ELSE "free"
        /\ sock' \in [Handle -> SocketState]
        /\ \/ e[1] = "true" /\ e[2] = "open"
           \/ e[1] = "false" /\ e[2] = "connecting"
    BY <1>3, <1>5, <1>8, <2>4, <2>5 DEF AllFree, SocketState
  <2> DEFINE callback == IF e[1] = "true" THEN "send_cb" ELSE "connect_cb"
  <2>8. /\ watches' \in WatchCount
        /\ \A k \in Handle, c \in Callback :
             watches'[k][c] = IF k = 1 /\ c = callback THEN 1 ELSE 0
    <3>1. watches \in WatchCount /\ callback \in Callback
      BY DEF ProgramOK, Callback
    <3>2. watches' = Add(watches, 1, callback)
      BY <2>5 DEF FirstWatch
    <3>3. \A k \in Handle, c \in Callback : watches[k][c] = 0
      BY <1>3 DEF NoWatches
    <3> HIDE DEF callback
    <3> QED
      BY <1>5, <3>1, <3>2, <3>3, Added
  <2>9. callback \in {"send_cb", "connect_cb"}
    OBVIOUS
  <2> HIDE DEF callback
  <2>10. Unwatched("listen_cb")' /\ Unwatched("receive_cb")'
    BY <2>8, <2>9 DEF Unwatched, Callback
  <2>11. OpenConnectionIsWatched'
    BY <1>1, <1>3 DEF OpenConnectionIsWatched, Is
  <2>12. FirstAttemptIsWatched'
    <3>1. network'.handle = 1 /\ watches'[1][callback] = 1
      BY <1>5, <2>5, <2>8, <2>9 DEF Callback
    <3> QED
      BY <2>9, <3>1 DEF FirstAttemptIsWatched
  <2>13. \A h \in Handle : watches'[h]["connect_cb"] \in {0, IF h = 1 THEN 1 ELSE 0}
    BY <2>8 DEF Callback
  <2>14. (\E h \in Handle : watches'[h]["connect_cb"] # 0) =>
           \A h \in Handle : watches'[h]["connect_cb"] = IF h = 1 THEN 1 ELSE 0
    BY <1>5, <2>13
  <2>15. /\ network'.handle = 1 /\ network'.aptr = 1 /\ network'.aptr <= network'.addresses
         /\ \A h \in Handle : sock'[h] = "free" <=> h > network'.handle
    BY <1>5, <2>5, <2>6, <2>7
  <2>16. SinkSockets'
    BY <1>1, <1>3, <2>5, <2>10, <2>14, <2>15 DEF SinkSockets, Unwatched
  <2> QED
    BY <1>1, <1>2, <1>3, <2>5, <2>6, <2>7, <2>8, <2>10, <2>11, <2>12, <2>15, <2>16 DEF ProgramOK
<1> QED
  BY <1>7, <1>8

LEMMA SocketsStep ==
  ASSUME ProgramOK, SendingOK, [Next]_vars
  PROVE  ProgramOK'
<1>1. ASSUME NEW h \in Handle, PeerAnswers(h) \/ PeerLeaves(h) \/ PeerReads(h)
      PROVE  ProgramOK'
  BY <1>1, NetworkKeepsSockets
<1>2. ASSUME NEW h \in Handle, ListenCallback(h)
      PROVE  ProgramOK'
  BY <1>2, ListenCallbackKeepsSockets
<1>3. ASSUME NEW h \in Handle, AcceptFails(h)
      PROVE  ProgramOK'
  BY <1>3, AcceptFailsKeepsSockets
<1>4. ASSUME NEW h \in Handle, ConnectCallback(h)
      PROVE  ProgramOK'
  BY <1>4, ConnectCallbackKeepsSockets
<1>5. ASSUME NEW h \in Handle, SendCallback(h)
      PROVE  ProgramOK'
  BY <1>5, SendCallbackKeepsSockets
<1>6. ASSUME NEW h \in Handle, SendCallbackWithoutConnection(h)
      PROVE  ProgramOK'
  <2>1. input \in BOOLEAN
    BY DEF ProgramOK
  <2> QED
    BY <1>6, <2>1, SocketsUnchanged DEF SendCallbackWithoutConnection, sending
<1>7. ASSUME NEW h \in Handle, ReceiveThrows(h)
      PROVE  ProgramOK'
  BY <1>7, ReceiveThrowsKeepsSockets
<1>8. ASSUME NEW h \in Handle, HandleHeader(h) \/ HandleBody(h)
      PROVE  ProgramOK'
  <2>1. /\ UNCHANGED <<role, phase, input, timer, broker, network, connection, callers, serial>>
        /\ MayReply \/ UNCHANGED <<sock, sending, watches>>
        /\ watches[h]["receive_cb"] > 0
    BY <1>8 DEF HandleHeader, HandleBody, Receives, process, Dispatched
  <2>2. connection # 0
    BY <2>1 DEF ProgramOK, Unwatched
  <2>3. CASE UNCHANGED <<sock, sending, watches>>
    <3>1. input \in BOOLEAN
      BY DEF ProgramOK
    <3> QED
      BY <2>1, <2>3, <3>1, SocketsUnchanged DEF sending
  <2>4. ASSUME NEW ok, Post(sock, connection, send_buf, posted, accepted, watches, ok)
        PROVE  ProgramOK'
    BY <2>1, <2>2, <2>4, PostKeepsWatches
  <2> QED
    BY <2>1, <2>3, <2>4 DEF MayReply
<1>9. ASSUME Command
      PROVE  ProgramOK'
  <2>1. UNCHANGED <<role, input, timer, broker, network, connection, callers, serial>>
    BY <1>9 DEF Command
  <2>2. CASE phase' = "aborted" /\ UNCHANGED <<sock, sending, watches>>
    <3>1. input \in BOOLEAN
      BY DEF ProgramOK
    <3> QED
      BY <2>1, <2>2, <3>1, SocketsUnchanged DEF sending
  <2>3. ASSUME connection # 0, NEW ok,
               Post(sock, connection, send_buf, posted, accepted, watches, ok),
               phase' = IF ok THEN phase ELSE "aborted"
        PROVE  ProgramOK'
    BY <2>1, <2>3, PostKeepsWatches
  <2> QED
    BY <1>9, <2>2, <2>3 DEF Command
<1>10. ASSUME PeerConnects
       PROVE  ProgramOK'
  BY <1>10, PeerConnectsKeepsSockets
<1>11. ASSUME CreateSink
       PROVE  ProgramOK'
  BY <1>11, CreateSinkKeepsSockets
<1>12. ASSUME InputFails \/ Signal \/ UNCHANGED vars
       PROVE  ProgramOK'
  <2>1. input \in BOOLEAN
    BY DEF ProgramOK
  <2> QED
    BY <1>12, <2>1, SocketsUnchanged DEF InputFails, Signal, vars, process, sending
<1> QED
  BY <1>1, <1>2, <1>3, <1>4, <1>5, <1>6, <1>7, <1>8, <1>9, <1>10, <1>11, <1>12
  DEF Next, MainLoop

LEMMA InitSockets ==
  ASSUME Init
  PROVE  ProgramOK
<1>1. 1 \in Handle /\ \A h \in Handle : h # 0 /\ 1 <= h
  BY NetworkAssumption DEF Handle
<1>2. /\ role \in {"sink", "source"} /\ input = TRUE /\ connection = 0 /\ send_buf = << >>
      /\ callers = 0 /\ serial = 0
      /\ role = "sink" => InitSink
      /\ role = "source" => InitSource
  BY DEF Init
<1>3. /\ NoWatches \in WatchCount
      /\ \A k \in Handle, c \in Callback : NoWatches[k][c] = 0
      /\ AllFree \in [Handle -> SocketState]
      /\ \A k \in Handle : AllFree[k] = "free"
      /\ NoNetwork \in Network /\ NoNetwork.handle = 0
      /\ 0 \in 0 .. MaxHandles
  BY NetworkAssumption
  DEF NoWatches, WatchCount, AllFree, SocketState, NoNetwork, Network
<1>4. CASE role = "sink"
  <2>1. /\ phase = "loop" /\ timer = TRUE /\ broker = FALSE
        /\ sock = AllFree /\ network = NoNetwork /\ watches = NoWatches
    BY <1>2, <1>4 DEF InitSink
  <2>2. \A c \in Callback : Unwatched(c)
    BY <1>3, <2>1 DEF Unwatched
  <2>3. Unwatched("listen_cb") /\ Unwatched("connect_cb") /\ Unwatched("receive_cb")
    BY <2>2 DEF Callback
  <2>4. OpenConnectionIsWatched /\ FirstAttemptIsWatched
    BY <1>2, <2>1 DEF OpenConnectionIsWatched, FirstAttemptIsWatched, Is
  <2>5. SinkSockets
    BY <1>2, <2>1, <2>3 DEF SinkSockets
  <2> QED
    BY <1>2, <1>3, <1>4, <2>1, <2>3, <2>4, <2>5 DEF ProgramOK
<1>5. CASE role = "source"
  <2>1. NewHandle(AllFree) = 1
    BY <1>1, <1>3, NewHandleIs
  <2>2. PICK listens \in BOOLEAN :
          /\ phase = IF listens THEN "loop" ELSE "exited"
          /\ timer = FALSE
          /\ broker = listens
          /\ sock = IF listens THEN [AllFree EXCEPT ![1] = "listening"] ELSE AllFree
          /\ network = [NoNetwork EXCEPT !.handle = IF listens THEN 1 ELSE 0]
          /\ watches = IF listens THEN Add(NoWatches, 1, "listen_cb") ELSE NoWatches
    <3>1. PICK addresses :
            LET bound == Bind(AllFree, addresses)
                listens == bound.result = "listening"
                h == NewHandle(AllFree)
            IN  /\ phase = IF listens THEN "loop" ELSE "exited"
                /\ timer = FALSE
                /\ broker = listens
                /\ sock = bound.sock
                /\ network = [NoNetwork EXCEPT !.handle = IF listens THEN h ELSE 0]
                /\ watches = IF listens THEN Add(NoWatches, h, "listen_cb") ELSE NoWatches
      BY <1>2, <1>5 DEF InitSource
    <3>2. CASE CanBind(addresses)
      <4>1. /\ Bind(AllFree, addresses).result = "listening"
            /\ Bind(AllFree, addresses).sock = [AllFree EXCEPT ![1] = "listening"]
        BY <2>1, <3>2 DEF Bind
      <4> QED
        BY <2>1, <3>1, <4>1
    <3>3. CASE ~CanBind(addresses)
      <4>1. /\ Bind(AllFree, addresses).result = "throws"
            /\ Bind(AllFree, addresses).sock = AllFree
        BY <3>3 DEF Bind
      <4> QED
        BY <2>1, <3>1, <4>1
    <3> QED
      BY <3>2, <3>3
  <2>3. /\ watches \in WatchCount
        /\ Unwatched("connect_cb") /\ Unwatched("receive_cb")
    <3>1. "listen_cb" \in Callback
      BY DEF Callback
    <3>2. /\ Add(NoWatches, 1, "listen_cb") \in WatchCount
          /\ \A k \in Handle, c \in Callback :
               Add(NoWatches, 1, "listen_cb")[k][c] =
                 IF k = 1 /\ c = "listen_cb" THEN NoWatches[k][c] + 1 ELSE NoWatches[k][c]
      BY <1>1, <1>3, <3>1, Added
    <3> QED
      BY <1>3, <2>2, <3>2 DEF Unwatched, Callback
  <2>4. /\ network \in Network
        /\ network.handle = IF listens THEN 1 ELSE 0
    <3>1. network = [handle |-> IF listens THEN 1 ELSE 0, addresses |-> 0, aptr |-> 1]
      BY <2>2 DEF NoNetwork
    <3> QED
      BY <3>1, NetworkAssumption DEF Network
  <2>5. /\ sock \in [Handle -> SocketState]
        /\ listens => sock[1] = "listening"
        /\ \A h \in Handle \ {1} : sock[h] = "free"
    <3>1. "listening" \in SocketState
      BY DEF SocketState
    <3> QED
      BY <1>1, <1>3, <2>2, <3>1
  <2>6. OpenConnectionIsWatched /\ FirstAttemptIsWatched
    BY <1>2, <1>5 DEF OpenConnectionIsWatched, FirstAttemptIsWatched, Is
  <2>7. SourceSockets
    BY <1>2, <2>2, <2>3, <2>4, <2>5, ProgramAssumption DEF SourceSockets
  <2>8. input \in BOOLEAN /\ timer \in BOOLEAN /\ broker \in BOOLEAN
    BY <1>2, <2>2
  <2>9. phase \in {"loop", "exited", "aborted"}
    BY <2>2
  <2>10. broker <=> network.handle # 0 \/ connection # 0
    <3>1. CASE listens
      BY <1>2, <2>2, <2>4, <3>1
    <3>2. CASE ~listens
      BY <1>2, <2>2, <2>4, <3>2
    <3> QED
      BY <3>1, <3>2
  <2> QED
    BY <1>2, <1>3, <1>5, <2>3, <2>4, <2>5, <2>6, <2>7, <2>8, <2>9, <2>10 DEF ProgramOK
<1> QED
  BY <1>2, <1>4, <1>5

LEMMA InitSending ==
  ASSUME Init
  PROVE  SendingOK
<1>1. << >> \in Seq(Number) /\ << >> \o << >> = << >>
  BY EmptySeq, ConcatEmptySeq
<1> QED BY <1>1, ProgramAssumption DEF Init, SendingOK, NothingLostOrRepeated

\* The three parts of what is inductive.
ProgramInv == SendingOK /\ ReadingOK /\ ProgramOK

\* The inductive invariant of a program: its buffers, its headers and its
\* sockets.
THEOREM ProgramKept == Spec => []ProgramInv
<1>1. Init => ProgramInv
  BY InitSending, InitSockets DEF ProgramInv, Init, ReadingOK, StaleHeaderMisreadOnce
<1>2. ProgramInv /\ [Next]_vars => ProgramInv'
  BY SendingStep, ReadingStep, SocketsStep DEF ProgramInv
<1> QED BY <1>1, <1>2, PTL DEF Spec

(***************************************************************************)
(* The variables keep their types: a broker has a connection or a network_ *)
(* with a socket, connection_ is a socket that has been open, and nothing  *)
(* else is read (constructors and callbacks of MiracBroker).               *)
(***************************************************************************)
THEOREM TypeCorrect == Spec => []TypeOK
<1>1. ASSUME ProgramInv
      PROVE  TypeOK
  <2>1. /\ role \in {"sink", "source"} /\ phase \in {"loop", "exited", "aborted"}
        /\ {input, timer, broker} \subseteq BOOLEAN
        /\ sock \in [Handle -> SocketState] /\ network \in Network
        /\ connection \in 0 .. MaxHandles
        /\ watches \in [Handle -> [Callback -> Nat]]
        /\ broker <=> network.handle # 0 \/ connection # 0
        /\ connection # 0 => sock[connection] \in Connected \union {"gone"}
        /\ connection = 0 => \A h \in Handle : watches[h]["receive_cb"] = 0
    BY <1>1 DEF ProgramInv, ProgramOK, WatchCount, Unwatched
  <2>2. {posted, accepted, send_buf} \subseteq Seq(1 .. MaxMessages)
    BY <1>1 DEF ProgramInv, SendingOK, Number
  <2>3. message_ \in 0 .. serial
    BY <1>1 DEF ProgramInv, ReadingOK
  <2>4. serial \in Nat /\ serial <= MaxConnections + 1
    BY <1>1, ProgramAssumption DEF ProgramInv, ProgramOK, SinkSockets, SourceSockets
  <2>5. serial \in 0 .. (MaxConnections + 1)
    BY <2>4, ProgramAssumption
  <2> QED
    BY <2>1, <2>2, <2>3, <2>5 DEF TypeOK
<1> QED BY <1>1, ProgramKept, PTL

(***************************************************************************)
(* However many watches lost connections have left behind, and whichever   *)
(* handles the kernel gives out again: an open connection is watched for   *)
(* reading, and for writing while something is unsent (listen_cb,          *)
(* connect_cb, receive_cb, send_cb and send of MiracBroker).               *)
(***************************************************************************)
THEOREM OpenConnectionsAreWatched == Spec => []OpenConnectionIsWatched
<1>1. ProgramInv => OpenConnectionIsWatched
  BY DEF ProgramInv, ProgramOK
<1> QED BY <1>1, ProgramKept, PTL

(***************************************************************************)
(* As long as the attempt at the first address of a sink has not been      *)
(* refused there is a watch on its socket (the constructor of MiracBroker, *)
(* connect_cb).  The attempts at later addresses have none.                *)
(***************************************************************************)
THEOREM FirstAttemptsAreWatched == Spec => []FirstAttemptIsWatched
<1>1. ProgramInv => FirstAttemptIsWatched
  BY DEF ProgramInv, ProgramOK
<1> QED BY <1>1, ProgramKept, PTL
=============================================================================
