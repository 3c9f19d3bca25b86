----------------------------- MODULE MiracProgram -----------------------------
(***************************************************************************)
(* A sink or source program: its main(), the connection its MiracBroker    *)
(* makes, loses and makes again, and the watches that call the broker      *)
(* back.  What the program says over the connection is left to modules     *)
(* WfdSession (when) and MiracBroker (how a stream is cut into messages);  *)
(* here messages have numbers and are made of two pieces each.             *)
(***************************************************************************)
EXTENDS MiracNetwork

CONSTANTS
  MaxConnections,  \* bound: sinks that connect to a source
  MaxMessages      \* bound: messages the program sends

\* A process does not run out of handles: a source has three sockets at most,
\* a sink one for each address.
ASSUME ProgramAssumption ==
  /\ MaxConnections \in Nat
  /\ MaxMessages \in Nat
  /\ MaxHandles >= 3 /\ MaxHandles >= MaxAddresses

Callback == {"listen_cb", "connect_cb", "receive_cb", "send_cb"}

VARIABLES
  role,        \* which program this is
  phase,       \* in the main loop, exited, or aborted
  input,       \* the watch on the standard input is installed
  timer,       \* the timeout that calls create_sink is installed
  broker,      \* sink, or source, is not null
  sock,        \* the sockets of the process
  network,     \* network_ of the broker
  connection,  \* the handle of connection_, 0 for NULL
  send_buf,    \* send_buf of connection_
  message_,    \* message_ waits for its body: the connection of the header
  watches,     \* how many times a callback watches a handle
  callers,     \* connections that wait to be accepted
  serial,      \* connections made so far
  sent,        \* messages sent so far
  posted,      \* pieces of the messages sent over the current connection
  accepted,    \* pieces the kernel has taken from it
  halves,      \* connections replaced before the body of their last header
  misread      \* <<c, d>>: a body for a header of c was taken out of d

process == <<role, phase, input, timer, broker>>
sending == <<send_buf, sent, posted, accepted>>
reading == <<message_, halves, misread>>
vars == <<process, sock, network, connection, sending, reading, watches,
          callers, serial>>

Add(w, h, callback) == [w EXCEPT ![h][callback] = @ + 1]
Remove(w, h, callback) == [w EXCEPT ![h][callback] = @ - 1]

NoWatches == [h \in Handle |-> [callback \in Callback |-> 0]]
AllFree == [h \in Handle |-> "free"]

\* main() of the sink installs a timeout; that of the source creates its
\* MiracSource at once, and ends if that fails.
InitSink ==
  /\ phase = "loop"
  /\ timer = TRUE
  /\ broker = FALSE
  /\ sock = AllFree
  /\ network = NoNetwork
  /\ watches = NoWatches

InitSource ==
  \E n \in 0 .. MaxAddresses : \E addresses \in [1 .. n -> Address] :
    LET bound == Bind(AllFree, addresses)
        listens == bound.result = "listening"
        h == NewHandle(AllFree)
    IN  /\ phase = IF listens THEN "loop" ELSE "exited"
        /\ timer = FALSE
        /\ broker = listens
        /\ sock = bound.sock
        /\ network = [NoNetwork EXCEPT !.handle = IF listens THEN h ELSE 0]
        /\ watches = IF listens THEN Add(NoWatches, h, "listen_cb") ELSE NoWatches

Init ==
  /\ role \in {"sink", "source"}
  /\ IF role = "sink" THEN InitSink ELSE InitSource
  /\ input = TRUE
  /\ connection = 0
  /\ send_buf = << >> /\ posted = << >> /\ accepted = << >> /\ sent = 0
  /\ message_ = 0 /\ halves = {} /\ misread = {}
  /\ callers = 0 /\ serial = 0

-----------------------------------------------------------------------------
(* The network and the peer.                                               *)

NetworkChanges(h, before, after) ==
  /\ phase = "loop"
  /\ sock[h] = before
  /\ sock' = [sock EXCEPT ![h] = after]
  /\ UNCHANGED <<process, network, connection, sending, reading, watches,
                 callers, serial>>

PeerAnswers(h) ==
  \E answer \in {"open", "refused"} : NetworkChanges(h, "connecting", answer)

PeerLeaves(h) == \E state \in Connected : NetworkChanges(h, state, "gone")

\* The peer reads, and there is room again.
PeerReads(h) == NetworkChanges(h, "full", "open")

PeerConnects ==
  /\ phase = "loop"
  /\ role = "source"
  /\ serial + callers < MaxConnections
  /\ callers' = callers + 1
  /\ UNCHANGED <<process, sock, network, connection, sending, reading,
                 watches, serial>>

-----------------------------------------------------------------------------
(* Sending.                                                                *)

Pieces(m) == <<m, m>>

\* Mutant: Send forgets to erase what send() has taken.
RestAfterSendOfAll(buffer, taken) ==
  IF taken = Len(buffer) THEN << >> ELSE buffer

RestAfterSend(buffer, taken) == SubSeq(buffer, taken + 1, Len(buffer))

\* Mutant: send() adds no watch for the rest.
SendWithoutWatch(w, h, result) == w

WatchTheRest(w, h, result) == IF result = "false" THEN Add(w, h, "send_cb") ELSE w

\* MiracBroker::send, over connection h of the given sockets with the given
\* send_buf and history; ok is FALSE when it throws.
Post(sockets, h, buffer, before, taken, w, ok) ==
  LET whole == buffer \o Pieces(sent + 1)
  IN  \E end \in Send(sockets[h], Len(whole)) :
        /\ sent < MaxMessages
        /\ sent' = sent + 1
        /\ sock' = [sockets EXCEPT ![h] = end.state]
        /\ send_buf' = RestAfterSend(whole, end.taken)
        /\ posted' = before \o Pieces(sent + 1)
        /\ accepted' = taken \o SubSeq(whole, 1, end.taken)
        /\ watches' = WatchTheRest(w, h, end.result)
        /\ ok = (end.result # "throws")

\* The message that waits for its body is left behind by a new connection.
NextConnection(h) ==
  /\ connection' = h
  /\ serial' = serial + 1
  /\ halves' = IF message_ = serial /\ serial > 0 THEN halves \union {serial} ELSE halves
  /\ UNCHANGED <<message_, misread>>

EmptyBuffers(w) ==
  /\ send_buf' = << >> /\ posted' = << >> /\ accepted' = << >>
  /\ watches' = w
  /\ UNCHANGED sent

-----------------------------------------------------------------------------
(* The watches.  A handle that has been closed is reported as invalid,     *)
(* which calls the callback as well.                                       *)

Dispatched(h, callback) ==
  /\ phase = "loop"
  /\ watches[h][callback] > 0

\* listen_cb: connection_ is replaced, and the watches on the old one stay.
ListenCallback(h) ==
  /\ Dispatched(h, "listen_cb")
  /\ callers > 0
  /\ callers' = callers - 1
  /\ \E new \in Accept(sock) :
       LET sockets == Close(new.sock, connection)
       IN  \E peer \in PeerAddress(sockets[new.handle]) :
             LET w == IF peer = "known" THEN Add(watches, new.handle, "receive_cb") ELSE watches
             IN  /\ NextConnection(new.handle)
                 \* on_connected of the source sends M1; an exception ends there
                 /\ IF peer = "known"
                    THEN \E ok \in BOOLEAN :
                           Post(sockets, new.handle, << >>, << >>, << >>, w, ok)
                    ELSE sock' = sockets /\ EmptyBuffers(w)
  /\ UNCHANGED <<process, network>>

\* accept() fails: the caller has given up.
AcceptFails(h) ==
  /\ Dispatched(h, "listen_cb")
  /\ callers > 0
  /\ callers' = callers - 1
  /\ UNCHANGED <<process, sock, network, connection, sending, reading,
                 watches, serial>>

ConnectWatch(h, result) ==
  IF result = "false" THEN watches ELSE Remove(watches, h, "connect_cb")

\* connect_cb: on to the next address, connected, or given up.  A further
\* attempt has a new socket; the watch stays on the old one, which has failed
\* and is always ready.
ConnectCallback(h) ==
  /\ Dispatched(h, "connect_cb")
  /\ sock[h] # "connecting"
  /\ \E end \in ConnectAgain(sock, network) :
       /\ sock' = end.sock
       /\ LET w == ConnectWatch(h, end.result)
              new == end.net.handle
          IN  \/ /\ end.result = "true"
                 /\ "known" \in PeerAddress(sock'[new])
                 /\ NextConnection(new)
                 /\ network' = NoNetwork
                 /\ EmptyBuffers(Add(w, new, "receive_cb"))
              \/ /\ end.result = "true" => "throws" \in PeerAddress(sock'[new])
                 /\ network' = end.net
                 /\ watches' = w
                 /\ UNCHANGED <<connection, serial, sending, reading>>
  /\ UNCHANGED <<process, callers>>

\* send_cb, once its socket has room or has failed.  Without a connection it
\* goes through a null pointer.
SendCallback(h) ==
  /\ Dispatched(h, "send_cb")
  /\ connection # 0
  /\ sock[h] \notin {"connecting", "full"}
  /\ \E end \in Send(sock[connection], Len(send_buf)) :
       /\ sock' = [sock EXCEPT ![connection] = end.state]
       /\ send_buf' = RestAfterSend(send_buf, end.taken)
       /\ accepted' = accepted \o SubSeq(send_buf, 1, end.taken)
       /\ watches' = IF end.result = "false" THEN watches ELSE Remove(watches, h, "send_cb")
  /\ UNCHANGED <<process, network, connection, sent, posted, reading,
                 callers, serial>>

SendCallbackWithoutConnection(h) ==
  /\ Dispatched(h, "send_cb")
  /\ connection = 0
  /\ phase' = "aborted"
  /\ UNCHANGED <<role, input, timer, broker, sock, network, connection,
                 sending, reading, watches, callers, serial>>

\* The connection is lost: Receive throws, and the watch is removed.  The
\* socket stays, and so does connection_.
ReceiveThrows(h) ==
  /\ Dispatched(h, "receive_cb")
  /\ sock[connection] = "gone"
  /\ watches' = Remove(watches, h, "receive_cb")
  /\ UNCHANGED <<process, sock, network, connection, sending, reading,
                 callers, serial>>

Receives(h) ==
  /\ Dispatched(h, "receive_cb")
  /\ sock[connection] \in Connected
  /\ UNCHANGED <<process, network, connection, halves, callers, serial>>

\* An exception of send() ends in receive_cb's own try blocks.
MayReply ==
  \/ UNCHANGED <<sock, sending, watches>>
  \/ \E ok \in BOOLEAN : Post(sock, connection, send_buf, posted, accepted, watches, ok)

\* handle_header: a message without a body, or a header whose body is to come.
HandleHeader(h) ==
  /\ Receives(h)
  /\ message_ = 0
  /\ \/ message_' = 0 /\ MayReply
     \/ message_' = serial /\ UNCHANGED <<sock, sending, watches>>
  /\ UNCHANGED misread

\* Mutant: message_ is not set back to NULL.
MessageStays == message_

MessageTaken == 0

\* handle_body: Content-Length bytes of whichever connection there is.  Those
\* of another connection do not parse, and are dropped.
HandleBody(h) ==
  /\ Receives(h)
  /\ message_ # 0
  /\ message_' = MessageTaken
  /\ IF message_ = serial
     THEN MayReply /\ UNCHANGED misread
     ELSE /\ misread' = misread \union {<<message_, serial>>}
          /\ UNCHANGED <<sock, sending, watches>>

-----------------------------------------------------------------------------
(* The main loop's other sources.                                          *)

\* Mutant: only a connection that is made at once gets a watch.
WatchIfConnected(w, h, result) ==
  IF result = "true" THEN Add(w, h, "send_cb") ELSE w

\* The broker's constructor: a connection made at once is taken for one that
\* may send, and any other is waited for.
FirstWatch(w, h, result) ==
  Add(w, h, IF result = "true" THEN "send_cb" ELSE "connect_cb")

\* create_sink, once a second until a MiracSink could be made.  What a failed
\* attempt has opened, its destructor closes.
CreateSink ==
  /\ phase = "loop"
  /\ timer
  /\ \E end \in Connect(sock) :
       IF end.result = "throws"
       THEN UNCHANGED <<timer, broker, sock, network, watches>>
       ELSE /\ timer' = FALSE
            /\ broker' = TRUE
            /\ sock' = end.sock
            /\ network' = end.net
            /\ watches' = FirstWatch(watches, end.net.handle, end.result)
  /\ UNCHANGED <<role, phase, input, connection, sending, reading, callers,
                 serial>>

\* A command calls the sink or the source whether there is one or not; an
\* exception leaves _user_input_handler, which no C++ code has called.
Command ==
  /\ phase = "loop"
  /\ input
  /\ UNCHANGED <<role, input, timer, broker, network, connection, reading,
                 callers, serial>>
  /\ \/ /\ ~broker
        /\ phase' = "aborted"
        /\ UNCHANGED <<sock, sending, watches>>
     \/ /\ connection # 0
        /\ \E ok \in BOOLEAN :
             /\ Post(sock, connection, send_buf, posted, accepted, watches, ok)
             /\ phase' = IF ok THEN phase ELSE "aborted"

\* An error on the standard input removes its watch.
InputFails ==
  /\ phase = "loop"
  /\ input
  /\ input' = FALSE
  /\ UNCHANGED <<role, phase, timer, broker, sock, network, connection,
                 sending, reading, watches, callers, serial>>

\* SIGINT and SIGTERM quit the main loop.
Signal ==
  /\ phase = "loop"
  /\ phase' = "exited"
  /\ UNCHANGED <<role, input, timer, broker, sock, network, connection,
                 sending, reading, watches, callers, serial>>

-----------------------------------------------------------------------------
MainLoop(h) ==
  \/ ListenCallback(h)
  \/ AcceptFails(h)
  \/ ConnectCallback(h)
  \/ SendCallback(h)
  \/ SendCallbackWithoutConnection(h)
  \/ ReceiveThrows(h)
  \/ HandleHeader(h)
  \/ HandleBody(h)

Next ==
  \/ \E h \in Handle : PeerAnswers(h) \/ PeerLeaves(h) \/ PeerReads(h) \/ MainLoop(h)
  \/ PeerConnects
  \/ CreateSink
  \/ Command
  \/ InputFails
  \/ Signal

\* The main loop calls back every watch that stays ready.  Nothing makes the
\* peer answer, or read, or the user type.
Spec ==
  /\ Init
  /\ [][Next]_vars
  /\ \A h \in Handle :
       /\ WF_vars(ConnectCallback(h))
       /\ WF_vars(SendCallback(h) \/ SendCallbackWithoutConnection(h))

-----------------------------------------------------------------------------
\* The variables have their types; a broker has a connection or a network_,
\* and only a connection is read.
TypeOK ==
  /\ role \in {"sink", "source"} /\ phase \in {"loop", "exited", "aborted"}
  /\ {input, timer, broker} \subseteq BOOLEAN
  /\ sock \in [Handle -> SocketState] /\ network \in Network
  /\ connection \in 0 .. MaxHandles
  /\ {posted, accepted, send_buf} \subseteq Seq(1 .. MaxMessages)
  /\ watches \in [Handle -> [Callback -> Nat]]
  /\ message_ \in 0 .. serial /\ serial \in 0 .. (MaxConnections + 1)
  /\ broker <=> network.handle # 0 \/ connection # 0
  /\ connection # 0 => sock[connection] \in Connected \union {"gone"}
  /\ connection = 0 => \A h \in Handle : watches[h]["receive_cb"] = 0

(***************************************************************************)
(* What the kernel has taken and what send_buf still holds are together    *)
(* what send() was given on this connection, in order and once, however    *)
(* many send_cb watches drain the buffer and whatever the connections      *)
(* before have left behind.                                                *)
(***************************************************************************)
NothingLostOrRepeated == posted = accepted \o send_buf

Is(h, state) == h # 0 /\ sock[h] = state

(***************************************************************************)
(* A connection that lives is watched for reading, and for writing while   *)
(* send_buf holds something: the watches of lost connections, on handles   *)
(* the kernel may have given out again, never take a live one's place.     *)
(***************************************************************************)
OpenConnectionIsWatched ==
  connection # 0 /\ sock[connection] \in Connected =>
    /\ watches[connection]["receive_cb"] > 0
    /\ send_buf # << >> => watches[connection]["send_cb"] > 0

(***************************************************************************)
(* The sink waits for the answer of the first address: connect_cb watches  *)
(* the socket of that attempt until it is refused, except when connect()   *)
(* succeeded at once, and then send_cb does, which ends the program.  No   *)
(* attempt at a later address is watched itself.                           *)
(***************************************************************************)
FirstAttemptIsWatched ==
  /\ role = "sink" /\ broker /\ connection = 0
  /\ network.aptr = 1
  /\ sock[network.handle] \in {"connecting"} \union Connected
  => \E callback \in {"connect_cb", "send_cb"} : watches[network.handle][callback] = 1

(***************************************************************************)
(* A header whose connection was replaced before its body arrived takes    *)
(* its body out of one later connection and no more, and no connection     *)
(* pays for two such headers.                                              *)
(***************************************************************************)
StaleHeaderMisreadOnce ==
  /\ \A p \in misread : p[1] \in halves /\ p[1] < p[2]
  /\ \A p, q \in misread : p[1] = q[1] \/ p[2] = q[2] => p = q

(***************************************************************************)
(* What does not fit the socket at once is sent later, while the           *)
(* connection lasts, of any peer that reads again and again: a socket that *)
(* stays full is never called back, and nothing is sent any more.          *)
(***************************************************************************)
UnsentIsSent ==
  []<>~Is(connection, "full") =>
    (send_buf # << >> ~> \/ send_buf = << >>
                        \/ Is(connection, "gone")
                        \/ phase # "loop")

(***************************************************************************)
(* An address that answers, the first or a later one, gives the sink its   *)
(* connection as long as a watch is left that asks for the answer, or,     *)
(* when connect() said so at once, the end of the program.  The attempt at *)
(* the first address always has its watch.  One at a later address has the *)
(* watch on the socket that failed before it, which is called back at      *)
(* once: it is given up unless it is answered before that (KeepsTrying).   *)
(***************************************************************************)
SinkConnects ==
  /\ role = "sink" /\ broker /\ connection = 0
  /\ Is(network.handle, "open")
  /\ network.aptr > 1 => \E h \in Handle : watches[h]["connect_cb"] > 0
  ~> connection # 0 \/ phase # "loop" \/ Is(network.handle, "gone")

(***************************************************************************)
(* main.cpp of the sink says of its timeout: "try to create a sink every   *)
(* second and hope the connect succeeds at some point when the source is   *)
(* actually there".  So until a sink has connected once, there is an       *)
(* attempt in progress or answered, or one to come.                        *)
(***************************************************************************)
KeepsTrying ==
  /\ role = "sink" /\ phase = "loop"
  /\ serial = 0
  => \/ timer
     \/ \E h \in Handle : sock[h] \in {"connecting", "open", "gone"} \/ watches[h]["connect_cb"] > 0
=============================================================================
