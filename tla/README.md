# wysiwidi in TLA+

Specifications, model-checking runs and proofs for wysiwidi, a prototype of
Miracast / Wi-Fi Display: a *sink* that shows a stream, a *desktop source* that
sends one, an RTSP session (messages M1 to M9) between them over TCP, and the
Wi-Fi P2P announcement that lets them find each other.

Paths below are relative to the repository.

## 1. Inventory

| Component | State | Operations | Hard because |
|---|---|---|---|
| **Sink session** `sink/mirac-sink.cpp` | `state_`, `expected_reply_`, `send_cseq_`, `receive_cseq_`, `presentation_url_`, `session_` | `got_message` and the nine handlers it dispatches to; `on_connected`; `Setup`, `Play`, `Pause`, `Teardown` | one outstanding reply, identified only by a counter that restarts; commands arrive at any moment and look at no state |
| **Source session** `desktop_source/mirac-desktop-source.cpp` | the same, RTP ports, `gst_pipeline` | the same on the other side; `send_wfd_trigger_method` | as above; handlers that use a pipeline which another handler creates |
| **Broker** `mirac_network/mirac-broker.cpp` | `connection_`, `network_`, `message_`, GLib watches | `receive_cb`, `send_cb`, `listen_cb`, `connect_cb`, `send` | framing by `Content-Length` across callbacks; watches that outlive what they were made for, on descriptors the kernel gives out again |
| **Network** `mirac_network/mirac-network.cpp` | `handle`, `recv_buf`, `send_buf`, the list of addresses | `Bind`, `Accept`, `Connect`, `Receive` (two forms), `Send`, `Close` | non-blocking sockets: partial reads and writes, refusals that arrive later |
| **Programs** `sink/main.cpp`, `desktop_source/main.cpp` | the session object, or none yet; the sources of the main loop | `create_sink` every second until an attempt is in progress, `create_source`, a line on standard input, signals | commands before the object or the connection exists |
| **RTSP parser** `wfd_parser/` | the driver's `message_`: the message under construction | `Driver::parse_header`, `parse_payload`, `Message::to_string`, one class per property | two lexers chosen by what came before; widths of numbers in three places (the member, what is printed, what is read) |
| **Information element** `p2p/information-element.cpp` | sub-elements by id, a length, heap objects | `new_subelement`, `delete_subelement`, `add_subelement`, parse, `serialize` | the length is kept beside the map it should follow; untyped deletes |
| **ConnMan client** `p2p/connman-client.cpp` | D-Bus proxy, the bytes announced | construction, `proxy_cb`, `set_information_element`, destruction | asynchronous calls that hold a pointer to the client |
| **GStreamer wrappers** `mirac_network/mirac-gst-*.cpp` | a pipeline | `SetState` | external |
| **Tests and demos** `p2p/main.cpp`, `p2p/test-ie.cpp`, `wfd_parser/main.cpp`, `network-test.cpp`, `gst-test.cpp` | none, or that of the component they try | | |

**How they interact.** Each program is one GLib main loop, one callback at a
time. The broker's `receive_cb` cuts the byte stream into messages and calls
`got_message` of the session object, which changes the session's state and
calls `send`; a line on standard input calls `Play`, `Pause` or `Teardown` on
the same object. The two programs share nothing but the TCP connection. The
sink connects, the source listens; the source speaks first (M1).

**What makes it hard.** There is no thread and no lock; the interleavings are
between two programs and two users. Both ends send requests on one connection,
each with its own CSeq; each keeps one `expected_reply_` and refuses requests
with 400 while it waits; the users' commands overwrite it.

**What makes it correct**

- *Sessions*: a reply is taken only for the request it answers; a program that
  waits is in a state that will take the reply; both ends agree on the state of
  the session when nothing is under way; the source streams exactly while the
  session plays; the negotiation needs no user and gets stuck nowhere.
- *Broker and network*: the messages handed to `got_message` are those the peer
  sent, in order, none held back while it could be delivered; bytes leave once
  and in order; a live connection is watched; what an old connection leaves to a
  new one does bounded damage.
- *Programs*: the sink connects when the source is there.
- *Parser*: a message printed and parsed is the same message; what cannot be
  said is lost the first time and not bit by bit.
- *Information element*: `serialize` writes exactly the bytes it returns;
  parse and serialize are inverse; each object is deleted once.
- *ConnMan client*: one element is announced at a time, and the last one is what
  was set last.

The places where each of these is at risk are the `hazards` of `PROJECT.json`.

## 2. Modules

| Module | Models | Correspondence |
|---|---|---|
| `RtspConnection` | what both programs share | the `State` and `Method` enums, messages as records, the connection as one FIFO sequence per direction, `validate_message_sequence` (`ValidSequence`), the count of received requests |
| `MiracSink` | `class MiracSink` | one action per handler; the conditions of `got_message` that lead to it are its guard. `SinkIgnoresRequest`, `SinkIgnoresReply` and `SinkRefuses` are the ways out of `got_message` that reach no handler. `SinkCommand` is `Play`/`Pause`/`Teardown` |
| `MiracSource` | `class MiracSource` | the same. `SourceHasNoPipeline` is a PLAY, PAUSE or TEARDOWN before SETUP: a call through a null pointer |
| `WfdSession` | both programs, connected, and their users | composition; the properties of the pair |
| `WfdReconnection` | the same with a sink program that ends at any moment and is started again, while the source listens on | `SinkRestarts` puts the sink and the connection back to their beginning; the source's state, counters and pipeline survive. `Old` is `MiracSource` on the connection of the sink that ended, which only `listen_cb` (`SourceTakesUp`) gives up; `SourceReplyThrows` is a handler cut short by a send to nobody |
| `ForeignPeer` | what the next two share | how much a foreign peer sends and a user types |
| `SinkWithForeignSource` | the sink and a source of another make | the peer may send any request at any time, numbered one by one, and answers every request, in order, as it likes; an M4 may bring a URL, name none (`NoUrl`) or leave the property out. A request without a URL it may drop, as the source of this repository does |
| `SourceWithForeignSink` | the source and a sink of another make | the same the other way round |
| `MiracBroker` | the reading side of the broker and the network: `receive_cb`, `handle_header`, `handle_body`, both `Receive`s, the driver's message | `recv_buf`, `message_`, the driver's `message_`; one step per call of `Receive`, because bytes arrive between two calls although a callback is not interrupted. `callback` is the call the running callback makes next |
| `MiracNetwork` | `class MiracNetwork` over the sockets of its process: `Bind`, `Accept`, `Connect` along the address list, `GetPeerAddress`, `Send`, `Close` | operators on a map from handles to socket states; a connected socket has room (`open`) or is `full` until its peer has read. An operation that can end in several ways is the set of its outcomes; `"throws"` is a `MiracException` |
| `MiracProgram` | `main()` of either program, `MiracBroker`'s constructors, `send`, `listen_cb`, `connect_cb`, `send_cb`, `receive_cb`, the connection it makes, loses and makes again | one action per GLib source and outcome. `watches` counts how often a callback watches a handle: closing a handle removes no watch, and the kernel gives the handle out again. `posted`, `accepted`, `halves` and `misread` are history |
| `InformationElement` | `new_subelement`, `delete_subelement`, `class InformationElement` | operators. A byte is whose it is and where in it; `UNWRITTEN` is a byte of `new uint8_t[length_]` nobody writes; `Allocates` lists the objects of the fall-through |
| `ConnmanClient` | `class ConnmanClient` and as much of ConnMan as answers it | `calls` is the bus, which keeps the order. `register_peer_service_cb` only logs |
| `PeerService` | a program that puts an element together, copies it through its bytes (`test-ie.cpp`) and announces it (`p2p/main.cpp`) | composition of the two; `heap` counts sub-element objects by structure |
| `WfdText` | numbers and words as printed (`MAKE_HEX_STRING`) and as the lexers read them | a number is its hexadecimal digits, so that widths are lengths; a decimal is an integer, which the lexer cuts off at `ULLONG_MAX` and an assignment to the low bits of the member's type (`AsUShort`, `AsUInt`, `AsInt`); a token is a record with one field |
| `WfdProperty` | the property classes: members and their C types, `to_string()`, grammar rule | `Xxx` gives the widths of the members, `XxxToString` prints, `ReadXxx` is the rule with its action. A rule's value is a set, empty where the grammar has no derivation |
| `WfdMessage` | headers, transport headers, payloads, property errors, the choice of lexer, the `Driver` | `MessageToString` gives lines for header and body; `ParseHeader` and `ParsePayload` are what `Driver` does with them |
| `WfdExchange` | a message on its way: made, printed, read by a `Driver`, passed on or answered | the messages the classes can hold, those the programs make (`ProgramMessages`, and the replies of `handle_m3...`, `handle_m4...`, `handle_m6...`), and texts of other makers |
| `MessageChannel` | abstract: numbered messages, delivered in order, at most once | `MiracBroker` implements it (`DeliversInOrder`) |
| `SessionAgreement` | abstract: the pair's session states, without messages | `WfdSession` implements it (`ImplementsAgreement`) |
| `MiracHandlers_proofs` | lemmas | what a handler of either program does to the types, to the connection and to the order of its messages; used by the session's, the restarts' and the foreign peers' proofs |
| `WfdParser_proofs` | lemmas | what the lexers, the lists, each property class and a body of lines do to everything a class can hold; used by the exchange's proofs |
| `WfdReconnection_proofs` (with `WfdSession`), `ForeignPeer_proofs` (with both programs), `MiracBroker_proofs`, `MiracProgram_proofs`, `PeerService_proofs`, `WfdExchange_proofs` | theorems | section 5 |

**Abstractions.** A message is its type, CSeq, reply code and the one fact of
its content a handler looks at (trigger, URL, ports, session). One step handles
one message: both directions are FIFO because TCP is, and a callback is not
interrupted. A message whose request line has no URL does not parse (the
grammar has no production for it) and never reaches `got_message`
(`Parses`). An M4 may name its URL as "none", which the grammar reads as the empty one:
the sink takes it, answers 200 and goes on without a URL. `answers`, in a reply, is what the properties know and the programs
do not: the request it was made for. `NotSet` is the value of `state_` before
`on_connected`; no handler can run before it is written. Text, logging,
Content-Type and the source's stored RTP ports are left out.

A handler that throws is modelled by the state it leaves behind: in
`SourceHandleM3Reply` a missing property makes `get_property` throw out of the
handler before anything is written, so the NULL comparison that follows it in
the source is not reached, and `GET_PARAMETER` goes on being expected.

In `WfdReconnection` the end of a sink and the start of the next are one step: a
sink that has not connected yet does nothing a sink that is not there would not.
What the old sink had sent is still read, or dropped with the connection,
at the source's choice of when to take up the next one. A send to the old sink
may be accepted by the kernel or throw; out of a handler it is caught in
`handle_header`, and what the handler had left to do is not done (M2 does not ask M3,
M6 to M9 do not move the state); out of a command it ends the program. That
half a message survives a connection is the subject of `MiracProgram`, not of this
module; a source that ends takes its sink's session with it, and both begin
again as in `WfdSession`.

In `MiracProgram` messages are numbers made of two pieces: enough for a partial
write to stop inside one. When to send is left to `WfdSession` and what arrives
to `MiracBroker`: here a header may turn up whenever the connection is open, and
its body in a later callback. Connections are numbered by `serial`; `message_`
is the number of the connection the waiting header came from, so a body taken
from another one can be told. `errno` after `send()` of nothing is whatever an
earlier call left: any outcome.

In the parser's modules text is lines of tokens; white space, the order of a
map's lines and numbers' letters are left out. What a lexer's mode tells apart is
kept: hexadecimal and decimal numbers, strings longer than a number, URLs whose
host it does not know, names with and without a colon. Behind a name it does not know
the lexer skips the colon and a value of one character, so that the line is read as a name
asked for. EDID data, session
identifiers and URLs are runs of characters of which the length matters.

**How the two halves fit.** `MiracBroker` distinguishes three kinds of traffic:
messages that arrive whole; messages in pieces, with nothing behind a body until
it has been handled ("body_last"); messages in pieces, one behind the other. In
the first two no message is lost. The session's messages with a body are M3, its
reply, M4 and M5, and `NothingFollowsABody` checks that an exchange of patient
users is "body_last" in both directions: whoever sends a body waits for the
answer. Users who are only careful can break it, when the source refuses a
crossing request right behind its own M5. Even "body_last" traffic can stall: the
rest of a body that arrives between the `recv()` of `handle_body` and that of the
loop in `handle_header` is received by the latter, and lies complete in
`recv_buf` until another byte arrives. `OnlyABodyIsHeldBack` says that this is
the only thing that can be left, and that whole messages are safe from it.

## 3. Runs

| Run | Shows |
|---|---|
| `session_hasty` | Users type anything at any moment, before the connection too. An accepted reply answers the request expected; when a program stops waiting nothing of its exchange is still under way; the source never commands a missing pipeline; the pair implements `SessionAgreement` |
| `session_careful` | Users type what their own log says makes sense, at both ends, so commands cross; the sink may end at any moment, without a word, and be started again. Each sink's session starts by itself, whatever its predecessor left in the source; every request is answered; at rest both ends are in the same state; the source never takes a session for that of a sink outside it. Only a source that was ended by a command to a sink that has gone is excepted |
| `session_patient` | Users let an exchange finish first. Every command, from either end, in any order, takes effect at both ends |
| `sink_foreign_source` | Whatever a foreign source asks: the sink waits only where the reply has a handler, stops waiting, and never misses the session it needs; its requests carry the URL it has, and it has none only after the source itself has named none. Such a sink sends requests that do not parse, and may then wait for ever: the source of this repository drops them without an answer |
| `source_foreign_sink` | Whatever a foreign sink asks: the source waits only where the reply has a handler, and the pipeline plays exactly while the session does |
| `broker` | The broker implements `MessageChannel`, skipping messages only in traffic where one follows a body that arrives in pieces; a payload is always the message's own; at worst one complete body is held back; messages that arrive whole are all handled |
| `connection` | A program from `main()` to its end: nothing lost or repeated on a connection; a live connection always watched; the sink's attempt at the first address watched until it fails, and an address that answers while a watch asks for the answer used; what does not fit the socket sent later to a peer that reads; a header left behind by a replaced connection costs one message and no more |
| `p2p` | Bytes and element agree both ways for every element that can be put together, with no byte unwritten; objects owned once; at most one element announced, in the end the last |
| `parser` | Whatever a text says, every number read from it fits the C type of its member (`MembersFitTheirTypes`). Exactly which messages are read as they were made (`Sound`), in both directions: all of these, and no others. What has been read once can be passed on unchanged. What the programs say to each other, in answer to anything, is understood |
| `doc_sequence`, `doc_teardown`, `doc_retry` | Three places where the code does not do what its comment or `rtsp-message-exchanges.txt` says (section 4) |

**Bounds.** `MaxSinkCommands` and `MaxSourceCommands` bound the lines typed.
The negotiation (M1 to M7) always runs to its end by itself; the bounds limit
only what follows. Hasty: 3 and 2, enough for a command while another is under
way at both ends, one before the connection, and one after a restart of the
numbering. Careful: 3 each, enough to pause, play and tear down from one end
while the other does the same, and 2 restarts, so that a sink ends in the session
that followed another's end. Patient: 4 each. Foreign peers: 5 requests, 2 (1)
of them in flight, one command: 5 requests reach the playing state
(M1, M4, M5 with SETUP, then any two), and one command lets the user's request
cross the peer's. Broker: three messages with bodies of up to two pieces, in any
mix: a message before, with and after a split body is where framing goes wrong
(four messages, 108 000 states, show nothing else). CSeqs are naturals: the code's `int` would wrap after 2^31
requests. Connection: 4 handles (listener, old connection, new one, one to
spare), 2 addresses (first and next), 3 connections (a stale header, the
connection it misreads, one after it), 3 messages: 4 watches on one handle,
a reused handle with an old watch, and a second stale header all happen. P2P: 2
values per sub-element (replaced by itself, by another), 4 elements or copies
(every subset of the three supported ids, and one replaced), 3 announcements
(before the proxy, while the call is under way, after). Parser: numbers at 0, 1,
all ones and one digit too many for what is printed, for each member in turn
with the others at 1; lists of none, one and two; each property alone and all
together; 4 hops: made, read, passed on, passed on again. `SinkUdpPort` is a
port above 9999, where five digits are printed. TLC's integers are no wider than an
`int`, so the run's `INT_MAX` is 2^17 - 1 and its `ULLONG_MAX` 2^22 - 1: larger than an unsigned short,
and far enough apart for a decimal to be too long for an `int`, for an `unsigned int` and
for the parser's number; each of the three is in the texts of other makers
(`LongDecimals`). The proofs are about any two values in this order, and so the real ones.

**Fairness.** `WF(SinkProgram)` and `WF(SourceProgram)` (`SinkRuns` and
`SourceRuns` in `WfdReconnection`): a main loop dispatches
a watch whose descriptor is ready, so a program with a message to read reads it.
Nothing is assumed of the users, and no sink has to end. With a foreign source, `WF(ForeignSourceReads)`: it
answers what it is asked (or drops what does not parse). In `MiracBroker`, what is on the wire arrives and the
main loop dispatches a readable watch. In `MiracProgram`, the main loop calls `connect_cb` and `send_cb`
watches whose socket is ready (a failed socket is always ready, a full one is not); the
peer, the user and signals owe nothing: no peer has to answer, read or leave. What depends on a peer that reads
says so: `UnsentIsSent` is about connections that are again and again not full. In `PeerService`, the bus creates the
proxy or reports an error, and ConnMan takes the calls sent to it. Runs of safety
properties only assume nothing.

**Deadlock** is not checked: users stop typing, the bound on their commands is
reached, and a session at rest has nothing to do; programs end; a message has
arrived. That no program rests while
something is owed to it is what `EveryRequestIsAnswered`, `SinkStopsWaiting` and
`SessionStarts` say instead.

## 4. Where code and documents disagree

- **Out of sequence for ever** (`doc_sequence`). A request refused because the
  receiver was waiting is not counted; the sender's next request carries the next
  number and is refused as out of order, and so is every later one. One careful
  user is enough: a second command typed after the M5 reply and before the
  sink's own request arrives. The comment above the check says it ensures the
  message sequence; the sequence was intact. The same happens after a TEARDOWN,
  which restarts one side's numbering and not the other's count. `CommandsTakeEffect`
  therefore holds for patient users only.
- **M8 in state 4** (`doc_teardown`). The document says a 200 to M8 moves the sink
  to state 1; in `WFD_SESSION_ESTABLISHMENT` the reply is dropped, and the sink
  goes on waiting.
- **The sink's attempts** (`doc_retry`). The comment in `sink/main.cpp` promises an
  attempt every second until the source is there. `connect()` on a non-blocking
  socket says EINPROGRESS, the constructor returns, the timer is gone; a refusal
  a moment later ends in `connect_cb`, and nothing tries again. The remaining addresses are
hardly better: `Connect` makes a new socket, the watch stays on the one that failed and is
called back at once, `SO_ERROR` of the new socket is 0 while it is in progress, so `getpeername()`
throws and the attempt is given up, unless the address has answered before that. So
`FirstAttemptIsWatched` speaks of the first address only, and `SinkConnects` of a later one only
while a watch is left.

Not runs of their own, but met on the way and part of the models:

- The document says that in state 4 an M5 with trigger TEARDOWN is answered and
  followed by M8 (`rtsp-message-exchanges.txt:78-80`); the sink has no handler
  for it in that state (`mirac-sink.cpp:375-378`).
- A connection made at once gets a `send_cb` watch before there is a
  `connection_`: the callback goes through a null pointer
  (`SendCallbackWithoutConnection`). So does a command typed before the sink
  exists (`Command`).
- `new_subelement(ASSOCIATED_BSSID)` falls through and makes two objects, of which
  the first is forgotten (`ObjectsAreOwned` leaves it out).
- `Sound` in `WfdExchange` lists what `to_string()` can hold and the text cannot: numbers
  wider than what is printed (audio latency, `p_clock`, av timing, MAC address,
  connector type, EDID count, resolutions); an empty list; a UIBC capability with an
  empty list or no port; I2C port 0 or below -1; a CSeq below 0, whose sign the lexers have no rule for; a generic value of one character (read as a name asked for); EDID data
  short enough to be a number; a URL whose host is not an address; a
  session timeout without a session; a server port without a client port, which
  is what the source's M6 reply has when SETUP names no port; `wfd_standby` and
  `wfd_idr_request` to be set, which are read as names asked for; an error for
  `wfd_standby`, for which there is no rule.

## 5. Proofs

For every value of the constants:

| Theorem | Statement |
|---|---|
| `TypeCorrect` (`WfdReconnection_proofs`) | `Spec => []TypeOK` |
| `OrderKept` | `Spec => []ExchangesInOrder` |
| `ReplyFitsRequest` | `Spec => []ReplyAnswersExpectedRequest` |
| `NothingLeftBehind` | `Spec => []NoOrphanExchange` |
| `PipelineIsThere` | `Spec => []SourceHasPipelineToCommand` |
| `AgreementImplemented` | `Spec => ImplementsAgreement` |
| `NothingBehindABody` | `Users = "patient"` implies `Spec => []NothingFollowsABody` |
| `ReplyFitsRequestAcrossRestarts` | `ReconnectionSpec => []ReplyAnswersExpectedRequest` |
| `NothingLeftBehindAcrossRestarts` | `ReconnectionSpec => []NoOrphanExchange` |
| `StatesAgree` | `Users # "hasty"` implies `ReconnectionSpec => []StatesAgreeAtRest` |
| `StreamKeepsSession` | `Users # "hasty"` implies `ReconnectionSpec => []StreamHasSession` |
| `SinkSideTypes` (`ForeignPeer_proofs`) | `SinkSideSpec => []SinkSideTypeOK` |
| `SinkReplyIsTaken` | `SinkSideSpec => []SinkReplyHasHandler` |
| `SessionDataIsKnown` | `SinkSideSpec => []SessionDataKnown` |
| `SourceSideTypes` | `SourceSideSpec => []SourceSideTypeOK` |
| `SourceReplyIsTaken` | `SourceSideSpec => []SourceReplyHasHandler` |
| `StreamIsTheSession` | `SourceSideSpec => []StreamFollowsSession` |
| `TypeCorrect` (`MiracBroker_proofs`) | `Spec => []TypeOK` |
| `PayloadsAreOwnBodies` | `Spec => []PayloadIsOwnBody` |
| `OnlyABodyIsLeft` | `Spec => []OnlyABodyIsHeldBack` |
| `DeliveryImplemented` | `Spec => DeliversInOrder` |
| `TypeCorrect` (`MiracProgram_proofs`) | `Spec => []TypeOK` |
| `OpenConnectionsAreWatched` | `Spec => []OpenConnectionIsWatched` |
| `FirstAttemptsAreWatched` | `Spec => []FirstAttemptIsWatched`: of the first address |
| `NothingIsLostOrRepeated` | `Spec => []NothingLostOrRepeated` |
| `StaleHeadersMisreadOnce` | `Spec => []StaleHeaderMisreadOnce` |
| `OneElementIsAnnounced` (`PeerService_proofs`) | `Spec => []OneElementAnnounced` |
| `ObjectsHaveOwners` | `Spec => []ObjectsAreOwned` |
| `CopiesAreTheSame` | `Spec => []CopyIsTheSame` |
| `PeerTypes` | `Spec => []TypeOK` |
| `TypeCorrect` (`WfdExchange_proofs`) | `Spec => []MembersFitTheirTypes` |
| `ReadBack` | `Spec => []ReadAsSent` |
| `NothingLostTwice` | `Spec => []PassedOnUnchanged` |
| `ProgramsUnderstand` | `Spec => []ProgramsAreUnderstood` |
| `ReadIsHeld` (`WfdParser_proofs`) | whatever tokens follow a property's name, what is read is a property its class can hold, with every port within its type |
| `HeldIsReadBack` | whatever a property class can hold is read back from its `to_string()`: as itself if it is sound, and only as something sound if not |
| `HeldIsTyped` | what a class can hold has the C types of its members, the `int` and `unsigned int` ports included |
| `PayloadIsHeld`, `PrintedIsWellFormed` | the same two directions for a whole body, of any number of lines |
| `HeaderIsReadBack` | a header is read as it was printed, but for what `HeaderReadAs` names |
| `ReadMessageIsSound` | a message read from a printed text is sound |
| `SayablePayloadIsRead`, `MessageIsUnderstood` | a printed payload, and a printed message with a CSeq that is not negative, of which everything can be said is read in exactly one way |
| `MeaningIsKept` | reading changes nothing of the meaning of a message with a sound header |
| `Invariant`, `AlwaysFollowed` | `Spec => []HeldInv`, and `Followed` beside it: the inductive invariant of the exchange |

These hold of the values of every width the C types have, of decimals of any size, of lists and bodies of any
length, not only of the run's samples.

The assumptions used are those the modules make of their constants: bounds are
naturals (`BoundsAssumption`, `ForeignPeerAssumption`, `ExchangeAssumption`, `TextAssumption`, `BrokerAssumption`, `NetworkAssumption`, `ProgramAssumption`), `Users` is one of its
three values, the null pointer is no element (`ValueAssumption`), an unsigned short fits an `int` and an
unsigned int the parser's numbers (`TextAssumption`). One bound says
more: `ProgramAssumption` gives the process at least three file handles, and one for every
address of the peer, so that the outcomes of `socket()` never run out in the
middle of `Connect`: a `socket()` that fails throws and is not modelled.

*Order in a session.* `ReplyAnswersExpectedRequest` is not inductive: it says nothing of
requests still under way, whose replies will carry the same CSeq. The
strengthening, `ExchangesInOrder`, says of each program's exchange with its peer
that replies and then requests carry strictly increasing CSeqs, all below
`send_cseq_`, that the one just below belongs to `expected_reply_`, and that
nothing is under way at all when no reply is expected. This last part is what
makes the restart of the numbering harmless: `set_state(INIT)` runs when the
reply with the last CSeq has just been taken, and everything older was before
it in the queue. `MiracHandlers_proofs` names the six things a handler
can do to the connection (drop a message; answer it; answer and ask; take a
reply; take it and ask; ask unprompted), proves that each keeps both exchanges
in order (`StepKeepsOrder`), and that every action of either program is one of the six
(`SinkSteps`, `SourceSteps`). The two properties follow from it.

*Agreement.* That the two state machines never drift apart (`SessionAgreement`) and
that no command meets a source without a pipeline need to know what is under way
in each phase; TLC checked `SessionInv` before the proof. Its parts, on top of
types and order:

- `Phases`: how far one program can be while the other is where it is;
- `Negotiation`: M1 to M4 and their replies are under way only while the source
  negotiates, M4 at most once, and an accepted M4 means that the sink has moved on;
- `Served`: the accepting reply to the sink's last SETUP, PLAY, PAUSE or TEARDOWN
  finds the source still in the state it accepted it in, so that when the sink
  follows, it follows to the state the source is in;
- `Counted`, `Consecutive`, `NextInLine`, `SetupFirst`: before SETUP, the source lets
  nothing else through, whoever the users are. This is the delicate part: after M4 the
  sink's user may type, and a PLAY typed then would reach a source without a pipeline.
  What saves it is `validate_message_sequence`. The source waits for the reply to M4 or M5
  while the PLAY arrives, and drops it without counting it; from then on every number of the sink's is
  out of line, except that of a SETUP. And if it has dropped nothing, the sink
  waits for nothing, takes M5 next and makes SETUP its next request.

`SinkEffects` and `SourceEffects` reduce the handlers to what they do to the states and
the queues (`SinkObeys`, `SinkFollows`, `SourceServesRequest`, ...); each part is then kept
by a lemma of its own (`PhasesKept`, `ServedKept`, ...). `AgreementImplemented` is a
step for step argument: a step in which both states stay is a stutter, any other is
one of the abstract steps because of `Phases` and `Served`.

*Taking turns.* Of patient users only one program has anything to read at any time, and
never more than a reply and a request after it (`TakingTurns`). Where there are two, the
reply is to M1, M2 or an M5, none of which makes the reader ask; so the reader
answers the request and the turn passes. A third message, or one the other way, would
need a user who types with something under way.

*Restarts.* A step of `ReconnectionNext` is a step of `WfdSession`, for which
`StepType` and `EveryStepKeepsOrder` say all there is; or a new sink, with nothing
in its connection; or a step of the source on the old connection (`OldStep`). The
last may set the source's `expected_reply_` and `send_cseq_` to anything, and
keeps `ExchangesInOrder` because the source has not taken up the new connection:
nothing of its own is in there (`NothingBeforeConnection`), and `on_connected`
overwrites `expected_reply_` when it does. `InOrder` adds just that
(`OldConnectionOK`). These theorems hold of hasty users too, and of any number
of restarts; the run `session_careful` checks the liveness that goes with them.

*Careful users across restarts.* `StatesAgreeAtRest` speaks only of the moments when
nothing is under way; what makes it true is what holds in between (`CarefulInv`).
A user who types only when no reply is awaited keeps `OneAtATime`: of a program's
requests and their replies there is at most one under way, so the head of a queue
tells its reader where the writer is. While the source negotiates, the reply it waits for
says how far the sink has come (`Negotiating`), and M1, M4, M5 and the reply to M4
are under way only in the phase they belong to (`UnderWay`); this is where nothing may
be left from an earlier sink, and `on_connected` overwriting `state_` and
`expected_reply_` gives just that. Afterwards the states differ only while the answer that
will move the sink is in its queue (`Following`), that answer is the one to what the sink
waits for, finds the source where it was sent, and has the session if it is to SETUP
(`ServedNow`). The sink then does move: it never waits for a reply that its state has no
handler for (`SinkOK`), which is what hasty users can bring about. Two commands that cross are refused by
both programs, which changes neither state. A source that plays has a sink which
plays or has yet to read the answer to PLAY or PAUSE, and asked for that from within its
session: `StreamHasSession`.

*Foreign peers.* Here nothing can be assumed of the other side, and the invariants
lie in one program alone. `SinkReplyHasHandler` (and `SourceReplyHasHandler`) is inductive once the state is
known to be `NotSet` until `on_connected` (`StateOnceConnected`): a request is handled only
when no reply is awaited, and each handler that asks moves to, or stays in, a state that
answers what it asked. The session is there from the reply to SETUP on, and the URL is the one of M4 in
every request on its way, because the sink waits for its reply while M4 could change it. `StreamFollowsSession` ties the
pipeline to the state, handler by handler.

*Framing.* `BrokerInv` says that `recv_buf`, then the socket, then the wire are what was
sent from some position `c` on (`Laid`), where message `m` begins at `off[m]`. When a header
is waiting for its body, `c` is the end of that header (`Parsed`); this is all
`PayloadIsOwnBody` needs, and it holds of any traffic: a header skipped moves `c` forward,
and a body cannot be cut at any other place. For the two kinds of traffic that lose
nothing, `LosesNothing` adds that everything before `c` has been handed over, and that the
broker is `Between` two messages or `Waiting` for a body; with "body_last" nothing can
stand behind the body it waits for. `DeliveryImplemented` and `OnlyABodyIsLeft` are read off it.

*Programs.* `NothingLostOrRepeated` with the types of the buffers is inductive
(`SendingOK`): `send()` is a message appended and a front cut off, and the two
lemmas `TakenAndRest` and `SendKeepsHistory` say that cutting keeps the whole. It does
not depend on which socket state, watch or handle a callback runs with.
`StaleHeaderMisreadOnce` needs `ReadingOK`: the header that waits is of this
connection, or of one in `halves` that has not taken a body yet, while this
connection has not lost one yet. The watches do depend on all of it (`ProgramOK`): a sink
opens its sockets in order, so that handle 1 is the attempt `connect_cb` watches and
`network.handle` the last one opened (`SinkSockets`), and a source has its listening
socket and one connection (`SourceSockets`). What `OpenConnectionIsWatched` then rests on is that
no step closes one handle and opens another with the first one's number without
adding the watch.

*Announcement.* `CallsFit` says what is on the bus: calls alternate, the first
fits what ConnMan announces, and the last registers the client's `array_`.
`set_information_element` adds two at one end (`ReplaceFits`), ConnMan takes one at the other
(`TakenFits`). `OwnedOK` counts objects by kind; `CountAdded` is the arithmetic of
an element that may replace another.

*Information elements.* `CopyIsTheSame` needs `ElementOK`: every sub-element lies under its own
id, and `length_` is the sum of the sizes. `AddKeepsElement` is the step of `add_subelement`;
`ParsedAgain`, the round trip, shows that a copy changes nothing. What the constructor's loop
finds is a recursive function, and a proof about it must first know that there is one:
an array of at most 36 bytes holds at most four elements of nine bytes or more, so
that four rounds of the loop, written out (`Upto1` to `Upto4`), are that function
(`FourAreAll`, `StartsAreFound`). `FoundStep` then takes it over the parts of the array that `serialize`
put one behind the other. For `TypeOK`, no count of objects is ever negative: by `OwnedOK`
for those that are owned, and because nothing deletes the others (`ForgottenStay`).

*Messages on their way.* `ReadAsSent` says nothing of the values in a message, and TLC sees
only the sample values. The lemmas the proof rests on are about all of them. For every property class
(`vendor_key` stands for every name that no production knows) there is a set of what it can hold (`HeldAs`): every value its constructors and the
grammar can give its members. Three facts are proved class by class. What the grammar's rule makes of any
tokens is in that set (`ReadIsHeld`). What `to_string()` makes of a member of the set is a text of
tokens, and the rule makes of that text the same member if it is sound; if it is not, then
nothing, or something that is sound (`HeldIsReadBack`). The hardest class is
`UIBCCapability`, whose three lists are told apart by the semicolons alone
(`UIBCSemicolons`). Bodies and headers follow, line by line (`PayloadIsHeld`, `HeaderIsReadBack`).

`HeldInv` is the first inductive invariant: whatever is composed, printed or read can be held;
`MembersFitTheirTypes` follows. `Followed`, beside it, says where what was read came from: the text
is what `sent` prints, `message_` was read from this text, a text that was refused
has no reading, what a program says can be said (`SayableMessage`), and what
has been passed on was itself read, and so is sound. This last part is why nothing is
lost twice; that the programs' answers can be said whatever they were asked
(`SinkM4ReplySays`, `SourceM4Says`, ...) is why they understand each other. The one thing
they may say that is read as another value is that there is no I2C port, which
`Meaning` takes for the same.

What is read from lines, and what is printed of a map, are recursive functions. The
library's induction theorems take an operator, which the provers cannot
instantiate; the induction here is over a set instead. `NatMin`, every set of
naturals has a least element, follows from `NatLessThanWellFounded`, and `Induction` from it: a set of
naturals with 0 and the successor of each member is all of them. That the recursive
functions exist is one such induction (`HeaderResults`), what they return another.

*Only model-checked.* Liveness and what else is about fairness (`SessionStarts`, `EveryRequestIsAnswered`,
`CommandsTakeEffect`, `SinkStopsWaiting`, `WholeMessagesAreHandled`, `UnsentIsSent`, `SinkConnects`,
`LastElementIsAnnounced`) is not in the prover's reach.

## 6. Not modelled, and the plan

Not modelled: GStreamer, an external library, beyond the state last asked of
it; `network-test.cpp` and `gst-test.cpp`, demonstrations with no counterpart in the
programs; the command line; failures of `socket()`, `setsockopt()` and `ioctl()`,
which throw before anything is changed; white space and spelling in the lexers;
information elements parsed from arrays that `serialize()` has not made, which
no program does; the end and new start of a source, which ends the sink's session
with it.

1. A session whose peer ends within a message, `MiracBroker` under `WfdReconnection`:
   what `StaleHeaderMisreadOnce` costs the negotiation.
