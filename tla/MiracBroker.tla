----------------------------- MODULE MiracBroker -----------------------------
(***************************************************************************)
(* How a program cuts the byte stream of its connection into messages:     *)
(* receive_cb, handle_header and handle_body of class MiracBroker, over    *)
(* the two Receive functions of class MiracNetwork and the two parse       *)
(* functions of class Driver.                                              *)
(*                                                                         *)
(* A callback is not interrupted by another, but it calls recv() several   *)
(* times, and bytes arrive in between: each call of Receive is a step.     *)
(***************************************************************************)
EXTENDS Naturals, Sequences

CONSTANTS
  MaxMessages,  \* bound: messages the peer sends
  MaxBody       \* bound: pieces in which a body may arrive

ASSUME BrokerAssumption == MaxMessages \in Nat /\ MaxBody \in Nat

(***************************************************************************)
(* A stretch of bytes that arrives at once is a piece of some message's    *)
(* header or body.  The piece that ends a header holds the first           *)
(* "\r\n\r\n" of the message: a body consists of lines, none of them       *)
(* empty.                                                                  *)
(***************************************************************************)
Piece == [msg : 1 .. MaxMessages, part : {"start", "end", "body"}]

HeaderOf(m) == <<[msg |-> m, part |-> "start"], [msg |-> m, part |-> "end"]>>
BodyOf(m, length) == [i \in 1 .. length |-> [msg |-> m, part |-> "body"]]

(***************************************************************************)
(* Three kinds of traffic.  "whole": each message arrives in one piece.    *)
(* "body_last": messages arrive in pieces, and the peer sends nothing      *)
(* behind a body until that message has been handled.  "any": messages     *)
(* arrive in pieces, one behind the other.                                 *)
(***************************************************************************)
Traffic == {"whole", "body_last", "any"}

VARIABLES
  traffic,         \* the kind of traffic; never changes
  bodies,          \* Content-Length of every message sent, in pieces
  wire,            \* sent and not yet arrived
  socket,          \* arrived and not yet received
  closed,          \* the peer has closed the connection, and that has arrived
  recv_buf,        \* recv_buf of the connection
  message,         \* message_ of the broker: the message, 0 for NULL
  driver_message,  \* message_ of its driver: the message, 0 for NULL
  watching,        \* the watch that calls receive_cb is installed
  callback,        \* the Receive the running callback will call next
  delivered        \* messages handed to got_message

network == <<traffic, bodies, wire, closed>>
vars == <<traffic, bodies, wire, socket, closed, recv_buf, message,
          driver_message, watching, callback, delivered>>

Init ==
  /\ traffic \in Traffic
  /\ bodies = << >>
  /\ wire = << >>
  /\ socket = << >>
  /\ closed = FALSE
  /\ recv_buf = << >>
  /\ message = 0
  /\ driver_message = 0
  /\ watching = TRUE
  /\ callback = "none"
  /\ delivered = << >>

-----------------------------------------------------------------------------
(* The peer and the network.                                               *)

Handled(m) == \E i \in 1 .. Len(delivered) : delivered[i] = m

PeerSends(length) ==
  /\ ~closed
  /\ Len(bodies) < MaxMessages
  /\ traffic = "body_last" =>
       \A m \in 1 .. Len(bodies) : bodies[m] > 0 => Handled(m)
  /\ LET m == Len(bodies) + 1
     IN  wire' = wire \o HeaderOf(m) \o BodyOf(m, length)
  /\ bodies' = Append(bodies, length)
  /\ UNCHANGED <<traffic, socket, closed, recv_buf, message, driver_message,
                 watching, callback, delivered>>

\* Pieces arrive in order, any number of them at a time; when messages arrive
\* whole, up to the end of one.
Arrives(n) ==
  /\ n \in 1 .. Len(wire)
  /\ traffic = "whole" /\ n < Len(wire) => wire[n + 1].part = "start"
  /\ socket' = socket \o SubSeq(wire, 1, n)
  /\ wire' = SubSeq(wire, n + 1, Len(wire))
  /\ UNCHANGED <<traffic, bodies, closed, recv_buf, message, driver_message,
                 watching, callback, delivered>>

PeerCloses ==
  /\ ~closed
  /\ wire = << >>
  /\ closed' = TRUE
  /\ UNCHANGED <<traffic, bodies, wire, socket, recv_buf, message,
                 driver_message, watching, callback, delivered>>

-----------------------------------------------------------------------------
(* The broker.                                                             *)

ContentLength == IF message = 0 THEN 0 ELSE bodies[message]

\* Mutant: a header has been parsed, so a body must follow.
NextReceiveOfAnyMessage == IF message # 0 THEN "body" ELSE "header"

NextReceive == IF message # 0 /\ ContentLength > 0 THEN "body" ELSE "header"

\* The main loop calls receive_cb when the socket is readable.
ReceiveCallback ==
  /\ watching
  /\ callback = "none"
  /\ socket # << >> \/ closed
  /\ callback' = NextReceive
  /\ UNCHANGED <<network, socket, recv_buf, message, driver_message, watching,
                 delivered>>

\* Both Receive functions first empty the socket into recv_buf.
Received == recv_buf \o socket

\* At the end of the stream they throw, before they look at recv_buf; the
\* exception ends the callback, and receive_cb removes the watch.  (Thrown
\* from the handle_body inside handle_header's loop it is caught there, and
\* the loop's own Receive throws it again.)
ConnectionLost ==
  /\ callback # "none"
  /\ closed
  /\ recv_buf' = Received
  /\ socket' = << >>
  /\ watching' = FALSE
  /\ callback' = "none"
  /\ UNCHANGED <<network, message, driver_message, delivered>>

Reads(call) ==
  /\ callback = call
  /\ ~closed
  /\ socket' = << >>
  /\ UNCHANGED <<network, watching>>

EndsHeader(buffer, i) ==
  /\ buffer[i].part = "end"
  /\ \A j \in 1 .. i - 1 : buffer[j].part # "end"

\* handle_header: no header in recv_buf, the callback returns.
NoHeader ==
  /\ Reads("header")
  /\ \A i \in 1 .. Len(Received) : Received[i].part # "end"
  /\ recv_buf' = Received
  /\ callback' = "none"
  /\ UNCHANGED <<message, driver_message, delivered>>

\* Mutant: handle_header takes one header and returns.
AfterHeaderReturns(m) == IF bodies[m] = 0 THEN "none" ELSE "body_of_header"

\* handle_header, after a header: the loop goes on, at once or with the body.
AfterHeader(m) == IF bodies[m] = 0 THEN "header" ELSE "body_of_header"

\* The text up to "\r\n\r\n" parses when it is a header.  A piece of a body
\* before it may be no more than the end of its last line, which the lexer
\* skips.
ParseHeader ==
  /\ Reads("header")
  /\ \E i \in 1 .. Len(Received) :
       /\ EndsHeader(Received, i)
       /\ i \in {2, 3}
       /\ recv_buf' = SubSeq(Received, i + 1, Len(Received))
       /\ LET m == Received[i].msg
          IN  /\ message' = m
              /\ driver_message' = m
              /\ delivered' = IF bodies[m] = 0 THEN Append(delivered, m) ELSE delivered
              /\ callback' = AfterHeader(m)

\* Mutant: parse_header does not forget the message before.
DriverForgetsNothing == UNCHANGED driver_message

DriverForgets == driver_message' = 0

\* Anything else makes the parser throw: parse_header has reset the driver's
\* message, and the broker's message_ keeps its value.
FailToParseHeader ==
  /\ Reads("header")
  /\ \E i \in 1 .. Len(Received) :
       /\ EndsHeader(Received, i)
       /\ i # 2
       /\ recv_buf' = SubSeq(Received, i + 1, Len(Received))
  /\ DriverForgets
  /\ UNCHANGED <<message, delivered, callback>>

\* Mutant: message_ is not set back to NULL.
MessageKept == UNCHANGED message

MessageDone == message' = 0

(***************************************************************************)
(* handle_body, called by receive_cb ("body") or in handle_header's loop   *)
(* ("body_of_header"), to which it returns.                                *)
(***************************************************************************)
AfterBody(call) == IF call = "body" THEN "none" ELSE "header"

NoBody(call) ==
  /\ Reads(call)
  /\ Len(Received) < ContentLength
  /\ recv_buf' = Received
  /\ callback' = AfterBody(call)
  /\ UNCHANGED <<message, driver_message, delivered>>

\* parse_payload throws when the driver has no message.
TakeBody(call) ==
  /\ Reads(call)
  /\ Len(Received) >= ContentLength
  /\ recv_buf' = SubSeq(Received, ContentLength + 1, Len(Received))
  /\ delivered' = IF driver_message = 0 THEN delivered
                  ELSE Append(delivered, driver_message)
  /\ MessageDone
  /\ callback' = AfterBody(call)
  /\ UNCHANGED driver_message

Broker ==
  \/ ReceiveCallback
  \/ ConnectionLost
  \/ NoHeader
  \/ ParseHeader
  \/ FailToParseHeader
  \/ \E call \in {"body", "body_of_header"} : NoBody(call) \/ TakeBody(call)

Arrival == \E n \in 1 .. Len(wire) : Arrives(n)

Next ==
  \/ \E length \in 0 .. MaxBody : PeerSends(length)
  \/ Arrival
  \/ PeerCloses
  \/ Broker

\* What is on the wire arrives, and the main loop dispatches a readable watch.
Spec == Init /\ [][Next]_vars /\ WF_vars(Arrival) /\ WF_vars(Broker)

-----------------------------------------------------------------------------
\* The variables have their types, and a body is asked for only when
\* message_ has one.
TypeOK ==
  /\ traffic \in Traffic
  /\ bodies \in Seq(0 .. MaxBody)
  /\ wire \in Seq(Piece) /\ socket \in Seq(Piece) /\ recv_buf \in Seq(Piece)
  /\ closed \in BOOLEAN /\ watching \in BOOLEAN
  /\ message \in 0 .. Len(bodies) /\ driver_message \in 0 .. Len(bodies)
  /\ callback \in {"none", "header", "body", "body_of_header"}
  /\ callback \in {"body", "body_of_header"} => ContentLength > 0
  /\ delivered \in Seq(1 .. Len(bodies))

(***************************************************************************)
(* handle_body takes Content-Length bytes, whatever they are, for the      *)
(* payload of the driver's message.  Headers may be lost when bytes arrive *)
(* between two recv() calls, but what a message is given as its payload is *)
(* always its own body.                                                    *)
(***************************************************************************)
PayloadIsOwnBody ==
  /\ ContentLength > 0
  /\ driver_message # 0
  => /\ driver_message = message
     /\ LET stream == recv_buf \o socket \o wire
        IN  /\ Len(stream) >= ContentLength
            /\ SubSeq(stream, 1, ContentLength) = BodyOf(message, ContentLength)

(***************************************************************************)
(* got_message sees the peer's messages in order, each at most once; and   *)
(* none is skipped unless a message follows a body that arrives in pieces. *)
(***************************************************************************)
Channel == INSTANCE MessageChannel WITH
  lossy <- traffic = "any", sent <- Len(bodies), delivered <- delivered

DeliversInOrder == Channel!Spec

(***************************************************************************)
(* When nothing is left to arrive, every message has been handled, except  *)
(* at worst the last one, whose body is complete in recv_buf: bytes that   *)
(* came between handle_body's recv() and the loop's are received by the    *)
(* latter, and no further byte wakes receive_cb up to look at them.  That  *)
(* cannot happen to messages that arrive whole.                            *)
(***************************************************************************)
OnlyABodyIsHeldBack ==
  /\ traffic # "any" /\ ~closed
  /\ callback = "none" /\ socket = << >> /\ wire = << >>
  /\ Len(delivered) < Len(bodies)
  => /\ traffic = "body_last"
     /\ message = Len(bodies) /\ Len(delivered) = Len(bodies) - 1
     /\ recv_buf = BodyOf(message, ContentLength)

\* Messages that arrive whole are all handled, unless the peer closes.
WholeMessagesAreHandled ==
  \A m \in 1 .. MaxMessages :
    traffic = "whole" /\ m <= Len(bodies) ~> Handled(m) \/ closed
=============================================================================
