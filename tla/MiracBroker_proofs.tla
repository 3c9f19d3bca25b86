------------------------- MODULE MiracBroker_proofs -------------------------
(***************************************************************************)
(* What holds of the messages a broker cuts out of its byte stream, for    *)
(* any number of messages and bodies of any length, however they arrive.   *)
(***************************************************************************)
EXTENDS MiracBroker, Integers, SequenceTheorems, TLAPS

-----------------------------------------------------------------------------
(* The stream: what has been sent and not yet been taken out of recv_buf.  *)

Stream == Received \o wire

PieceAt(m, k) ==
  [msg |-> m, part |-> CASE k = 1 -> "start" [] k = 2 -> "end" [] OTHER -> "body"]

\* off[m] pieces have been sent before message m.
Offsets(off) ==
  /\ off \in [1 .. Len(bodies) + 1 -> Nat]
  /\ off[1] = 0
  /\ \A m \in 1 .. Len(bodies) : off[m + 1] = off[m] + 2 + bodies[m]
  /\ \A m \in 1 .. Len(bodies), n \in 1 .. Len(bodies) + 1 :
       m < n => off[m] + 2 + bodies[m] <= off[n]

\* The stream is what was sent, from position c on.
Laid(off, c) ==
  /\ c \in Nat
  /\ c + Len(Stream) = off[Len(bodies) + 1]
  /\ \A i \in 1 .. Len(Stream) : \E m \in 1 .. Len(bodies) : \E k \in 1 .. 2 + bodies[m] :
       c + i = off[m] + k /\ Stream[i] = PieceAt(m, k)

\* The last message handed over; 0 before the first.
LastDelivered == IF delivered = << >> THEN 0 ELSE delivered[Len(delivered)]

\* A header has been parsed whose body is to come.
Pending == ContentLength > 0 /\ driver_message # 0

\* What message_ and the driver know fits the position in the stream.
Parsed(off, c) ==
  /\ message # 0 /\ driver_message # 0 => driver_message = message
  /\ Pending => c = off[message] + 2 /\ LastDelivered < message
  /\ LastDelivered # 0 => off[LastDelivered] + 2 <= c

\* The two situations of a broker that loses nothing: between two messages,
\* and waiting for a body.
Between(off, c) ==
  /\ c = off[Len(delivered) + 1]
  /\ callback \in {"none", "header"}
  /\ ContentLength = 0
  /\ callback = "none" /\ ~closed => \A i \in 1 .. Len(recv_buf) : recv_buf[i].part # "end"

Waiting ==
  /\ Pending
  /\ message = Len(delivered) + 1
  /\ traffic = "body_last" => message = Len(bodies)
  /\ traffic = "whole" => callback = "body_of_header" \/ ~watching

LosesNothing(off, c) ==
  /\ \A i \in 1 .. Len(delivered) : delivered[i] = i
  /\ Len(delivered) <= Len(bodies)
  /\ Between(off, c) \/ Waiting
  /\ traffic = "body_last" => \A m \in 1 .. Len(bodies) - 1 : bodies[m] = 0 \/ m <= Len(delivered)
  /\ traffic = "whole" /\ wire # << >> => wire[1].part = "start"

BrokerAt(off, c) ==
  /\ TypeOK
  /\ Offsets(off)
  /\ Laid(off, c)
  /\ Parsed(off, c)
  /\ traffic # "any" => LosesNothing(off, c)
  /\ ~watching => closed /\ callback = "none"

\* The inductive invariant.
BrokerInv == \E off, c : BrokerAt(off, c)

-----------------------------------------------------------------------------
(* Sequences of pieces.                                                    *)

LEMMA Joined ==
  ASSUME NEW S, NEW s \in Seq(S), NEW t \in Seq(S)
  PROVE  /\ s \o t \in Seq(S)
         /\ Len(s) \in Nat /\ Len(t) \in Nat /\ Len(s \o t) = Len(s) + Len(t)
         /\ \A i \in 1 .. Len(s) : (s \o t)[i] = s[i]
         /\ \A i \in 1 .. Len(t) : (s \o t)[Len(s) + i] = t[i]
OBVIOUS

LEMMA Dropped ==
  ASSUME NEW S, NEW s \in Seq(S), NEW k \in 0 .. Len(s)
  PROVE  /\ SubSeq(s, k + 1, Len(s)) \in Seq(S)
         /\ Len(SubSeq(s, k + 1, Len(s))) = Len(s) - k
         /\ \A i \in 1 .. Len(s) - k : SubSeq(s, k + 1, Len(s))[i] = s[i + k]
OBVIOUS

LEMMA Taken ==
  ASSUME NEW S, NEW s \in Seq(S), NEW k \in 0 .. Len(s)
  PROVE  /\ SubSeq(s, 1, k) \in Seq(S)
         /\ Len(SubSeq(s, 1, k)) = k
         /\ \A i \in 1 .. k : SubSeq(s, 1, k)[i] = s[i]
OBVIOUS

LEMMA SameSequence ==
  ASSUME NEW S, NEW s \in Seq(S), NEW t \in Seq(S), Len(s) = Len(t),
         \A i \in 1 .. Len(s) : s[i] = t[i]
  PROVE  s = t
OBVIOUS

LEMMA EmptyJoined ==
  ASSUME NEW S, NEW s \in Seq(S)
  PROVE  s \o << >> = s /\ << >> \in Seq(S)
OBVIOUS

\* What TypeOK says of the buffers.
LEMMA Buffers ==
  ASSUME TypeOK
  PROVE  /\ wire \in Seq(Piece) /\ socket \in Seq(Piece) /\ recv_buf \in Seq(Piece)
         /\ Received \in Seq(Piece) /\ Stream \in Seq(Piece)
         /\ Len(Received) \in Nat /\ Len(wire) \in Nat /\ Len(Stream) = Len(Received) + Len(wire)
         /\ \A i \in 1 .. Len(Received) : Stream[i] = Received[i]
         /\ \A i \in 1 .. Len(wire) : Stream[Len(Received) + i] = wire[i]
<1>1. wire \in Seq(Piece) /\ socket \in Seq(Piece) /\ recv_buf \in Seq(Piece)
  BY DEF TypeOK
<1>2. Received \in Seq(Piece)
  BY <1>1, Joined DEF Received
<1> QED
  BY <1>1, <1>2, Joined DEF Stream

\* The socket is emptied into recv_buf.
LEMMA ReceivedAll ==
  ASSUME TypeOK, recv_buf' = Received, socket' = << >>, wire' = wire
  PROVE  Stream' = Stream /\ recv_buf' \in Seq(Piece) /\ socket' \in Seq(Piece)
<1>1. Received \in Seq(Piece)
  BY Buffers
<1> QED
  BY <1>1, EmptyJoined DEF Stream, Received

\* k pieces are taken out of recv_buf.
LEMMA TakenOut ==
  ASSUME TypeOK, NEW k \in 0 .. Len(Received),
         recv_buf' = SubSeq(Received, k + 1, Len(Received)), socket' = << >>, wire' = wire
  PROVE  /\ recv_buf' \in Seq(Piece) /\ socket' \in Seq(Piece)
         /\ Len(Received') = Len(Received) - k
         /\ Len(Stream') = Len(Stream) - k /\ Len(Stream) - k \in Nat
         /\ \A i \in 1 .. Len(Stream) - k : i + k \in 1 .. Len(Stream) /\ Stream'[i] = Stream[i + k]
<1> DEFINE rest == SubSeq(Received, k + 1, Len(Received))
<1>1. /\ Received \in Seq(Piece) /\ wire \in Seq(Piece)
      /\ Len(Received) \in Nat /\ Len(wire) \in Nat /\ Len(Stream) = Len(Received) + Len(wire)
      /\ \A i \in 1 .. Len(Received) : Stream[i] = Received[i]
      /\ \A i \in 1 .. Len(wire) : Stream[Len(Received) + i] = wire[i]
  BY Buffers
<1>2. /\ rest \in Seq(Piece) /\ Len(rest) = Len(Received) - k
      /\ \A i \in 1 .. Len(Received) - k : rest[i] = Received[i + k]
  BY <1>1, Dropped
<1> HIDE DEF rest
<1>3. << >> \in Seq(Piece) /\ rest \o << >> = rest
  BY <1>2, EmptyJoined
<1>4. Received' = rest /\ Stream' = rest \o wire
  BY <1>3 DEF Received, Stream, rest
<1>5. /\ Len(rest \o wire) = Len(rest) + Len(wire)
      /\ \A i \in 1 .. Len(rest) : (rest \o wire)[i] = rest[i]
      /\ \A i \in 1 .. Len(wire) : (rest \o wire)[Len(rest) + i] = wire[i]
  <2>1. rest \in Seq(Piece) /\ wire \in Seq(Piece)
    BY <1>1, <1>2
  <2> QED
    BY <2>1, Joined
<1>6. ASSUME NEW i \in 1 .. Len(Stream) - k
      PROVE  i + k \in 1 .. Len(Stream) /\ Stream'[i] = Stream[i + k]
  <2>1. i + k \in 1 .. Len(Stream) /\ i \in Nat /\ k \in Nat
    BY <1>1
  <2>2. CASE i <= Len(Received) - k
    <3>1. i \in 1 .. Len(rest) /\ i + k \in 1 .. Len(Received) /\ i \in 1 .. Len(Received) - k
      BY <1>1, <1>2, <2>1, <2>2
    <3> QED
      BY <1>1, <1>2, <1>4, <1>5, <2>1, <3>1
  <2>3. CASE i > Len(Received) - k
    <3> DEFINE j == i - (Len(Received) - k)
    <3>1. j \in 1 .. Len(wire) /\ Len(rest) + j = i /\ Len(Received) + j = i + k
      BY <1>1, <1>2, <2>1, <2>3
    <3> HIDE DEF j
    <3>2. (rest \o wire)[i] = wire[j] /\ Stream[i + k] = wire[j]
      BY <1>1, <1>5, <3>1
    <3> QED
      BY <1>4, <2>1, <3>2
  <2> QED
    BY <1>1, <2>1, <2>2, <2>3
<1>7. recv_buf' = rest
  BY DEF rest
<1>8. Len(Stream') = Len(Stream) - k /\ Len(Stream) - k \in Nat
  BY <1>1, <1>2, <1>4, <1>5
<1> QED
  BY <1>2, <1>3, <1>4, <1>6, <1>7, <1>8

-----------------------------------------------------------------------------
(* Positions in the stream.                                                *)

LEMMA Bodies ==
  ASSUME TypeOK
  PROVE  /\ Len(bodies) \in Nat
         /\ \A m \in 1 .. Len(bodies) : bodies[m] \in Nat
         /\ message \in 0 .. Len(bodies) /\ driver_message \in 0 .. Len(bodies)
         /\ ContentLength \in Nat
         /\ ContentLength > 0 => message \in 1 .. Len(bodies) /\ ContentLength = bodies[message]
         /\ Len(delivered) \in Nat
         /\ LastDelivered \in 0 .. Len(bodies)
<1>1. /\ bodies \in Seq(0 .. MaxBody) /\ delivered \in Seq(1 .. Len(bodies))
      /\ message \in 0 .. Len(bodies) /\ driver_message \in 0 .. Len(bodies)
  BY DEF TypeOK
<1>2. Len(bodies) \in Nat /\ \A m \in 1 .. Len(bodies) : bodies[m] \in Nat
  BY <1>1, BrokerAssumption
<1>3. LastDelivered \in 0 .. Len(bodies) /\ Len(delivered) \in Nat
  <2>1. CASE delivered = << >>
    BY <1>1, <1>2, <2>1 DEF LastDelivered
  <2>2. CASE delivered # << >>
    <3>1. Len(delivered) \in 1 .. Len(delivered)
      BY <1>1, <2>2
    <3> QED
      BY <1>1, <2>2, <3>1 DEF LastDelivered
  <2> QED
    BY <2>1, <2>2
<1> QED
  BY <1>1, <1>2, <1>3 DEF ContentLength

\* Of two messages the later one begins behind the earlier one.
LEMMA Later ==
  ASSUME TypeOK, NEW off, Offsets(off), NEW m \in 1 .. Len(bodies), NEW n \in 1 .. Len(bodies) + 1
  PROVE  /\ off[m] \in Nat /\ off[n] \in Nat /\ bodies[m] \in Nat /\ m \in Nat /\ n \in Nat
         /\ off[m + 1] = off[m] + 2 + bodies[m]
         /\ m < n => off[m] + 2 + bodies[m] <= off[n]
         /\ n < m => off[n] + 2 <= off[m]
<1>1. Len(bodies) \in Nat /\ \A i \in 1 .. Len(bodies) : bodies[i] \in Nat
  BY Bodies
<1>2. n < m => n \in 1 .. Len(bodies) /\ m \in 1 .. Len(bodies) + 1
  BY <1>1
<1>3. n < m => off[n] + 2 + bodies[n] <= off[m]
  BY <1>2 DEF Offsets
<1>4. off[m] \in Nat /\ off[n] \in Nat
  BY <1>1 DEF Offsets
<1> QED
  BY <1>1, <1>2, <1>3, <1>4 DEF Offsets

LEMMA Apart ==
  ASSUME NEW a \in Nat, NEW b \in Nat, NEW x \in Nat, NEW y \in Nat, NEW k \in Nat, NEW j \in Nat,
         a + x <= b, k <= x, 1 <= j
  PROVE  a + k # b + j
OBVIOUS

LEMMA NotBoth ==
  ASSUME NEW a \in Nat, NEW b \in Nat, a < b
  PROVE  ~(b <= a)
OBVIOUS

LEMMA NotZero ==
  ASSUME NEW a \in Nat, a # 0
  PROVE  a > 0
OBVIOUS

LEMMA UpTo ==
  ASSUME NEW a \in Nat, NEW b \in Nat, a <= b
  PROVE  a \in 0 .. b /\ b - a \in Nat
OBVIOUS

LEMMA Farther ==
  ASSUME NEW a \in Nat, NEW b \in Nat, NEW k \in Nat, a + 2 <= b
  PROVE  a + 2 <= b + k
OBVIOUS

LEMMA Inside ==
  ASSUME NEW a \in Nat, NEW x \in Nat, NEW k \in 1 .. x, NEW c \in Nat, NEW l \in Nat,
         a + x <= c + l, a + k > c
  PROVE  a + k - c \in 1 .. l /\ k \in Nat
OBVIOUS

\* A position belongs to one piece of one message.
LEMMA OnePiece ==
  ASSUME TypeOK, NEW off, Offsets(off),
         NEW m \in 1 .. Len(bodies), NEW k \in 1 .. 2 + bodies[m],
         NEW n \in 1 .. Len(bodies), NEW j \in 1 .. 2 + bodies[n],
         off[m] + k = off[n] + j
  PROVE  m = n /\ k = j
<1>1. /\ m \in Nat /\ n \in Nat /\ bodies[m] \in Nat /\ bodies[n] \in Nat
      /\ off[m] \in Nat /\ off[n] \in Nat
  BY Later
<1>2. Len(bodies) \in Nat /\ n \in 1 .. Len(bodies) + 1 /\ m \in 1 .. Len(bodies) + 1
  BY Bodies
<1>3. m < n => off[m] + 2 + bodies[m] <= off[n]
  BY <1>2, Later
<1>4. n < m => off[n] + 2 + bodies[n] <= off[m]
  BY <1>2, Later
<1>5. k \in Nat /\ j \in Nat /\ 1 <= k /\ 1 <= j /\ k <= 2 + bodies[m] /\ j <= 2 + bodies[n]
  BY <1>1
<1>6. ~(m < n)
  <2>1. ASSUME m < n PROVE FALSE
    <3>1. off[m] + (2 + bodies[m]) <= off[n] /\ 2 + bodies[m] \in Nat
      BY <1>1, <1>3, <2>1
    <3> QED
      BY <1>1, <1>5, <3>1, Apart
  <2> QED
    BY <2>1
<1>7. ~(n < m)
  <2>1. ASSUME n < m PROVE FALSE
    <3>1. off[n] + (2 + bodies[n]) <= off[m] /\ 2 + bodies[n] \in Nat
      BY <1>1, <1>4, <2>1
    <3> QED
      BY <1>1, <1>5, <3>1, Apart
  <2> QED
    BY <2>1
<1>8. m = n
  BY <1>1, <1>6, <1>7
<1> QED
  BY <1>1, <1>5, <1>8

\* What is sent and not yet taken is in the stream.
LEMMA PieceIs ==
  ASSUME TypeOK, NEW off, Offsets(off), NEW c, Laid(off, c),
         NEW m \in 1 .. Len(bodies), NEW k \in 1 .. 2 + bodies[m], off[m] + k > c
  PROVE  /\ off[m] + k - c \in 1 .. Len(Stream)
         /\ Stream[off[m] + k - c] = PieceAt(m, k)
<1>1. m \in Nat /\ bodies[m] \in Nat /\ off[m] \in Nat
  BY Later
<1>2. /\ Len(bodies) \in Nat /\ Len(bodies) + 1 \in 1 .. Len(bodies) + 1
      /\ m < Len(bodies) + 1 /\ c \in Nat /\ Len(Stream) \in Nat
  <2>1. Len(bodies) \in Nat
    BY Bodies
  <2>2. Len(Stream) \in Nat
    BY Buffers
  <2>3. c \in Nat
    BY DEF Laid
  <2> QED
    BY <2>1, <2>2, <2>3
<1>3. /\ off[m] + 2 + bodies[m] <= off[Len(bodies) + 1]
      /\ off[Len(bodies) + 1] \in Nat
      /\ c + Len(Stream) = off[Len(bodies) + 1]
  BY <1>2, Later DEF Laid
<1> DEFINE i == off[m] + k - c
<1>4. i \in 1 .. Len(Stream) /\ k \in Nat
  <2>1. off[m] + 2 + bodies[m] <= c + Len(Stream)
    BY <1>3
  <2>2. off[m] + (2 + bodies[m]) = off[m] + 2 + bodies[m] /\ 2 + bodies[m] \in Nat
    BY <1>1
  <2> QED
    BY <1>1, <1>2, <2>1, <2>2, Inside
<1>5. PICK n \in 1 .. Len(bodies) : \E j \in 1 .. 2 + bodies[n] :
        c + i = off[n] + j /\ Stream[i] = PieceAt(n, j)
  BY <1>4 DEF Laid
<1>6. PICK j \in 1 .. 2 + bodies[n] : c + i = off[n] + j /\ Stream[i] = PieceAt(n, j)
  BY <1>5
<1>7. off[m] + k = off[n] + j
  BY <1>1, <1>2, <1>4, <1>6
<1>8. m = n /\ k = j
  BY <1>7, OnePiece
<1> QED
  BY <1>4, <1>6, <1>8

\* The end of a header says how far the stream has been taken.
LEMMA EndAt ==
  ASSUME TypeOK, NEW off, Offsets(off), NEW c, Laid(off, c),
         NEW i \in 1 .. Len(Received), Received[i].part = "end"
  PROVE  Received[i].msg \in 1 .. Len(bodies) /\ c + i = off[Received[i].msg] + 2
<1>1. i \in 1 .. Len(Stream) /\ Stream[i] = Received[i]
  BY Buffers
<1>2. PICK m \in 1 .. Len(bodies) : \E k \in 1 .. 2 + bodies[m] :
        c + i = off[m] + k /\ Stream[i] = PieceAt(m, k)
  BY <1>1 DEF Laid
<1>3. PICK k \in 1 .. 2 + bodies[m] : c + i = off[m] + k /\ Stream[i] = PieceAt(m, k)
  BY <1>2
<1>4. PieceAt(m, k).part = "end" /\ PieceAt(m, k).msg = m
  BY <1>1, <1>3 DEF PieceAt
<1>5. k = 2
  BY <1>4 DEF PieceAt
<1> QED
  BY <1>1, <1>3, <1>4, <1>5

LEMMA LaidKept ==
  ASSUME NEW off, NEW c, Laid(off, c), Stream' = Stream, bodies' = bodies
  PROVE  Laid(off, c)'
BY DEF Laid

LEMMA LaidAfter ==
  ASSUME TypeOK, NEW off, NEW c, Laid(off, c), NEW k \in Nat, bodies' = bodies,
         Len(Stream') = Len(Stream) - k, Len(Stream) - k \in Nat,
         \A i \in 1 .. Len(Stream) - k : i + k \in 1 .. Len(Stream) /\ Stream'[i] = Stream[i + k]
  PROVE  Laid(off, c + k)'
<1>1. c \in Nat /\ c + k \in Nat /\ Len(Stream) \in Nat
  BY Buffers DEF Laid
<1>2. (c + k) + Len(Stream') = off[Len(bodies) + 1]
  BY <1>1 DEF Laid
<1>3. ASSUME NEW i \in 1 .. Len(Stream')
      PROVE  \E m \in 1 .. Len(bodies) : \E j \in 1 .. 2 + bodies[m] :
               (c + k) + i = off[m] + j /\ Stream'[i] = PieceAt(m, j)
  <2>1. i + k \in 1 .. Len(Stream) /\ Stream'[i] = Stream[i + k] /\ i \in Nat
    OBVIOUS
  <2>2. c + (i + k) = (c + k) + i
    BY <1>1, <2>1
  <2>3. \E m \in 1 .. Len(bodies) : \E j \in 1 .. 2 + bodies[m] :
          c + (i + k) = off[m] + j /\ Stream[i + k] = PieceAt(m, j)
    BY <2>1 DEF Laid
  <2> QED
    BY <2>1, <2>2, <2>3
<1> QED
  BY <1>1, <1>2, <1>3 DEF Laid
-----------------------------------------------------------------------------
(* Steps that leave the stream as it is.                                   *)

\* A program that has removed its watch runs no callback.
LEMMA RunningIsWatching ==
  ASSUME NEW off, NEW c, BrokerAt(off, c), callback # "none"
  PROVE  watching = TRUE
<1>1. watching \in BOOLEAN /\ (~watching => closed /\ callback = "none")
  BY DEF BrokerAt, TypeOK
<1> QED
  BY <1>1

LEMMA ParsedKept ==
  ASSUME NEW off, NEW c, Parsed(off, c),
         UNCHANGED <<bodies, message, driver_message, delivered>>
  PROVE  Parsed(off, c)'
BY DEF Parsed, Pending, ContentLength, LastDelivered

LEMMA OffsetsKept ==
  ASSUME NEW off, Offsets(off), bodies' = bodies
  PROVE  Offsets(off)'
BY DEF Offsets

LEMMA SomeArrive ==
  ASSUME TypeOK, NEW n \in 1 .. Len(wire), Arrives(n)
  PROVE  socket' \in Seq(Piece) /\ wire' \in Seq(Piece) /\ Stream' = Stream
<1> DEFINE here == SubSeq(wire, 1, n)
<1> DEFINE rest == SubSeq(wire, n + 1, Len(wire))
<1>1. wire \in Seq(Piece) /\ socket \in Seq(Piece) /\ recv_buf \in Seq(Piece)
  BY Buffers
<1>2. Len(wire) \in Nat /\ n \in 0 .. Len(wire)
  BY <1>1
<1>3. here \in Seq(Piece)
  BY <1>1, <1>2, Taken
<1>4. rest \in Seq(Piece)
  BY <1>1, <1>2, Dropped
<1>5. here \o rest = wire
  <2>1. 1 \in 1 .. Len(wire) + 1 /\ n \in 1 - 1 .. Len(wire) /\ Len(wire) \in n .. Len(wire)
    BY <1>2
  <2>2. here \o rest = SubSeq(wire, 1, Len(wire))
    BY <1>1, <2>1, ConcatAdjacentSubSeq
  <2> QED
    BY <1>1, <2>2, SubSeqFull
<1>6. socket' = socket \o here /\ wire' = rest /\ recv_buf' = recv_buf
  BY DEF Arrives
<1> HIDE DEF here, rest
<1>7. socket \o here \in Seq(Piece) /\ Received \in Seq(Piece)
  BY <1>1, <1>3, Joined DEF Received
<1>8. recv_buf \o (socket \o here) = Received \o here
  <2>1. (recv_buf \o socket) \o here = recv_buf \o (socket \o here)
    BY <1>1, <1>3, ConcatAssociative
  <2> QED
    BY <2>1 DEF Received
<1>9. (Received \o here) \o rest = Received \o (here \o rest)
  BY <1>3, <1>4, <1>7, ConcatAssociative
<1>10. Stream' = (recv_buf \o (socket \o here)) \o rest
  BY <1>6 DEF Stream, Received
<1> QED
  BY <1>4, <1>5, <1>6, <1>7, <1>8, <1>9, <1>10 DEF Stream

LEMMA ArrivesKeeps ==
  ASSUME NEW off, NEW c, BrokerAt(off, c), NEW n \in 1 .. Len(wire), Arrives(n)
  PROVE  BrokerAt(off, c)'
<1>1. TypeOK /\ Offsets(off) /\ Laid(off, c) /\ Parsed(off, c)
  BY DEF BrokerAt
<1>2. UNCHANGED <<traffic, bodies, closed, recv_buf, message, driver_message, watching,
                  callback, delivered>>
  BY DEF Arrives
<1>3. socket' \in Seq(Piece) /\ wire' \in Seq(Piece) /\ Stream' = Stream
  BY <1>1, SomeArrive
<1>4. TypeOK'
  BY <1>1, <1>2, <1>3 DEF TypeOK, ContentLength
<1>5. Offsets(off)' /\ Laid(off, c)' /\ Parsed(off, c)'
  BY <1>1, <1>2, <1>3, OffsetsKept, LaidKept, ParsedKept
<1>6. ASSUME LosesNothing(off, c), traffic # "any" PROVE LosesNothing(off, c)'
  <2>1. Between(off, c) \/ Waiting => Between(off, c)' \/ Waiting'
    BY <1>2 DEF Between, Waiting, Pending, ContentLength
  <2>2. ASSUME traffic = "whole", wire' # << >> PROVE wire'[1].part = "start"
    <3>1. wire \in Seq(Piece) /\ wire' = SubSeq(wire, n + 1, Len(wire))
      BY <1>1, Buffers DEF Arrives
    <3>2. Len(wire) \in Nat /\ n \in 0 .. Len(wire)
      BY <3>1
    <3>3. /\ wire' \in Seq(Piece) /\ Len(wire') = Len(wire) - n
          /\ \A i \in 1 .. Len(wire) - n : wire'[i] = wire[i + n]
      BY <3>1, <3>2, Dropped
    <3>4. Len(wire') # 0
      BY <2>2, <3>3
    <3>5. n < Len(wire) /\ 1 \in 1 .. Len(wire) - n /\ 1 + n = n + 1
      BY <3>2, <3>3, <3>4
    <3>6. wire[n + 1].part = "start"
      BY <2>2, <3>5 DEF Arrives
    <3> QED
      BY <3>3, <3>5, <3>6
  <2> QED
    BY <1>2, <1>6, <2>1, <2>2 DEF LosesNothing
<1> QED
  BY <1>2, <1>4, <1>5, <1>6 DEF BrokerAt

LEMMA PeerClosesKeeps ==
  ASSUME NEW off, NEW c, BrokerAt(off, c), PeerCloses
  PROVE  BrokerAt(off, c)'
<1>1. TypeOK /\ Offsets(off) /\ Laid(off, c) /\ Parsed(off, c)
  BY DEF BrokerAt
<1>2. UNCHANGED <<traffic, bodies, wire, socket, recv_buf, message, driver_message, watching,
                  callback, delivered>> /\ closed' = TRUE
  BY DEF PeerCloses
<1>3. Stream' = Stream
  BY <1>2 DEF Stream, Received
<1>4. TypeOK'
  BY <1>1, <1>2 DEF TypeOK, ContentLength
<1>5. Offsets(off)' /\ Laid(off, c)' /\ Parsed(off, c)'
  BY <1>1, <1>2, <1>3, OffsetsKept, LaidKept, ParsedKept
<1>6. ASSUME LosesNothing(off, c) PROVE LosesNothing(off, c)'
  <2>1. Between(off, c) \/ Waiting => Between(off, c)' \/ Waiting'
    BY <1>2 DEF Between, Waiting, Pending, ContentLength
  <2> QED
    BY <1>2, <1>6, <2>1 DEF LosesNothing
<1> QED
  BY <1>2, <1>4, <1>5, <1>6 DEF BrokerAt

LEMMA ReceiveCallbackKeeps ==
  ASSUME NEW off, NEW c, BrokerAt(off, c), ReceiveCallback
  PROVE  BrokerAt(off, c)'
<1>1. TypeOK /\ Offsets(off) /\ Laid(off, c) /\ Parsed(off, c)
  BY DEF BrokerAt
<1>2. /\ UNCHANGED <<traffic, bodies, wire, closed, socket, recv_buf, message, driver_message,
                     watching, delivered>>
      /\ watching /\ callback = "none" /\ callback' = NextReceive
  BY DEF ReceiveCallback, network
<1>3. Stream' = Stream
  BY <1>2 DEF Stream, Received
<1>4. TypeOK'
  BY <1>1, <1>2 DEF TypeOK, ContentLength, NextReceive
<1>5. Offsets(off)' /\ Laid(off, c)' /\ Parsed(off, c)'
  BY <1>1, <1>2, <1>3, OffsetsKept, LaidKept, ParsedKept
<1>6. ASSUME LosesNothing(off, c) PROVE LosesNothing(off, c)'
  <2>1. CASE Between(off, c)
    <3>1. callback' = "header"
      BY <1>2, <2>1, <1>1, Bodies DEF Between, NextReceive
    <3> QED
      BY <1>2, <1>6, <2>1, <3>1 DEF LosesNothing, Between, ContentLength
  <2>2. CASE Waiting
    BY <1>2, <1>6, <2>2 DEF LosesNothing, Waiting, Pending, ContentLength
  <2> QED
    BY <1>6, <2>1, <2>2 DEF LosesNothing
<1> QED
  BY <1>2, <1>4, <1>5, <1>6 DEF BrokerAt

LEMMA ConnectionLostKeeps ==
  ASSUME NEW off, NEW c, BrokerAt(off, c), ConnectionLost
  PROVE  BrokerAt(off, c)'
<1>1. TypeOK /\ Offsets(off) /\ Laid(off, c) /\ Parsed(off, c)
  BY DEF BrokerAt
<1>2. /\ UNCHANGED <<traffic, bodies, wire, closed, message, driver_message, delivered>>
      /\ closed /\ recv_buf' = Received /\ socket' = << >>
      /\ watching' = FALSE /\ callback' = "none"
  BY DEF ConnectionLost, network
<1>3. Stream' = Stream /\ recv_buf' \in Seq(Piece) /\ socket' \in Seq(Piece)
  BY <1>1, <1>2, ReceivedAll
<1>4. TypeOK'
  BY <1>1, <1>2, <1>3 DEF TypeOK, ContentLength
<1>5. Offsets(off)' /\ Laid(off, c)' /\ Parsed(off, c)'
  BY <1>1, <1>2, <1>3, OffsetsKept, LaidKept, ParsedKept
<1>6. ASSUME LosesNothing(off, c) PROVE LosesNothing(off, c)'
  <2>1. Between(off, c) \/ Waiting => Between(off, c)' \/ Waiting'
    BY <1>2 DEF Between, Waiting, Pending, ContentLength
  <2> QED
    BY <1>2, <1>6, <2>1 DEF LosesNothing
<1> QED
  BY <1>2, <1>4, <1>5, <1>6 DEF BrokerAt

LEMMA NoHeaderKeeps ==
  ASSUME NEW off, NEW c, BrokerAt(off, c), NoHeader
  PROVE  BrokerAt(off, c)'
<1>1. TypeOK /\ Offsets(off) /\ Laid(off, c) /\ Parsed(off, c)
  BY DEF BrokerAt
<1>2. /\ UNCHANGED <<traffic, bodies, wire, closed, message, driver_message, watching, delivered>>
      /\ recv_buf' = Received /\ socket' = << >> /\ callback = "header" /\ callback' = "none"
      /\ \A i \in 1 .. Len(Received) : Received[i].part # "end"
  BY DEF NoHeader, Reads, network
<1>3. Stream' = Stream /\ recv_buf' \in Seq(Piece) /\ socket' \in Seq(Piece)
  BY <1>1, <1>2, ReceivedAll
<1>4. TypeOK'
  BY <1>1, <1>2, <1>3 DEF TypeOK, ContentLength
<1>5. Offsets(off)' /\ Laid(off, c)' /\ Parsed(off, c)'
  BY <1>1, <1>2, <1>3, OffsetsKept, LaidKept, ParsedKept
<1>6. watching = TRUE
  BY <1>2, RunningIsWatching
<1>7. ASSUME LosesNothing(off, c) PROVE LosesNothing(off, c)'
  <2>1. Between(off, c) \/ Waiting => Between(off, c)' \/ Waiting'
    BY <1>2, <1>6 DEF Between, Waiting, Pending, ContentLength
  <2> QED
    BY <1>2, <1>7, <2>1 DEF LosesNothing
<1> QED
  BY <1>2, <1>4, <1>5, <1>6, <1>7 DEF BrokerAt

\* The place behind l pieces of a body.
LEMMA BodyPlace ==
  ASSUME NEW o \in Nat, NEW l \in Nat, NEW b \in Nat, l < b
  PROVE  /\ l + 3 \in 1 .. 2 + b
         /\ o + (l + 3) > o + 2
         /\ o + (l + 3) - (o + 2) = l + 1
OBVIOUS

\* A message that arrives whole has its body behind its header.
LEMMA WholeBodyIsThere ==
  ASSUME NEW off, NEW c, BrokerAt(off, c), LosesNothing(off, c), Waiting, traffic = "whole"
  PROVE  ContentLength <= Len(Received)
<1>1. TypeOK /\ Offsets(off) /\ Laid(off, c) /\ Parsed(off, c)
  BY DEF BrokerAt
<1>2. /\ message \in 1 .. Len(bodies) /\ ContentLength = bodies[message]
      /\ bodies[message] \in Nat /\ c = off[message] + 2
  BY <1>1, Bodies DEF Waiting, Parsed, Pending
<1>3. Len(Received) \in Nat /\ Len(wire) \in Nat /\ Len(Stream) = Len(Received) + Len(wire)
  BY <1>1, Buffers
<1>4. off[message] \in Nat /\ c \in Nat
  BY <1>1, <1>2, Later DEF Laid
<1> SUFFICES ASSUME Len(Received) < bodies[message] PROVE FALSE
  BY <1>2, <1>3
<1> DEFINE k == Len(Received) + 3
<1>5. k \in 1 .. 2 + bodies[message] /\ off[message] + k > c /\ off[message] + k - c = Len(Received) + 1
  BY <1>2, <1>3, <1>4, BodyPlace
<1>6. k # 1 /\ k # 2
  BY <1>3
<1> HIDE DEF k
<1>7. Len(Received) + 1 \in 1 .. Len(Stream) /\ Stream[Len(Received) + 1] = PieceAt(message, k)
  <2>1. off[message] + k - c \in 1 .. Len(Stream) /\ Stream[off[message] + k - c] = PieceAt(message, k)
    BY <1>1, <1>2, <1>5, PieceIs
  <2> QED
    BY <1>5, <2>1
<1>8. PieceAt(message, k).part = "body"
  BY <1>6 DEF PieceAt
<1>9. 1 \in 1 .. Len(wire)
  BY <1>3, <1>7
<1>10. wire[1].part = "body"
  BY <1>1, <1>7, <1>8, <1>9, Buffers
<1>11. wire # << >>
  BY <1>9
<1> QED
  BY <1>10, <1>11 DEF LosesNothing

LEMMA NoBodyKeeps ==
  ASSUME NEW off, NEW c, BrokerAt(off, c),
         NEW call \in {"body", "body_of_header"}, NoBody(call)
  PROVE  BrokerAt(off, c)'
<1>1. TypeOK /\ Offsets(off) /\ Laid(off, c) /\ Parsed(off, c)
  BY DEF BrokerAt
<1>2. /\ UNCHANGED <<traffic, bodies, wire, closed, message, driver_message, watching, delivered>>
      /\ recv_buf' = Received /\ socket' = << >> /\ callback = call
      /\ callback' \in {"none", "header"} /\ Len(Received) < ContentLength
  BY DEF NoBody, Reads, network, AfterBody
<1>3. Stream' = Stream /\ recv_buf' \in Seq(Piece) /\ socket' \in Seq(Piece)
  BY <1>1, <1>2, ReceivedAll
<1>4. TypeOK'
  BY <1>1, <1>2, <1>3 DEF TypeOK, ContentLength
<1>5. Offsets(off)' /\ Laid(off, c)' /\ Parsed(off, c)'
  BY <1>1, <1>2, <1>3, OffsetsKept, LaidKept, ParsedKept
<1>6. watching = TRUE
  BY <1>2, RunningIsWatching
<1>7. ASSUME LosesNothing(off, c) PROVE LosesNothing(off, c)'
  <2>1. Waiting
    BY <1>2, <1>7 DEF LosesNothing, Between
  <2>2. traffic # "whole"
    <3>1. Len(Received) \in Nat /\ ContentLength \in Nat
      BY <1>1, Buffers, Bodies
    <3>2. traffic = "whole" => ContentLength <= Len(Received)
      BY <1>7, <2>1, WholeBodyIsThere
    <3>3. Len(Received) < ContentLength
      BY <1>2
    <3>4. ~(ContentLength <= Len(Received))
      BY <3>1, <3>3, NotBoth
    <3> QED
      BY <3>2, <3>4
  <2>3. Waiting'
    BY <1>2, <2>1, <2>2 DEF Waiting, Pending, ContentLength
  <2> QED
    BY <1>2, <1>7, <2>3 DEF LosesNothing
<1> QED
  BY <1>2, <1>4, <1>5, <1>6, <1>7 DEF BrokerAt
-----------------------------------------------------------------------------
(* handle_header.                                                          *)

\* A header is looked for between two messages.
LEMMA HeaderMeansBetween ==
  ASSUME NEW off, NEW c, BrokerAt(off, c), LosesNothing(off, c), traffic # "any",
         callback = "header",
         NEW i \in 1 .. Len(Received), Received[i].part = "end"
  PROVE  Between(off, c)
<1>1. TypeOK /\ Offsets(off) /\ Laid(off, c) /\ Parsed(off, c)
  BY DEF BrokerAt
<1> SUFFICES ASSUME Waiting PROVE FALSE
  BY DEF LosesNothing
<1>2. watching = TRUE
  BY RunningIsWatching
<1>3. traffic = "body_last"
  BY <1>1, <1>2 DEF Waiting, TypeOK, Traffic
<1>4. message = Len(bodies) /\ message \in 1 .. Len(bodies) /\ c = off[message] + 2
  BY <1>1, <1>3, Bodies DEF Waiting, Pending, Parsed
<1> DEFINE m == Received[i].msg
<1>5. m \in 1 .. Len(bodies) /\ c + i = off[m] + 2
  BY <1>1, EndAt
<1> HIDE DEF m
<1>6. /\ m \in Nat /\ message \in Nat /\ off[m] \in Nat /\ off[message] \in Nat
      /\ m <= message /\ message \in 1 .. Len(bodies) + 1
  BY <1>1, <1>4, <1>5, Later, Bodies
<1>7. off[m] <= off[message]
  <2>1. CASE m = message
    BY <1>6, <2>1
  <2>2. CASE m < message
    <3>1. off[m] + 2 + bodies[m] <= off[message] /\ bodies[m] \in Nat
      BY <1>1, <1>5, <1>6, <2>2, Later
    <3> QED
      BY <1>6, <3>1
  <2> QED
    BY <1>6, <2>1, <2>2
<1>8. i \in Nat /\ 1 <= i
  BY Buffers, <1>1
<1>9. off[message] + 2 + i = off[m] + 2
  BY <1>4, <1>5
<1> QED
  BY <1>6, <1>7, <1>8, <1>9

\* Between two messages the first end of a header is that of the next one.
LEMMA FirstHeader ==
  ASSUME NEW off, NEW c, BrokerAt(off, c), LosesNothing(off, c), traffic # "any",
         callback = "header",
         NEW i \in 1 .. Len(Received), EndsHeader(Received, i)
  PROVE  i = 2 /\ Received[i].msg = Len(delivered) + 1
<1>1. TypeOK /\ Offsets(off) /\ Laid(off, c) /\ Parsed(off, c)
  BY DEF BrokerAt
<1>2. Received[i].part = "end"
  BY DEF EndsHeader
<1> DEFINE m == Received[i].msg
<1> DEFINE n == Len(delivered) + 1
<1>3. m \in 1 .. Len(bodies) /\ c + i = off[m] + 2
  BY <1>1, <1>2, EndAt
<1>4. c = off[n]
  BY <1>2, HeaderMeansBetween DEF Between
<1>5. n \in 1 .. Len(bodies) + 1
  <2>1. Len(delivered) <= Len(bodies)
    BY DEF LosesNothing
  <2>2. Len(delivered) \in Nat /\ Len(bodies) \in Nat
    BY <1>1, Bodies
  <2> QED
    BY <2>1, <2>2
<1> HIDE DEF m, n
<1>6. /\ m \in Nat /\ n \in Nat /\ off[m] \in Nat /\ off[n] \in Nat
      /\ m < n => off[m] + 2 + bodies[m] <= off[n]
      /\ bodies[m] \in Nat /\ Len(bodies) \in Nat
  BY <1>1, <1>3, <1>5, Later, Bodies
<1>7. i \in Nat /\ 1 <= i /\ Len(Received) \in Nat
  BY Buffers, <1>1
<1>8. off[n] + i = off[m] + 2
  BY <1>3, <1>4
<1>9. ~(m < n)
  <2> SUFFICES ASSUME m < n PROVE FALSE
    OBVIOUS
  <2>1. off[m] + 2 + bodies[m] <= off[n]
    BY <1>6
  <2> QED
    BY <1>6, <1>7, <1>8, <2>1
<1>10. ~(n < m)
  <2> SUFFICES ASSUME n < m PROVE FALSE
    OBVIOUS
  <2>1. n \in 1 .. Len(bodies) /\ m \in 1 .. Len(bodies) + 1
    BY <1>3, <1>5, <1>6
  <2>2. bodies[n] \in Nat /\ off[n] + 2 + bodies[n] <= off[m]
    BY <1>1, <2>1, Later
  <2>3. 4 <= i
    BY <1>6, <1>7, <1>8, <2>2
  <2>4. 2 \in 1 .. 2 + bodies[n] /\ off[n] + 2 > c /\ off[n] + 2 - c = 2
    BY <1>4, <1>6, <2>2
  <2>5. off[n] + 2 - c \in 1 .. Len(Stream) /\ Stream[off[n] + 2 - c] = PieceAt(n, 2)
    BY <1>1, <2>1, <2>4, PieceIs
  <2>6. 2 \in 1 .. Len(Received) /\ 2 \in 1 .. i - 1
    BY <1>7, <2>3
  <2>7. Received[2] = PieceAt(n, 2)
    BY <1>1, <2>4, <2>5, <2>6, Buffers
  <2>8. Received[2].part = "end"
    BY <2>7 DEF PieceAt
  <2> QED
    BY <2>6, <2>8 DEF EndsHeader
<1>11. m = n
  BY <1>6, <1>9, <1>10
<1>12. i = 2
  BY <1>6, <1>7, <1>8, <1>11
<1> QED
  BY <1>11, <1>12 DEF m, n

\* A header that has been taken out of recv_buf, and all before it.
LEMMA HeaderTaken ==
  ASSUME NEW off, NEW c, BrokerAt(off, c),
         NEW i \in 1 .. Len(Received), EndsHeader(Received, i),
         recv_buf' = SubSeq(Received, i + 1, Len(Received)), socket' = << >>,
         UNCHANGED <<bodies, wire>>
  PROVE  /\ recv_buf' \in Seq(Piece) /\ socket' \in Seq(Piece)
         /\ Received[i].msg \in 1 .. Len(bodies)
         /\ c + i = off[Received[i].msg] + 2
         /\ c \in Nat /\ i \in Nat /\ 1 <= i
         /\ Laid(off, c + i)'
<1>1. TypeOK /\ Offsets(off) /\ Laid(off, c)
  BY DEF BrokerAt
<1>2. Received[i].msg \in 1 .. Len(bodies) /\ c + i = off[Received[i].msg] + 2
  BY <1>1, EndAt DEF EndsHeader
<1>3. Len(Received) \in Nat
  BY <1>1, Buffers
<1>4. i \in 0 .. Len(Received) /\ i \in Nat /\ 1 <= i
  BY <1>3
<1>5. /\ recv_buf' \in Seq(Piece) /\ socket' \in Seq(Piece)
      /\ Len(Stream') = Len(Stream) - i /\ Len(Stream) - i \in Nat
      /\ \A j \in 1 .. Len(Stream) - i : j + i \in 1 .. Len(Stream) /\ Stream'[j] = Stream[j + i]
  <2>1. wire' = wire
    OBVIOUS
  <2> QED
    BY <1>1, <1>4, <2>1, TakenOut
<1>6. Laid(off, c + i)'
  <2>1. bodies' = bodies
    OBVIOUS
  <2> QED
    BY <1>1, <1>4, <1>5, <2>1, LaidAfter
<1>7. c \in Nat
  BY <1>1 DEF Laid
<1> QED
  BY <1>2, <1>4, <1>5, <1>6, <1>7

\* What was delivered lies before the position, whatever is skipped.
LEMMA LastIsBefore ==
  ASSUME NEW off, NEW c, BrokerAt(off, c), NEW m \in 1 .. Len(bodies),
         NEW i \in Nat, 1 <= i, c + i = off[m] + 2
  PROVE  LastDelivered < m /\ (LastDelivered # 0 => off[LastDelivered] + 2 <= c + i)
<1>1. TypeOK /\ Offsets(off) /\ Laid(off, c) /\ Parsed(off, c)
  BY DEF BrokerAt
<1> DEFINE l == LastDelivered
<1>2. l \in 0 .. Len(bodies) /\ Len(bodies) \in Nat /\ c \in Nat
  BY <1>1, Bodies DEF Laid
<1>3. l # 0 => off[l] + 2 <= c
  BY <1>1 DEF Parsed
<1> HIDE DEF l
<1>4. CASE l = 0
  BY <1>2, <1>4 DEF l
<1>5. CASE l # 0
  <2>1. l \in 1 .. Len(bodies) /\ l \in 1 .. Len(bodies) + 1
    BY <1>2, <1>5
  <2>2. off[l] \in Nat /\ off[m] \in Nat /\ bodies[m] \in Nat /\ m \in Nat /\ l \in Nat
    BY <1>1, <2>1, Later
  <2>3. off[l] + 2 <= c
    BY <1>3, <1>5
  <2>4. off[l] + 2 <= c + i
    BY <1>2, <2>2, <2>3
  <2>5. off[l] < off[m]
    BY <1>2, <2>2, <2>3
  <2>6. ~(m < l)
    <3>1. m < l => off[m] + 2 + bodies[m] <= off[l]
      BY <1>1, <2>1, Later
    <3> QED
      BY <2>2, <2>5, <3>1
  <2>7. l < m
    BY <2>2, <2>5, <2>6
  <2> QED
    BY <2>4, <2>7 DEF l
<1> QED
  BY <1>4, <1>5
\* got_message is told of one more message.
LEMMA OneMore ==
  ASSUME TypeOK, NEW m \in 1 .. Len(bodies), delivered' = Append(delivered, m)
  PROVE  /\ delivered' \in Seq(1 .. Len(bodies)) /\ LastDelivered' = m
         /\ Len(delivered') = Len(delivered) + 1
         /\ \A i \in 1 .. Len(delivered) : delivered'[i] = delivered[i]
         /\ delivered'[Len(delivered) + 1] = m
<1>1. delivered \in Seq(1 .. Len(bodies))
  BY DEF TypeOK
<1>2. /\ delivered' \in Seq(1 .. Len(bodies)) /\ delivered' # << >>
      /\ Len(delivered') = Len(delivered) + 1
      /\ \A i \in 1 .. Len(delivered) : delivered'[i] = delivered[i]
      /\ delivered'[Len(delivered) + 1] = m
  BY <1>1, AppendProperties
<1>3. LastDelivered' = m
  BY <1>2 DEF LastDelivered
<1> QED
  BY <1>2, <1>3

\* Messages that were delivered without a gap still are, with the next one.
LEMMA NoGap ==
  ASSUME TypeOK, NEW m \in 1 .. Len(bodies), delivered' = Append(delivered, m),
         m = Len(delivered) + 1, \A i \in 1 .. Len(delivered) : delivered[i] = i
  PROVE  \A i \in 1 .. Len(delivered') : delivered'[i] = i
<1>1. Len(delivered) \in Nat
  BY Bodies
<1> SUFFICES ASSUME NEW i \in 1 .. Len(delivered') PROVE delivered'[i] = i
  OBVIOUS
<1>2. Len(delivered') = Len(delivered) + 1
  BY OneMore
<1>3. CASE i \in 1 .. Len(delivered)
  BY <1>3, OneMore
<1>4. CASE i = Len(delivered) + 1
  BY <1>4, OneMore
<1> QED
  BY <1>1, <1>2, <1>3, <1>4

LEMMA ParseHeaderKeeps ==
  ASSUME NEW off, NEW c, BrokerAt(off, c), ParseHeader
  PROVE  \E d : BrokerAt(off, d)'
<1>1. TypeOK /\ Offsets(off) /\ Laid(off, c) /\ Parsed(off, c)
  BY DEF BrokerAt
<1>2. /\ UNCHANGED <<traffic, bodies, wire, closed, watching>>
      /\ socket' = << >> /\ callback = "header"
  BY DEF ParseHeader, Reads, network
<1>3. PICK i \in 1 .. Len(Received) :
        /\ EndsHeader(Received, i)
        /\ recv_buf' = SubSeq(Received, i + 1, Len(Received))
        /\ message' = Received[i].msg /\ driver_message' = Received[i].msg
        /\ delivered' = IF bodies[Received[i].msg] = 0 THEN Append(delivered, Received[i].msg)
                        ELSE delivered
        /\ callback' = AfterHeader(Received[i].msg)
  BY DEF ParseHeader
<1> DEFINE m == Received[i].msg
<1> DEFINE d == c + i
<1>4. /\ recv_buf' \in Seq(Piece) /\ socket' \in Seq(Piece)
      /\ m \in 1 .. Len(bodies) /\ d = off[m] + 2
      /\ c \in Nat /\ i \in Nat /\ 1 <= i
      /\ Laid(off, d)'
  BY <1>2, <1>3, HeaderTaken
<1>5. LastDelivered < m
  BY <1>4, LastIsBefore
<1>6. LastDelivered # 0 => off[LastDelivered] + 2 <= d
  BY <1>4, LastIsBefore
<1>7. /\ message' = m /\ driver_message' = m
      /\ delivered' = IF bodies[m] = 0 THEN Append(delivered, m) ELSE delivered
      /\ callback' = AfterHeader(m)
  BY <1>3
<1>8. /\ m \in Nat /\ bodies[m] \in Nat /\ off[m] \in Nat /\ off[m + 1] = off[m] + 2 + bodies[m]
      /\ Len(bodies) \in Nat /\ m \in 0 .. Len(bodies) /\ Len(delivered) \in Nat
  <2>1. m \in 1 .. Len(bodies)
    BY <1>4
  <2> HIDE DEF m
  <2>2. Len(bodies) \in Nat /\ Len(delivered) \in Nat /\ bodies[m] \in Nat
    BY <1>1, <2>1, Bodies
  <2>3. m \in Nat /\ m \in 0 .. Len(bodies) /\ m \in 1 .. Len(bodies) + 1
    BY <2>1, <2>2
  <2>4. off[m] \in Nat /\ off[m + 1] = off[m] + 2 + bodies[m]
    BY <1>1, <2>1, <2>3, Later
  <2> QED
    BY <2>2, <2>3, <2>4
<1>9. (i = 2 /\ m = Len(delivered) + 1) \/ traffic = "any" \/ ~LosesNothing(off, c)
  BY <1>2, <1>3, FirstHeader
<1>10. traffic # "any" => LosesNothing(off, c)
  BY DEF BrokerAt
<1>11. watching = TRUE
  BY <1>2, RunningIsWatching
<1> HIDE DEF m, d
<1>12. ContentLength' = bodies[m]
  BY <1>2, <1>4, <1>7 DEF ContentLength
<1>13. delivered' \in Seq(1 .. Len(bodies)) /\ LastDelivered' \in {LastDelivered, m}
       /\ (bodies[m] > 0 => LastDelivered' = LastDelivered)
  <2>1. CASE bodies[m] = 0
    BY <1>1, <1>4, <1>7, <2>1, OneMore
  <2>2. CASE bodies[m] # 0
    BY <1>1, <1>7, <2>2 DEF TypeOK, LastDelivered
  <2> QED
    BY <2>1, <2>2
<1>14. TypeOK'
  <2>1. callback' \in {"header", "body_of_header"} /\ (callback' # "header" => bodies[m] # 0)
    BY <1>7 DEF AfterHeader
  <2>3. callback' # "header" => ContentLength' > 0
    <3>1. bodies[m] \in Nat
      BY <1>8
    <3> QED
      BY <1>12, <2>1, <3>1, NotZero
  <2>2. message' \in 0 .. Len(bodies) /\ driver_message' \in 0 .. Len(bodies)
    BY <1>7, <1>8
  <2> QED
    BY <1>1, <1>2, <1>4, <1>13, <2>1, <2>2, <2>3 DEF TypeOK
<1>15. Offsets(off)'
  BY <1>1, <1>2, OffsetsKept
<1>16. Parsed(off, d)'
  <2>1. Pending' => d = off[message'] + 2 /\ LastDelivered' < message'
    BY <1>4, <1>5, <1>7, <1>12, <1>13 DEF Pending
  <2>2. LastDelivered' # 0 => off[LastDelivered'] + 2 <= d
    <3>1. CASE LastDelivered' = LastDelivered
      BY <1>6, <3>1
    <3>2. CASE LastDelivered' = m
      BY <1>4, <1>8, <3>2
    <3> QED
      BY <1>13, <3>1, <3>2
  <2>3. message' # 0 /\ driver_message' # 0 => driver_message' = message'
    BY <1>7
  <2> QED
    BY <2>1, <2>2, <2>3 DEF Parsed
<1>17. ASSUME traffic # "any" PROVE LosesNothing(off, d)'
  <2>1. LosesNothing(off, c) /\ m = Len(delivered) + 1
    BY <1>9, <1>10, <1>17
  <2>2. /\ \A j \in 1 .. Len(delivered) : delivered[j] = j
        /\ Len(delivered) <= Len(bodies)
        /\ traffic = "body_last" => \A j \in 1 .. Len(bodies) - 1 : bodies[j] = 0 \/ j <= Len(delivered)
        /\ traffic = "whole" /\ wire # << >> => wire[1].part = "start"
    BY <2>1 DEF LosesNothing
  <2>3. traffic = "body_last" /\ bodies[m] # 0 => m = Len(bodies)
    <3>1. m = Len(delivered) + 1 /\ Len(delivered) \in Nat /\ Len(bodies) \in Nat /\ m \in 1 .. Len(bodies)
      BY <1>4, <1>8, <2>1
    <3>2. ~(m <= Len(delivered))
      BY <3>1
    <3>3. m = Len(bodies) \/ m \in 1 .. Len(bodies) - 1
      BY <3>1
    <3> QED
      BY <2>2, <3>2, <3>3
  <2>4. CASE bodies[m] = 0
    <3>1. delivered' = Append(delivered, m) /\ callback' = "header" /\ ContentLength' = 0
      BY <1>7, <1>12, <2>4 DEF AfterHeader
    <3>2. Len(delivered') = m
      BY <1>1, <1>4, <2>1, <3>1, OneMore
    <3>3. \A j \in 1 .. Len(delivered') : delivered'[j] = j
      BY <1>1, <1>4, <2>1, <2>2, <3>1, NoGap
    <3>4. d = off[Len(delivered') + 1]
      BY <1>4, <1>8, <2>4, <3>2
    <3>5. Between(off, d)'
      BY <3>1, <3>4 DEF Between
    <3>6. Len(delivered') <= Len(bodies)
      BY <1>4, <1>8, <3>2
    <3>7. \A j \in 1 .. Len(bodies) - 1 : j <= Len(delivered) => j <= Len(delivered')
      BY <1>8, <2>1, <3>2
    <3> QED
      BY <1>2, <2>2, <3>3, <3>5, <3>6, <3>7 DEF LosesNothing
  <2>5. CASE bodies[m] # 0
    <3>1. delivered' = delivered /\ callback' = "body_of_header"
      BY <1>7, <2>5 DEF AfterHeader
    <3>2. ContentLength' > 0
      <4>1. bodies[m] \in Nat
        BY <1>8
      <4> QED
        BY <1>12, <2>5, <4>1, NotZero
    <3>3. message' = Len(delivered') + 1
      BY <1>7, <2>1, <3>1
    <3>4. driver_message' # 0
      <4>1. m \in 1 .. Len(bodies)
        BY <1>4
      <4> QED
        BY <1>7, <4>1
    <3>5. Waiting'
      BY <1>2, <1>7, <2>3, <2>5, <3>1, <3>2, <3>3, <3>4 DEF Waiting, Pending
    <3> QED
      BY <1>2, <2>2, <3>1, <3>5 DEF LosesNothing
  <2> QED
    BY <2>4, <2>5
<1>18. Laid(off, d)'
  BY <1>4
<1>19. BrokerAt(off, d)'
  BY <1>2, <1>11, <1>14, <1>15, <1>16, <1>17, <1>18 DEF BrokerAt
<1> QED
  BY <1>19

LEMMA FailToParseHeaderKeeps ==
  ASSUME NEW off, NEW c, BrokerAt(off, c), FailToParseHeader
  PROVE  \E d : BrokerAt(off, d)'
<1>1. TypeOK /\ Offsets(off) /\ Laid(off, c) /\ Parsed(off, c)
  BY DEF BrokerAt
<1>2. /\ UNCHANGED <<traffic, bodies, wire, closed, watching, message, delivered, callback>>
      /\ socket' = << >> /\ callback = "header" /\ driver_message' = 0
  BY DEF FailToParseHeader, Reads, network, DriverForgets
<1>3. PICK i \in 1 .. Len(Received) :
        /\ EndsHeader(Received, i)
        /\ i # 2
        /\ recv_buf' = SubSeq(Received, i + 1, Len(Received))
  BY DEF FailToParseHeader
<1> DEFINE m == Received[i].msg
<1> DEFINE d == c + i
<1>4. /\ recv_buf' \in Seq(Piece) /\ socket' \in Seq(Piece)
      /\ m \in 1 .. Len(bodies) /\ d = off[m] + 2
      /\ c \in Nat /\ i \in Nat /\ 1 <= i
      /\ Laid(off, d)'
  BY <1>2, <1>3, HeaderTaken
<1>5. LastDelivered # 0 => off[LastDelivered] + 2 <= d
  BY <1>4, LastIsBefore
<1>6. traffic = "any"
  <2>1. traffic # "any" => LosesNothing(off, c)
    BY DEF BrokerAt
  <2> QED
    BY <1>2, <1>3, <2>1, FirstHeader
<1>7. watching = TRUE
  BY <1>2, RunningIsWatching
<1> HIDE DEF m, d
<1>8. TypeOK'
  <2>1. driver_message' \in 0 .. Len(bodies)
    BY <1>1, <1>2, Bodies
  <2> QED
    BY <1>1, <1>2, <1>4, <2>1 DEF TypeOK, ContentLength
<1>9. Offsets(off)'
  BY <1>1, <1>2, OffsetsKept
<1>10. Parsed(off, d)'
  BY <1>2, <1>5 DEF Parsed, Pending, LastDelivered
<1>11. Laid(off, d)'
  BY <1>4
<1>12. BrokerAt(off, d)'
  BY <1>2, <1>6, <1>7, <1>8, <1>9, <1>10, <1>11 DEF BrokerAt
<1> QED
  BY <1>12
-----------------------------------------------------------------------------
(* handle_body.                                                            *)

\* The body of a message that is waited for ends where the next one begins.
LEMMA BodyEnds ==
  ASSUME NEW off, NEW c, BrokerAt(off, c), Pending
  PROVE  /\ message \in 1 .. Len(bodies) /\ driver_message = message
         /\ c + ContentLength = off[message + 1]
         /\ off[message] + 2 <= c + ContentLength
<1>1. TypeOK /\ Offsets(off) /\ Parsed(off, c)
  BY DEF BrokerAt
<1>2. /\ message \in 1 .. Len(bodies) /\ ContentLength = bodies[message] /\ Len(bodies) \in Nat
      /\ message \in 1 .. Len(bodies) + 1
  <2>1. message \in 1 .. Len(bodies) /\ ContentLength = bodies[message] /\ Len(bodies) \in Nat
    BY <1>1, Bodies DEF Pending
  <2> QED
    BY <2>1
<1>3. driver_message = message
  BY <1>1, <1>2 DEF Parsed, Pending
<1>4. c = off[message] + 2
  BY <1>1 DEF Parsed
<1>5. off[message] \in Nat /\ bodies[message] \in Nat /\ off[message + 1] = off[message] + 2 + bodies[message]
  BY <1>1, <1>2, Later
<1>6. c + ContentLength = off[message + 1]
  BY <1>2, <1>4, <1>5
<1>7. off[message] + 2 <= c + ContentLength
  <2> DEFINE a == off[message]
  <2> DEFINE b == bodies[message]
  <2>1. a \in Nat /\ b \in Nat /\ c = a + 2 /\ ContentLength = b
    BY <1>2, <1>4, <1>5
  <2> HIDE DEF a, b
  <2>2. a + 2 <= c + ContentLength
    BY <2>1
  <2> QED
    BY <2>2 DEF a
<1> QED
  BY <1>2, <1>3, <1>6, <1>7

\* Behind the body of the last message there is nothing.
LEMMA NothingBehind ==
  ASSUME NEW off, NEW c, BrokerAt(off, c), NEW k \in 0 .. Len(Received), c + k = off[Len(bodies) + 1]
  PROVE  Len(Received) - k = 0
<1>1. TypeOK /\ Offsets(off) /\ Laid(off, c)
  BY DEF BrokerAt
<1>2. Len(Received) \in Nat /\ Len(wire) \in Nat /\ Len(Stream) = Len(Received) + Len(wire)
  BY <1>1, Buffers
<1>3. c + Len(Stream) = off[Len(bodies) + 1] /\ c \in Nat
  BY <1>1 DEF Laid
<1>4. c + k = c + (Len(Received) + Len(wire))
  BY <1>2, <1>3
<1> QED
  BY <1>2, <1>3, <1>4

LEMMA TakeBodyKeeps ==
  ASSUME NEW off, NEW c, BrokerAt(off, c),
         NEW call \in {"body", "body_of_header"}, TakeBody(call)
  PROVE  \E d : BrokerAt(off, d)'
<1>1. TypeOK /\ Offsets(off) /\ Laid(off, c) /\ Parsed(off, c)
  BY DEF BrokerAt
<1>0. PICK k : k = ContentLength
  OBVIOUS
<1> DEFINE d == c + k
<1>2. /\ UNCHANGED <<traffic, bodies, wire, closed, watching, driver_message>>
      /\ socket' = << >> /\ callback = call /\ callback' = AfterBody(call) /\ message' = 0
      /\ recv_buf' = SubSeq(Received, k + 1, Len(Received))
      /\ delivered' = IF driver_message = 0 THEN delivered ELSE Append(delivered, driver_message)
  BY <1>0 DEF TakeBody, Reads, network, MessageDone
<1>3. k \in 0 .. Len(Received) /\ c \in Nat /\ k \in Nat /\ Len(Received) \in Nat
  <2>1. k \in Nat /\ Len(Received) \in Nat /\ c \in Nat
    BY <1>0, <1>1, Bodies, Buffers DEF Laid
  <2>2. k <= Len(Received)
    <3>1. Len(Received) >= ContentLength
      BY DEF TakeBody
    <3> QED
      BY <1>0, <3>1
  <2> QED
    BY <2>1, <2>2, UpTo
<1>4. k > 0
  BY <1>0, <1>1, <1>2 DEF TypeOK
<1>5. /\ recv_buf' \in Seq(Piece) /\ socket' \in Seq(Piece)
      /\ Len(Stream') = Len(Stream) - k /\ Len(Stream) - k \in Nat
      /\ \A j \in 1 .. Len(Stream) - k : j + k \in 1 .. Len(Stream) /\ Stream'[j] = Stream[j + k]
  BY <1>1, <1>2, <1>3, TakenOut
<1>6. watching = TRUE
  BY <1>2, RunningIsWatching
<1>7. driver_message # 0 => Pending
  BY <1>0, <1>4 DEF Pending
<1>8. ContentLength' = 0
  BY <1>2 DEF ContentLength
<1>9. Len(recv_buf') = Len(Received) - k
  BY <1>1, <1>2, <1>3, Buffers, Dropped
<1>10. Laid(off, d)'
  <2>1. Laid(off, c) /\ TypeOK /\ k \in Nat /\ bodies' = bodies
    BY <1>1, <1>2, <1>3
  <2> QED
    BY <1>5, <2>1, LaidAfter
<1>11. Offsets(off)'
  BY <1>1, <1>2, OffsetsKept
<1>12. callback' \in {"none", "header"}
  BY <1>2 DEF AfterBody
<1>13. TypeOK'
  <2>1. delivered' \in Seq(1 .. Len(bodies))
    <3>1. CASE driver_message = 0
      BY <1>1, <1>2, <3>1 DEF TypeOK
    <3>2. CASE driver_message # 0
      <4>1. driver_message \in 1 .. Len(bodies)
        BY <1>7, <3>2, BodyEnds
      <4> QED
        BY <1>1, <1>2, <3>2, <4>1, OneMore
    <3> QED
      BY <3>1, <3>2
  <2>2. message' \in 0 .. Len(bodies)
    <3>1. Len(bodies) \in Nat
      BY <1>1, Bodies
    <3> QED
      BY <1>2, <3>1
  <2> QED
    BY <1>1, <1>2, <1>5, <1>12, <2>1, <2>2 DEF TypeOK
<1>14. Parsed(off, d)'
  <2>1. LastDelivered' # 0 => off[LastDelivered'] + 2 <= d
    <3>1. CASE driver_message = 0
      <4>1. LastDelivered' = LastDelivered
        BY <1>2, <3>1 DEF LastDelivered
      <4> SUFFICES ASSUME LastDelivered # 0 PROVE off[LastDelivered] + 2 <= d
        BY <4>1
      <4> DEFINE a == off[LastDelivered]
      <4>2. LastDelivered \in 1 .. Len(bodies) /\ LastDelivered \in 1 .. Len(bodies) + 1
        <5>1. LastDelivered \in 0 .. Len(bodies) /\ Len(bodies) \in Nat
          BY <1>1, Bodies
        <5> QED
          BY <5>1
      <4>3. a \in Nat
        BY <1>1, <4>2, Later
      <4>4. a + 2 <= c
        BY <1>1 DEF Parsed
      <4> HIDE DEF a
      <4>5. a + 2 <= d
        BY <1>3, <4>3, <4>4, Farther
      <4> QED
        BY <4>5 DEF a
    <3>2. CASE driver_message # 0
      <4>1. driver_message = message /\ message \in 1 .. Len(bodies) /\ off[message] + 2 <= d
        BY <1>7, <3>2, <1>0, BodyEnds
      <4>2. LastDelivered' = message
        BY <1>1, <1>2, <3>2, <4>1, OneMore
      <4> QED
        BY <4>1, <4>2
    <3> QED
      BY <3>1, <3>2
  <2>2. ~Pending'
    BY <1>8 DEF Pending
  <2> QED
    BY <1>2, <2>1, <2>2 DEF Parsed
<1>15. ASSUME traffic # "any" PROVE LosesNothing(off, d)'
  <2>1. LosesNothing(off, c)
    BY <1>15 DEF BrokerAt
  <2>2. Waiting
    BY <1>2, <2>1 DEF LosesNothing, Between
  <2>3. Pending /\ message = Len(delivered) + 1
    BY <2>2 DEF Waiting
  <2>4. message \in 1 .. Len(bodies) /\ driver_message = message /\ d = off[message + 1]
    BY <2>3, <1>0, BodyEnds
  <2>5. delivered' = Append(delivered, message) /\ driver_message # 0
    BY <1>2, <2>3, <2>4 DEF Pending
  <2>6. /\ \A j \in 1 .. Len(delivered) : delivered[j] = j
        /\ traffic = "body_last" => \A j \in 1 .. Len(bodies) - 1 : bodies[j] = 0 \/ j <= Len(delivered)
        /\ traffic = "whole" /\ wire # << >> => wire[1].part = "start"
    BY <2>1 DEF LosesNothing
  <2>7. Len(delivered') = message
    BY <1>1, <2>3, <2>4, <2>5, OneMore
  <2>8. \A j \in 1 .. Len(delivered') : delivered'[j] = j
    BY <1>1, <2>3, <2>4, <2>5, <2>6, NoGap
  <2>13. Len(delivered) \in Nat /\ Len(bodies) \in Nat
    BY <1>1, Bodies
  <2>9. Len(delivered') <= Len(bodies)
    BY <2>4, <2>7, <2>13
  <2>10. \A j \in 1 .. Len(bodies) - 1 : j <= Len(delivered) => j <= Len(delivered')
    BY <2>3, <2>7, <2>13
  <2>11. callback' = "none" => \A j \in 1 .. Len(recv_buf') : recv_buf'[j].part # "end"
    <3> SUFFICES ASSUME callback' = "none" PROVE Len(recv_buf') = 0
      OBVIOUS
    <3>1. callback = "body"
      BY <1>2 DEF AfterBody
    <3>2. traffic = "body_last"
      BY <1>1, <1>6, <1>15, <2>2, <3>1 DEF Waiting, TypeOK, Traffic
    <3>3. message = Len(bodies)
      BY <2>2, <3>2 DEF Waiting
    <3>4. c + k = off[Len(bodies) + 1]
      BY <2>4, <3>3
    <3>5. Len(Received) - k = 0
      BY <1>3, <3>4, NothingBehind
    <3> QED
      BY <1>9, <3>5
  <2>12. Between(off, d)'
    BY <1>8, <1>12, <2>4, <2>7, <2>11 DEF Between
  <2> QED
    BY <1>2, <2>6, <2>8, <2>9, <2>10, <2>12 DEF LosesNothing
<1>16. BrokerAt(off, d)'
  BY <1>2, <1>6, <1>10, <1>11, <1>13, <1>14, <1>15 DEF BrokerAt
<1> QED
  BY <1>16
-----------------------------------------------------------------------------
(* The peer sends a message.                                               *)

LEMMA NewPieces ==
  ASSUME NEW m \in 1 .. MaxMessages, NEW length \in Nat
  PROVE  /\ HeaderOf(m) \in Seq(Piece) /\ BodyOf(m, length) \in Seq(Piece)
         /\ Len(HeaderOf(m)) = 2 /\ HeaderOf(m)[1].part = "start"
         /\ Len(HeaderOf(m) \o BodyOf(m, length)) = 2 + length
         /\ \A k \in 1 .. 2 + length : (HeaderOf(m) \o BodyOf(m, length))[k] = PieceAt(m, k)
<1> DEFINE h == HeaderOf(m)
<1> DEFINE b == BodyOf(m, length)
<1>1. h \in Seq(Piece) /\ Len(h) = 2 /\ h[1] = PieceAt(m, 1) /\ h[2] = PieceAt(m, 2)
  BY DEF HeaderOf, Piece, PieceAt
<1>2. b \in Seq(Piece) /\ Len(b) = length /\ \A i \in 1 .. length : b[i] = [msg |-> m, part |-> "body"]
  BY DEF BodyOf, Piece
<1>3. \A i \in 1 .. length : b[i] = PieceAt(m, 2 + i)
  BY <1>2 DEF PieceAt
<1> HIDE DEF h, b
<1>4. /\ Len(h \o b) = 2 + length
      /\ \A i \in 1 .. Len(h) : (h \o b)[i] = h[i]
      /\ \A i \in 1 .. Len(b) : (h \o b)[Len(h) + i] = b[i]
  <2>1. h \in Seq(Piece) /\ b \in Seq(Piece)
    BY <1>1, <1>2
  <2>2. /\ Len(h \o b) = Len(h) + Len(b)
        /\ \A i \in 1 .. Len(h) : (h \o b)[i] = h[i]
        /\ \A i \in 1 .. Len(b) : (h \o b)[Len(h) + i] = b[i]
    BY <2>1, Joined
  <2> QED
    BY <1>1, <1>2, <2>2
<1>5. ASSUME NEW k \in 1 .. 2 + length PROVE (h \o b)[k] = PieceAt(m, k)
  <2>1. CASE k \in 1 .. 2
    <3>1. k = 1 \/ k = 2
      BY <2>1
    <3>2. (h \o b)[1] = h[1] /\ (h \o b)[2] = h[2]
      BY <1>1, <1>4
    <3> QED
      BY <1>1, <3>1, <3>2
  <2>2. CASE k > 2
    <3>1. k - 2 \in 1 .. length /\ 2 + (k - 2) = k
      BY <2>2
    <3>2. (h \o b)[2 + (k - 2)] = b[k - 2]
      BY <1>1, <1>2, <1>4, <3>1
    <3> QED
      BY <1>3, <3>1, <3>2
  <2>3. k \in 1 .. 2 \/ k > 2
    OBVIOUS
  <2> QED
    BY <2>1, <2>2, <2>3
<1>6. h[1].part = "start"
  BY <1>1 DEF PieceAt
<1> QED
  BY <1>1, <1>2, <1>4, <1>5, <1>6 DEF h, b

\* Where the messages begin, with one more.
OffsetsThen(off, length) ==
  [m \in 1 .. Len(bodies) + 2 |->
     IF m <= Len(bodies) + 1 THEN off[m] ELSE off[Len(bodies) + 1] + 2 + length]

LEMMA OneMoreBody ==
  ASSUME TypeOK, NEW length \in 0 .. MaxBody, bodies' = Append(bodies, length)
  PROVE  /\ bodies' \in Seq(0 .. MaxBody) /\ Len(bodies') = Len(bodies) + 1
         /\ \A m \in 1 .. Len(bodies) : bodies'[m] = bodies[m]
         /\ bodies'[Len(bodies) + 1] = length
         /\ length \in Nat
<1>1. bodies \in Seq(0 .. MaxBody)
  BY DEF TypeOK
<1>2. length \in Nat
  BY BrokerAssumption
<1> QED
  BY <1>1, <1>2, AppendProperties

LEMMA OffsetsGrow ==
  ASSUME TypeOK, NEW off, Offsets(off), NEW length \in 0 .. MaxBody,
         bodies' = Append(bodies, length), NEW after, after = OffsetsThen(off, length)
  PROVE  /\ Offsets(after)'
         /\ \A m \in 1 .. Len(bodies) + 1 : after[m] = off[m]
         /\ after[Len(bodies) + 2] = off[Len(bodies) + 1] + 2 + length
<1> DEFINE n == Len(bodies)
<1>1. /\ bodies' \in Seq(0 .. MaxBody) /\ Len(bodies') = n + 1
      /\ \A m \in 1 .. n : bodies'[m] = bodies[m]
      /\ bodies'[n + 1] = length /\ length \in Nat
  BY OneMoreBody
<1>2. n \in Nat /\ \A m \in 1 .. n : bodies[m] \in Nat
  BY Bodies
<1>3. /\ \A m \in 1 .. n + 1 : after[m] = off[m]
      /\ after[n + 2] = off[n + 1] + 2 + length
      /\ after = [m \in 1 .. n + 2 |-> after[m]]
  BY <1>2 DEF OffsetsThen
<1>4. \A m \in 1 .. n + 1 : off[m] \in Nat
  BY DEF Offsets
<1>5. \A m \in 1 .. n : off[m + 1] = off[m] + 2 + bodies[m]
  BY DEF Offsets
<1>6. \A m \in 1 .. n, i \in 1 .. n + 1 : m < i => off[m] + 2 + bodies[m] <= off[i]
  BY DEF Offsets
<1>7. off[1] = 0
  BY DEF Offsets
<1> HIDE DEF n
<1>8. /\ n + 1 \in 1 .. n + 1 /\ 1 \in 1 .. n + 1 /\ (n + 1) + 1 = n + 2
      /\ \A m \in 1 .. n + 2 : m \in 1 .. n + 1 \/ m = n + 2
      /\ \A m \in 1 .. n + 1 : m \in 1 .. n \/ m = n + 1
      /\ \A m \in 1 .. n : m \in 1 .. n + 1 /\ m + 1 \in 1 .. n + 1
  BY <1>2
<1>9. after[n + 2] \in Nat
  <2>1. off[n + 1] \in Nat
    BY <1>4, <1>8
  <2> QED
    BY <1>1, <1>3, <2>1
<1>10. \A m \in 1 .. n + 2 : after[m] \in Nat
  BY <1>3, <1>4, <1>8, <1>9
<1>11. after \in [1 .. n + 2 -> Nat]
  BY <1>3, <1>10
<1>12. ASSUME NEW m \in 1 .. n + 1 PROVE after[m + 1] = after[m] + 2 + bodies'[m]
  <2>1. CASE m \in 1 .. n
    <3>1. m \in 1 .. n + 1 /\ m + 1 \in 1 .. n + 1
      BY <1>8, <2>1
    <3>2. after[m + 1] = off[m + 1] /\ after[m] = off[m]
      BY <1>3, <3>1
    <3>3. off[m + 1] = off[m] + 2 + bodies[m] /\ bodies'[m] = bodies[m]
      BY <1>1, <1>5, <2>1
    <3> QED
      BY <3>2, <3>3
  <2>2. CASE m = n + 1
    <3>1. after[n + 1] = off[n + 1] /\ after[(n + 1) + 1] = off[n + 1] + 2 + length
      BY <1>3, <1>8
    <3> QED
      BY <1>1, <2>2, <3>1
  <2>3. m \in 1 .. n \/ m = n + 1
    BY <1>8
  <2> QED
    BY <2>1, <2>2, <2>3
<1>13. ASSUME NEW m \in 1 .. n + 1, NEW i \in 1 .. n + 2, m < i
       PROVE  after[m] + 2 + bodies'[m] <= after[i]
  <2>1. CASE m \in 1 .. n /\ i \in 1 .. n + 1
    BY <1>1, <1>3, <1>6, <1>8, <1>13, <2>1
  <2>2. CASE m \in 1 .. n /\ i = n + 2
    <3>1. m < n + 1 /\ n + 1 \in 1 .. n + 1
      BY <1>2, <2>2
    <3>2. off[m] + 2 + bodies[m] <= off[n + 1]
      BY <1>6, <2>2, <3>1
    <3>3. after[m] = off[m] /\ bodies'[m] = bodies[m]
      BY <1>1, <1>3, <1>8, <2>2
    <3>4. off[m] \in Nat /\ bodies[m] \in Nat /\ off[n + 1] \in Nat
      BY <1>2, <1>4, <1>8, <2>2
    <3>5. off[m] + 2 + bodies[m] <= off[n + 1] + 2 + length
      BY <1>1, <3>2, <3>4
    <3> QED
      BY <1>3, <2>2, <3>3, <3>5
  <2>3. CASE m = n + 1
    <3>1. i = n + 2
      BY <1>2, <1>13, <2>3
    <3>2. after[n + 1] = off[n + 1] /\ off[n + 1] \in Nat
      BY <1>3, <1>4, <1>8
    <3>3. off[n + 1] + 2 + length <= off[n + 1] + 2 + length
      BY <1>1, <3>2
    <3> QED
      BY <1>1, <1>3, <2>3, <3>1, <3>2, <3>3
  <2> QED
    BY <1>8, <2>1, <2>2, <2>3
<1>14. after[1] = 0
  BY <1>3, <1>7, <1>8
<1>15. Offsets(after)'
  <2>1. Len(bodies') = n + 1 /\ Len(bodies') + 1 = n + 2
    BY <1>1, <1>2
  <2> QED
    BY <1>11, <1>12, <1>13, <1>14, <2>1 DEF Offsets
<1> QED
  BY <1>3, <1>15 DEF n
\* What is sent goes to the end of the stream.
LEMMA StreamGrows ==
  ASSUME TypeOK, NEW off, Offsets(off), NEW c, Laid(off, c),
         NEW length \in 0 .. MaxBody, PeerSends(length),
         NEW after, after = OffsetsThen(off, length)
  PROVE  wire' \in Seq(Piece) /\ Laid(after, c)' /\ (wire = << >> => wire'[1].part = "start")
         /\ (wire # << >> => wire'[1] = wire[1])
<1> DEFINE n == Len(bodies)
<1> DEFINE new == HeaderOf(n + 1) \o BodyOf(n + 1, length)
<1>1. /\ bodies' = Append(bodies, length) /\ n < MaxMessages
      /\ wire' = wire \o HeaderOf(n + 1) \o BodyOf(n + 1, length)
      /\ UNCHANGED <<recv_buf, socket>>
  BY DEF PeerSends
<1>2. n \in Nat /\ length \in Nat /\ n + 1 \in 1 .. MaxMessages
  <2>1. n \in Nat
    BY Bodies
  <2> HIDE DEF n
  <2> QED
    BY <1>1, <2>1, BrokerAssumption
<1>3. /\ HeaderOf(n + 1) \in Seq(Piece) /\ BodyOf(n + 1, length) \in Seq(Piece)
      /\ Len(HeaderOf(n + 1)) = 2 /\ HeaderOf(n + 1)[1].part = "start"
      /\ Len(new) = 2 + length
      /\ \A k \in 1 .. 2 + length : new[k] = PieceAt(n + 1, k)
  BY <1>2, NewPieces
<1>4. new \in Seq(Piece)
  BY <1>3, Joined
<1>5. wire \in Seq(Piece) /\ Received \in Seq(Piece) /\ Stream \in Seq(Piece)
  BY Buffers
<1>6. wire' = wire \o new
  <2> DEFINE h == HeaderOf(n + 1)
  <2> DEFINE b == BodyOf(n + 1, length)
  <2>1. h \in Seq(Piece) /\ b \in Seq(Piece) /\ wire \in Seq(Piece)
    BY <1>3, <1>5
  <2>2. wire' = (wire \o h) \o b
    BY <1>1
  <2> HIDE DEF h, b
  <2>3. (wire \o h) \o b = wire \o (h \o b)
    BY <2>1, ConcatAssociative
  <2> QED
    BY <2>2, <2>3 DEF h, b
<1>7. Stream' = Stream \o new
  <2>1. Received' = Received
    BY <1>1 DEF Received
  <2> HIDE DEF new
  <2>2. (Received \o wire) \o new = Received \o (wire \o new)
    BY <1>4, <1>5, ConcatAssociative
  <2> QED
    BY <1>6, <2>1, <2>2 DEF Stream
<1>8. /\ Len(bodies') = n + 1 /\ (\A m \in 1 .. n : bodies'[m] = bodies[m])
      /\ bodies'[n + 1] = length
  BY <1>1, OneMoreBody
<1>9. /\ \A m \in 1 .. n + 1 : after[m] = off[m]
      /\ after[n + 2] = off[n + 1] + 2 + length
  BY <1>1, OffsetsGrow
<1>10. off[n + 1] \in Nat /\ c \in Nat /\ c + Len(Stream) = off[n + 1] /\ Len(Stream) \in Nat
  <2>1. n + 1 \in 1 .. n + 1
    BY <1>2
  <2>2. c \in Nat /\ c + Len(Stream) = off[n + 1]
    BY DEF Laid
  <2>3. off[n + 1] \in Nat
    BY <2>1 DEF Offsets
  <2> QED
    BY <1>5, <2>2, <2>3
<1> HIDE DEF new, n
<1>11. /\ Len(Stream') = Len(Stream) + (2 + length)
       /\ \A i \in 1 .. Len(Stream) : Stream'[i] = Stream[i]
       /\ \A i \in 1 .. Len(new) : Stream'[Len(Stream) + i] = new[i]
  <2>1. /\ Len(Stream \o new) = Len(Stream) + Len(new)
        /\ \A i \in 1 .. Len(Stream) : (Stream \o new)[i] = Stream[i]
        /\ \A i \in 1 .. Len(new) : (Stream \o new)[Len(Stream) + i] = new[i]
    BY <1>4, <1>5, Joined
  <2> QED
    BY <1>3, <1>7, <2>1
<1>12. wire' \in Seq(Piece)
  BY <1>4, <1>5, <1>6, Joined
<1>13. wire = << >> => wire'[1].part = "start"
  <2>1. wire = << >> => wire' = new
    BY <1>4, <1>5, <1>6, ConcatEmptySeq
  <2>2. 1 \in 1 .. 2 + length
    BY <1>2
  <2>3. new[1] = PieceAt(n + 1, 1)
    BY <1>3, <2>2
  <2> QED
    BY <2>1, <2>3 DEF PieceAt
<1>14. wire # << >> => wire'[1] = wire[1]
  <2>1. wire # << >> => 1 \in 1 .. Len(wire)
    BY <1>5
  <2>2. \A i \in 1 .. Len(wire) : (wire \o new)[i] = wire[i]
    BY <1>4, <1>5, Joined
  <2> QED
    BY <1>6, <2>1, <2>2
<1>15. ASSUME NEW i \in 1 .. Len(Stream')
       PROVE  \E m \in 1 .. Len(bodies') : \E k \in 1 .. 2 + bodies'[m] :
                c + i = after[m] + k /\ Stream'[i] = PieceAt(m, k)
  <2>1. i \in 1 .. Len(Stream) \/ i - Len(Stream) \in 1 .. 2 + length
    BY <1>2, <1>10, <1>11
  <2>2. CASE i \in 1 .. Len(Stream)
    <3>1. PICK m \in 1 .. n : \E k \in 1 .. 2 + bodies[m] :
            c + i = off[m] + k /\ Stream[i] = PieceAt(m, k)
      BY <2>2 DEF Laid, n
    <3>2. PICK k \in 1 .. 2 + bodies[m] : c + i = off[m] + k /\ Stream[i] = PieceAt(m, k)
      BY <3>1
    <3>3. m \in 1 .. n + 1
      BY <1>2
    <3>4. after[m] = off[m] /\ bodies'[m] = bodies[m] /\ Stream'[i] = Stream[i] /\ m \in 1 .. Len(bodies')
      BY <1>8, <1>9, <1>11, <2>2, <3>3
    <3> QED
      BY <3>2, <3>4
  <2>3. CASE i - Len(Stream) \in 1 .. 2 + length
    <3> DEFINE k == i - Len(Stream)
    <3>1. i = Len(Stream) + k /\ k \in 1 .. 2 + length
      BY <1>10, <2>3
    <3> HIDE DEF k
    <3>2. n + 1 \in 1 .. n + 1
      BY <1>2
    <3>3. after[n + 1] = off[n + 1]
      BY <1>9, <3>2
    <3>4. c + i = off[n + 1] + k
      BY <1>10, <3>1
    <3>5. Stream'[i] = PieceAt(n + 1, k)
      BY <1>3, <1>11, <3>1
    <3>6. n + 1 \in 1 .. Len(bodies') /\ k \in 1 .. 2 + bodies'[n + 1]
      BY <1>8, <3>1, <3>2
    <3> QED
      BY <3>3, <3>4, <3>5, <3>6
  <2> QED
    BY <2>1, <2>2, <2>3
<1>16. c + Len(Stream') = after[Len(bodies') + 1]
  <2>1. Len(bodies') + 1 = n + 2
    BY <1>2, <1>8
  <2>2. c + (Len(Stream) + (2 + length)) = off[n + 1] + 2 + length
    BY <1>2, <1>10
  <2> QED
    BY <1>9, <1>11, <2>1, <2>2
<1>17. Laid(after, c)'
  BY <1>10, <1>15, <1>16 DEF Laid
<1> QED
  BY <1>12, <1>13, <1>14, <1>17

LEMMA PeerSendsKeeps ==
  ASSUME NEW off, NEW c, BrokerAt(off, c), NEW length \in 0 .. MaxBody, PeerSends(length)
  PROVE  \E after : BrokerAt(after, c)'
<1>0. PICK after : after = OffsetsThen(off, length)
  OBVIOUS
<1> DEFINE n == Len(bodies)
<1>1. TypeOK /\ Offsets(off) /\ Laid(off, c) /\ Parsed(off, c)
  BY DEF BrokerAt
<1>2. /\ UNCHANGED <<traffic, closed, socket, recv_buf, message, driver_message, watching,
                     callback, delivered>>
      /\ ~closed /\ bodies' = Append(bodies, length)
      /\ traffic = "body_last" => \A m \in 1 .. n : bodies[m] > 0 => Handled(m)
  BY DEF PeerSends
<1>3. /\ wire' \in Seq(Piece) /\ Laid(after, c)'
      /\ wire = << >> => wire'[1].part = "start"
      /\ wire # << >> => wire'[1] = wire[1]
  BY <1>0, <1>1, StreamGrows
<1>4. /\ bodies' \in Seq(0 .. MaxBody) /\ Len(bodies') = n + 1
      /\ \A m \in 1 .. n : bodies'[m] = bodies[m]
  BY <1>1, <1>2, OneMoreBody
<1>5. Offsets(after)' /\ \A m \in 1 .. n + 1 : after[m] = off[m]
  BY <1>0, <1>1, <1>2, OffsetsGrow
<1>6. /\ n \in Nat /\ message \in 0 .. n /\ driver_message \in 0 .. n /\ Len(delivered) \in Nat
      /\ LastDelivered \in 0 .. n
      /\ ContentLength > 0 => message \in 1 .. n
  BY <1>1, Bodies
<1>7. watching = TRUE
  BY <1>2 DEF BrokerAt, TypeOK
<1> HIDE DEF n
<1>8. ContentLength' = ContentLength
  <2>1. message = 0 \/ message \in 1 .. n
    BY <1>6
  <2> QED
    BY <1>2, <1>4, <2>1 DEF ContentLength
<1>9. Pending' = Pending
  BY <1>2, <1>8 DEF Pending
<1>10. LastDelivered' = LastDelivered
  BY <1>2 DEF LastDelivered
<1>11. TypeOK'
  <2>1. delivered' \in Seq(1 .. Len(bodies'))
    <3>1. delivered \in Seq(1 .. n)
      BY <1>1 DEF TypeOK, n
    <3>2. 1 .. n \subseteq 1 .. n + 1
      BY <1>6
    <3>3. delivered \in Seq(1 .. n + 1)
      BY <3>1, <3>2, SeqMonotonic
    <3> QED
      BY <1>2, <1>4, <3>3
  <2>2. message' \in 0 .. Len(bodies') /\ driver_message' \in 0 .. Len(bodies')
    BY <1>2, <1>4, <1>6
  <2> QED
    BY <1>1, <1>2, <1>3, <1>4, <1>8, <2>1, <2>2 DEF TypeOK
<1>12. Parsed(after, c)'
  <2>1. Pending => after[message] = off[message]
    <3>1. Pending => message \in 1 .. n + 1
      BY <1>6 DEF Pending
    <3> QED
      BY <1>5, <3>1
  <2>2. LastDelivered # 0 => after[LastDelivered] = off[LastDelivered]
    <3>1. LastDelivered # 0 => LastDelivered \in 1 .. n + 1
      BY <1>6
    <3> QED
      BY <1>5, <3>1
  <2>3. message' = message /\ driver_message' = driver_message
    BY <1>2
  <2> QED
    BY <1>1, <1>9, <1>10, <2>1, <2>2, <2>3 DEF Parsed
<1>13. ASSUME traffic # "any" PROVE LosesNothing(after, c)'
  <2>1. LosesNothing(off, c)
    BY <1>13 DEF BrokerAt
  <2>2. /\ \A i \in 1 .. Len(delivered) : delivered[i] = i
        /\ Len(delivered) <= n
        /\ Between(off, c) \/ Waiting
        /\ traffic = "whole" /\ wire # << >> => wire[1].part = "start"
    BY <2>1 DEF LosesNothing, n
  <2>3. ASSUME traffic = "body_last", NEW m \in 1 .. n PROVE bodies[m] = 0 \/ m <= Len(delivered)
    <3>1. bodies[m] \in Nat
      BY <1>1, Bodies DEF n
    <3>2. bodies[m] = 0 \/ bodies[m] > 0
      BY <3>1, NotZero
    <3>3. bodies[m] > 0 => \E i \in 1 .. Len(delivered) : delivered[i] = m
      BY <1>2, <2>3 DEF Handled
    <3>4. bodies[m] > 0 => m \in 1 .. Len(delivered)
      BY <2>2, <3>3
    <3>5. m \in 1 .. Len(delivered) => m <= Len(delivered)
      BY <1>6
    <3> QED
      BY <3>2, <3>4, <3>5
  <2>4. CASE Between(off, c)
    <3>1. Len(delivered) + 1 \in 1 .. n + 1
      BY <1>6, <2>2
    <3>2. after[Len(delivered) + 1] = off[Len(delivered) + 1]
      BY <1>5, <3>1
    <3>3. Between(after, c)'
      BY <1>2, <1>8, <2>4, <3>2 DEF Between
    <3> QED
      BY <1>2, <1>3, <1>4, <1>6, <2>2, <2>3, <3>3 DEF LosesNothing
  <2>5. CASE Waiting
    <3>1. message = Len(delivered) + 1
      BY <2>5 DEF Waiting
    <3>2. traffic # "body_last"
      <4> SUFFICES ASSUME traffic = "body_last" PROVE FALSE
        OBVIOUS
      <4>1. message = n /\ message \in 1 .. n /\ ContentLength = bodies[n] /\ ContentLength > 0
        BY <1>1, <2>5, Bodies DEF Waiting, Pending, n
      <4>2. bodies[n] # 0
        BY <4>1
      <4>3. n <= Len(delivered)
        BY <2>3, <4>1, <4>2
      <4> QED
        BY <1>6, <3>1, <4>1, <4>3
    <3>3. Waiting'
      BY <1>2, <1>9, <2>5, <3>2 DEF Waiting
    <3>4. Len(delivered') <= Len(bodies')
      BY <1>2, <1>4, <1>6, <2>2
    <3> QED
      BY <1>2, <1>3, <2>2, <3>2, <3>3, <3>4 DEF LosesNothing
  <2> QED
    BY <2>2, <2>4, <2>5
<1>14. BrokerAt(after, c)'
  BY <1>2, <1>3, <1>5, <1>7, <1>11, <1>12, <1>13 DEF BrokerAt
<1> QED
  BY <1>14
-----------------------------------------------------------------------------
(* The invariant.                                                          *)

LEMMA InitiallyAt == Init => BrokerInv
<1> SUFFICES ASSUME Init PROVE BrokerInv
  OBVIOUS
<1> DEFINE off == [m \in 1 .. 1 |-> 0]
<1>1. Stream = << >> /\ Received = << >>
  BY DEF Init, Stream, Received
<1>2. TypeOK
  <2>1. << >> \in Seq(Piece) /\ << >> \in Seq(0 .. MaxBody) /\ << >> \in Seq(1 .. Len(bodies))
    OBVIOUS
  <2>2. message \in 0 .. Len(bodies) /\ driver_message \in 0 .. Len(bodies)
    BY DEF Init
  <2>3. bodies \in Seq(0 .. MaxBody) /\ delivered \in Seq(1 .. Len(bodies))
    BY <2>1 DEF Init
  <2>4. wire \in Seq(Piece) /\ socket \in Seq(Piece) /\ recv_buf \in Seq(Piece)
    BY <2>1 DEF Init
  <2>5. closed \in BOOLEAN /\ watching \in BOOLEAN /\ callback = "none" /\ traffic \in Traffic
    BY DEF Init
  <2> QED
    BY <2>2, <2>3, <2>4, <2>5 DEF TypeOK
<1>3. Offsets(off)
  BY DEF Init, Offsets
<1>4. Laid(off, 0)
  BY <1>1 DEF Init, Laid
<1>5. Parsed(off, 0)
  BY DEF Init, Parsed, Pending, ContentLength, LastDelivered
<1>6. LosesNothing(off, 0)
  <2>1. Between(off, 0)
    BY DEF Init, Between, ContentLength
  <2> QED
    BY <2>1 DEF Init, LosesNothing
<1>7. watching
  BY DEF Init
<1> HIDE DEF off
<1>8. BrokerAt(off, 0)
  BY <1>2, <1>3, <1>4, <1>5, <1>6, <1>7 DEF BrokerAt
<1> QED
  BY <1>8 DEF BrokerInv

LEMMA StepKeeps == BrokerInv /\ [Next]_vars => BrokerInv'
<1> SUFFICES ASSUME BrokerInv, [Next]_vars PROVE BrokerInv'
  OBVIOUS
<1>1. PICK off : \E c : BrokerAt(off, c)
  BY DEF BrokerInv
<1>2. PICK c : BrokerAt(off, c)
  BY <1>1
<1>3. ASSUME NEW length \in 0 .. MaxBody, PeerSends(length) PROVE BrokerInv'
  BY <1>2, <1>3, PeerSendsKeeps DEF BrokerInv
<1>4. ASSUME NEW n \in 1 .. Len(wire), Arrives(n) PROVE BrokerInv'
  BY <1>2, <1>4, ArrivesKeeps DEF BrokerInv
<1>5. CASE PeerCloses
  BY <1>2, <1>5, PeerClosesKeeps DEF BrokerInv
<1>6. CASE ReceiveCallback
  BY <1>2, <1>6, ReceiveCallbackKeeps DEF BrokerInv
<1>7. CASE ConnectionLost
  BY <1>2, <1>7, ConnectionLostKeeps DEF BrokerInv
<1>8. CASE NoHeader
  BY <1>2, <1>8, NoHeaderKeeps DEF BrokerInv
<1>9. CASE ParseHeader
  BY <1>2, <1>9, ParseHeaderKeeps DEF BrokerInv
<1>10. CASE FailToParseHeader
  BY <1>2, <1>10, FailToParseHeaderKeeps DEF BrokerInv
<1>11. ASSUME NEW call \in {"body", "body_of_header"}, NoBody(call) PROVE BrokerInv'
  BY <1>2, <1>11, NoBodyKeeps DEF BrokerInv
<1>12. ASSUME NEW call \in {"body", "body_of_header"}, TakeBody(call) PROVE BrokerInv'
  BY <1>2, <1>12, TakeBodyKeeps DEF BrokerInv
<1>13. CASE UNCHANGED vars
  <2>1. Stream' = Stream
    BY <1>13 DEF vars, Stream, Received
  <2>2. TypeOK'
    BY <1>2, <1>13 DEF vars, BrokerAt, TypeOK, ContentLength
  <2>3. Offsets(off)' /\ Laid(off, c)' /\ Parsed(off, c)'
    BY <1>2, <1>13, <2>1, OffsetsKept, LaidKept, ParsedKept DEF vars, BrokerAt
  <2>4. LosesNothing(off, c) => LosesNothing(off, c)'
    BY <1>13 DEF vars, LosesNothing, Between, Waiting, Pending, ContentLength
  <2>5. BrokerAt(off, c)'
    BY <1>2, <1>13, <2>2, <2>3, <2>4 DEF vars, BrokerAt
  <2> QED
    BY <2>5 DEF BrokerInv
<1> QED
  BY <1>3, <1>4, <1>5, <1>6, <1>7, <1>8, <1>9, <1>10, <1>11, <1>12, <1>13
  DEF Next, Arrival, Broker

(***************************************************************************)
(* Wherever the program is, what is left of the stream is what the peer    *)
(* has sent, from some position on, and message_ and the driver's message  *)
(* agree with that position.                                               *)
(***************************************************************************)
THEOREM BrokerKept == Spec => []BrokerInv
BY InitiallyAt, StepKeeps, PTL DEF Spec

\* The variables of the broker keep their types: a body is asked for only
\* while message_ has one, and only messages of the peer are handed over.
THEOREM TypeCorrect == Spec => []TypeOK
<1>1. BrokerInv => TypeOK
  BY DEF BrokerInv, BrokerAt
<1> QED
  BY <1>1, BrokerKept, PTL

LEMMA PayloadIsOwn == BrokerInv => PayloadIsOwnBody
<1> SUFFICES ASSUME BrokerInv, ContentLength > 0, driver_message # 0
             PROVE  /\ driver_message = message
                    /\ Len(Stream) >= ContentLength
                    /\ SubSeq(Stream, 1, ContentLength) = BodyOf(message, ContentLength)
  BY DEF PayloadIsOwnBody, Stream, Received
<1>1. PICK off : \E c : BrokerAt(off, c)
  BY DEF BrokerInv
<1>2. PICK c : BrokerAt(off, c)
  BY <1>1
<1>3. TypeOK /\ Offsets(off) /\ Laid(off, c) /\ Parsed(off, c)
  BY <1>2 DEF BrokerAt
<1>4. message \in 1 .. Len(bodies) /\ driver_message = message
  BY <1>2, BodyEnds DEF Pending
<1>5. c = off[message] + 2 /\ ContentLength = bodies[message]
  BY <1>3, Bodies DEF Parsed, Pending
<1> DEFINE k == ContentLength
<1>6. off[message] \in Nat /\ k \in Nat /\ Stream \in Seq(Piece) /\ Len(Stream) \in Nat
  <2>1. off[message] \in Nat
    BY <1>3, <1>4, Later
  <2>2. Stream \in Seq(Piece)
    BY <1>3, Buffers
  <2> QED
    BY <1>3, <2>1, <2>2, Bodies
<1> HIDE DEF k
<1>7. ASSUME NEW i \in 1 .. k
      PROVE  i \in 1 .. Len(Stream) /\ Stream[i] = [msg |-> message, part |-> "body"]
  <2> DEFINE j == i + 2
  <2>1. j \in 1 .. 2 + bodies[message]
    BY <1>5, <1>6 DEF k
  <2>2. off[message] + j > c /\ off[message] + j - c = i /\ j # 1 /\ j # 2
    BY <1>5, <1>6
  <2> HIDE DEF j
  <2>3. off[message] + j - c \in 1 .. Len(Stream) /\ Stream[off[message] + j - c] = PieceAt(message, j)
    BY <1>3, <1>4, <2>1, <2>2, PieceIs
  <2>4. PieceAt(message, j) = [msg |-> message, part |-> "body"]
    BY <2>2 DEF PieceAt
  <2> QED
    BY <2>2, <2>3, <2>4
<1>8. k <= Len(Stream)
  <2>1. k > 0
    BY DEF k
  <2>2. k \in 1 .. k
    BY <1>6, <2>1
  <2>3. k \in 1 .. Len(Stream)
    BY <1>7, <2>2
  <2> QED
    BY <1>6, <2>3
<1>9. SubSeq(Stream, 1, k) = BodyOf(message, k)
  <2>1. k \in 0 .. Len(Stream)
    BY <1>6, <1>8, UpTo
  <2>2. /\ SubSeq(Stream, 1, k) \in Seq(Piece) /\ Len(SubSeq(Stream, 1, k)) = k
        /\ \A i \in 1 .. k : SubSeq(Stream, 1, k)[i] = Stream[i]
    BY <1>6, <2>1, Taken
  <2>3. BodyOf(message, k) = [i \in 1 .. k |-> [msg |-> message, part |-> "body"]]
    BY DEF BodyOf
  <2>4. \A i \in 1 .. k : SubSeq(Stream, 1, k)[i] = [msg |-> message, part |-> "body"]
    BY <1>7, <2>2
  <2>5. SubSeq(Stream, 1, k) = [i \in 1 .. k |-> SubSeq(Stream, 1, k)[i]]
    BY <2>2
  <2> QED
    BY <2>3, <2>4, <2>5
<1> QED
  BY <1>4, <1>6, <1>8, <1>9 DEF k

(***************************************************************************)
(* However the bytes arrive, handle_body gives a message no other payload  *)
(* than the body the peer sent with it, be headers lost or not.            *)
(***************************************************************************)
THEOREM PayloadsAreOwnBodies == Spec => []PayloadIsOwnBody
BY PayloadIsOwn, BrokerKept, PTL

(***************************************************************************)
(* When everything has arrived and the broker is idle, all that may be     *)
(* left is the complete body of the last message, and that only of one     *)
(* that did not arrive in one piece.                                       *)
(***************************************************************************)
THEOREM OnlyABodyIsLeft == Spec => []OnlyABodyIsHeldBack
<1>1. BrokerInv => OnlyABodyIsHeldBack
  <2> SUFFICES ASSUME BrokerInv, traffic # "any", ~closed, callback = "none", socket = << >>,
                      wire = << >>, Len(delivered) < Len(bodies)
               PROVE  /\ traffic = "body_last"
                      /\ message = Len(bodies) /\ Len(delivered) = Len(bodies) - 1
                      /\ recv_buf = BodyOf(message, ContentLength)
    BY DEF OnlyABodyIsHeldBack
  <2>1. PICK off : \E c : BrokerAt(off, c)
    BY DEF BrokerInv
  <2>2. PICK c : BrokerAt(off, c)
    BY <2>1
  <2>3. TypeOK /\ Offsets(off) /\ Laid(off, c) /\ Parsed(off, c) /\ LosesNothing(off, c) /\ watching
    BY <2>2 DEF BrokerAt
  <2>4. Stream = recv_buf /\ Received = recv_buf
    BY <2>3, EmptyJoined DEF TypeOK, Stream, Received
  <2>5. Len(delivered) \in Nat /\ Len(bodies) \in Nat /\ Len(Stream) \in Nat
    BY <2>3, Bodies, Buffers
  <2>6. Waiting
    <3> SUFFICES ASSUME Between(off, c) PROVE FALSE
      BY <2>3 DEF LosesNothing
    <3> DEFINE n == Len(delivered) + 1
    <3>1. n \in 1 .. Len(bodies) /\ c = off[n]
      BY <2>5 DEF Between
    <3> HIDE DEF n
    <3>2. off[n] \in Nat /\ bodies[n] \in Nat
      BY <2>3, <3>1, Later
    <3>3. 2 \in 1 .. 2 + bodies[n] /\ off[n] + 2 > c /\ off[n] + 2 - c = 2
      BY <3>1, <3>2
    <3>4. off[n] + 2 - c \in 1 .. Len(Stream) /\ Stream[off[n] + 2 - c] = PieceAt(n, 2)
      BY <2>3, <3>1, <3>3, PieceIs
    <3>5. 2 \in 1 .. Len(recv_buf) /\ recv_buf[2] = PieceAt(n, 2)
      BY <2>4, <3>3, <3>4
    <3>6. recv_buf[2].part = "end"
      BY <3>5 DEF PieceAt
    <3> QED
      BY <3>5, <3>6 DEF Between
  <2>7. traffic = "body_last" /\ message = Len(bodies)
    BY <2>3, <2>6 DEF Waiting, TypeOK, Traffic
  <2>8. Len(delivered) = Len(bodies) - 1
    BY <2>5, <2>6, <2>7 DEF Waiting
  <2>9. /\ SubSeq(Stream, 1, ContentLength) = BodyOf(message, ContentLength)
        /\ Len(Stream) >= ContentLength
    BY <2>6, PayloadIsOwn DEF PayloadIsOwnBody, Waiting, Pending, Stream, Received
  <2>10. Len(Stream) - ContentLength = 0
    <3>1. ContentLength \in Nat
      BY <2>3, Bodies
    <3>2. c + ContentLength = off[Len(bodies) + 1]
      BY <2>2, <2>6, <2>7, BodyEnds DEF Waiting
    <3>3. PICK k : k = ContentLength
      OBVIOUS
    <3>4. k \in 0 .. Len(Received)
      BY <2>4, <2>5, <2>9, <3>1, <3>3, UpTo
    <3>5. c + k = off[Len(bodies) + 1]
      BY <3>2, <3>3
    <3>6. Len(Received) - k = 0
      BY <2>2, <3>4, <3>5, NothingBehind
    <3> QED
      BY <2>4, <3>3, <3>6
  <2>11. ContentLength = Len(Stream)
    <3>1. ContentLength \in Nat
      BY <2>3, Bodies
    <3> QED
      BY <2>5, <2>10, <3>1
  <2>12. SubSeq(Stream, 1, Len(Stream)) = Stream
    BY <2>3, Buffers, SubSeqFull
  <2> QED
    BY <2>4, <2>7, <2>8, <2>9, <2>11, <2>12
<1> QED
  BY <1>1, BrokerKept, PTL
-----------------------------------------------------------------------------
(* The channel a broker implements.                                        *)

\* What is delivered without a gap ends with its own number.
LEMMA LastIsLength ==
  ASSUME TypeOK, \A i \in 1 .. Len(delivered) : delivered[i] = i
  PROVE  LastDelivered = Len(delivered)
<1>1. delivered \in Seq(1 .. Len(bodies))
  BY DEF TypeOK
<1>2. CASE delivered = << >>
  BY <1>2 DEF LastDelivered
<1>3. CASE delivered # << >>
  <2>1. Len(delivered) \in 1 .. Len(delivered)
    BY <1>1, <1>3
  <2> QED
    BY <1>3, <2>1 DEF LastDelivered
<1> QED
  BY <1>2, <1>3

LEMMA Delivers ==
  ASSUME NEW off, NEW c, BrokerAt(off, c),
         NEW m \in 1 .. Len(bodies), LastDelivered < m,
         traffic # "any" => m = Len(delivered) + 1,
         delivered' = Append(delivered, m), UNCHANGED <<traffic, bodies>>
  PROVE  Channel!Deliver
<1>1. TypeOK
  BY DEF BrokerAt
<1>2. m \in LastDelivered + 1 .. Len(bodies)
  <2>1. LastDelivered \in 0 .. Len(bodies) /\ Len(bodies) \in Nat
    BY <1>1, Bodies
  <2> QED
    BY <2>1
<1>3. traffic # "any" => m = LastDelivered + 1
  BY <1>1, LastIsLength DEF BrokerAt, LosesNothing
<1>4. Channel!Last = LastDelivered
  BY DEF Channel!Last, LastDelivered
<1> QED
  BY <1>2, <1>3, <1>4 DEF Channel!Deliver

LEMMA StepDelivers == BrokerInv /\ [Next]_vars => [Channel!Next]_Channel!vars
<1> SUFFICES ASSUME BrokerInv, [Next]_vars PROVE [Channel!Next]_Channel!vars
  OBVIOUS
<1>1. PICK off : \E c : BrokerAt(off, c)
  BY DEF BrokerInv
<1>2. PICK c : BrokerAt(off, c)
  BY <1>1
<1>3. ASSUME NEW length \in 0 .. MaxBody, PeerSends(length) PROVE Channel!Next
  <2>1. TypeOK /\ bodies' = Append(bodies, length) /\ UNCHANGED <<traffic, delivered>>
    BY <1>2, <1>3 DEF BrokerAt, PeerSends
  <2>2. Len(bodies') = Len(bodies) + 1
    BY <2>1, OneMoreBody
  <2>3. Channel!Send
    BY <2>1, <2>2 DEF Channel!Send
  <2> QED
    BY <2>3 DEF Channel!Next
<1>4. ASSUME UNCHANGED <<traffic, bodies, delivered>> PROVE UNCHANGED Channel!vars
  BY <1>4 DEF Channel!vars
<1>5. CASE Arrival \/ PeerCloses \/ ReceiveCallback \/ ConnectionLost \/ NoHeader \/ FailToParseHeader
  <2>1. UNCHANGED <<traffic, bodies, delivered>>
    BY <1>5 DEF Arrival, Arrives, PeerCloses, ReceiveCallback, ConnectionLost, NoHeader,
                FailToParseHeader, Reads, network
  <2> QED
    BY <1>4, <2>1
<1>6. CASE ParseHeader
  <2>1. PICK i \in 1 .. Len(Received) :
          /\ EndsHeader(Received, i)
          /\ recv_buf' = SubSeq(Received, i + 1, Len(Received))
          /\ delivered' = IF bodies[Received[i].msg] = 0 THEN Append(delivered, Received[i].msg)
                          ELSE delivered
    BY <1>6 DEF ParseHeader
  <2>2. callback = "header" /\ socket' = << >> /\ UNCHANGED <<traffic, bodies, wire>>
    BY <1>6 DEF ParseHeader, Reads, network
  <2> DEFINE m == Received[i].msg
  <2>3. m \in 1 .. Len(bodies) /\ c + i = off[m] + 2 /\ i \in Nat /\ 1 <= i
    BY <1>2, <2>1, <2>2, HeaderTaken
  <2>4. LastDelivered < m
    BY <1>2, <2>3, LastIsBefore
  <2>5. traffic # "any" => m = Len(delivered) + 1
    BY <1>2, <2>1, <2>2, FirstHeader DEF BrokerAt
  <2>6. delivered' = Append(delivered, m) \/ delivered' = delivered
    BY <2>1
  <2> HIDE DEF m
  <2>7. CASE delivered' = Append(delivered, m)
    BY <1>2, <2>2, <2>3, <2>4, <2>5, <2>7, Delivers DEF Channel!Next
  <2>8. CASE delivered' = delivered
    BY <1>4, <2>2, <2>8
  <2> QED
    BY <2>6, <2>7, <2>8
<1>7. ASSUME NEW call \in {"body", "body_of_header"}, NoBody(call) PROVE UNCHANGED Channel!vars
  <2>1. UNCHANGED <<traffic, bodies, delivered>>
    BY <1>7 DEF NoBody, Reads, network
  <2> QED
    BY <1>4, <2>1
<1>8. ASSUME NEW call \in {"body", "body_of_header"}, TakeBody(call)
      PROVE  [Channel!Next]_Channel!vars
  <2>1. /\ callback = call /\ UNCHANGED <<traffic, bodies, driver_message>>
        /\ delivered' = IF driver_message = 0 THEN delivered ELSE Append(delivered, driver_message)
    BY <1>8 DEF TakeBody, Reads, network
  <2>2. CASE driver_message = 0
    BY <1>4, <2>1, <2>2
  <2>3. CASE driver_message # 0
    <3>1. Pending
      BY <1>2, <2>1, <2>3 DEF BrokerAt, TypeOK, Pending
    <3>2. message \in 1 .. Len(bodies) /\ driver_message = message
      BY <1>2, <3>1, BodyEnds
    <3>3. LastDelivered < message
      BY <1>2, <3>1 DEF BrokerAt, Parsed
    <3>4. traffic # "any" => message = Len(delivered) + 1
      BY <1>2, <2>1 DEF BrokerAt, LosesNothing, Between, Waiting
    <3>5. Channel!Deliver
      BY <1>2, <2>1, <2>3, <3>2, <3>3, <3>4, Delivers
    <3> QED
      BY <3>5 DEF Channel!Next
  <2> QED
    BY <2>2, <2>3
<1>9. CASE UNCHANGED vars
  BY <1>4, <1>9 DEF vars
<1> QED
  BY <1>3, <1>5, <1>6, <1>7, <1>8, <1>9 DEF Next, Broker

(***************************************************************************)
(* The broker implements the channel it promises the state machines:       *)
(* messages are handed over in the order they were sent, each at most      *)
(* once, and without a gap when they arrive whole or when nothing follows  *)
(* a body before it is handled.                                            *)
(***************************************************************************)
THEOREM DeliveryImplemented == Spec => DeliversInOrder
<1>1. Init => Channel!Init
  BY DEF Init, Channel!Init
<1> QED
  BY <1>1, StepDelivers, BrokerKept, PTL DEF Spec, DeliversInOrder, Channel!Spec
=============================================================================
