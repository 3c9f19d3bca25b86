----------------------------- MODULE MiracNetwork -----------------------------
(***************************************************************************)
(* Class MiracNetwork over the sockets of its process: Bind, Accept,       *)
(* Connect, Close and Send.  (Its two Receive functions are modelled where *)
(* the byte stream is, in module MiracBroker.)                             *)
(*                                                                         *)
(* sock maps each handle to the state of its socket.  An operation may end *)
(* in several ways; it is an operator whose value is the set of outcomes.  *)
(***************************************************************************)
EXTENDS Naturals, Sequences, FiniteSetsExt

CONSTANTS
  MaxHandles,    \* bound: sockets of the process
  MaxAddresses   \* bound: addresses a host name resolves to

ASSUME NetworkAssumption ==
  /\ MaxHandles \in Nat \ {0}
  /\ MaxAddresses \in Nat

Handle == 1 .. MaxHandles  \* 0 stands for handle -1

SocketState ==
  {"free",        \* no socket has the handle
   "listening",
   "connecting",  \* connect() said EINPROGRESS
   "refused",     \* the connection failed, SO_ERROR says why
   "idle",        \* the connection failed, and SO_ERROR has been read
   "open",        \* connected, and poll() says there is room to send
   "full",        \* connected, and there is none until the peer has read
   "gone"}        \* the peer has closed or reset the connection

Connected == {"open", "full"}

\* The kernel gives the lowest free handle.
NewHandle(sock) == Min({h \in Handle : sock[h] = "free"})

Close(sock, h) == IF h = 0 THEN sock ELSE [sock EXCEPT ![h] = "free"]

-----------------------------------------------------------------------------
(* Bind.  Every socket has the family of the first address, whichever      *)
(* address it is then bound to.                                            *)

Address == [family : {"inet", "inet6"}, free : BOOLEAN]

CanBind(addresses) ==
  \E i \in 1 .. Len(addresses) :
    addresses[i].free /\ addresses[i].family = addresses[1].family

Bind(sock, addresses) ==
  IF CanBind(addresses)
  THEN [result |-> "listening",
        sock |-> [sock EXCEPT ![NewHandle(sock)] = "listening"]]
  ELSE [result |-> "throws", sock |-> sock]

\* Accept: the connection is there, or has gone away again in the meantime.
Accept(sock) ==
  LET h == NewHandle(sock)
  IN  {[handle |-> h, sock |-> [sock EXCEPT ![h] = state]] : state \in {"open", "gone"}}

-----------------------------------------------------------------------------
(* Connect.  addresses is the length of the list conn_ares, aptr the       *)
(* position of conn_aptr in it.                                            *)

Network == [handle : 0 .. MaxHandles, addresses : 0 .. MaxAddresses,
            aptr : 1 .. MaxAddresses + 1]

NoNetwork == [handle |-> 0, addresses |-> 0, aptr |-> 1]

\* The common end of both forms of Connect: a socket for the address conn_aptr
\* points to.  The socket of the address before it stays open.
ConnectTo(sock, net) ==
  IF net.aptr > net.addresses
  THEN {[result |-> "throws", sock |-> sock, net |-> net]}
  ELSE LET h == NewHandle(sock)
       IN  {[result |-> end[1], sock |-> [sock EXCEPT ![h] = end[2]],
             net |-> [net EXCEPT !.handle = h]] :
              end \in {<<"true", "open">>, <<"false", "connecting">>,
                       <<"throws", "idle">>}}

\* Connect(address, service); a name that does not resolve makes it throw.
Connect(sock) ==
  UNION {ConnectTo(sock, [NoNetwork EXCEPT !.addresses = n]) : n \in 0 .. MaxAddresses}

\* On to the next address.  (Mutant of ConnectAgain: without a look at SO_ERROR.)
ConnectToNext(sock, net) ==
  ConnectTo([sock EXCEPT ![net.handle] = "idle"], [net EXCEPT !.aptr = @ + 1])

\* Connect(NULL, NULL): SO_ERROR is read, which clears it.  It is also zero
\* while the connection is still being made.
ConnectAgain(sock, net) ==
  LET succeeds == {[result |-> "true", sock |-> sock, net |-> net]}
      next == ConnectToNext(sock, net)
  IN  CASE sock[net.handle] = "refused" -> next
        [] sock[net.handle] = "gone" -> succeeds \union next
        [] OTHER -> succeeds

\* Mutant: the other end is not asked for.
PeerUnasked(state) == {"known"}

\* GetPeerAddress asks for the other end, and throws where there is none.
PeerAddress(state) ==
  CASE state \in Connected -> {"known"}
    [] state = "gone" -> {"known", "throws"}
    [] OTHER -> {"throws"}

-----------------------------------------------------------------------------
(* Send, with n pieces in send_buf: how many send() calls took, what it    *)
(* returned, and the state of the socket after it.  Where there is room    *)
(* something is taken.  With an empty send_buf send() returns 0, and Send  *)
(* looks at the errno some earlier call has left.                          *)

Send(state, n) ==
  LET all(after) == [result |-> "true", taken |-> n, state |-> after]
      some(k, after) == [result |-> "false", taken |-> k, state |-> after]
      throws(k) == [result |-> "throws", taken |-> k, state |-> state]
  IN  CASE n = 0 -> {some(0, state), throws(0)}
        [] n > 0 /\ state = "open" ->
             {all("open"), all("full")} \union {some(k, "full") : k \in 1 .. n - 1}
        [] n > 0 /\ state = "full" ->
             {all("full")} \union {some(k, "full") : k \in 0 .. n - 1}
        [] OTHER ->
             {all(state)} \union {some(k, state) : k \in 0 .. n - 1}
                          \union {throws(k) : k \in 0 .. n}
=============================================================================
