---------------------------- MODULE ConnmanClient ----------------------------
(***************************************************************************)
(* Class ConnmanClient: it has ConnMan announce an information element,    *)
(* through a D-Bus proxy that is made asynchronously.  Calls are sent and  *)
(* not waited for; the bus keeps their order.                              *)
(*                                                                         *)
(* ConnMan is modelled as far as the client relies on it: it registers and *)
(* unregisters what it is given, or answers with an error.                 *)
(***************************************************************************)
EXTENDS Naturals, Sequences

CONSTANT NoArray  \* array_ before the client exists

VARIABLES
  proxy_,      \* "none": no client yet; "creating", "NULL" after a failure, "ready"
  array_,      \* the element to announce
  calls,       \* on their way to ConnMan
  registered,  \* what ConnMan announces
  failed       \* a proxy or a call has failed

client == <<proxy_, array_, calls, registered, failed>>

InitClient ==
  /\ proxy_ = "none"
  /\ array_ = NoArray
  /\ calls = << >>
  /\ registered = {}
  /\ failed = FALSE

\* g_dbus_proxy_call refuses a null proxy, and does nothing.
Call(pending, method, array) ==
  IF proxy_ = "ready" THEN Append(pending, [method |-> method, array |-> array])
  ELSE pending

\* The constructor asks for a proxy.
NewClient(array) ==
  /\ proxy_ = "none"
  /\ proxy_' = "creating"
  /\ array_' = array
  /\ UNCHANGED <<calls, registered, failed>>

\* proxy_cb: the first registration, of what array_ holds by then.
ProxyCallback ==
  /\ proxy_ = "creating"
  /\ proxy_' = "ready"
  /\ calls' = Append(calls, [method |-> "RegisterPeerService", array |-> array_])
  /\ UNCHANGED <<array_, registered, failed>>

ProxyError ==
  /\ proxy_ = "creating"
  /\ proxy_' = "NULL"
  /\ failed' = TRUE
  /\ UNCHANGED <<array_, calls, registered>>

\* Mutant: array_ is replaced first.
CallsForNewArray(array) ==
  Call(Call(calls, "UnregisterPeerService", array), "RegisterPeerService", array)

\* Mutant: the new array is not registered.
CallsToForget(array) == Call(calls, "UnregisterPeerService", array_)

CallsToReplace(array) ==
  Call(Call(calls, "UnregisterPeerService", array_), "RegisterPeerService", array)

SetInformationElement(array) ==
  /\ proxy_ # "none"
  /\ calls' = CallsToReplace(array)
  /\ array_' = array
  /\ UNCHANGED <<proxy_, registered, failed>>

\* ConnMan takes the next call.  register_peer_service_cb logs its answer,
\* whichever call it is for, and does nothing else.
ConnmanAccepts ==
  /\ calls # << >>
  /\ LET call == Head(calls)
     IN  registered' = IF call.method = "RegisterPeerService"
                       THEN registered \union {call.array}
                       ELSE registered \ {call.array}
  /\ calls' = Tail(calls)
  /\ UNCHANGED <<proxy_, array_, failed>>

ConnmanRefuses ==
  /\ calls # << >>
  /\ calls' = Tail(calls)
  /\ failed' = TRUE
  /\ UNCHANGED <<proxy_, array_, registered>>
=============================================================================
