----------------------------- MODULE PeerService -----------------------------
(***************************************************************************)
(* A program that announces itself as a Wi-Fi Display peer: it makes       *)
(* sub-elements, puts them into an information element, serializes that    *)
(* and hands the bytes to a ConnmanClient, or to another information       *)
(* element (as src/p2p/test-ie.cpp does).  The main loop ends before the   *)
(* client does, so none of the client's callbacks comes after it.          *)
(***************************************************************************)
EXTENDS InformationElement, ConnmanClient

CONSTANTS
  MaxElements,      \* bound: sub-elements and copies made
  MaxAnnouncements  \* bound: arrays handed to the client

ASSUME PeerServiceAssumption == MaxElements \in Nat /\ MaxAnnouncements \in Nat

VARIABLES
  phase,     \* the program is "running" or has "exited"
  ie,        \* its InformationElement
  element,   \* the sub-element it has made and not added yet, or NULL
  made,      \* sub-elements and copies made so far
  announced, \* arrays handed to the client so far
  heap       \* sub-element objects, by kind of structure: how many there are

program == <<phase, ie, element, made, announced, heap>>
vars == <<client, program>>

Struct == DOMAIN StructSize

Init ==
  /\ InitClient
  /\ phase = "running"
  /\ ie = NoElements
  /\ element = NULL
  /\ made = 0
  /\ announced = 0
  /\ heap = [s \in Struct |-> 0]

\* The heap after new_subelement(id), for each of ids.
Allocated(objects, ids) ==
  [s \in Struct |-> objects[s] +
    Cardinality({id \in ids : \E i \in 1 .. Len(Allocates(id)) : Allocates(id)[i] = s})]

\* Objects are deleted as what new_subelement made last for the id.
Object(id) == Allocates(id)[Len(Allocates(id))]

\* Mutant: the element that is replaced is not deleted.
KeepReplaced(objects, ids) == objects

\* Mutant: both the program and the element delete.
DeletedTwice(objects, ids) ==
  [s \in Struct |-> objects[s] - 2 * Cardinality({id \in ids : Object(id) = s})]

Deleted(objects, ids) ==
  [s \in Struct |-> objects[s] - Cardinality({id \in ids : Object(id) = s})]

-----------------------------------------------------------------------------
\* new_subelement, and its fields are set.
MakeSubelement ==
  /\ phase = "running"
  /\ element = NULL
  /\ made < MaxElements
  /\ made' = made + 1
  /\ \E e \in Element :
       /\ element' = e
       /\ heap' = Allocated(heap, {e.id})
  /\ UNCHANGED <<client, phase, ie, announced>>

AddSubelement ==
  /\ phase = "running"
  /\ element # NULL
  /\ ie' = add_subelement(ie, element)
  /\ heap' = Deleted(heap, {element.id} \intersect Present(ie))
  /\ element' = NULL
  /\ UNCHANGED <<client, phase, made, announced>>

\* InformationElement ie2(ie.serialize()), which takes the place of ie.
Copy ==
  /\ phase = "running"
  /\ made < MaxElements
  /\ made' = made + 1
  /\ LET copy == Parse(serialize(ie))
     IN  /\ ie' = copy
         /\ heap' = Deleted(Allocated(heap, Present(copy)), Present(ie))
  /\ UNCHANGED <<client, phase, element, announced>>

\* The client takes over the serialized array.
Announce ==
  /\ phase = "running"
  /\ NewClient(serialize(ie)) \/ SetInformationElement(serialize(ie))
  /\ announced < MaxAnnouncements
  /\ announced' = announced + 1
  /\ UNCHANGED <<phase, ie, element, made, heap>>

ClientCallback ==
  /\ phase = "running"
  /\ ProxyCallback \/ ProxyError
  /\ UNCHANGED program

Connman ==
  /\ ConnmanAccepts \/ ConnmanRefuses
  /\ UNCHANGED program

\* The main loop ends, and with main() the client and the element.
Exit ==
  /\ phase = "running"
  /\ phase' = "exited"
  /\ heap' = Deleted(heap, Present(ie))
  /\ ie' = NoElements
  /\ UNCHANGED <<client, element, made, announced>>

Next ==
  \/ MakeSubelement
  \/ AddSubelement
  \/ Copy
  \/ Announce
  \/ ClientCallback
  \/ Connman
  \/ Exit

\* The bus makes the proxy or fails to, and ConnMan answers.
Spec == Init /\ [][Next]_vars /\ WF_vars(ClientCallback) /\ WF_vars(Connman)

-----------------------------------------------------------------------------
\* The variables have their types.
TypeOK ==
  /\ phase \in {"running", "exited"}
  /\ ie.length \in Nat
  /\ \A id \in Supported : ie.subelements[id] \in Element \union {NULL}
  /\ element \in Element \union {NULL}
  /\ heap \in [Struct -> Nat]
  /\ proxy_ \in {"none", "creating", "NULL", "ready"}
  /\ failed \in BOOLEAN

(***************************************************************************)
(* What is serialized is parsed again as the same element (the assertion   *)
(* of src/p2p/test-ie.cpp, for every element that can be put together),    *)
(* and every byte of the array has been written: length_ is the size of    *)
(* the elements, whatever was added, replaced or parsed.                   *)
(***************************************************************************)
CopyIsTheSame ==
  LET array == serialize(ie)
  IN  /\ Parse(array) = ie
      /\ \A i \in 1 .. Len(array) : array[i] # UNWRITTEN

(***************************************************************************)
(* Every sub-element object is in the information element or in the        *)
(* program's hands, and is deleted once, except the objects that           *)
(* new_subelement(ASSOCIATED_BSSID) forgets.                               *)
(***************************************************************************)
ObjectsAreOwned ==
  LET held(s) == IF element # NULL /\ Object(element.id) = s THEN 1 ELSE 0
  IN  \A s \in Struct \ {"AssociatedBSSID"} :
        heap[s] = held(s) + Cardinality({id \in Present(ie) : Object(id) = s})

(***************************************************************************)
(* As long as nothing fails, ConnMan announces at most one element for the *)
(* program at any moment, and when no call is under way it is the last one *)
(* the client was given.                                                   *)
(***************************************************************************)
OneElementAnnounced ==
  ~failed =>
    /\ Cardinality(registered) <= 1
    /\ proxy_ = "ready" /\ calls = << >> => registered = {array_}

(***************************************************************************)
(* Whatever the client was last given is announced in the end, however     *)
(* early it was given, unless something fails or the program ends.         *)
(***************************************************************************)
LastElementIsAnnounced ==
  proxy_ # "none" ~> (calls = << >> /\ array_ \in registered) \/ failed \/ phase = "exited"
=============================================================================
