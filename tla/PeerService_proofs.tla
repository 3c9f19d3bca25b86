------------------------- MODULE PeerService_proofs -------------------------
(***************************************************************************)
(* What holds of a program that announces itself, for any sub-elements and *)
(* any number of them and of announcements.                                *)
(***************************************************************************)
EXTENDS PeerService, SequenceTheorems, FiniteSetTheorems, TLAPS

-----------------------------------------------------------------------------
(* What ConnMan announces.                                                 *)

Register(array) == [method |-> "RegisterPeerService", array |-> array]
Unregister(array) == [method |-> "UnregisterPeerService", array |-> array]

\* Calls alternate: what is announced is unregistered, and something else is
\* registered; the last one registers the client's array.
Alternate(queue) ==
  /\ \A i \in 1 .. Len(queue) :
       queue[i] \in {Register(queue[i].array), Unregister(queue[i].array)}
  /\ \A i \in 2 .. Len(queue) :
       /\ queue[i].method # queue[i - 1].method
       /\ queue[i].method = "UnregisterPeerService" => queue[i].array = queue[i - 1].array

\* What ConnMan announces fits the first call, what the client has fits the last.
CallsFit(queue, announces, array) ==
  /\ Alternate(queue)
  /\ queue = << >> => announces = {array}
  /\ queue # << >> =>
       /\ queue[Len(queue)] = Register(array)
       /\ announces = IF queue[1].method = "RegisterPeerService" THEN {} ELSE {queue[1].array}

\* OneElementAnnounced, made inductive.
AnnouncementOK ==
  /\ failed \in BOOLEAN
  /\ \E S : calls \in Seq(S)
  /\ ~failed /\ proxy_ = "ready" => CallsFit(calls, registered, array_)
  /\ ~failed /\ proxy_ # "ready" => calls = << >> /\ registered = {}

LEMMA AnnouncementUnchanged ==
  ASSUME AnnouncementOK, UNCHANGED client
  PROVE  AnnouncementOK'
BY DEF AnnouncementOK, client

LEMMA ProxyKeepsAnnouncement ==
  ASSUME AnnouncementOK, ProxyCallback \/ ProxyError
  PROVE  AnnouncementOK'
<1>1. CASE ProxyError
  BY <1>1 DEF AnnouncementOK, ProxyError
<1>2. CASE ProxyCallback
  <2>1. calls' = Append(calls, Register(array_)) /\ UNCHANGED <<array_, registered, failed>>
    BY <1>2 DEF ProxyCallback, Register
  <2>2. PICK S : calls \in Seq(S)
    BY DEF AnnouncementOK
  <2>3. calls' \in Seq(S \union {Register(array_)})
    BY <2>1, <2>2
  <2>4. ASSUME ~failed
        PROVE  CallsFit(calls', registered, array_)
    <3>1. calls = << >> /\ registered = {}
      BY <1>2, <2>4 DEF AnnouncementOK, ProxyCallback
    <3>2. calls' = <<Register(array_)>>
      BY <2>1, <3>1
    <3> QED BY <3>1, <3>2 DEF CallsFit, Alternate, Register
  <2> QED BY <1>2, <2>1, <2>3, <2>4 DEF AnnouncementOK, ProxyCallback
<1> QED BY <1>1, <1>2

\* Another array: the old one is unregistered last but one.
LEMMA ReplaceFits ==
  ASSUME NEW S, NEW queue \in Seq(S), NEW announces, NEW old, NEW array,
         CallsFit(queue, announces, old)
  PROVE  CallsFit(Append(Append(queue, Unregister(old)), Register(array)), announces, array)
<1> DEFINE n == Len(queue)
           new == Append(Append(queue, Unregister(old)), Register(array))
<1>1. n \in Nat /\ Len(new) = n + 2
  BY LenProperties
<1>2. /\ \A i \in 1 .. n : new[i] = queue[i]
      /\ new[n + 1] = Unregister(old)
      /\ new[n + 2] = Register(array)
  <2> DEFINE T == S \union {Unregister(old), Register(array)}
             first == Append(queue, Unregister(old))
  <2>1. queue \in Seq(T) /\ Unregister(old) \in T /\ Register(array) \in T
    BY SeqMonotonic
  <2>2. /\ first \in Seq(T) /\ Len(first) = n + 1
        /\ \A i \in 1 .. n : first[i] = queue[i]
        /\ first[n + 1] = Unregister(old)
    BY <2>1, AppendProperties
  <2>3. /\ \A i \in 1 .. n + 1 : new[i] = first[i]
        /\ new[n + 2] = Register(array)
    BY <1>1, <2>1, <2>2, AppendProperties
  <2> QED BY <1>1, <2>2, <2>3
<1>3. /\ Unregister(old).method = "UnregisterPeerService" /\ Unregister(old).array = old
      /\ Register(array).method = "RegisterPeerService" /\ Register(array).array = array
      /\ Register(old).method = "RegisterPeerService" /\ Register(old).array = old
  BY DEF Unregister, Register
<1>4. n # 0 => queue[n] = Register(old)
  BY <1>1, EmptySeq DEF CallsFit
<1>5. \A i \in 1 .. n + 2 : new[i] \in {Register(new[i].array), Unregister(new[i].array)}
  <2> SUFFICES ASSUME NEW i \in 1 .. n + 2
               PROVE  new[i] \in {Register(new[i].array), Unregister(new[i].array)}
    OBVIOUS
  <2>1. CASE i \in 1 .. n
    BY <1>2, <2>1 DEF CallsFit, Alternate
  <2>2. CASE i = n + 1
    BY <1>2, <1>3, <2>2
  <2>3. CASE i = n + 2
    BY <1>2, <1>3, <2>3
  <2> QED BY <1>1, <2>1, <2>2, <2>3
<1>6. \A i \in 2 .. n + 2 :
        /\ new[i].method # new[i - 1].method
        /\ new[i].method = "UnregisterPeerService" => new[i].array = new[i - 1].array
  <2> SUFFICES ASSUME NEW i \in 2 .. n + 2
               PROVE  /\ new[i].method # new[i - 1].method
                      /\ new[i].method = "UnregisterPeerService" => new[i].array = new[i - 1].array
    OBVIOUS
  <2>1. CASE i \in 2 .. n
    <3>1. i \in 1 .. n /\ i - 1 \in 1 .. n
      BY <1>1, <2>1
    <3> QED BY <1>2, <2>1, <3>1 DEF CallsFit, Alternate
  <2>2. CASE i = n + 1
    <3>1. n # 0 /\ i - 1 = n /\ n \in 1 .. n
      BY <1>1, <2>2
    <3> QED BY <1>2, <1>3, <1>4, <2>2, <3>1
  <2>3. CASE i = n + 2
    <3>1. i - 1 = n + 1
      BY <1>1, <2>3
    <3> QED BY <1>2, <1>3, <2>3, <3>1
  <2> QED BY <1>1, <2>1, <2>2, <2>3
<1>7. announces = IF new[1].method = "RegisterPeerService" THEN {} ELSE {new[1].array}
  <2>1. CASE n = 0
    <3>1. queue = << >>
      BY <2>1, EmptySeq
    <3>2. announces = {old}
      BY <3>1 DEF CallsFit
    <3> QED BY <1>2, <1>3, <2>1, <3>2
  <2>2. CASE n # 0
    <3>1. queue # << >> /\ 1 \in 1 .. n
      BY <1>1, <2>2, EmptySeq
    <3>2. new[1] = queue[1]
      BY <1>2, <3>1
    <3> QED BY <3>1, <3>2 DEF CallsFit
  <2> QED BY <2>1, <2>2
<1>8. new # << >>
  BY <1>1, EmptySeq
<1>9. Alternate(new)
  BY <1>1, <1>5, <1>6 DEF Alternate
<1> HIDE DEF new
<1>10. CallsFit(new, announces, array)
  BY <1>1, <1>2, <1>7, <1>8, <1>9 DEF CallsFit
<1> QED BY <1>10 DEF new

LEMMA AnnounceKeepsAnnouncement ==
  ASSUME AnnouncementOK, NEW array, NewClient(array) \/ SetInformationElement(array)
  PROVE  AnnouncementOK'
<1>1. CASE NewClient(array)
  BY <1>1 DEF AnnouncementOK, NewClient
<1>2. CASE SetInformationElement(array) /\ proxy_ # "ready"
  BY <1>2 DEF AnnouncementOK, SetInformationElement, CallsToReplace, Call
<1>3. CASE SetInformationElement(array) /\ proxy_ = "ready"
  <2>1. /\ calls' = Append(Append(calls, Unregister(array_)), Register(array))
        /\ array_' = array
        /\ UNCHANGED <<proxy_, registered, failed>>
    BY <1>3 DEF SetInformationElement, CallsToReplace, Call, Register, Unregister
  <2>2. PICK S : calls \in Seq(S)
    BY DEF AnnouncementOK
  <2>3. calls' \in Seq(S \union {Unregister(array_), Register(array)})
    BY <2>1, <2>2
  <2>4. ~failed => CallsFit(calls', registered, array)
    BY <1>3, <2>1, <2>2, ReplaceFits DEF AnnouncementOK
  <2> QED BY <1>3, <2>1, <2>3, <2>4 DEF AnnouncementOK
<1> QED BY <1>1, <1>2, <1>3

\* ConnMan has done what the first call asks.
LEMMA TakenFits ==
  ASSUME NEW S, NEW queue \in Seq(S), queue # << >>, NEW announces, NEW array,
         CallsFit(queue, announces, array)
  PROVE  CallsFit(Tail(queue),
                  IF Head(queue).method = "RegisterPeerService"
                  THEN announces \union {Head(queue).array}
                  ELSE announces \ {Head(queue).array}, array)
<1> DEFINE n == Len(queue)
           rest == Tail(queue)
           after == IF queue[1].method = "RegisterPeerService" THEN {queue[1].array} ELSE {}
<1>1. n \in Nat /\ n # 0
  BY EmptySeq, LenProperties
<1>2. /\ rest \in Seq(S) /\ Len(rest) = n - 1
      /\ \A i \in 1 .. n - 1 : rest[i] = queue[i + 1]
  BY HeadTailProperties
<1>3. Head(queue) = queue[1]
  OBVIOUS
<1> HIDE DEF rest
<1>4. after = IF Head(queue).method = "RegisterPeerService"
              THEN announces \union {Head(queue).array}
              ELSE announces \ {Head(queue).array}
  BY <1>3 DEF CallsFit
<1>5. \A i \in 1 .. n - 1 : i + 1 \in 2 .. n /\ i + 1 \in 1 .. n /\ (i + 1) - 1 = i
  BY <1>1
<1>6. Alternate(rest)
  <2>1. \A i \in 1 .. n - 1 : rest[i] \in {Register(rest[i].array), Unregister(rest[i].array)}
    BY <1>2, <1>5 DEF CallsFit, Alternate
  <2>2. \A i \in 2 .. n - 1 : rest[i] = queue[i + 1] /\ rest[i - 1] = queue[(i + 1) - 1]
    BY <1>1, <1>2
  <2>3. \A i \in 2 .. n - 1 :
          /\ rest[i].method # rest[i - 1].method
          /\ rest[i].method = "UnregisterPeerService" => rest[i].array = rest[i - 1].array
    <3> SUFFICES ASSUME NEW i \in 2 .. n - 1
                 PROVE  /\ rest[i].method # rest[i - 1].method
                        /\ rest[i].method = "UnregisterPeerService"
                             => rest[i].array = rest[i - 1].array
      OBVIOUS
    <3>1. i + 1 \in 2 .. n
      BY <1>1
    <3> QED BY <2>2, <3>1 DEF CallsFit, Alternate
  <2> QED BY <1>2, <2>1, <2>3 DEF Alternate
<1>7. rest = << >> => after = {array}
  <2>1. rest = << >> => n = 1
    BY <1>1, <1>2, EmptySeq
  <2>2. n = 1 => queue[1] = Register(array)
    BY DEF CallsFit
  <2>3. Register(array).method = "RegisterPeerService" /\ Register(array).array = array
    BY DEF Register
  <2> QED BY <2>1, <2>2, <2>3
<1>8. rest # << >> =>
        /\ rest[n - 1] = Register(array)
        /\ after = IF rest[1].method = "RegisterPeerService" THEN {} ELSE {rest[1].array}
  <2> SUFFICES ASSUME rest # << >>
               PROVE  /\ rest[n - 1] = Register(array)
                      /\ after = IF rest[1].method = "RegisterPeerService" THEN {} ELSE {rest[1].array}
    OBVIOUS
  <2>1. n - 1 \in Nat /\ n - 1 # 0
    BY <1>1, <1>2, EmptySeq
  <2>2. rest[n - 1] = queue[n]
    BY <1>2, <2>1
  <2>3. rest[1] = queue[2] /\ 2 \in 2 .. n /\ 2 \in 1 .. n /\ 1 \in 1 .. n
    BY <1>2, <2>1
  <2>4. /\ queue[2].method # queue[1].method
        /\ queue[2].method = "UnregisterPeerService" => queue[2].array = queue[1].array
    BY <2>3 DEF CallsFit, Alternate
  <2>5. /\ queue[1].method \in {"RegisterPeerService", "UnregisterPeerService"}
        /\ queue[2].method \in {"RegisterPeerService", "UnregisterPeerService"}
    BY <2>3 DEF CallsFit, Alternate, Register, Unregister
  <2>6. CASE queue[1].method = "RegisterPeerService"
    BY <2>2, <2>3, <2>4, <2>5, <2>6 DEF CallsFit
  <2>7. CASE queue[1].method = "UnregisterPeerService"
    BY <2>2, <2>3, <2>4, <2>5, <2>7 DEF CallsFit
  <2> QED BY <2>5, <2>6, <2>7
<1> HIDE DEF after
<1>9. CallsFit(rest, after, array)
  BY <1>2, <1>6, <1>7, <1>8 DEF CallsFit
<1> QED BY <1>4, <1>9 DEF rest

LEMMA ConnmanKeepsAnnouncement ==
  ASSUME AnnouncementOK, ConnmanAccepts \/ ConnmanRefuses
  PROVE  AnnouncementOK'
<1>1. PICK S : calls \in Seq(S)
  BY DEF AnnouncementOK
<1>2. calls # << >> /\ calls' = Tail(calls) /\ UNCHANGED <<proxy_, array_>>
  BY DEF ConnmanAccepts, ConnmanRefuses
<1>3. calls' \in Seq(S)
  BY <1>1, <1>2
<1>4. CASE ConnmanRefuses
  BY <1>3, <1>4 DEF AnnouncementOK, ConnmanRefuses
<1>5. CASE ConnmanAccepts
  <2>1. registered' = IF Head(calls).method = "RegisterPeerService"
                      THEN registered \union {Head(calls).array}
                      ELSE registered \ {Head(calls).array}
    BY <1>5 DEF ConnmanAccepts
  <2>2. failed' = failed
    BY <1>5 DEF ConnmanAccepts
  <2>3. ~failed => proxy_ = "ready"
    BY <1>2 DEF AnnouncementOK
  <2>4. ~failed => CallsFit(calls, registered, array_)
    BY <2>3 DEF AnnouncementOK
  <2>5. ~failed => CallsFit(calls', registered', array_)
    BY <1>1, <1>2, <2>1, <2>4, TakenFits
  <2> QED BY <1>2, <1>3, <2>2, <2>3, <2>5 DEF AnnouncementOK
<1> QED BY <1>4, <1>5

LEMMA AnnouncementStep ==
  ASSUME AnnouncementOK, [Next]_vars
  PROVE  AnnouncementOK'
<1>1. CASE MakeSubelement \/ AddSubelement \/ Copy \/ Exit \/ UNCHANGED vars
  BY <1>1, AnnouncementUnchanged
     DEF MakeSubelement, AddSubelement, Copy, Exit, vars
<1>2. CASE Announce
  BY <1>2, AnnounceKeepsAnnouncement DEF Announce
<1>3. CASE ClientCallback
  BY <1>3, ProxyKeepsAnnouncement DEF ClientCallback
<1>4. CASE Connman
  BY <1>4, ConnmanKeepsAnnouncement DEF Connman
<1> QED BY <1>1, <1>2, <1>3, <1>4 DEF Next

(***************************************************************************)
(* However often and however early the program hands a new element to its  *)
(* client, ConnMan announces at most one at a time, and at rest the last   *)
(* one (ConnmanClient::proxy_cb and set_information_element).              *)
(***************************************************************************)
THEOREM OneElementIsAnnounced == Spec => []OneElementAnnounced
<1>1. Init => AnnouncementOK
  <2>1. << >> \in Seq({})
    BY EmptySeq
  <2> QED BY <2>1 DEF Init, InitClient, AnnouncementOK
<1>2. AnnouncementOK /\ [Next]_vars => AnnouncementOK'
  BY AnnouncementStep
<1>3. AnnouncementOK => OneElementAnnounced
  <2> SUFFICES ASSUME AnnouncementOK, ~failed
               PROVE  /\ Cardinality(registered) <= 1
                      /\ proxy_ = "ready" /\ calls = << >> => registered = {array_}
    BY DEF OneElementAnnounced
  <2>1. registered = {} \/ \E a : registered = {a}
    BY DEF AnnouncementOK, CallsFit
  <2>2. Cardinality(registered) <= 1
    <3>1. CASE registered = {}
      BY <3>1, FS_EmptySet
    <3>2. ASSUME NEW a, registered = {a}
          PROVE  Cardinality(registered) <= 1
      <4>1. Cardinality({a}) = 1
        BY FS_Singleton
      <4> QED BY <3>2, <4>1
    <3> QED BY <2>1, <3>1, <3>2
  <2> QED BY <2>2 DEF AnnouncementOK, CallsFit
<1> QED BY <1>1, <1>2, <1>3, PTL DEF Spec
-----------------------------------------------------------------------------
(* Who owns the sub-element objects.                                       *)

\* How many of the ids have an object of kind s.
Count(ids, s) == Cardinality({id \in ids : Object(id) = s})

\* ObjectsAreOwned, made inductive.
OwnedOK ==
  /\ DOMAIN ie.subelements = Supported
  /\ ie.subelements = [id \in Supported |-> ie.subelements[id]]
  /\ element \in Element \union {NULL}
  /\ heap = [s \in Struct |-> heap[s]]
  /\ \A s \in Struct \ {"AssociatedBSSID"} :
       heap[s] = (IF element = NULL THEN 0 ELSE Count({element.id}, s)) + Count(Present(ie), s)

LEMMA SupportedIsFinite == IsFiniteSet(Supported)
<1>1. Supported = {DEVICE_INFORMATION} \union {ASSOCIATED_BSSID} \union {COUPLED_SINK_INFORMATION}
  BY DEF Supported
<1> QED BY <1>1, FS_Singleton, FS_Union

\* A set of ids has a number of objects of each kind.
LEMMA CountType ==
  ASSUME NEW ids \in SUBSET Supported, NEW s
  PROVE  IsFiniteSet({id \in ids : Object(id) = s}) /\ Count(ids, s) \in Nat
BY SupportedIsFinite, FS_Subset, FS_CardinalityType DEF Count

LEMMA CountOne ==
  ASSUME NEW id, NEW s
  PROVE  Count({id}, s) = IF Object(id) = s THEN 1 ELSE 0
<1>1. CASE Object(id) = s
  <2>1. {i \in {id} : Object(i) = s} = {id}
    BY <1>1
  <2> QED BY <1>1, <2>1, FS_Singleton DEF Count
<1>2. CASE Object(id) # s
  <2>1. {i \in {id} : Object(i) = s} = {}
    BY <1>2
  <2> QED BY <1>2, <2>1, FS_EmptySet DEF Count
<1> QED BY <1>1, <1>2

LEMMA CountNone ==
  ASSUME NEW s
  PROVE  Count({}, s) = 0
<1>1. {id \in {} : Object(id) = s} = {}
  OBVIOUS
<1> QED BY <1>1, FS_EmptySet DEF Count

\* One more id, which may be there already.
LEMMA CountAdded ==
  ASSUME NEW ids \in SUBSET Supported, NEW id \in Supported, NEW s
  PROVE  Count(ids \union {id}, s) = Count(ids, s) + Count({id}, s) - Count({id} \intersect ids, s)
<1>1. CASE id \in ids
  <2>1. ids \union {id} = ids /\ {id} \intersect ids = {id}
    BY <1>1
  <2>2. Count(ids, s) \in Nat /\ Count({id}, s) \in Nat
    BY CountType
  <2>3. Count(ids \union {id}, s) = Count(ids, s) /\ Count({id} \intersect ids, s) = Count({id}, s)
    BY <2>1, Zenon
  <2> QED BY <2>2, <2>3
<1>2. CASE id \notin ids
  <2> DEFINE of(set) == {i \in set : Object(i) = s}
  <2>1. {id} \intersect ids = {}
    BY <1>2
  <2>2. IsFiniteSet(of(ids)) /\ Count(ids, s) \in Nat
    BY CountType
  <2>5. Count({id} \intersect ids, s) = 0
    BY <2>1, CountNone, Zenon
  <2>3. CASE Object(id) = s
    <3>1. of(ids \union {id}) = of(ids) \union {id} /\ id \notin of(ids)
      BY <1>2, <2>3
    <3>2. Cardinality(of(ids) \union {id}) = Cardinality(of(ids)) + 1
      BY <2>2, <3>1, FS_AddElement
    <3>3. Count(ids \union {id}, s) = Count(ids, s) + 1
      BY <3>1, <3>2 DEF Count
    <3>4. Count({id}, s) = 1
      BY <2>3, CountOne
    <3> QED BY <2>2, <2>5, <3>3, <3>4
  <2>4. CASE Object(id) # s
    <3>1. of(ids \union {id}) = of(ids)
      BY <2>4
    <3>2. Count(ids \union {id}, s) = Count(ids, s)
      BY <3>1, Zenon DEF Count
    <3>3. Count({id}, s) = 0
      BY <2>4, CountOne
    <3> QED BY <2>2, <2>5, <3>2, <3>3
  <2> QED BY <2>3, <2>4
<1> QED BY <1>1, <1>2

\* new_subelement and delete_subelement, but for the object that is forgotten.
LEMMA AllocatedCount ==
  ASSUME NEW objects, NEW ids \in SUBSET Supported, NEW s \in Struct \ {"AssociatedBSSID"}
  PROVE  /\ Allocated(objects, ids)[s] = objects[s] + Count(ids, s)
         /\ Deleted(objects, ids)[s] = objects[s] - Count(ids, s)
<1>1. ASSUME NEW id \in ids
      PROVE  (\E i \in 1 .. Len(Allocates(id)) : Allocates(id)[i] = s) <=> Object(id) = s
  <2>1. CASE id = 0
    BY <2>1 DEF Allocates, Object, DEVICE_INFORMATION, ASSOCIATED_BSSID, COUPLED_SINK_INFORMATION
  <2>2. CASE id = 1
    BY <2>2 DEF Allocates, Object, DEVICE_INFORMATION, ASSOCIATED_BSSID, COUPLED_SINK_INFORMATION
  <2>3. CASE id = 6
    BY <2>3 DEF Allocates, Object, DEVICE_INFORMATION, ASSOCIATED_BSSID, COUPLED_SINK_INFORMATION
  <2> QED BY <2>1, <2>2, <2>3
       DEF Supported, DEVICE_INFORMATION, ASSOCIATED_BSSID, COUPLED_SINK_INFORMATION
<1>2. {id \in ids : \E i \in 1 .. Len(Allocates(id)) : Allocates(id)[i] = s}
        = {id \in ids : Object(id) = s}
  BY <1>1
<1> QED BY <1>2 DEF Allocated, Deleted, Count

\* No element is the null pointer.
LEMMA ElementIsNotNull ==
  ASSUME NEW e \in Element
  PROVE  e # NULL /\ e.id \in Supported
BY ValueAssumption DEF Element, NULL

\* The ids that are there after add_subelement.
LEMMA PresentAfterAdd ==
  ASSUME NEW old, NEW e \in Element, DOMAIN old.subelements = Supported
  PROVE  Present(add_subelement(old, e)) = Present(old) \union {e.id}
<1>1. add_subelement(old, e).subelements = [old.subelements EXCEPT ![e.id] = e]
  BY DEF add_subelement
<1> QED BY <1>1, ElementIsNotNull DEF Present

LEMMA OwnedStep ==
  ASSUME OwnedOK, [Next]_vars
  PROVE  OwnedOK'
<1>1. Present(ie) \in SUBSET Supported
  BY DEF Present
<1>2. CASE MakeSubelement
  <2>1. PICK e \in Element : element' = e /\ heap' = Allocated(heap, {e.id})
    BY <1>2 DEF MakeSubelement
  <2>2. ie' = ie /\ element = NULL
    BY <1>2 DEF MakeSubelement
  <2>3. e # NULL /\ {e.id} \in SUBSET Supported
    BY ElementIsNotNull
  <2>4. heap' = [s \in Struct |-> heap'[s]]
    BY <2>1 DEF Allocated
  <2>5. ASSUME NEW s \in Struct \ {"AssociatedBSSID"}
        PROVE  heap'[s] = Count({e.id}, s) + Count(Present(ie), s)
    <3>1. heap[s] = 0 + Count(Present(ie), s)
      BY <2>2 DEF OwnedOK
    <3>2. heap'[s] = heap[s] + Count({e.id}, s)
      BY <2>1, <2>3, AllocatedCount
    <3>3. Count(Present(ie), s) \in Nat /\ Count({e.id}, s) \in Nat
      BY <1>1, <2>3, CountType
    <3> QED BY <3>1, <3>2, <3>3
  <2> QED BY <2>1, <2>2, <2>3, <2>4, <2>5 DEF OwnedOK
<1>3. CASE AddSubelement
  <2>1. /\ element # NULL /\ element' = NULL
        /\ ie' = add_subelement(ie, element)
        /\ heap' = Deleted(heap, {element.id} \intersect Present(ie))
    BY <1>3 DEF AddSubelement
  <2>2. element \in Element /\ element.id \in Supported
    BY <2>1, ElementIsNotNull DEF OwnedOK
  <2>3. Present(ie)' = Present(ie) \union {element.id}
    BY <2>1, <2>2, PresentAfterAdd DEF OwnedOK, Present
  <2>4. /\ DOMAIN ie'.subelements = Supported
        /\ ie'.subelements = [id \in Supported |-> ie'.subelements[id]]
    BY <2>1 DEF OwnedOK, add_subelement
  <2>5. heap' = [s \in Struct |-> heap'[s]]
    BY <2>1 DEF Deleted
  <2>6. ASSUME NEW s \in Struct \ {"AssociatedBSSID"}
        PROVE  heap'[s] = 0 + Count(Present(ie)', s)
    <3> DEFINE both == {element.id} \intersect Present(ie)
    <3>1. both \in SUBSET Supported
      BY <1>1
    <3>2. heap[s] = Count({element.id}, s) + Count(Present(ie), s)
      BY <2>1 DEF OwnedOK
    <3>3. heap'[s] = heap[s] - Count(both, s)
      BY <2>1, <3>1, AllocatedCount
    <3>4. Count(Present(ie)', s) = Count(Present(ie), s) + Count({element.id}, s) - Count(both, s)
      BY <1>1, <2>2, <2>3, CountAdded
    <3>5. /\ Count({element.id}, s) \in Nat /\ Count(Present(ie), s) \in Nat
          /\ Count(both, s) \in Nat
      BY <1>1, <2>2, <3>1, CountType
    <3> QED BY <3>2, <3>3, <3>4, <3>5
  <2> QED BY <2>1, <2>4, <2>5, <2>6 DEF OwnedOK, Count
<1>4. CASE Copy
  <2> DEFINE copy == Parse(serialize(ie))
  <2>1. /\ ie' = copy /\ element' = element
        /\ heap' = Deleted(Allocated(heap, Present(copy)), Present(ie))
    BY <1>4 DEF Copy
  <2>2. /\ DOMAIN copy.subelements = Supported
        /\ copy.subelements = [id \in Supported |-> copy.subelements[id]]
    BY DEF Parse
  <2> HIDE DEF copy
  <2>3. Present(copy) \in SUBSET Supported
    BY DEF Present
  <2>4. heap' = [s \in Struct |-> heap'[s]]
    BY <2>1 DEF Deleted
  <2>5. ASSUME NEW s \in Struct \ {"AssociatedBSSID"}
        PROVE  heap'[s] = (IF element = NULL THEN 0 ELSE Count({element.id}, s))
                            + Count(Present(copy), s)
    <3> DEFINE held == IF element = NULL THEN 0 ELSE Count({element.id}, s)
    <3>1. heap[s] = held + Count(Present(ie), s)
      BY DEF OwnedOK
    <3>2. heap'[s] = (heap[s] + Count(Present(copy), s)) - Count(Present(ie), s)
      BY <1>1, <2>1, <2>3, AllocatedCount
    <3>3. held \in Nat
      <4>1. element # NULL => {element.id} \in SUBSET Supported
        BY ElementIsNotNull DEF OwnedOK
      <4> QED BY <4>1, CountType
    <3>4. Count(Present(copy), s) \in Nat /\ Count(Present(ie), s) \in Nat
      BY <1>1, <2>3, CountType
    <3> HIDE DEF held
    <3>5. heap'[s] = held + Count(Present(copy), s)
      BY <3>1, <3>2, <3>3, <3>4
    <3> QED BY <3>5 DEF held
  <2>6. Present(ie)' = Present(copy)
    BY <2>1 DEF Present
  <2> QED BY <2>1, <2>2, <2>4, <2>5, <2>6 DEF OwnedOK, Count
<1>5. CASE Exit
  <2>1. /\ ie' = NoElements /\ element' = element
        /\ heap' = Deleted(heap, Present(ie))
    BY <1>5 DEF Exit
  <2>2. Present(ie)' = {}
    BY <2>1 DEF Present, NoElements
  <2>3. heap' = [s \in Struct |-> heap'[s]]
    BY <2>1 DEF Deleted
  <2>4. ASSUME NEW s \in Struct \ {"AssociatedBSSID"}
        PROVE  heap'[s] = (IF element = NULL THEN 0 ELSE Count({element.id}, s)) + Count({}, s)
    <3> DEFINE held == IF element = NULL THEN 0 ELSE Count({element.id}, s)
    <3>1. heap[s] = held + Count(Present(ie), s)
      BY DEF OwnedOK
    <3>2. heap'[s] = heap[s] - Count(Present(ie), s)
      BY <1>1, <2>1, AllocatedCount
    <3>3. held \in Nat
      <4>1. element # NULL => {element.id} \in SUBSET Supported
        BY ElementIsNotNull DEF OwnedOK
      <4> QED BY <4>1, CountType
    <3>4. Count(Present(ie), s) \in Nat /\ Count({}, s) = 0
      BY <1>1, CountType, CountNone
    <3> HIDE DEF held
    <3>5. heap'[s] = held + Count({}, s)
      BY <3>1, <3>2, <3>3, <3>4
    <3> QED BY <3>5 DEF held
  <2>5. /\ DOMAIN ie'.subelements = Supported
        /\ ie'.subelements = [id \in Supported |-> ie'.subelements[id]]
    BY <2>1 DEF NoElements
  <2> QED BY <2>1, <2>2, <2>3, <2>4, <2>5 DEF OwnedOK, Count
<1>6. CASE Announce \/ ClientCallback \/ Connman \/ UNCHANGED vars
  <2>1. UNCHANGED <<ie, element, heap>>
    BY <1>6 DEF Announce, ClientCallback, Connman, program, vars
  <2>2. Present(ie)' = Present(ie)
    BY <2>1 DEF Present
  <2> QED BY <2>1, <2>2 DEF OwnedOK, Count
<1> QED BY <1>2, <1>3, <1>4, <1>5, <1>6 DEF Next

LEMMA OwnedInit ==
  ASSUME Init
  PROVE  OwnedOK
<1>1. Present(ie) = {}
  BY DEF Init, Present, NoElements
<1>2. \A s \in Struct : Count({}, s) = 0
  BY CountNone
<1> QED BY <1>1, <1>2 DEF Init, OwnedOK, NoElements

(***************************************************************************)
(* No sub-element object is lost or deleted twice, but for the first one   *)
(* new_subelement(ASSOCIATED_BSSID) makes (new_subelement,                 *)
(* delete_subelement, add_subelement and the destructor).                  *)
(***************************************************************************)
THEOREM ObjectsHaveOwners == Spec => []ObjectsAreOwned
<1>1. Init => OwnedOK
  BY OwnedInit
<1>2. OwnedOK /\ [Next]_vars => OwnedOK'
  BY OwnedStep
<1>3. OwnedOK => ObjectsAreOwned
  <2> SUFFICES ASSUME OwnedOK, NEW s \in Struct \ {"AssociatedBSSID"}
               PROVE  heap[s] = (IF element # NULL /\ Object(element.id) = s THEN 1 ELSE 0)
                                  + Cardinality({id \in Present(ie) : Object(id) = s})
    BY DEF ObjectsAreOwned
  <2>1. heap[s] = (IF element = NULL THEN 0 ELSE Count({element.id}, s)) + Count(Present(ie), s)
    BY DEF OwnedOK
  <2>2. Count({element.id}, s) = IF Object(element.id) = s THEN 1 ELSE 0
    BY CountOne
  <2>3. heap[s] = (IF element # NULL /\ Object(element.id) = s THEN 1 ELSE 0) + Count(Present(ie), s)
    BY <2>1, <2>2
  <2> QED BY <2>3 DEF Count
<1> QED BY <1>1, <1>2, <1>3, PTL DEF Spec
-----------------------------------------------------------------------------
(* Where the constructor finds elements.                                   *)

\* The element that the byte at pos (counted from 0) is of ends this far on.
After(array, pos) == pos + SubelementSize[array[pos + 1].of.id]

\* starts is what Starts looks for in array.
Finds(array, starts) ==
  starts = [pos \in Nat |-> IF Len(array) >= pos + 2
                            THEN {pos} \union starts[After(array, pos)]
                            ELSE {}]

\* The first elements found from pos on.
Upto0(array, pos) == {}
Upto1(array, pos) ==
  IF Len(array) >= pos + 2 THEN {pos} \union Upto0(array, After(array, pos)) ELSE {}
Upto2(array, pos) ==
  IF Len(array) >= pos + 2 THEN {pos} \union Upto1(array, After(array, pos)) ELSE {}
Upto3(array, pos) ==
  IF Len(array) >= pos + 2 THEN {pos} \union Upto2(array, After(array, pos)) ELSE {}
Upto4(array, pos) ==
  IF Len(array) >= pos + 2 THEN {pos} \union Upto3(array, After(array, pos)) ELSE {}

LEMMA SizesAre ==
  /\ SubelementSize[0] = 9 /\ SubelementSize[1] = 9 /\ SubelementSize[6] = 10
BY DEF SubelementSize

\* In an array of elements the constructor moves on, by nine bytes at least.
IsOfElements(array) ==
  /\ Len(array) \in 0 .. 36
  /\ \A i \in 1 .. Len(array) : array[i].of.id \in Supported

LEMMA AfterIsFurther ==
  ASSUME NEW array, IsOfElements(array), NEW pos \in Nat, Len(array) >= pos + 2
  PROVE  After(array, pos) \in Nat /\ After(array, pos) >= pos + 9
<1>1. pos + 1 \in 1 .. Len(array)
  BY DEF IsOfElements
<1>2. array[pos + 1].of.id \in {0, 1, 6}
  BY <1>1 DEF IsOfElements, Supported, DEVICE_INFORMATION, ASSOCIATED_BSSID, COUPLED_SINK_INFORMATION
<1>3. SubelementSize[array[pos + 1].of.id] \in {9, 10}
  BY <1>2, SizesAre
<1> DEFINE n == SubelementSize[array[pos + 1].of.id]
<1> HIDE DEF n
<1>4. n \in {9, 10} /\ After(array, pos) = pos + n
  BY <1>3 DEF n, After
<1> QED BY <1>4

\* An array of that length holds no more than four.
LEMMA FourAreAll ==
  ASSUME NEW array, IsOfElements(array), NEW pos \in Nat
  PROVE  Upto4(array, pos) = IF Len(array) >= pos + 2
                             THEN {pos} \union Upto4(array, After(array, pos))
                             ELSE {}
<1> DEFINE n == Len(array)
           next(p) == After(array, p)
<1>1. n \in 0 .. 36
  BY DEF IsOfElements
<1>2. \A p \in Nat : n >= p + 2 => next(p) \in Nat /\ next(p) >= p + 9
  BY AfterIsFurther
<1> HIDE DEF n, next
<1>3. \A p \in Nat : p >= n => Upto0(array, p) = Upto1(array, p)
  BY <1>1 DEF Upto0, Upto1, n
<1>4. \A p \in Nat : p + 9 >= n => Upto1(array, p) = Upto2(array, p)
  <2> SUFFICES ASSUME NEW p \in Nat, p + 9 >= n PROVE Upto1(array, p) = Upto2(array, p)
    OBVIOUS
  <2>1. n >= p + 2 => next(p) \in Nat /\ next(p) >= n
    BY <1>1, <1>2
  <2> QED BY <1>3, <2>1 DEF Upto1, Upto2, n, next
<1>5. \A p \in Nat : p + 18 >= n => Upto2(array, p) = Upto3(array, p)
  <2> SUFFICES ASSUME NEW p \in Nat, p + 18 >= n PROVE Upto2(array, p) = Upto3(array, p)
    OBVIOUS
  <2>1. n >= p + 2 => next(p) \in Nat /\ next(p) + 9 >= n
    BY <1>1, <1>2
  <2> QED BY <1>4, <2>1 DEF Upto2, Upto3, n, next
<1>6. \A p \in Nat : p + 27 >= n => Upto3(array, p) = Upto4(array, p)
  <2> SUFFICES ASSUME NEW p \in Nat, p + 27 >= n PROVE Upto3(array, p) = Upto4(array, p)
    OBVIOUS
  <2>1. n >= p + 2 => next(p) \in Nat /\ next(p) + 18 >= n
    BY <1>1, <1>2
  <2> QED BY <1>5, <2>1 DEF Upto3, Upto4, n, next
<1>7. n >= pos + 2 => next(pos) \in Nat /\ next(pos) + 27 >= n
  BY <1>1, <1>2
<1> QED BY <1>6, <1>7 DEF Upto4, n, next

LEMMA StartsAreFound ==
  ASSUME NEW array, IsOfElements(array)
  PROVE  \E starts : Finds(array, starts) /\ Starts(array) = starts[0]
<1> DEFINE all == [pos \in Nat |-> Upto4(array, pos)]
<1>1. Finds(array, all)
  <2>1. \A pos \in Nat : Len(array) >= pos + 2 => After(array, pos) \in Nat
    BY AfterIsFurther
  <2>2. \A pos \in Nat : Len(array) >= pos + 2 =>
          Upto4(array, After(array, pos)) = all[After(array, pos)]
    BY <2>1
  <2>3. \A pos \in Nat : Upto4(array, pos) = IF Len(array) >= pos + 2
                             THEN {pos} \union all[After(array, pos)] ELSE {}
    BY FourAreAll, <2>2
  <2> QED BY <2>3 DEF Finds
<1>2. \E f : f = [pos \in Nat |-> IF Len(array) >= pos + 2
                    THEN {pos} \union f[pos + SubelementSize[array[pos + 1].of.id]] ELSE {}]
  BY <1>1, Zenon DEF Finds, After
<1>3. \E f : /\ f = [pos \in Nat |-> IF Len(array) >= pos + 2
                    THEN {pos} \union f[pos + SubelementSize[array[pos + 1].of.id]] ELSE {}]
             /\ Starts(array) = f[0]
  BY <1>2, Zenon DEF Starts
<1> QED BY <1>3, Zenon DEF Finds, After

-----------------------------------------------------------------------------
(* What serialize writes.                                                  *)

\* The bytes an id takes in the array.
Room(elem, id) == IF id \in Present(elem) THEN SubelementSize[id] ELSE 0

\* An information element as its operations leave it: every sub-element under
\* its own id, and length_ the sum of their sizes.
ElementOK(elem) ==
  /\ elem \in [length : Nat, subelements : [Supported -> Element \union {NULL}]]
  /\ \A id \in Present(elem) : elem.subelements[id].id = id
  /\ elem.length = Room(elem, 0) + Room(elem, 1) + Room(elem, 6)

LEMMA RoomIs ==
  ASSUME NEW elem
  PROVE  /\ Room(elem, 0) = IF 0 \in Present(elem) THEN 9 ELSE 0
         /\ Room(elem, 1) = IF 1 \in Present(elem) THEN 9 ELSE 0
         /\ Room(elem, 6) = IF 6 \in Present(elem) THEN 10 ELSE 0
BY SizesAre DEF Room

LEMMA PartIs ==
  ASSUME NEW elem, ElementOK(elem), NEW id \in Supported
  PROVE  /\ \E S : Part(elem, id) \in Seq(S)
         /\ Len(Part(elem, id)) = Room(elem, id)
         /\ \A i \in 1 .. Room(elem, id) :
              Part(elem, id)[i] = [of |-> elem.subelements[id], at |-> i]
<1>1. SubelementSize[id] \in Nat
  BY SizesAre DEF Supported, DEVICE_INFORMATION, ASSOCIATED_BSSID, COUPLED_SINK_INFORMATION
<1>2. CASE id \in Present(elem)
  <2> DEFINE n == SubelementSize[id]
             e == elem.subelements[id]
             S == {[of |-> e, at |-> i] : i \in 1 .. n}
  <2>1. e.id = id
    BY <1>2 DEF ElementOK
  <2>2. Part(elem, id) = [i \in 1 .. n |-> [of |-> e, at |-> i]]
    BY <1>2, <2>1 DEF Part, Bytes
  <2>3. Part(elem, id) \in [1 .. n -> S]
    BY <2>2
  <2>4. Part(elem, id) \in Seq(S) /\ Len(Part(elem, id)) = n
    BY <1>1, <2>2, <2>3
  <2>5. Room(elem, id) = n
    BY <1>2 DEF Room
  <2> QED BY <2>2, <2>4, <2>5
<1>3. CASE id \notin Present(elem)
  <2>1. Part(elem, id) = << >> /\ Room(elem, id) = 0
    BY <1>3 DEF Part, Room
  <2>2. << >> \in Seq({}) /\ Len(<< >>) = 0
    OBVIOUS
  <2> QED BY <2>1, <2>2
<1> QED BY <1>2, <1>3

LEMMA SerializedIs ==
  ASSUME NEW elem, ElementOK(elem)
  PROVE  LET a == Room(elem, 0)
             b == Room(elem, 1)
             c == Room(elem, 6)
             array == serialize(elem)
         IN  /\ Len(array) = a + b + c
             /\ \A i \in 1 .. a : array[i] = [of |-> elem.subelements[0], at |-> i]
             /\ \A i \in 1 .. b : array[a + i] = [of |-> elem.subelements[1], at |-> i]
             /\ \A i \in 1 .. c : array[a + b + i] = [of |-> elem.subelements[6], at |-> i]
<1> DEFINE a == Room(elem, 0)
           b == Room(elem, 1)
           c == Room(elem, 6)
           p == Part(elem, 0)
           q == Part(elem, 1)
           r == Part(elem, 6)
           array == serialize(elem)
<1>1. /\ DEVICE_INFORMATION = 0 /\ ASSOCIATED_BSSID = 1 /\ COUPLED_SINK_INFORMATION = 6
      /\ 0 \in Supported /\ 1 \in Supported /\ 6 \in Supported
  BY DEF DEVICE_INFORMATION, ASSOCIATED_BSSID, COUPLED_SINK_INFORMATION, Supported
<1>2. a \in Nat /\ b \in Nat /\ c \in Nat
  BY RoomIs
<1>3. PICK S : p \in Seq(S)
  BY <1>1, PartIs
<1>4. PICK T : q \in Seq(T)
  BY <1>1, PartIs
<1>5. PICK U : r \in Seq(U)
  BY <1>1, PartIs
<1>6. Len(p) = a /\ Len(q) = b /\ Len(r) = c
  BY <1>1, PartIs
<1> DEFINE V == S \union T \union U
<1>7. p \in Seq(V) /\ q \in Seq(V) /\ r \in Seq(V)
  BY <1>3, <1>4, <1>5, SeqMonotonic
<1>8. /\ p \o q \in Seq(V) /\ Len(p \o q) = a + b
      /\ \A i \in 1 .. a + b : (p \o q)[i] = IF i <= a THEN p[i] ELSE q[i - a]
  BY <1>6, <1>7, ConcatProperties
<1> DEFINE written == p \o q \o r
<1>9. /\ Len(written) = a + b + c
      /\ \A i \in 1 .. a + b + c : written[i] = IF i <= a + b THEN (p \o q)[i] ELSE r[i - (a + b)]
  BY <1>6, <1>7, <1>8, ConcatProperties
<1>10. elem.length = a + b + c
  BY DEF ElementOK
<1>11. array = [i \in 1 .. a + b + c |-> IF i <= Len(written) THEN written[i] ELSE UNWRITTEN]
  BY <1>1, <1>10 DEF serialize
<1> HIDE DEF a, b, c, p, q, r, array, written
<1>12. array = [i \in 1 .. a + b + c |-> written[i]]
  BY <1>2, <1>9, <1>11
<1>13. Len(array) = a + b + c
  BY <1>2, <1>12
<1>14. \A i \in 1 .. a : p[i] = [of |-> elem.subelements[0], at |-> i]
  BY <1>1, PartIs DEF a, p
<1>15. \A i \in 1 .. b : q[i] = [of |-> elem.subelements[1], at |-> i]
  BY <1>1, PartIs DEF b, q
<1>16. \A i \in 1 .. c : r[i] = [of |-> elem.subelements[6], at |-> i]
  BY <1>1, PartIs DEF c, r
<1>17. \A i \in 1 .. a : array[i] = [of |-> elem.subelements[0], at |-> i]
  <2> SUFFICES ASSUME NEW i \in 1 .. a PROVE array[i] = p[i]
    BY <1>14
  <2>1. i \in 1 .. a + b + c /\ i \in 1 .. a + b /\ i <= a /\ i <= a + b
    BY <1>2
  <2> QED BY <1>8, <1>9, <1>12, <2>1
<1>18. \A i \in 1 .. b : array[a + i] = [of |-> elem.subelements[1], at |-> i]
  <2> SUFFICES ASSUME NEW i \in 1 .. b PROVE array[a + i] = q[i]
    BY <1>15
  <2>1. /\ a + i \in 1 .. a + b + c /\ a + i \in 1 .. a + b
        /\ ~(a + i <= a) /\ a + i <= a + b /\ (a + i) - a = i
    BY <1>2
  <2> QED BY <1>8, <1>9, <1>12, <2>1
<1>19. \A i \in 1 .. c : array[a + b + i] = [of |-> elem.subelements[6], at |-> i]
  <2> SUFFICES ASSUME NEW i \in 1 .. c PROVE array[a + b + i] = r[i]
    BY <1>16
  <2>1. /\ a + b + i \in 1 .. a + b + c
        /\ ~(a + b + i <= a + b) /\ (a + b + i) - (a + b) = i
    BY <1>2
  <2> QED BY <1>9, <1>12, <2>1
<1> QED BY <1>13, <1>17, <1>18, <1>19 DEF a, b, c, array

-----------------------------------------------------------------------------
(* What is parsed again.                                                   *)

\* The place where an id's element begins, if it has one.
Start(elem, id, pos) == IF id \in Present(elem) THEN {pos} ELSE {}

LEMMA SerializedIsOfElements ==
  ASSUME NEW elem, ElementOK(elem)
  PROVE  /\ IsOfElements(serialize(elem))
         /\ \A i \in 1 .. Len(serialize(elem)) : serialize(elem)[i] # UNWRITTEN
<1> DEFINE a == Room(elem, 0)
           b == Room(elem, 1)
           c == Room(elem, 6)
           array == serialize(elem)
           written == {elem.subelements[id] : id \in Present(elem)}
<1>1. /\ a = IF 0 \in Present(elem) THEN 9 ELSE 0
      /\ b = IF 1 \in Present(elem) THEN 9 ELSE 0
      /\ c = IF 6 \in Present(elem) THEN 10 ELSE 0
  BY RoomIs
<1>2. /\ Len(array) = a + b + c
      /\ \A i \in 1 .. a : array[i] = [of |-> elem.subelements[0], at |-> i]
      /\ \A i \in 1 .. b : array[a + i] = [of |-> elem.subelements[1], at |-> i]
      /\ \A i \in 1 .. c : array[a + b + i] = [of |-> elem.subelements[6], at |-> i]
  BY SerializedIs, Zenon
<1>3. /\ a # 0 => elem.subelements[0] \in written
      /\ b # 0 => elem.subelements[1] \in written
      /\ c # 0 => elem.subelements[6] \in written
  BY <1>1
<1>4. \A e \in written : e # NULL /\ e.id \in Supported
  BY DEF ElementOK, Present
<1> HIDE DEF a, b, c, array, written
<1>5. /\ \A i \in 1 .. a : array[i].of \in written
      /\ \A i \in 1 .. b : array[a + i].of \in written
      /\ \A i \in 1 .. c : array[a + b + i].of \in written
  <2>1. ASSUME NEW i \in 1 .. a PROVE array[i].of \in written
    <3>1. a # 0 /\ array[i] = [of |-> elem.subelements[0], at |-> i]
      BY <1>1, <1>2, <2>1
    <3> QED BY <1>3, <3>1
  <2>2. ASSUME NEW i \in 1 .. b PROVE array[a + i].of \in written
    <3>1. b # 0 /\ array[a + i] = [of |-> elem.subelements[1], at |-> i]
      BY <1>1, <1>2, <2>2
    <3> QED BY <1>3, <3>1
  <2>3. ASSUME NEW i \in 1 .. c PROVE array[a + b + i].of \in written
    <3>1. c # 0 /\ array[a + b + i] = [of |-> elem.subelements[6], at |-> i]
      BY <1>1, <1>2, <2>3
    <3> QED BY <1>3, <3>1
  <2> QED BY <2>1, <2>2, <2>3
<1>6. ASSUME NEW i \in 1 .. Len(array)
      PROVE  array[i].of \in written
  <2>1. CASE i <= a
    BY <1>1, <1>2, <1>5, <2>1
  <2>2. CASE i > a /\ i <= a + b
    <3>1. i - a \in 1 .. b /\ a + (i - a) = i
      BY <1>1, <2>2
    <3> QED BY <1>5, <3>1
  <2>3. CASE i > a + b
    <3>1. i - (a + b) \in 1 .. c /\ a + b + (i - (a + b)) = i
      BY <1>1, <1>2, <2>3
    <3> QED BY <1>5, <3>1
  <2> QED BY <1>1, <1>2, <2>1, <2>2, <2>3
<1>7. \A i \in 1 .. Len(array) : array[i].of # NULL /\ array[i].of.id \in Supported
  BY <1>4, <1>6
<1>8. \A i \in 1 .. Len(array) : array[i] # UNWRITTEN
  BY <1>7 DEF UNWRITTEN
<1>9. Len(array) \in 0 .. 36
  BY <1>1, <1>2
<1> QED BY <1>7, <1>8, <1>9 DEF IsOfElements, array

\* Where each element that is there begins.
LEMMA FirstBytes ==
  ASSUME NEW elem, ElementOK(elem)
  PROVE  LET a == Room(elem, 0)
             b == Room(elem, 1)
             array == serialize(elem)
         IN  /\ 0 \in Present(elem) => array[0 + 1].of = elem.subelements[0]
             /\ 1 \in Present(elem) => array[a + 1].of = elem.subelements[1]
             /\ 6 \in Present(elem) => array[a + b + 1].of = elem.subelements[6]
<1> DEFINE a == Room(elem, 0)
           b == Room(elem, 1)
           c == Room(elem, 6)
           array == serialize(elem)
<1>1. /\ 0 \in Present(elem) => 1 \in 1 .. a
      /\ 1 \in Present(elem) => 1 \in 1 .. b
      /\ 6 \in Present(elem) => 1 \in 1 .. c
  BY RoomIs
<1>2. /\ \A i \in 1 .. a : array[i] = [of |-> elem.subelements[0], at |-> i]
      /\ \A i \in 1 .. b : array[a + i] = [of |-> elem.subelements[1], at |-> i]
      /\ \A i \in 1 .. c : array[a + b + i] = [of |-> elem.subelements[6], at |-> i]
  BY SerializedIs, Zenon
<1> HIDE DEF a, b, c, array
<1>3. /\ 0 \in Present(elem) => array[1] = [of |-> elem.subelements[0], at |-> 1]
      /\ 1 \in Present(elem) => array[a + 1] = [of |-> elem.subelements[1], at |-> 1]
      /\ 6 \in Present(elem) => array[a + b + 1] = [of |-> elem.subelements[6], at |-> 1]
  BY <1>1, <1>2
<1>4. array[0 + 1] = array[1]
  OBVIOUS
<1> QED BY <1>3, <1>4 DEF a, b, array

\* One step of the constructor's loop, over an element or over none.
LEMMA FoundStep ==
  ASSUME NEW elem, ElementOK(elem), NEW starts, Finds(serialize(elem), starts),
         NEW id \in Supported, NEW pos \in Nat,
         pos + Room(elem, id) <= Len(serialize(elem)),
         id \in Present(elem) =>
           serialize(elem)[pos + 1].of = elem.subelements[id]
  PROVE  starts[pos] = Start(elem, id, pos) \union starts[pos + Room(elem, id)]
<1>1. CASE id \notin Present(elem)
  BY <1>1 DEF Room, Start
<1>2. CASE id \in Present(elem)
  <2>1. /\ Room(elem, id) = SubelementSize[id]
        /\ Room(elem, id) \in {9, 10}
    BY <1>2, SizesAre
    DEF Room, Supported, DEVICE_INFORMATION, ASSOCIATED_BSSID, COUPLED_SINK_INFORMATION
  <2>2. After(serialize(elem), pos) = pos + Room(elem, id)
    BY <1>2, <2>1 DEF After, ElementOK
  <2>3. Len(serialize(elem)) \in Nat
    BY SerializedIsOfElements DEF IsOfElements
  <2>4. Len(serialize(elem)) >= pos + 2
    BY <2>1, <2>3
  <2>5. starts[pos] = {pos} \union starts[After(serialize(elem), pos)]
    BY <2>4 DEF Finds
  <2> QED BY <1>2, <2>2, <2>5 DEF Start
<1> QED BY <1>1, <1>2

LEMMA StartsOfSerialized ==
  ASSUME NEW elem, ElementOK(elem)
  PROVE  Starts(serialize(elem)) =
           Start(elem, 0, 0) \union Start(elem, 1, Room(elem, 0))
             \union Start(elem, 6, Room(elem, 0) + Room(elem, 1))
<1> DEFINE a == Room(elem, 0)
           b == Room(elem, 1)
           c == Room(elem, 6)
           array == serialize(elem)
           of(id) == elem.subelements[id]
<1>1. /\ a = IF 0 \in Present(elem) THEN 9 ELSE 0
      /\ b = IF 1 \in Present(elem) THEN 9 ELSE 0
      /\ c = IF 6 \in Present(elem) THEN 10 ELSE 0
  BY RoomIs
<1>2. /\ Len(array) = a + b + c
      /\ \A i \in 1 .. a : array[i] = [of |-> of(0), at |-> i]
      /\ \A i \in 1 .. b : array[a + i] = [of |-> of(1), at |-> i]
      /\ \A i \in 1 .. c : array[a + b + i] = [of |-> of(6), at |-> i]
  BY SerializedIs, Zenon
<1>3. PICK starts : Finds(array, starts) /\ Starts(array) = starts[0]
  BY SerializedIsOfElements, StartsAreFound
<1>4. 0 \in Supported /\ 1 \in Supported /\ 6 \in Supported
  BY DEF Supported, DEVICE_INFORMATION, ASSOCIATED_BSSID, COUPLED_SINK_INFORMATION
<1>5. starts[0] = Start(elem, 0, 0) \union starts[a]
  <2>1. 0 + a <= Len(array) /\ 0 + a = a /\ 0 \in Nat
    BY <1>1, <1>2
  <2>2. 0 \in Present(elem) => array[0 + 1].of = of(0)
    BY FirstBytes, Zenon
  <2>3. starts[0] = Start(elem, 0, 0) \union starts[0 + a]
    BY <1>3, <1>4, <2>1, <2>2, FoundStep
  <2> QED BY <2>1, <2>3
<1>6. starts[a] = Start(elem, 1, a) \union starts[a + b]
  <2>1. a + b <= Len(array) /\ a \in Nat
    BY <1>1, <1>2
  <2>2. 1 \in Present(elem) => array[a + 1].of = of(1)
    BY FirstBytes, Zenon
  <2> QED BY <1>3, <1>4, <2>1, <2>2, FoundStep
<1>7. starts[a + b] = Start(elem, 6, a + b) \union starts[a + b + c]
  <2>1. a + b + c <= Len(array) /\ a + b \in Nat
    BY <1>1, <1>2
  <2>2. 6 \in Present(elem) => array[a + b + 1].of = of(6)
    BY FirstBytes, Zenon
  <2> QED BY <1>3, <1>4, <2>1, <2>2, FoundStep
<1>8. starts[a + b + c] = {}
  <2>1. a + b + c \in Nat /\ ~(Len(array) >= a + b + c + 2)
    BY <1>1, <1>2
  <2> HIDE DEF a, b, c, array
  <2> QED BY <1>3, <2>1 DEF Finds
<1> HIDE DEF a, b, c, array
<1>9. Starts(array) = Start(elem, 0, 0) \union Start(elem, 1, a) \union Start(elem, 6, a + b)
  BY <1>3, <1>5, <1>6, <1>7, <1>8
<1> QED BY <1>9 DEF a, b, array

LEMMA MaxOfOne ==
  ASSUME NEW n \in Nat
  PROVE  Max({n}) = n
BY DEF Max

LEMMA ParsedAgain ==
  ASSUME NEW elem, ElementOK(elem)
  PROVE  Parse(serialize(elem)) = elem
<1> DEFINE a == Room(elem, 0)
           b == Room(elem, 1)
           c == Room(elem, 6)
           array == serialize(elem)
           of(id) == elem.subelements[id]
           at(id) == {pos \in Starts(array) : array[pos + 1].of.id = id}
           place(id) == IF id = 0 THEN 0 ELSE IF id = 1 THEN a ELSE a + b
<1>1. /\ a = IF 0 \in Present(elem) THEN 9 ELSE 0
      /\ b = IF 1 \in Present(elem) THEN 9 ELSE 0
      /\ c = IF 6 \in Present(elem) THEN 10 ELSE 0
  BY RoomIs
<1>2. /\ Len(array) = a + b + c
      /\ \A i \in 1 .. a : array[i] = [of |-> of(0), at |-> i]
      /\ \A i \in 1 .. b : array[a + i] = [of |-> of(1), at |-> i]
      /\ \A i \in 1 .. c : array[a + b + i] = [of |-> of(6), at |-> i]
  BY SerializedIs, Zenon
<1>3. Starts(array) = Start(elem, 0, 0) \union Start(elem, 1, a) \union Start(elem, 6, a + b)
  BY StartsOfSerialized, Zenon
<1>4. Supported = {0, 1, 6}
  BY DEF Supported, DEVICE_INFORMATION, ASSOCIATED_BSSID, COUPLED_SINK_INFORMATION
<1>5. \A id \in Present(elem) : of(id).id = id
  BY DEF ElementOK
<1> HIDE DEF a, b, c, array
<1>6. \A id \in Present(elem) : array[place(id) + 1].of = of(id)
  <2>1. /\ 0 \in Present(elem) => array[0 + 1].of = of(0)
        /\ 1 \in Present(elem) => array[a + 1].of = of(1)
        /\ 6 \in Present(elem) => array[a + b + 1].of = of(6)
    BY FirstBytes, Zenon DEF a, b, array
  <2>2. \A id \in Present(elem) : id = 0 \/ id = 1 \/ id = 6
    BY <1>4 DEF Present
  <2> QED BY <2>1, <2>2
<1>7. Starts(array) = {place(id) : id \in Present(elem)}
  <2>1. Present(elem) \subseteq {0, 1, 6}
    BY <1>4 DEF Present
  <2>2. place(0) = 0 /\ place(1) = a /\ place(6) = a + b
    OBVIOUS
  <2> HIDE DEF place
  <2> QED BY <1>3, <2>1, <2>2 DEF Start
<1>8. \A id \in Supported : place(id) \in Nat
  BY <1>1, <1>4
<1> HIDE DEF place
<1>9. ASSUME NEW id \in Supported
      PROVE  (IF at(id) = {} THEN NULL ELSE array[Max(at(id)) + 1].of) = of(id)
  <2>1. CASE id \in Present(elem)
    <3>1. at(id) = {place(id)}
      BY <1>5, <1>6, <1>7, <2>1
    <3>2. Max(at(id)) = place(id)
      BY <1>8, <3>1, MaxOfOne
    <3> QED BY <1>6, <2>1, <3>1, <3>2
  <2>2. CASE id \notin Present(elem)
    <3>1. at(id) = {}
      BY <1>5, <1>6, <1>7, <2>2
    <3>2. of(id) = NULL
      BY <2>2 DEF Present
    <3> QED BY <3>1, <3>2
  <2> QED BY <2>1, <2>2
<1>10. Len(array) = elem.length
  BY <1>2 DEF ElementOK, a, b, c
<1> DEFINE read == Parse(array)
<1>11. read = [length |-> elem.length, subelements |-> [id \in Supported |-> of(id)]]
  BY <1>9, <1>10 DEF Parse
<1>12. /\ elem = [length |-> elem.length, subelements |-> elem.subelements]
       /\ elem.subelements = [id \in Supported |-> of(id)]
  BY DEF ElementOK
<1> QED BY <1>11, <1>12 DEF array

-----------------------------------------------------------------------------
(* A copy is the same.                                                     *)

\* CopyIsTheSame, made inductive.
SameOK == ElementOK(ie) /\ element \in Element \union {NULL}

LEMMA NothingIsSame == ElementOK(NoElements)
<1>1. Present(NoElements) = {}
  BY DEF Present, NoElements
<1> QED BY <1>1, RoomIs DEF ElementOK, NoElements

\* The length grows with the sizes, and only with a new id.
LEMMA AddKeepsElement ==
  ASSUME NEW elem, ElementOK(elem), NEW e \in Element
  PROVE  ElementOK(add_subelement(elem, e))
<1> DEFINE new == add_subelement(elem, e)
<1>1. e # NULL /\ e.id \in Supported
  BY ElementIsNotNull
<1>2. DOMAIN elem.subelements = Supported
  BY DEF ElementOK
<1>3. Present(new) = Present(elem) \union {e.id}
  BY <1>2, PresentAfterAdd
<1>4. /\ new.length = IF e.id \in Present(elem) THEN elem.length
                      ELSE elem.length + SubelementSize[e.id]
      /\ new.subelements = [elem.subelements EXCEPT ![e.id] = e]
      /\ new = [length |-> new.length, subelements |-> new.subelements]
  BY DEF add_subelement
<1> HIDE DEF new
<1>5. e.id \in {0, 1, 6}
  BY <1>1 DEF Supported, DEVICE_INFORMATION, ASSOCIATED_BSSID, COUPLED_SINK_INFORMATION
<1>6. /\ elem.length \in Nat
      /\ elem.length = Room(elem, 0) + Room(elem, 1) + Room(elem, 6)
      /\ elem.subelements \in [Supported -> Element \union {NULL}]
      /\ \A id \in Present(elem) : elem.subelements[id].id = id
  BY DEF ElementOK
<1>7. SubelementSize[e.id] = IF e.id = 6 THEN 10 ELSE 9
  BY <1>5, SizesAre
<1>8. new.length \in Nat /\ new.length = Room(new, 0) + Room(new, 1) + Room(new, 6)
  <2> DEFINE l == elem.length
             m == new.length
  <2>1. /\ l \in Nat
        /\ l = (IF 0 \in Present(elem) THEN 9 ELSE 0) + (IF 1 \in Present(elem) THEN 9 ELSE 0)
                 + (IF 6 \in Present(elem) THEN 10 ELSE 0)
    BY <1>6, RoomIs
  <2>2. m = IF e.id \in Present(elem) THEN l ELSE l + (IF e.id = 6 THEN 10 ELSE 9)
    BY <1>4, <1>7
  <2>3. /\ 0 \in Present(new) <=> 0 \in Present(elem) \/ e.id = 0
        /\ 1 \in Present(new) <=> 1 \in Present(elem) \/ e.id = 1
        /\ 6 \in Present(new) <=> 6 \in Present(elem) \/ e.id = 6
    BY <1>3
  <2> HIDE DEF l, m
  <2>4. /\ m \in Nat
        /\ m = (IF 0 \in Present(new) THEN 9 ELSE 0) + (IF 1 \in Present(new) THEN 9 ELSE 0)
                 + (IF 6 \in Present(new) THEN 10 ELSE 0)
    BY <1>5, <2>1, <2>2, <2>3
  <2> QED BY <2>4, RoomIs DEF m
<1>9. new.subelements \in [Supported -> Element \union {NULL}]
  BY <1>4, <1>6
<1>10. \A id \in Present(new) : new.subelements[id].id = id
  BY <1>1, <1>3, <1>4, <1>6 DEF Present
<1>11. new \in [length : Nat, subelements : [Supported -> Element \union {NULL}]]
  BY <1>4, <1>8, <1>9
<1> QED BY <1>8, <1>10, <1>11 DEF ElementOK, new

LEMMA SameStep ==
  ASSUME SameOK, [Next]_vars
  PROVE  SameOK'
<1> USE DEF SameOK
<1>1. CASE MakeSubelement
  BY <1>1 DEF MakeSubelement
<1>2. CASE AddSubelement
  <2>1. element \in Element
    BY <1>2 DEF AddSubelement
  <2>2. ElementOK(add_subelement(ie, element))
    BY <2>1, AddKeepsElement
  <2> QED BY <1>2, <2>2 DEF AddSubelement
<1>3. CASE Copy
  <2>1. ie' = ie /\ element' = element
    BY <1>3, ParsedAgain DEF Copy
  <2> QED BY <2>1
<1>4. CASE Exit
  BY <1>4, NothingIsSame DEF Exit
<1>5. CASE Announce \/ ClientCallback \/ Connman \/ UNCHANGED vars
  BY <1>5 DEF Announce, ClientCallback, Connman, program, vars
<1> QED BY <1>1, <1>2, <1>3, <1>4, <1>5 DEF Next

LEMMA SameInit ==
  ASSUME Init
  PROVE  SameOK
BY NothingIsSame DEF Init, SameOK

(***************************************************************************)
(* However an information element was put together, the one that is made   *)
(* from its bytes is the same, and no byte of them is left as the array    *)
(* came from the heap (add_subelement, serialize and the constructor).     *)
(***************************************************************************)
THEOREM CopiesAreTheSame == Spec => []CopyIsTheSame
<1>1. Init => SameOK
  BY SameInit
<1>2. SameOK /\ [Next]_vars => SameOK'
  BY SameStep
<1>3. SameOK => CopyIsTheSame
  BY ParsedAgain, SerializedIsOfElements DEF SameOK, CopyIsTheSame
<1> QED BY <1>1, <1>2, <1>3, PTL DEF Spec

-----------------------------------------------------------------------------
(* Types.                                                                  *)

\* The rest of TypeOK, made inductive: the objects new_subelement forgets are
\* never deleted.
KindsOK ==
  /\ phase \in {"running", "exited"}
  /\ heap["AssociatedBSSID"] \in Nat
  /\ proxy_ \in {"none", "creating", "NULL", "ready"}
  /\ failed \in BOOLEAN

LEMMA ForgottenStay ==
  ASSUME NEW objects, NEW ids \in SUBSET Supported, objects["AssociatedBSSID"] \in Nat
  PROVE  /\ Allocated(objects, ids)["AssociatedBSSID"] \in Nat
         /\ Deleted(objects, ids)["AssociatedBSSID"] = objects["AssociatedBSSID"]
<1> DEFINE s == "AssociatedBSSID"
           made_(id) == \E i \in 1 .. Len(Allocates(id)) : Allocates(id)[i] = s
           n == Cardinality({id \in ids : made_(id)})
<1>1. s \in Struct
  BY DEF Struct, StructSize
<1>2. n \in Nat
  BY SupportedIsFinite, FS_Subset, FS_CardinalityType
<1>3. Allocated(objects, ids)[s] = objects[s] + n
  BY <1>1 DEF Allocated
<1>4. \A id \in ids : Object(id) # s
  <2>1. Object(0) # s /\ Object(1) # s /\ Object(6) # s
    BY DEF Object, Allocates, DEVICE_INFORMATION, ASSOCIATED_BSSID, COUPLED_SINK_INFORMATION
  <2> QED BY <2>1 DEF Supported, DEVICE_INFORMATION, ASSOCIATED_BSSID, COUPLED_SINK_INFORMATION
<1>5. {id \in ids : Object(id) = s} = {}
  BY <1>4
<1>6. Deleted(objects, ids)[s] = objects[s] - 0
  BY <1>1, <1>5, FS_EmptySet DEF Deleted
<1> HIDE DEF n
<1> QED BY <1>2, <1>3, <1>6

LEMMA KindsStep ==
  ASSUME KindsOK, SameOK, [Next]_vars
  PROVE  KindsOK'
<1> DEFINE s == "AssociatedBSSID"
<1>1. \A elem : Present(elem) \in SUBSET Supported
  BY DEF Present
<1>2. heap[s] \in Nat
  BY DEF KindsOK
<1>3. CASE MakeSubelement
  <2>1. PICK e \in Element : heap' = Allocated(heap, {e.id})
    BY <1>3 DEF MakeSubelement
  <2>2. {e.id} \in SUBSET Supported
    BY ElementIsNotNull
  <2>3. heap'[s] \in Nat
    BY <1>2, <2>1, <2>2, ForgottenStay
  <2> QED BY <1>3, <2>3 DEF KindsOK, MakeSubelement, client
<1>4. CASE AddSubelement
  <2>1. heap'[s] \in Nat
    BY <1>1, <1>2, <1>4, ForgottenStay DEF AddSubelement
  <2> QED BY <1>4, <2>1 DEF KindsOK, AddSubelement, client
<1>5. CASE Copy
  <2>1. Allocated(heap, Present(Parse(serialize(ie))))[s] \in Nat
    BY <1>1, <1>2, ForgottenStay
  <2>2. heap'[s] \in Nat
    BY <1>1, <1>5, <2>1, ForgottenStay DEF Copy
  <2> QED BY <1>5, <2>2 DEF KindsOK, Copy, client
<1>6. CASE Exit
  <2>1. heap'[s] \in Nat
    BY <1>1, <1>2, <1>6, ForgottenStay DEF Exit
  <2> QED BY <1>6, <2>1 DEF KindsOK, Exit, client
<1>7. CASE Announce
  BY <1>7 DEF KindsOK, Announce, NewClient, SetInformationElement
<1>8. CASE ClientCallback
  BY <1>8 DEF KindsOK, ClientCallback, ProxyCallback, ProxyError, program
<1>9. CASE Connman
  BY <1>9 DEF KindsOK, Connman, ConnmanAccepts, ConnmanRefuses, program
<1>10. CASE UNCHANGED vars
  BY <1>10 DEF KindsOK, vars, client, program
<1> QED BY <1>3, <1>4, <1>5, <1>6, <1>7, <1>8, <1>9, <1>10 DEF Next

\* As many objects as are held are a number.
LEMMA HeapIsOfNumbers ==
  ASSUME OwnedOK, KindsOK
  PROVE  heap \in [Struct -> Nat]
<1>1. heap = [s \in Struct |-> heap[s]]
  BY DEF OwnedOK
<1>2. ASSUME NEW s \in Struct \ {"AssociatedBSSID"}
      PROVE  heap[s] \in Nat
  <2> DEFINE held == IF element = NULL THEN 0 ELSE Count({element.id}, s)
             in == Count(Present(ie), s)
  <2>1. heap[s] = held + in
    BY DEF OwnedOK
  <2>2. in \in Nat
    BY CountType DEF Present
  <2>3. held \in Nat
    <3>1. element # NULL => {element.id} \in SUBSET Supported
      BY ElementIsNotNull DEF OwnedOK
    <3> QED BY <3>1, CountType
  <2> HIDE DEF held, in
  <2> QED BY <2>1, <2>2, <2>3
<1>3. \A s \in Struct : heap[s] \in Nat
  BY <1>2 DEF KindsOK
<1> QED BY <1>1, <1>3

(***************************************************************************)
(* The variables have their types; no kind of sub-element is ever deleted  *)
(* more often than it was made (new_subelement and delete_subelement).     *)
(***************************************************************************)
THEOREM PeerTypes == Spec => []TypeOK
<1>1. Init => OwnedOK /\ KindsOK /\ SameOK
  <2> SUFFICES ASSUME Init PROVE OwnedOK /\ KindsOK /\ SameOK
    OBVIOUS
  <2>1. "AssociatedBSSID" \in Struct
    BY DEF Struct, StructSize
  <2>2. KindsOK
    BY <2>1 DEF Init, InitClient, KindsOK
  <2> QED BY <2>2, OwnedInit, SameInit
<1>2. OwnedOK /\ KindsOK /\ SameOK /\ [Next]_vars => (OwnedOK /\ KindsOK /\ SameOK)'
  BY OwnedStep, KindsStep, SameStep
<1>3. OwnedOK /\ KindsOK /\ SameOK => TypeOK
  BY HeapIsOfNumbers DEF TypeOK, KindsOK, SameOK, ElementOK
<1> QED BY <1>1, <1>2, <1>3, PTL DEF Spec
=============================================================================
