-------------------------- MODULE InformationElement --------------------------
(***************************************************************************)
(* The Wi-Fi Display information element (src/p2p): its sub-elements, the  *)
(* bytes it is serialized to and parsed from, and the heap objects it      *)
(* owns.                                                                   *)
(*                                                                         *)
(* A byte of a sub-element is a record: whose it is and where in it.  The  *)
(* fields behind id and length are one value, which tells elements apart.  *)
(***************************************************************************)
EXTENDS Naturals, Sequences, FiniteSetsExt, SequencesExt

CONSTANT Value  \* what the fields of a sub-element hold

ASSUME ValueAssumption == "NULL" \notin Value

\* The sub-elements new_subelement can make, in the order of enum SubelementId;
\* the others end in an assertion.
DEVICE_INFORMATION == 0
ASSOCIATED_BSSID == 1
COUPLED_SINK_INFORMATION == 6
Supported == {DEVICE_INFORMATION, ASSOCIATED_BSSID, COUPLED_SINK_INFORMATION}

SubelementSize == [id \in 0 .. 10 |->
  <<9, 9, 18, 24, 20, 4, 10, 5, 11, 3, 9>>[id + 1]]

\* The packed structures: three bytes of head, and the fields.
StructSize == [DeviceInformation |-> 3 + 1 + 1 + 2 + 2,
               AssociatedBSSID |-> 3 + 6,
               CoupledSinkInformation |-> 3 + 1 + 6]

\* new_subelement: the case of ASSOCIATED_BSSID falls through to the next, and
\* its first object is forgotten.
Allocates(id) ==
  CASE id = DEVICE_INFORMATION -> <<"DeviceInformation">>
    [] id = ASSOCIATED_BSSID -> <<"AssociatedBSSID", "CoupledSinkInformation">>
    [] id = COUPLED_SINK_INFORMATION -> <<"CoupledSinkInformation">>

Element == [id : Supported, value : Value]

\* subelements_ maps an id to its element, or to no pointer at all.
NULL == [id |-> 0, value |-> "NULL"]

NoElements == [length |-> 0, subelements |-> [id \in Supported |-> NULL]]

Present(ie) == {id \in Supported : ie.subelements[id] # NULL}

-----------------------------------------------------------------------------
\* Mutant: length_ grows with every call.
AddAlways(ie, e) ==
  [length |-> ie.length + SubelementSize[e.id],
   subelements |-> [ie.subelements EXCEPT ![e.id] = e]]

\* add_subelement: an element of the same id is replaced, and deleted.
add_subelement(ie, e) ==
  [length |-> IF e.id \in Present(ie) THEN ie.length
              ELSE ie.length + SubelementSize[e.id],
   subelements |-> [ie.subelements EXCEPT ![e.id] = e]]

Bytes(e) == [i \in 1 .. SubelementSize[e.id] |-> [of |-> e, at |-> i]]

UNWRITTEN == [of |-> NULL, at |-> 0]

\* serialize: the elements in the order of their ids, in an array of length_
\* bytes whose other bytes nobody writes.
Part(ie, id) == IF id \in Present(ie) THEN Bytes(ie.subelements[id]) ELSE << >>

serialize(ie) ==
  LET elements == Part(ie, DEVICE_INFORMATION) \o Part(ie, ASSOCIATED_BSSID)
                    \o Part(ie, COUPLED_SINK_INFORMATION)
  IN  [i \in 1 .. ie.length |-> IF i <= Len(elements) THEN elements[i] ELSE UNWRITTEN]

\* Where the constructor finds elements, from pos (counted from 0) on: as long
\* as two bytes are left, the first of them is an id.
Starts(array) ==
  LET starts[pos \in Nat] ==
        IF Len(array) >= pos + 2
        THEN {pos} \union starts[pos + SubelementSize[array[pos + 1].of.id]]
        ELSE {}
  IN  starts[0]

\* InformationElement(array): a later element of the same id replaces the
\* pointer to an earlier one.
Parse(array) ==
  LET at(id) == {pos \in Starts(array) : array[pos + 1].of.id = id}
  IN  [length |-> Len(array),
       subelements |-> [id \in Supported |->
         IF at(id) = {} THEN NULL ELSE array[Max(at(id)) + 1].of]]
=============================================================================
