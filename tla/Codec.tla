-------------------------------- MODULE Codec --------------------------------
(***************************************************************************)
(* A value on its way through the encoding: written by Encode, then cut,   *)
(* grown or altered as it may be when the peer is of another build, then   *)
(* read by Decode.                                                         *)
(***************************************************************************)
EXTENDS Values, Transit

CONSTANT Samples   \* the values that are written

ASSUME CodecAssumption == Samples \subseteq Value[Nesting]

VARIABLE value   \* the value that is written

vars == <<value, wire, state, got>>

Init ==
  /\ value \in Samples
  /\ wire = <<>>
  /\ state = "new"
  /\ got = Failed

Write ==
  /\ state = "new"
  /\ IF Encode(value).ok
       THEN wire' = Encode(value).value /\ state' = "written"
       ELSE UNCHANGED wire /\ state' = "refused"
  /\ UNCHANGED <<value, got>>

-----------------------------------------------------------------------------
(***************************************************************************)
(* What a peer of another build may send (external).                       *)
(***************************************************************************)
Cut == CutShort /\ UNCHANGED value

Grow ==
  /\ state = "written"
  /\ \E c \in Cells : wire' = Append(wire, c)
  /\ state' = "grown"
  /\ UNCHANGED <<value, got>>

Alter == CellAltered /\ UNCHANGED value

-----------------------------------------------------------------------------
Read ==
  /\ state \in {"written", "cut", "grown", "altered"}
  /\ got' = Decode(wire)
  /\ state' = "read"
  /\ UNCHANGED <<value, wire>>

Next == Write \/ Cut \/ Grow \/ Alter \/ Read

Spec == Init /\ [][Next]_vars

-----------------------------------------------------------------------------
(***************************************************************************)
(* What is written is what is read, for every type, nested in any other:   *)
(* each of the three numbers by its own convention, an object whatever the *)
(* order of its names.  And whatever Decode accepts, of whoever wrote it,  *)
(* Encode can write, and it is read as the same value again.               *)
(***************************************************************************)
ReadsBack ==
  state = "read" =>
    /\ Encode(value).ok /\ wire = Encode(value).value => got = Got(value, <<>>)
    /\ got.ok => LET again == Encode(got.value)
                 IN  again.ok /\ Decode(again.value) = Got(got.value, <<>>)

(***************************************************************************)
(* A value says nothing of its length: a wire cut short is refused wherever *)
(* it is cut, and one with bytes to spare too, and neither is ever read as *)
(* another value.                                                          *)
(***************************************************************************)
NoPrefixIsAValue ==
  state = "read" /\ Encode(value).ok /\ Len(wire) # Len(Encode(value).value) => ~got.ok

(***************************************************************************)
(* The byte order of integers, and of record ids, is the order of what     *)
(* they encode: what the inverted top bit and the escaped zeros are for.   *)
(***************************************************************************)
SameOrder(v, o) ==
  \/ v[1] = "Integer" /\ o[1] = "Integer" /\ v[2] < o[2]
  \/ /\ v[1] = "Record" /\ o[1] = "Record"
     /\ v[2] = o[2] /\ v[3][1] = o[3][1]
     /\ IF v[3][1] \in {"TextID", "BytesID"} THEN Before(v[3][2], o[3][2])
                                             ELSE v[3][2] < o[3][2]

OrderKept ==
  state = "written" =>
    \A o \in Samples : SameOrder(value, o) => Before(wire, Encode(o).value)
=============================================================================
