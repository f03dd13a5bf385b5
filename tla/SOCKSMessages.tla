----------------------------- MODULE SOCKSMessages -----------------------------
(***************************************************************************)
(* The SOCKS messages as bytes, and the readers that find a message at the *)
(* front of a buffer.  A reader says that it needs more bytes, that the    *)
(* bytes are no such message, or the value it read and how many bytes that *)
(* took; a reader that needs more or fails has consumed nothing            *)
(* (parseUnwindingIfNeeded).                                               *)
(***************************************************************************)
EXTENDS Naturals, Sequences

Byte == 0..255

NoneRequired == 0
Succeeded == 0

-----------------------------------------------------------------------------
(* Writing.                                                                *)

WriteClientGreeting(methods) == <<5, Len(methods)>> \o methods

WriteMethodSelection(method) == <<5, method>>

\* The type byte, the address and two bytes of port; a domain has a byte for its length.
IsAddress(a) ==
  /\ a \in Seq(Byte)
  /\ \/ Len(a) = 1 + 4 + 2 /\ a[1] = 1
     \/ Len(a) = 1 + 16 + 2 /\ a[1] = 4
     \/ Len(a) > 3 /\ a[1] = 3 /\ Len(a) = 1 + 1 + a[2] + 2

WriteClientRequest(address) == <<5, 1, 0>> \o address

WriteServerResponse(reply, address) == <<5, reply, 0>> \o address

-----------------------------------------------------------------------------
(* Reading.                                                                *)

NeedMore == [result |-> "more"]
Invalid == [result |-> "invalid"]
Found(value, length) == [result |-> "found", value |-> value, length |-> length]

\* A value of n bytes at the front of b, once there are as many.
FoundIf(b, value, n) == IF Len(b) >= n THEN Found(value, n) ELSE NeedMore

ReadClientGreeting(b) ==
  CASE Len(b) >= 1 /\ b[1] # 5 -> Invalid
    [] Len(b) < 2 -> NeedMore
    [] OTHER -> FoundIf(b, SubSeq(b, 3, 2 + b[2]), 2 + b[2])

ReadMethodSelection(b) ==
  CASE Len(b) >= 1 /\ b[1] # 5 -> Invalid
    [] Len(b) < 2 -> NeedMore
    [] OTHER -> Found(b[2], 2)

\* The length of the address at the front of b: 0 if that is not known yet.
AddressLength(b) ==
  CASE Len(b) >= 1 /\ b[1] = 1 -> 1 + 4 + 2
    [] Len(b) >= 1 /\ b[1] = 4 -> 1 + 16 + 2
    [] Len(b) >= 2 /\ b[1] = 3 -> 1 + 1 + b[2] + 2
    [] OTHER -> 0

ReadAddressType(b) ==
  CASE Len(b) >= 1 /\ b[1] \notin {1, 3, 4} -> Invalid
    [] AddressLength(b) = 0 -> NeedMore
    [] OTHER -> FoundIf(b, SubSeq(b, 1, AddressLength(b)), AddressLength(b))

\* A request and a response: the version, a command or a reply, a reserved byte and an
\* address.
ReadHeaded(b) ==
  LET address == ReadAddressType(SubSeq(b, 4, Len(b))) IN
  CASE Len(b) >= 1 /\ b[1] # 5 -> Invalid
    [] Len(b) >= 3 /\ b[3] # 0 -> Invalid
    [] Len(b) < 3 -> NeedMore
    [] address.result = "found" ->
         Found([code |-> b[2], address |-> address.value], 3 + address.length)
    [] OTHER -> address

ReadClientRequest(b) == ReadHeaded(b)

ReadServerResponse(b) == ReadHeaded(b)
=============================================================================
