-------------------------------- MODULE Ubx --------------------------------
(***************************************************************************)
(* The UBX recognizer, UBX::write (src/src/filters/ubx.h).  A packet is    *)
(* two preamble bytes, the rest of a header with the payload length, the   *)
(* payload and a checksum.                                                 *)
(***************************************************************************)
EXTENDS Recognizer

CONSTANTS
  PREAMBLE0, PREAMBLE1,   \* 0xB5, 0x62
  UbxHeaderLen,           \* bytes of the header, 6
  UbxTrailer,             \* bytes of the checksum, 2
  UbxCapacity,            \* size of the array, 65543
  UbxPayloadLen           \* the payload length, from the bytes of the header

ASSUME UbxAssumption ==
  /\ {PREAMBLE0, PREAMBLE1} \subseteq Byte /\ PREAMBLE0 # PREAMBLE1
  /\ UbxHeaderLen \in Nat /\ UbxHeaderLen > 2
  /\ UbxTrailer \in Nat \ {0}
  /\ UbxCapacity \in Nat
  /\ UbxPayloadLen \in [[0..(UbxHeaderLen - 1) -> Byte]
                          -> 0..(UbxCapacity - UbxHeaderLen - UbxTrailer)]

UbxSize == UbxHeaderLen + UbxPayloadLen[Header(UbxHeaderLen)] + UbxTrailer

UbxNoStart == NoStart(PREAMBLE0)
UbxStart == Start(PREAMBLE0, "PREAMBLE", packet_len)

UbxPreamble ==
  /\ Running("PREAMBLE") /\ Unread[1] = PREAMBLE1
  /\ packet' = [packet EXCEPT ![1] = PREAMBLE1]
  /\ packet_len' = 2
  /\ state' = "HEADER"
  /\ frames' = Consume(1)
  /\ UNCHANGED <<input, fed, out, packets>>

\* Mutant: the byte that is not PREAMBLE1 is consumed.
MutUbxNoPreambleConsumes ==
  /\ Running("PREAMBLE") /\ Unread[1] # PREAMBLE1
  /\ state' = "BEFORE"
  /\ out' = Append(out, packet[0])
  /\ frames' = Consume(1)
  /\ UNCHANGED <<packet, packet_len, input, fed, packets>>

\* PREAMBLE0 alone goes to rest; the byte after it may be another PREAMBLE0.
UbxNoPreamble ==
  /\ Running("PREAMBLE") /\ Unread[1] # PREAMBLE1
  /\ state' = "BEFORE"
  /\ out' = Append(out, packet[0])
  /\ UNCHANGED <<packet, packet_len, input, frames, fed, packets>>

UbxHeader == Running("HEADER") /\ Copy(UbxHeaderLen, "LOAD")
UbxMore == LoadMore(UbxSize)
UbxGood == LoadGood(UbxSize)

\* Mutant: one byte goes to rest, but the nested call starts behind two.
MutUbxBadGap == LoadBad(UbxSize, 1, 2, UbxSize - 2)

\* The two preamble bytes go to rest, the others are written again.
UbxBad == LoadBad(UbxSize, 2, 2, UbxSize - 2)

UbxStep ==
  \/ UbxNoStart \/ UbxStart \/ UbxPreamble \/ UbxNoPreamble
  \/ UbxHeader \/ UbxMore \/ UbxGood \/ UbxBad
=============================================================================
