------------------------------ MODULE Mavlink1 ------------------------------
(***************************************************************************)
(* The Mavlink v1 recognizer, Mavlink_v1::write (src/src/filters/          *)
(* mavlink1.h).  A packet is STX, the payload length, ..., two checksum    *)
(* bytes: MavlinkOverhead bytes (8 in the code) more than the payload.     *)
(***************************************************************************)
EXTENDS Recognizer

CONSTANTS
  STX,               \* the start byte, 0xFE
  MavlinkOverhead,   \* packet length minus payload length, 8
  MavlinkCapacity    \* size of the array, 263

ASSUME Mavlink1Assumption ==
  /\ Byte \subseteq Nat /\ STX \in Byte
  /\ MavlinkOverhead \in Nat /\ MavlinkOverhead > 2
  /\ MavlinkCapacity \in Nat /\ \A b \in Byte : MavlinkOverhead + b <= MavlinkCapacity

MavlinkSize == MavlinkOverhead + packet[1]

MavlinkNoStart == NoStart(STX)

\* Mutant: len is decremented once too often.
MutMavlinkStartOffByOne ==
  Running("BEFORE") /\ \E l \in 0..(Top.len - 1) : Found(STX, l, 2, "LEN", packet_len)

MavlinkStart == Start(STX, "LEN", packet_len)

MavlinkLength ==
  /\ Running("LEN")
  /\ packet' = [packet EXCEPT ![1] = Unread[1]]
  /\ packet_len' = 2
  /\ state' = "LOAD"
  /\ frames' = Consume(1)
  /\ UNCHANGED <<input, fed, out, packets>>

MavlinkMore == LoadMore(MavlinkSize)
MavlinkGood == LoadGood(MavlinkSize)

\* Mutants: the whole packet goes to rest; the nested call gets packet_len bytes;
\* the packet is written again from its first byte.
MutMavlinkBadWhole == LoadBad(MavlinkSize, MavlinkSize, 1, 0)
MutMavlinkBadLength == LoadBad(MavlinkSize, 1, 1, MavlinkSize)
MutMavlinkBadFromStart == LoadBad(MavlinkSize, 0, 0, MavlinkSize)

\* The first byte goes to rest, the others are written again.
MavlinkBad == LoadBad(MavlinkSize, 1, 1, MavlinkSize - 1)

MavlinkStep ==
  \/ MavlinkNoStart \/ MavlinkStart \/ MavlinkLength
  \/ MavlinkMore \/ MavlinkGood \/ MavlinkBad
=============================================================================
