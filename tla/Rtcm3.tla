------------------------------- MODULE Rtcm3 -------------------------------
(***************************************************************************)
(* The RTCM v3 recognizer, RTCM_v3::write (src/src/filters/rtcm3.h).  A    *)
(* packet is a preamble byte, two bytes with the payload length (10 bits), *)
(* the payload and a checksum.                                             *)
(***************************************************************************)
EXTENDS Recognizer

CONSTANTS
  PREAMBLE,             \* 0xD3
  RtcmHeaderLen,        \* bytes of the header, 3
  RtcmTrailer,          \* bytes of the checksum, 3
  RtcmCapacity,         \* size of the array, 1029
  RtcmPayloadLen        \* the payload length, from the bytes of the header

ASSUME Rtcm3Assumption ==
  /\ PREAMBLE \in Byte
  /\ RtcmHeaderLen \in Nat /\ RtcmHeaderLen > 1
  /\ RtcmTrailer \in Nat \ {0}
  /\ RtcmCapacity \in Nat
  /\ RtcmPayloadLen \in [[0..(RtcmHeaderLen - 1) -> Byte]
                           -> 0..(RtcmCapacity - RtcmHeaderLen - RtcmTrailer)]

RtcmSize == RtcmHeaderLen + RtcmPayloadLen[Header(RtcmHeaderLen)] + RtcmTrailer

RtcmNoStart == NoStart(PREAMBLE)
RtcmStart == Start(PREAMBLE, "HEADER", 1)
RtcmHeader == Running("HEADER") /\ Copy(RtcmHeaderLen, "LOAD")
RtcmMore == LoadMore(RtcmSize)
RtcmGood == LoadGood(RtcmSize)

\* The first byte goes to rest, the others are written again.
RtcmBad == LoadBad(RtcmSize, 1, 1, RtcmSize - 1)

RtcmStep ==
  \/ RtcmNoStart \/ RtcmStart \/ RtcmHeader \/ RtcmMore \/ RtcmGood \/ RtcmBad
=============================================================================
