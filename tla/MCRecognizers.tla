---- MODULE MCRecognizers ----
(* The three binary recognizers, one at a time, on short streams of a three-valued
   byte.  Packets of 3 to 6 bytes with a one-byte checksum; every start byte is also
   a length, a payload and a checksum.                                              *)
EXTENDS Recognizers

MCByte == 0..2
MCUbxPayloadLen == [header \in [0..2 -> MCByte] |-> header[2]]
MCRtcmPayloadLen == [header \in [0..1 -> MCByte] |-> header[1] % 2]

\* The preambles differ, so that one set of good packets will do for all three.  The
\* last byte is the sum of the bytes from position m on.
SumFrom(s, m) == FoldSeq(LAMBDA b, sum : b + sum, 0, SubSeq(s, m, Len(s) - 1)) % 3
MCGood ==
  {s \in UNION {[1..n -> MCByte] : n \in 3..6} :
     \/ s[1] = 2 /\ Len(s) = 3 + s[2] /\ s[Len(s)] = SumFrom(s, 2)
     \/ s[1] = 1 /\ s[2] = 2 /\ Len(s) = 4 + s[3] /\ s[Len(s)] = SumFrom(s, 3)
     \/ s[1] = 0 /\ Len(s) = 3 + (s[2] % 2) /\ s[Len(s)] = SumFrom(s, 1)}
====
