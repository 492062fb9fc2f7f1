---------------------------- MODULE Recognizers ----------------------------
(***************************************************************************)
(* The three binary recognizers of src/src/filters, one of which a         *)
(* behaviour runs, as implementations of the splitter of module Splitter.  *)
(***************************************************************************)
EXTENDS Mavlink1, Ubx, Rtcm3

VARIABLE which    \* the recognizer that runs

Protocols == {"mavlink1", "ubx", "rtcm3"}
Capacity(p) ==
  CASE p = "mavlink1" -> MavlinkCapacity [] p = "ubx" -> UbxCapacity [] p = "rtcm3" -> RtcmCapacity

Init == which \in Protocols /\ InitWith(Capacity(which))

Step ==
  /\ UNCHANGED which
  /\ \/ which = "mavlink1" /\ MavlinkStep
     \/ which = "ubx" /\ UbxStep
     \/ which = "rtcm3" /\ RtcmStep

Next == Step \/ (Feed /\ UNCHANGED which)

Spec == Init /\ [][Next]_<<vars, which>> /\ WF_<<vars, which>>(Step)

\* The abstract specification sees the kept bytes and the unread bytes.
Abs == INSTANCE Splitter WITH pend <- Pend, todo <- Todo

\* Every recognizer implements the lossless splitter of module Splitter.
ImplementsSplitter == Abs!SSpec

-----------------------------------------------------------------------------
(* What the packets of a stream are, said of the whole stream. *)

Preamble(p) ==
  CASE p = "mavlink1" -> <<STX>>
    [] p = "ubx" -> <<PREAMBLE0, PREAMBLE1>>
    [] p = "rtcm3" -> <<PREAMBLE>>
HeaderLen(p) ==
  CASE p = "mavlink1" -> 2 [] p = "ubx" -> UbxHeaderLen [] p = "rtcm3" -> RtcmHeaderLen

\* The length of the packet that s begins with, if s has all of its header.
PacketLen(p, s) ==
  LET head == [i \in 0..(HeaderLen(p) - 1) |-> s[i + 1]]
  IN CASE p = "mavlink1" -> MavlinkOverhead + head[1]
       [] p = "ubx" -> UbxHeaderLen + UbxPayloadLen[head] + UbxTrailer
       [] p = "rtcm3" -> RtcmHeaderLen + RtcmPayloadLen[head] + RtcmTrailer

Starts(p, s) == \A i \in DOMAIN Preamble(p) : i <= Len(s) => s[i] = Preamble(p)[i]
Incomplete(p, s) == Len(s) < HeaderLen(p) \/ Len(s) < PacketLen(p, s)

\* The packets a stream contains: at each position either a good packet starts, and the
\* search goes on behind it, or what starts no good packet is skipped; an incomplete
\* packet ends the search.
Parse(p) ==
  LET Of[s \in Seq(Byte)] ==
        IF s = <<>> \/ (Starts(p, s) /\ Incomplete(p, s)) THEN <<>>
        ELSE LET n == PacketLen(p, s)
                 x == SubSeq(s, 1, n)
             IN IF Starts(p, s) /\ x \in Good
                  THEN <<x>> \o Of[SubSeq(s, n + 1, Len(s))]
                  ELSE Of[Tail(s)]
  IN Of

\* The packets found depend on the bytes of the stream only: not on how it was
\* cut into writes, nor on how rejected bytes were re-scanned.
FindsThePackets == frames = <<>> => packets = Parse(which)[fed]

\* Every iteration of the loop of write, in whichever call, passes a byte on or keeps one
\* more, however often rejected bytes are looked at again: no stream makes write loop.
GetsOn ==
  [][Step => /\ fed' = fed
             /\ \/ Len(out') > Len(out)
                \/ out' = out /\ Kept' > Kept]_<<vars, which>>
=============================================================================
