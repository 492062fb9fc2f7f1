------------------------- MODULE Recognizers_proofs -------------------------
(***************************************************************************)
(* The abstract splitter loses, doubles and reorders nothing, whatever the *)
(* bytes, the packets and the length of the stream; and the recognizers    *)
(* for Mavlink v1, UBX and RTCM3 implement it, whatever the sizes of their *)
(* packets, although they read again from the array they write to.  What   *)
(* they pass to next are the packets of the stream, as Parse defines them. *)
(* The recognizer for NMEA doubles line feeds and nothing else, and passes *)
(* on the sentences of the stream.                                         *)
(***************************************************************************)
EXTENDS Recognizers, Nmea, SequenceTheorems, WellFoundedInduction, TLAPS

VARIABLES pend, todo    \* of a splitter as such
INSTANCE Splitter

-----------------------------------------------------------------------------
(* The splitter. *)

\* Cutting a sequence at n and joining the two parts gives it back.
LEMMA CutJoin ==
  ASSUME NEW S, NEW s \in Seq(S), NEW n \in 0..Len(s)
  PROVE  /\ First(s, n) \in Seq(S) /\ Rest(s, n) \in Seq(S)
         /\ Len(First(s, n)) = n /\ Len(Rest(s, n)) = Len(s) - n
         /\ First(s, n) \o Rest(s, n) = s
<1>1. First(s, n) \in Seq(S) /\ Len(First(s, n)) = n
  BY DEF First
<1>2. Rest(s, n) \in Seq(S) /\ Len(Rest(s, n)) = Len(s) - n
  BY DEF Rest
<1>3. First(s, n) \o Rest(s, n) = s
  <2>1. SubSeq(s, 1, n) \o SubSeq(s, n + 1, Len(s)) = SubSeq(s, 1, Len(s))
    <3>1. 1 \in 1..(Len(s) + 1) /\ n \in (1 - 1)..Len(s) /\ Len(s) \in n..Len(s)
      OBVIOUS
    <3> QED BY <3>1, ConcatAdjacentSubSeq
  <2> QED BY <2>1, SubSeqFull DEF First, Rest
<1> QED BY <1>1, <1>2, <1>3

\* What the proofs use of concatenation, for byte sequences as such: with Bytes
\* unexpanded these are first-order facts.
LEMMA Concat ==
  /\ \A a, b \in Bytes : a \o b \in Bytes
  /\ \A a, b, c \in Bytes : (a \o b) \o c = a \o (b \o c)
  /\ \A a \in Bytes : a \o <<>> = a /\ <<>> \o a = a
<1>1. ASSUME NEW a \in Seq(Byte), NEW b \in Seq(Byte)
      PROVE  a \o b \in Seq(Byte)
  BY ConcatProperties
<1>2. ASSUME NEW a \in Seq(Byte), NEW b \in Seq(Byte), NEW c \in Seq(Byte)
      PROVE  (a \o b) \o c = a \o (b \o c)
  BY ConcatAssociative
<1>3. ASSUME NEW a \in Seq(Byte)
      PROVE  a \o <<>> = a /\ <<>> \o a = a
  BY ConcatEmptySeq
<1> QED BY <1>1, <1>2, <1>3 DEF Bytes

LEMMA ByteJoins == \A a, b \in Bytes : a \o b \in Bytes
BY Concat, Zenon

LEMMA EmptyJoins == \A a \in Bytes : a \o <<>> = a /\ <<>> \o a = a
BY Concat, Zenon

\* How three parts are grouped makes no difference.
Assoc(a, b, c) == (a \o b) \o c = a \o (b \o c)
LEMMA Regroups == \A a, b, c \in Bytes : Assoc(a, b, c)
BY Concat, Zenon DEF Assoc

\* CutJoin, for byte sequences.
LEMMA Cut ==
  ASSUME NEW s \in Bytes, NEW n \in 0..Len(s)
  PROVE  /\ First(s, n) \in Bytes /\ Rest(s, n) \in Bytes
         /\ Len(First(s, n)) = n /\ Len(Rest(s, n)) = Len(s) - n
         /\ First(s, n) \o Rest(s, n) = s
BY CutJoin DEF Bytes

-----------------------------------------------------------------------------
\* Nothing is anywhere at first.
LEMMA InitS == SInit => STypeOK /\ Lossless /\ OnlyGood
BY DEF SInit, STypeOK, Bytes, Lossless, OnlyGood

\* A written buffer joins what was written before.
LEMMA FeedStep ==
  ASSUME STypeOK, Lossless, SFeed
  PROVE  STypeOK' /\ Lossless'
<1>1. /\ todo' \in Bytes /\ todo = <<>> /\ fed' = fed \o todo'
      /\ out' = out /\ pend' = pend /\ packets' = packets
  BY DEF SFeed
<1>2. out \in Bytes /\ pend \in Bytes /\ fed \in Bytes /\ packets \in Seq(Bytes)
  BY DEF STypeOK
<1>3. STypeOK'
  <2>1. fed' \in Bytes
    BY <1>1, <1>2, ByteJoins, Zenon
  <2> QED BY <1>1, <1>2, <2>1 DEF STypeOK
<1>4. out \o pend = fed
  BY <1>1, <1>2, EmptyJoins, Zenon DEF Lossless
<1>5. out \o (pend \o todo') = (out \o pend) \o todo'
  <2>1. Assoc(out, pend, todo')
    BY <1>1, <1>2, Regroups, Zenon
  <2> QED BY <2>1 DEF Assoc
<1>6. out' \o (pend' \o todo') = fed'
  BY <1>1, <1>4, <1>5, Zenon
<1> QED BY <1>3, <1>6, Zenon DEF Lossless

\* Bytes that start no packet leave only when none is kept before them.
LEMMA AdvanceStep ==
  ASSUME STypeOK, Lossless, NEW n \in 0..Len(todo), NEW m \in 0..(Len(todo) - n),
         SAdvance(n, m)
  PROVE  STypeOK' /\ Lossless'
<1> DEFINE a == First(todo, n)
           r == Rest(todo, n)
           b == First(r, m)
           c == Rest(r, m)
<1>1. out \in Bytes /\ pend \in Bytes /\ todo \in Bytes /\ fed \in Bytes
      /\ packets \in Seq(Bytes)
  BY DEF STypeOK
<1>2. a \in Bytes /\ r \in Bytes /\ a \o r = todo /\ Len(r) = Len(todo) - n /\ Len(a) = n
  BY <1>1, Cut
<1>3. b \in Bytes /\ c \in Bytes /\ b \o c = r
  <2>1. m \in 0..Len(r)
    BY <1>2
  <2> QED BY <1>2, <2>1, Cut
<1>4. /\ out' = out \o a /\ pend' = pend \o b /\ todo' = c
      /\ fed' = fed /\ packets' = packets
      /\ n = 0 \/ pend = <<>>
  BY DEF SAdvance
<1>5. n = 0 => a = <<>>
  BY DEF First
<1> HIDE DEF a, r, b, c
<1>6. STypeOK'
  <2>1. out' \in Bytes /\ pend' \in Bytes /\ todo' \in Bytes
    BY <1>1, <1>2, <1>3, <1>4, ByteJoins, Zenon
  <2> QED BY <1>1, <1>4, <2>1 DEF STypeOK
<1>7. pend' \o todo' = pend \o r
  <2>1. (pend \o b) \o c = pend \o (b \o c)
    <3>1. Assoc(pend, b, c)
      BY <1>1, <1>3, Regroups, Zenon
    <3> QED BY <3>1 DEF Assoc
  <2> QED BY <1>3, <1>4, <2>1, Zenon
<1>8. out' \o (pend \o r) = out \o (pend \o todo)
  <2>1. CASE n = 0
    BY <1>1, <1>2, <1>4, <1>5, <2>1, EmptyJoins, Zenon
  <2>2. CASE pend = <<>>
    <3>1. (out \o a) \o r = out \o (a \o r)
      <4>1. Assoc(out, a, r)
        BY <1>1, <1>2, Regroups, Zenon
      <4> QED BY <4>1 DEF Assoc
    <3>2. pend \o r = r /\ pend \o todo = todo
      BY <1>1, <1>2, <2>2, EmptyJoins, Zenon
    <3> QED BY <1>2, <1>4, <3>1, <3>2, Zenon
  <2> QED BY <1>4, <2>1, <2>2, Zenon
<1>9. out' \o (pend' \o todo') = fed'
  BY <1>4, <1>7, <1>8, Zenon DEF Lossless
<1> QED BY <1>6, <1>9, Zenon DEF Lossless

\* A packet leaves whole, in front of what follows it.
LEMMA DeliverStep ==
  ASSUME STypeOK, Lossless, OnlyGood, NEW m \in 0..Len(todo), SDeliver(m)
  PROVE  STypeOK' /\ Lossless' /\ OnlyGood'
<1> DEFINE a == First(todo, m)
           r == Rest(todo, m)
           p == pend \o a
<1>1. out \in Bytes /\ pend \in Bytes /\ todo \in Bytes /\ fed \in Bytes
      /\ packets \in Seq(Bytes)
  BY DEF STypeOK
<1>2. a \in Bytes /\ r \in Bytes /\ a \o r = todo
  BY <1>1, Cut
<1>3. /\ p \in Good /\ packets' = Append(packets, p) /\ out' = out \o p
      /\ pend' = <<>> /\ todo' = r /\ fed' = fed
  BY DEF SDeliver
<1> HIDE DEF a, r
<1>4. p \in Bytes
  BY <1>1, <1>2, ByteJoins, Zenon
<1>5. p \o r = pend \o todo
  <2>1. (pend \o a) \o r = pend \o (a \o r)
    <3>1. Assoc(pend, a, r)
      BY <1>1, <1>2, Regroups, Zenon
    <3> QED BY <3>1 DEF Assoc
  <2> QED BY <1>2, <2>1, Zenon
<1> HIDE DEF p
<1>6. STypeOK'
  <2>1. out' \in Bytes
    BY <1>1, <1>3, <1>4, ByteJoins, Zenon
  <2>2. pend' \in Bytes
    BY <1>3 DEF Bytes
  <2>3. packets' \in Seq(Bytes)
    BY <1>1, <1>3, <1>4
  <2> QED BY <1>1, <1>2, <1>3, <2>1, <2>2, <2>3, Zenon DEF STypeOK
<1>7. out' \o (pend' \o todo') = fed'
  <2>1. (out \o p) \o r = out \o (p \o r)
    <3>1. Assoc(out, p, r)
      BY <1>1, <1>2, <1>4, Regroups, Zenon
    <3> QED BY <3>1 DEF Assoc
  <2>2. pend' \o todo' = r
    BY <1>2, <1>3, EmptyJoins, Zenon
  <2> QED BY <1>3, <1>5, <2>1, <2>2, Zenon DEF Lossless
<1>8. OnlyGood'
  <2> SUFFICES ASSUME NEW i \in 1..Len(packets') PROVE packets'[i] \in Good
    BY DEF OnlyGood
  <2>1. Len(packets') = Len(packets) + 1 /\ packets'[Len(packets) + 1] = p
    BY <1>1, <1>3, <1>4
  <2>2. CASE i = Len(packets) + 1
    BY <1>3, <2>1, <2>2
  <2>3. CASE i \in 1..Len(packets)
    <3>1. packets'[i] = packets[i]
      BY <1>1, <1>3, <1>4, <2>3
    <3> QED BY <2>3, <3>1 DEF OnlyGood
  <2> QED BY <1>1, <2>1, <2>2, <2>3
<1> QED BY <1>6, <1>7, <1>8, Zenon DEF Lossless

\* A rejected packet is cut in two: its head leaves, its tail is looked at again.
LEMMA RejectStep ==
  ASSUME STypeOK, Lossless, NEW m \in 0..Len(todo), NEW d \in 1..(Len(pend) + m),
         SReject(m, d)
  PROVE  STypeOK' /\ Lossless'
<1> DEFINE a == First(todo, m)
           r == Rest(todo, m)
           p == pend \o a
           h == First(p, d)
           t == Rest(p, d)
<1>1. out \in Bytes /\ pend \in Bytes /\ todo \in Bytes /\ fed \in Bytes
      /\ packets \in Seq(Bytes)
  BY DEF STypeOK
<1>2. a \in Bytes /\ r \in Bytes /\ a \o r = todo /\ Len(a) = m
  BY <1>1, Cut
<1>3. p \in Bytes
  BY <1>1, <1>2, ByteJoins, Zenon
<1>4. h \in Bytes /\ t \in Bytes /\ h \o t = p
  <2>1. d \in 0..Len(p)
    <3>1. d <= Len(p)
      BY DEF SReject
    <3>2. Len(p) \in Nat
      BY <1>3 DEF Bytes
    <3>3. Len(pend) \in Nat
      BY <1>1 DEF Bytes
    <3> HIDE DEF p
    <3> QED BY <3>1, <3>2, <3>3
  <2> QED BY <1>3, <2>1, Cut
<1>5. /\ out' = out \o h /\ pend' = <<>> /\ todo' = t \o r
      /\ fed' = fed /\ packets' = packets
  BY DEF SReject
<1> HIDE DEF a, r, h, t
<1>6. p \o r = pend \o todo
  <2>1. (pend \o a) \o r = pend \o (a \o r)
    <3>1. Assoc(pend, a, r)
      BY <1>1, <1>2, Regroups, Zenon
    <3> QED BY <3>1 DEF Assoc
  <2> QED BY <1>2, <2>1, Zenon
<1> HIDE DEF p
<1>7. STypeOK'
  <2>1. out' \in Bytes /\ todo' \in Bytes
    BY <1>1, <1>2, <1>4, <1>5, ByteJoins, Zenon
  <2>2. pend' \in Bytes
    BY <1>5 DEF Bytes
  <2> QED BY <1>1, <1>5, <2>1, <2>2, Zenon DEF STypeOK
<1>8. out' \o (pend' \o todo') = fed'
  <2>1. h \o (t \o r) = p \o r
    <3>1. (h \o t) \o r = h \o (t \o r)
      <4>1. Assoc(h, t, r)
        BY <1>2, <1>4, Regroups, Zenon
      <4> QED BY <4>1 DEF Assoc
    <3> QED BY <1>4, <3>1, Zenon
  <2>2. (out \o h) \o (t \o r) = out \o (h \o (t \o r))
    <3>1. t \o r \in Bytes
      BY <1>2, <1>4, ByteJoins, Zenon
    <3>2. Assoc(out, h, t \o r)
      BY <1>1, <1>4, <3>1, Regroups, Zenon
    <3> QED BY <3>2 DEF Assoc
  <2>3. pend' \o todo' = t \o r
    <3>1. t \o r \in Bytes
      BY <1>2, <1>4, ByteJoins, Zenon
    <3> QED BY <1>5, <3>1, EmptyJoins, Zenon
  <2> QED BY <1>5, <1>6, <2>1, <2>2, <2>3, Zenon DEF Lossless
<1> QED BY <1>7, <1>8, Zenon DEF Lossless

-----------------------------------------------------------------------------
\* The two invariants are inductive together with the types of the variables.
LEMMA StepS ==
  ASSUME STypeOK, Lossless, OnlyGood, [SNext]_svars
  PROVE  STypeOK' /\ Lossless' /\ OnlyGood'
<1>1. packets' = packets => OnlyGood'
  BY DEF OnlyGood
<1>2. CASE SFeed
  BY <1>1, <1>2, FeedStep DEF SFeed
<1>3. ASSUME NEW n \in 0..Len(todo), NEW m \in 0..(Len(todo) - n), SAdvance(n, m)
      PROVE  STypeOK' /\ Lossless' /\ OnlyGood'
  <2>1. packets' = packets
    BY <1>3 DEF SAdvance
  <2> QED BY <1>1, <1>3, <2>1, AdvanceStep
<1>4. ASSUME NEW m \in 0..Len(todo), SDeliver(m)
      PROVE  STypeOK' /\ Lossless' /\ OnlyGood'
  BY <1>4, DeliverStep
<1>5. ASSUME NEW m \in 0..Len(todo), NEW d \in 1..(Len(pend) + m), SReject(m, d)
      PROVE  STypeOK' /\ Lossless' /\ OnlyGood'
  <2>1. packets' = packets
    BY <1>5 DEF SReject
  <2> QED BY <1>1, <1>5, <2>1, RejectStep
<1>6. CASE UNCHANGED svars
  BY <1>6 DEF svars, STypeOK, Lossless, OnlyGood
<1> QED BY <1>2, <1>3, <1>4, <1>5, <1>6 DEF SNext

\* A splitter passes on every byte exactly once and in order, and nothing but
\* good packets reaches the next chain: what a recognizer owes its stream once
\* it is shown to implement this module.
THEOREM SplitterIsLossless == SSpec => [](STypeOK /\ Lossless /\ OnlyGood)
<1>1. SInit => STypeOK /\ Lossless /\ OnlyGood
  BY InitS
<1>2. STypeOK /\ Lossless /\ OnlyGood /\ [SNext]_svars
        => (STypeOK /\ Lossless /\ OnlyGood)'
  BY StepS
<1> QED BY <1>1, <1>2, PTL DEF SSpec

-----------------------------------------------------------------------------
(* The recognizers: what is true of them in every state. *)

\* The array, the length of the header of a packet and of the packet itself.
Array == [0..(Capacity(which) - 1) -> Byte]
HeadLen == IF which = "mavlink1" THEN 2 ELSE IF which = "ubx" THEN UbxHeaderLen ELSE RtcmHeaderLen
Size == IF which = "mavlink1" THEN MavlinkSize ELSE IF which = "ubx" THEN UbxSize ELSE RtcmSize

\* The packet array is never full: a header is shorter than HeadLen and a packet than
\* its size until it is complete.
StateInv ==
  /\ which \in Protocols /\ packet \in Array /\ packet_len \in 0..Capacity(which)
  /\ state \in {"BEFORE", "LEN", "PREAMBLE", "HEADER", "LOAD"}
  /\ state = "HEADER" => packet_len \in 1..(HeadLen - 1)
  /\ state = "LOAD" => packet_len \in HeadLen..(Size - 1)

\* The k-th byte that call f of write has not looked at, if a is the array.
ByteOf(f, a, k) == IF f.src = "input" THEN input[f.ptr + k] ELSE a[f.ptr + k - 1]

\* No call in fs runs over the end of what it reads, and those that read the array read
\* it behind its first n bytes, an inner one before an outer one.
Ahead(fs, n) ==
  /\ \A i \in 1..Len(fs) :
       /\ fs[i].len > 0
       /\ fs[i].src = "input" => fs[i].ptr + fs[i].len <= Len(input)
       /\ fs[i].src = "packet" => n < fs[i].ptr /\ fs[i].ptr + fs[i].len <= Capacity(which)
  /\ \A i, j \in 1..Len(fs) :
       i < j /\ fs[j].src = "packet" =>
         fs[i].src = "packet" /\ fs[i].ptr + fs[i].len <= fs[j].ptr

\* The calls in fs, innermost first, read the stream from position p on, each from where
\* the one before it ends, if a is the array: at holds the positions.
Cuts(fs, a, p, at) ==
  /\ at[1] = p /\ at[Len(fs) + 1] = Len(fed)
  /\ \A i \in 1..Len(fs) :
       /\ at[i + 1] = at[i] + fs[i].len
       /\ \A k \in 1..fs[i].len : ByteOf(fs[i], a, k) = fed[at[i] + k]
ReadOn(fs, a, p) == \E at \in [1..(Len(fs) + 1) -> 0..Len(fed)] : Cuts(fs, a, p, at)

Calls(fs, a, n, p) == fs \in Seq(Frame) /\ Ahead(fs, n) /\ ReadOn(fs, a, p)

\* What was passed on and what is kept is the beginning of the stream.
Prefix ==
  /\ fed \in Seq(Byte) /\ out \in Seq(Byte) /\ input \in Seq(Byte)
  /\ \A i \in 1..Len(out) : i <= Len(fed) /\ out[i] = fed[i]
  /\ \A i \in 1..Kept : Len(out) + i <= Len(fed) /\ packet[i - 1] = fed[Len(out) + i]

\* Only packets with a correct checksum were passed to next.
GoodInv == packets \in Seq(Seq(Byte)) /\ \A i \in 1..Len(packets) : packets[i] \in Good

IInv == StateInv /\ Calls(frames, packet, Kept, Len(out) + Kept) /\ Prefix /\ GoodInv


-----------------------------------------------------------------------------
(* Sizes. *)

\* A packet is longer than its header, and the array has room for it.
LEMMA Sizes ==
  ASSUME which \in Protocols
  PROVE  /\ Capacity(which) \in Nat /\ HeadLen \in Nat /\ HeadLen >= 2
         /\ packet \in Array => Size \in Nat /\ HeadLen < Size /\ Size <= Capacity(which)
<1> USE Mavlink1Assumption, UbxAssumption, Rtcm3Assumption
<1>1. CASE which = "mavlink1"
  <2>1. /\ Capacity(which) = MavlinkCapacity /\ HeadLen = 2 /\ Size = MavlinkOverhead + packet[1]
    BY <1>1 DEF Capacity, HeadLen, Size, MavlinkSize
  <2>2. ASSUME packet \in Array PROVE packet[1] \in Byte
    <3>1. MavlinkOverhead + STX <= MavlinkCapacity /\ STX \in Nat
      OBVIOUS
    <3> QED BY <2>1, <2>2, <3>1 DEF Array
  <2>3. ASSUME packet \in Array
        PROVE  Size \in Nat /\ 2 < Size /\ Size <= MavlinkCapacity
    <3>1. PICK b \in Byte : b = packet[1]
      BY <2>2, <2>3
    <3>2. b \in Nat /\ MavlinkOverhead + b <= MavlinkCapacity
      OBVIOUS
    <3> QED BY <2>1, <3>1, <3>2
  <2> QED BY <2>1, <2>3
<1>2. CASE which = "ubx"
  <2>1. /\ Capacity(which) = UbxCapacity /\ HeadLen = UbxHeaderLen
        /\ Size = UbxHeaderLen + UbxPayloadLen[Header(UbxHeaderLen)] + UbxTrailer
    BY <1>2 DEF Capacity, HeadLen, Size, UbxSize
  <2>2. ASSUME packet \in Array
        PROVE  UbxPayloadLen[Header(UbxHeaderLen)] \in 0..(UbxCapacity - UbxHeaderLen - UbxTrailer)
    <3>1. UbxHeaderLen <= UbxCapacity
      <4>1. [i \in 0..(UbxHeaderLen - 1) |-> PREAMBLE0] \in [0..(UbxHeaderLen - 1) -> Byte]
        OBVIOUS
      <4>2. UbxPayloadLen[[i \in 0..(UbxHeaderLen - 1) |-> PREAMBLE0]]
              \in 0..(UbxCapacity - UbxHeaderLen - UbxTrailer)
        BY <4>1
      <4> QED BY <4>2
    <3>2. Header(UbxHeaderLen) \in [0..(UbxHeaderLen - 1) -> Byte]
      BY <2>1, <2>2, <3>1 DEF Header, Array
    <3> QED BY <3>2
  <2> QED BY <2>1, <2>2
<1>3. CASE which = "rtcm3"
  <2>1. /\ Capacity(which) = RtcmCapacity /\ HeadLen = RtcmHeaderLen
        /\ Size = RtcmHeaderLen + RtcmPayloadLen[Header(RtcmHeaderLen)] + RtcmTrailer
    BY <1>3 DEF Capacity, HeadLen, Size, RtcmSize
  <2>2. ASSUME packet \in Array
        PROVE  RtcmPayloadLen[Header(RtcmHeaderLen)] \in 0..(RtcmCapacity - RtcmHeaderLen - RtcmTrailer)
    <3>1. RtcmHeaderLen <= RtcmCapacity
      <4>1. [i \in 0..(RtcmHeaderLen - 1) |-> PREAMBLE] \in [0..(RtcmHeaderLen - 1) -> Byte]
        OBVIOUS
      <4>2. RtcmPayloadLen[[i \in 0..(RtcmHeaderLen - 1) |-> PREAMBLE]]
              \in 0..(RtcmCapacity - RtcmHeaderLen - RtcmTrailer)
        BY <4>1
      <4> QED BY <4>2
    <3>2. Header(RtcmHeaderLen) \in [0..(RtcmHeaderLen - 1) -> Byte]
      BY <2>1, <2>2, <3>1 DEF Header, Array
    <3> QED BY <3>2
  <2> QED BY <2>1, <2>2
<1> QED BY <1>1, <1>2, <1>3 DEF Protocols

\* The header alone says how long a packet is.
LEMMA SizeSame ==
  ASSUME which \in Protocols, UNCHANGED which, packet \in Array, packet' \in Array,
         \A i \in 0..(HeadLen - 1) : packet'[i] = packet[i]
  PROVE  Size' = Size /\ HeadLen' = HeadLen
<1>1. CASE which = "mavlink1"
  BY <1>1 DEF HeadLen, Size, MavlinkSize
<1>2. CASE which = "ubx"
  <2>1. Header(UbxHeaderLen)' = Header(UbxHeaderLen)
    BY <1>2 DEF Header, HeadLen
  <2> QED BY <1>2, <2>1 DEF HeadLen, Size, UbxSize
<1>3. CASE which = "rtcm3"
  <2>1. Header(RtcmHeaderLen)' = Header(RtcmHeaderLen)
    BY <1>3 DEF Header, HeadLen
  <2> QED BY <1>3, <2>1 DEF HeadLen, Size, RtcmSize
<1> QED BY <1>1, <1>2, <1>3 DEF Protocols

LEMMA SizesThen == which \in Protocols /\ packet \in Array => HeadLen < Size /\ Size \in Nat
BY Sizes

\* The same in the next state.
LEMMA SizesNext ==
  ASSUME which' \in Protocols, packet' \in Array'
  PROVE  HeadLen' < Size' /\ Size' \in Nat
<1>1. (which \in Protocols /\ packet \in Array => HeadLen < Size /\ Size \in Nat)'
  BY SizesThen, PTL
<1> QED BY <1>1

-----------------------------------------------------------------------------
(* The calls of write. *)

\* What is left of the innermost call, and the other calls, after n bytes.
Shorter(fs, n) ==
  IF fs[1].len = n THEN Tail(fs)
  ELSE <<[fs[1] EXCEPT !.ptr = @ + n, !.len = @ - n]>> \o Tail(fs)

LEMMA FrameFields ==
  ASSUME NEW x \in Frame
  PROVE  x.len \in Nat /\ x.ptr \in Nat /\ x.src \in {"input", "packet"}
BY DEF Frame

LEMMA CallTypes ==
  ASSUME NEW fs \in Seq(Frame)
  PROVE  /\ Len(fs) \in Nat
         /\ \A i \in 1..Len(fs) : /\ fs[i].len \in Nat /\ fs[i].ptr \in Nat
                                   /\ fs[i].src \in {"input", "packet"}
         /\ fs # <<>> => Len(fs) > 0 /\ 1 \in 1..Len(fs) /\ fs[1] \in Frame
<1>1. \A i \in 1..Len(fs) : fs[i] \in Frame
  OBVIOUS
<1>2. Len(fs) \in Nat /\ (fs # <<>> => Len(fs) > 0 /\ 1 \in 1..Len(fs))
  OBVIOUS
<1> QED BY <1>1, <1>2, FrameFields

LEMMA ShortenedFrame ==
  ASSUME NEW x \in Frame, NEW n \in 0..x.len, NEW y, y = [x EXCEPT !.ptr = @ + n, !.len = @ - n]
  PROVE  y \in Frame /\ y.src = x.src /\ y.ptr = x.ptr + n /\ y.len = x.len - n
<1>1. x = [src |-> x.src, ptr |-> x.ptr, len |-> x.len]
  BY DEF Frame
<1>2. y = [src |-> x.src, ptr |-> x.ptr + n, len |-> x.len - n]
  BY <1>1
<1>3. x.src \in {"input", "packet"} /\ x.ptr + n \in Nat /\ x.len - n \in Nat
  BY FrameFields
<1> QED BY <1>2, <1>3 DEF Frame

\* A sequence with another element in front.
LEMMA InFront ==
  ASSUME NEW S, NEW x \in S, NEW t \in Seq(S), NEW g, g = <<x>> \o t
  PROVE  /\ g \in Seq(S) /\ Len(g) = Len(t) + 1 /\ g[1] = x
         /\ \A i \in 1..Len(t) : g[i + 1] = t[i]
         /\ \A i \in 2..Len(g) : i - 1 \in 1..Len(t) /\ g[i] = t[i - 1]
<1>1. <<x>> \in Seq(S) /\ Len(<<x>>) = 1 /\ Len(t) \in Nat
  OBVIOUS
<1>2. /\ <<x>> \o t \in Seq(S) /\ Len(<<x>> \o t) = 1 + Len(t)
      /\ \A i \in 1..(1 + Len(t)) : (<<x>> \o t)[i] = IF i <= 1 THEN <<x>>[i] ELSE t[i - 1]
  BY <1>1, ConcatProperties
<1>3. \A i \in 2..Len(g) : i - 1 \in 1..Len(t) /\ g[i] = t[i - 1]
  BY <1>1, <1>2
<1>4. \A i \in 1..Len(t) : g[i + 1] = t[i]
  BY <1>1, <1>2
<1> QED BY <1>1, <1>2, <1>3, <1>4

LEMMA ShorterIs ==
  ASSUME NEW fs \in Seq(Frame), fs # <<>>, NEW n \in 1..fs[1].len, NEW g, g = Shorter(fs, n)
  PROVE  /\ g \in Seq(Frame)
         /\ fs[1].len = n => /\ Len(g) = Len(fs) - 1
                             /\ \A i \in 1..Len(g) : g[i] = fs[i + 1]
         /\ fs[1].len # n => /\ Len(g) = Len(fs) /\ g[1].src = fs[1].src
                             /\ g[1].ptr = fs[1].ptr + n /\ g[1].len = fs[1].len - n
                             /\ \A i \in 2..Len(g) : g[i] = fs[i]
<1>1. /\ Len(fs) \in Nat \ {0} /\ fs[1] \in Frame
      /\ fs[1].len \in Nat /\ fs[1].ptr \in Nat
  BY CallTypes
<1>2. PICK t \in Seq(Frame) :
        /\ t = Tail(fs) /\ Len(t) = Len(fs) - 1 /\ \A i \in 1..Len(t) : t[i] = fs[i + 1]
  BY HeadTailProperties
<1>3. CASE fs[1].len = n
  BY <1>1, <1>2, <1>3 DEF Shorter
<1>4. CASE fs[1].len # n
  <2>1. PICK x : x = [fs[1] EXCEPT !.ptr = @ + n, !.len = @ - n]
    OBVIOUS
  <2>2. /\ x \in Frame /\ x.src = fs[1].src /\ x.ptr = fs[1].ptr + n /\ x.len = fs[1].len - n
    <3>1. PICK y \in Frame : y = fs[1]
      BY <1>1
    <3>2. n \in 0..y.len /\ x = [y EXCEPT !.ptr = @ + n, !.len = @ - n]
      BY <1>1, <2>1, <3>1
    <3>3. x \in Frame /\ x.src = y.src /\ x.ptr = y.ptr + n /\ x.len = y.len - n
      BY <3>2, ShortenedFrame
    <3> QED BY <3>1, <3>3
  <2>3. g = <<x>> \o t
    BY <1>2, <1>4, <2>1 DEF Shorter
  <2>4. /\ g \in Seq(Frame) /\ Len(g) = Len(t) + 1 /\ g[1] = x
        /\ \A i \in 2..Len(g) : i - 1 \in 1..Len(t) /\ g[i] = t[i - 1]
    BY <2>2, <2>3, InFront
  <2>5. ASSUME NEW i \in 2..Len(g) PROVE g[i] = fs[i]
    <3>1. i - 1 \in 1..Len(t) /\ g[i] = t[i - 1]
      BY <2>4
    <3>2. t[i - 1] = fs[(i - 1) + 1]
      BY <1>2, <3>1
    <3>3. i \in Int
      OBVIOUS
    <3> QED BY <3>1, <3>2, <3>3
  <2>6. Len(g) = Len(fs)
    BY <1>1, <1>2, <2>4
  <2> QED BY <1>4, <2>2, <2>4, <2>5, <2>6
<1> QED BY <1>3, <1>4

\* After n bytes the calls read on n bytes further in the stream, and ahead of n more
\* bytes of the array.
LEMMA ShorterCalls ==
  ASSUME fed \in Seq(Byte), NEW fs, NEW a, NEW m \in Nat, NEW p \in Nat, Calls(fs, a, m, p),
         fs # <<>>, NEW n \in 1..fs[1].len, NEW g, g = Shorter(fs, n)
  PROVE  Calls(g, a, m + n, p + n)
<1>1. /\ fs \in Seq(Frame) /\ Len(fs) \in Nat \ {0}
      /\ \A i \in 1..Len(fs) : /\ fs[i].len \in Nat /\ fs[i].ptr \in Nat
                                /\ fs[i].src \in {"input", "packet"}
  BY CallTypes DEF Calls
<1>2. g \in Seq(Frame) /\ Len(g) \in Nat
  BY <1>1, ShorterIs
<1>3. CASE fs[1].len = n
  <2>1. Len(g) = Len(fs) - 1 /\ \A i \in 1..Len(g) : g[i] = fs[i + 1]
    BY <1>1, <1>3, ShorterIs
  <2>2. Ahead(g, m + n)
    <3>1. ASSUME NEW i \in 1..Len(g)
          PROVE  /\ g[i].len > 0
                 /\ g[i].src = "input" => g[i].ptr + g[i].len <= Len(input)
                 /\ g[i].src = "packet" => m + n < g[i].ptr /\ g[i].ptr + g[i].len <= Capacity(which)
      <4>1. i + 1 \in 1..Len(fs) /\ 1 \in 1..Len(fs) /\ 1 < i + 1 /\ g[i] = fs[i + 1]
        <5>1. g[i] = fs[i + 1]
          BY <2>1
        <5>2. Len(g) = Len(fs) - 1
          BY <2>1
        <5> QED BY <1>1, <5>1, <5>2
      <4>2. /\ fs[i + 1].len > 0
            /\ fs[i + 1].src = "input" => fs[i + 1].ptr + fs[i + 1].len <= Len(input)
            /\ fs[i + 1].src = "packet" => fs[i + 1].ptr + fs[i + 1].len <= Capacity(which)
        BY <4>1 DEF Calls, Ahead
      <4>3. ASSUME fs[i + 1].src = "packet" PROVE m + n < fs[i + 1].ptr
        <5>1. fs[1].src = "packet" /\ fs[1].ptr + fs[1].len <= fs[i + 1].ptr
          BY <4>1, <4>3 DEF Calls, Ahead
        <5>2. m < fs[1].ptr
          BY <4>1, <5>1 DEF Calls, Ahead
        <5>3. PICK x, y \in Nat : x = fs[1].ptr /\ y = fs[i + 1].ptr
          BY <1>1, <4>1
        <5>4. n \in Nat /\ x + n <= y /\ m < x
          BY <1>1, <1>3, <4>1, <5>1, <5>2, <5>3
        <5>5. m + n < y
          BY <5>4
        <5> QED BY <5>3, <5>5
      <4> QED BY <4>1, <4>2, <4>3
    <3>2. ASSUME NEW i \in 1..Len(g), NEW j \in 1..Len(g), i < j, g[j].src = "packet"
          PROVE  g[i].src = "packet" /\ g[i].ptr + g[i].len <= g[j].ptr
      <4>1. /\ i + 1 \in 1..Len(fs) /\ j + 1 \in 1..Len(fs) /\ i + 1 < j + 1
            /\ g[i] = fs[i + 1] /\ g[j] = fs[j + 1]
        <5>1. Len(g) = Len(fs) - 1 /\ g[i] = fs[i + 1] /\ g[j] = fs[j + 1]
          BY <2>1
        <5>2. PICK k \in Nat : k = Len(g) /\ k + 1 = Len(fs)
          <6>1. Len(g) \in Nat /\ Len(fs) \in Nat
            BY <1>1, <1>2
          <6>2. PICK k \in Nat : k = Len(g)
            BY <6>1
          <6>3. PICK l \in Nat : l = Len(fs)
            BY <6>1
          <6>4. k = l - 1
            BY <5>1, <6>2, <6>3
          <6> QED BY <6>2, <6>3, <6>4
        <5>3. i + 1 \in 1..(k + 1) /\ j + 1 \in 1..(k + 1) /\ i + 1 < j + 1
          BY <3>2, <5>2
        <5> QED BY <5>1, <5>2, <5>3
      <4> QED BY <3>2, <4>1 DEF Calls, Ahead
    <3> QED BY <3>1, <3>2 DEF Ahead
  <2>3. ReadOn(g, a, p + n)
    <3>1. PICK at \in [1..(Len(fs) + 1) -> 0..Len(fed)] : Cuts(fs, a, p, at)
      BY DEF Calls, ReadOn
    <3>2. PICK bt : bt = [i \in 1..(Len(g) + 1) |-> at[i + 1]]
      OBVIOUS
    <3>3. bt \in [1..(Len(g) + 1) -> 0..Len(fed)]
      BY <1>1, <1>2, <2>1, <3>1, <3>2
    <3>4. bt[1] = p + n /\ bt[Len(g) + 1] = Len(fed)
      BY <1>1, <1>2, <1>3, <2>1, <3>1, <3>2 DEF Cuts
    <3>5. ASSUME NEW i \in 1..Len(g)
          PROVE  /\ bt[i + 1] = bt[i] + g[i].len
                 /\ \A k \in 1..g[i].len : ByteOf(g[i], a, k) = fed[bt[i] + k]
      <4>1. i + 1 \in 1..Len(fs) /\ g[i] = fs[i + 1] /\ bt[i] = at[i + 1] /\ bt[i + 1] = at[(i + 1) + 1]
        <5>1. g[i] = fs[i + 1] /\ Len(g) = Len(fs) - 1
          BY <2>1
        <5>2. PICK k \in Nat : k = Len(g) /\ k + 1 = Len(fs)
          <6>1. Len(g) \in Nat /\ Len(fs) \in Nat
            BY <1>1, <1>2
          <6>2. PICK k \in Nat : k = Len(g)
            BY <6>1
          <6>3. PICK l \in Nat : l = Len(fs)
            BY <6>1
          <6>4. k = l - 1
            BY <5>1, <6>2, <6>3
          <6> QED BY <6>2, <6>3, <6>4
        <5>3. i + 1 \in 1..(k + 1) /\ i \in 1..(k + 1)
          BY <5>2
        <5> QED BY <3>2, <5>1, <5>2, <5>3
      <4> QED BY <3>1, <4>1 DEF Cuts
    <3> QED BY <3>3, <3>4, <3>5 DEF ReadOn, Cuts
  <2> QED BY <1>2, <2>2, <2>3 DEF Calls
<1>4. CASE fs[1].len # n
  <2>1. /\ Len(g) = Len(fs) /\ g[1].src = fs[1].src
        /\ g[1].ptr = fs[1].ptr + n /\ g[1].len = fs[1].len - n
        /\ \A i \in 2..Len(g) : g[i] = fs[i]
    BY <1>1, <1>4, ShorterIs
  <2>2. Ahead(g, m + n)
    <3>1. ASSUME NEW i \in 1..Len(g)
          PROVE  /\ g[i].len > 0
                 /\ g[i].src = "input" => g[i].ptr + g[i].len <= Len(input)
                 /\ g[i].src = "packet" => m + n < g[i].ptr /\ g[i].ptr + g[i].len <= Capacity(which)
      <4>1. i \in 1..Len(fs) /\ 1 \in 1..Len(fs)
        BY <1>1, <2>1
      <4>2. /\ fs[i].len > 0
            /\ fs[i].src = "input" => fs[i].ptr + fs[i].len <= Len(input)
            /\ fs[i].src = "packet" => m < fs[i].ptr /\ fs[i].ptr + fs[i].len <= Capacity(which)
        BY <4>1 DEF Calls, Ahead
      <4>3. CASE i = 1
        <5>1. /\ fs[1].len \in Nat /\ fs[1].ptr \in Nat
              /\ g[1].src = fs[1].src /\ g[1].ptr = fs[1].ptr + n /\ g[1].len = fs[1].len - n
          BY <1>1, <2>1, <4>1
        <5>2. g[1].len > 0
          BY <1>4, <5>1
        <5>3. g[1].ptr + g[1].len = fs[1].ptr + fs[1].len
          BY <5>1
        <5>4. fs[1].src = "packet" => m + n < g[1].ptr
          BY <4>2, <4>3, <5>1
        <5> QED BY <4>2, <4>3, <5>1, <5>2, <5>3, <5>4
      <4>4. CASE i # 1
        <5>1. g[i] = fs[i] /\ 1 < i
          BY <2>1, <4>1, <4>4
        <5>2. fs[i].src = "packet" => fs[1].src = "packet" /\ fs[1].ptr + fs[1].len <= fs[i].ptr
          BY <4>1, <5>1 DEF Calls, Ahead
        <5>3. fs[1].src = "packet" => m < fs[1].ptr
          BY <4>1 DEF Calls, Ahead
        <5> QED BY <1>1, <4>1, <4>2, <5>1, <5>2, <5>3
      <4> QED BY <4>3, <4>4
    <3>2. ASSUME NEW i \in 1..Len(g), NEW j \in 1..Len(g), i < j, g[j].src = "packet"
          PROVE  g[i].src = "packet" /\ g[i].ptr + g[i].len <= g[j].ptr
      <4>1. i \in 1..Len(fs) /\ j \in 1..Len(fs) /\ g[j] = fs[j] /\ 1 \in 1..Len(fs)
        BY <1>1, <2>1, <3>2
      <4>2. fs[i].src = "packet" /\ fs[i].ptr + fs[i].len <= fs[j].ptr
        BY <3>2, <4>1 DEF Calls, Ahead
      <4>3. g[i].src = fs[i].src /\ g[i].ptr + g[i].len = fs[i].ptr + fs[i].len
        <5>1. CASE i = 1
          <6>1. fs[1].ptr \in Nat /\ fs[1].len \in Nat
            BY <1>1, <4>1
          <6>2. g[1].src = fs[1].src /\ g[1].ptr = fs[1].ptr + n /\ g[1].len = fs[1].len - n
            BY <2>1
          <6> QED BY <5>1, <6>1, <6>2
        <5>2. CASE i # 1
          <6>1. i \in 2..Len(g)
            BY <1>1, <5>2
          <6>2. g[i] = fs[i]
            BY <2>1, <6>1
          <6> QED BY <6>2
        <5> QED BY <5>1, <5>2
      <4> QED BY <4>1, <4>2, <4>3
    <3> QED BY <3>1, <3>2 DEF Ahead
  <2>3. ReadOn(g, a, p + n)
    <3>1. PICK at \in [1..(Len(fs) + 1) -> 0..Len(fed)] : Cuts(fs, a, p, at)
      BY DEF Calls, ReadOn
    <3>2. PICK bt : bt = [at EXCEPT ![1] = p + n]
      OBVIOUS
    <3>3. /\ at[1] = p /\ at[2] = p + fs[1].len /\ at[2] <= Len(fed)
          /\ bt[1] = p + n /\ \A i \in 2..(Len(fs) + 1) : bt[i] = at[i]
      <4>1. 1 \in 1..Len(fs) /\ 1 \in 1..(Len(fs) + 1) /\ 2 \in 1..(Len(fs) + 1)
        BY <1>1
      <4>2. at[1] = p /\ at[1 + 1] = at[1] + fs[1].len /\ at[2] \in 0..Len(fed)
        BY <3>1, <4>1 DEF Cuts
      <4>3. bt[1] = p + n /\ \A i \in 2..(Len(fs) + 1) : bt[i] = at[i]
        BY <1>1, <3>1, <3>2, <4>1
      <4>4. Len(fed) \in Nat
        OBVIOUS
      <4> QED BY <4>2, <4>3, <4>4
    <3>4. bt \in [1..(Len(g) + 1) -> 0..Len(fed)]
      <4>1. p + n \in 0..Len(fed)
        BY <1>1, <3>3
      <4> QED BY <1>1, <2>1, <3>1, <3>2, <4>1
    <3>5. ASSUME NEW i \in 1..Len(g)
          PROVE  /\ bt[i + 1] = bt[i] + g[i].len
                 /\ \A k \in 1..g[i].len : ByteOf(g[i], a, k) = fed[bt[i] + k]
      <4>1. CASE i = 1
        <5>1. bt[i + 1] = bt[i] + g[i].len
          BY <1>1, <2>1, <3>3, <4>1
        <5>2. ASSUME NEW k \in 1..g[i].len PROVE ByteOf(g[i], a, k) = fed[bt[i] + k]
          <6>1. k + n \in 1..fs[1].len /\ 1 \in 1..Len(fs)
            <7>1. 1 \in 1..Len(fs)
              BY <1>1
            <7>2. fs[1].len \in Nat /\ k \in 1..(fs[1].len - n)
              BY <1>1, <2>1, <4>1, <7>1
            <7> QED BY <7>1, <7>2
          <6>2. ByteOf(fs[1], a, k + n) = fed[p + (k + n)]
            BY <3>1, <3>3, <6>1 DEF Cuts
          <6>3. ByteOf(g[1], a, k) = ByteOf(fs[1], a, k + n)
            <7>1. fs[1].ptr \in Nat /\ g[1].src = fs[1].src /\ g[1].ptr = fs[1].ptr + n
              BY <1>1, <2>1, <6>1
            <7>2. PICK v \in Nat : v = fs[1].ptr
              BY <7>1
            <7>3. PICK u : u = g[1].ptr /\ u = v + n
              BY <7>1, <7>2
            <7>4. k \in Int /\ n \in Int
              OBVIOUS
            <7>5. u + k = v + (k + n) /\ u + k - 1 = v + (k + n) - 1
              BY <7>3, <7>4
            <7> QED BY <7>1, <7>2, <7>3, <7>5, Zenon DEF ByteOf
          <6> QED BY <3>3, <4>1, <6>2, <6>3
        <5> QED BY <5>1, <5>2
      <4>2. CASE i # 1
        <5>1. i \in 1..Len(fs) /\ g[i] = fs[i] /\ bt[i] = at[i] /\ bt[i + 1] = at[i + 1]
          BY <1>1, <2>1, <3>3, <4>2
        <5> QED BY <3>1, <5>1 DEF Cuts
      <4> QED BY <4>1, <4>2
    <3>6. bt[Len(g) + 1] = Len(fed)
      <4>1. Len(fs) + 1 \in 2..(Len(fs) + 1)
        BY <1>1
      <4> QED BY <2>1, <3>1, <3>3, <4>1 DEF Cuts
    <3> QED BY <3>3, <3>4, <3>5, <3>6 DEF ReadOn, Cuts
  <2> QED BY <1>2, <2>2, <2>3 DEF Calls
<1> QED BY <1>3, <1>4

\* Bytes in front of what the calls read may be written to.
LEMMA OverwriteCalls ==
  ASSUME NEW fs, NEW a, NEW b, NEW m \in Nat, NEW p, NEW n \in Nat, n <= m, Calls(fs, a, m, p),
         \A i \in Nat : m <= i /\ i < Capacity(which) => b[i] = a[i],
         Capacity(which) \in Nat
  PROVE  Calls(fs, b, n, p)
<1>1. /\ fs \in Seq(Frame) /\ Len(fs) \in Nat
      /\ \A i \in 1..Len(fs) : /\ fs[i].len \in Nat /\ fs[i].ptr \in Nat
                                /\ fs[i].src \in {"input", "packet"}
  BY CallTypes DEF Calls
<1>2. Ahead(fs, n)
  <2>1. \A i \in 1..Len(fs) : fs[i].src = "packet" => n < fs[i].ptr
    BY <1>1 DEF Calls, Ahead
  <2> QED BY <2>1 DEF Calls, Ahead
<1>3. PICK at \in [1..(Len(fs) + 1) -> 0..Len(fed)] : Cuts(fs, a, p, at)
  BY DEF Calls, ReadOn
<1>4. ASSUME NEW i \in 1..Len(fs), NEW k \in 1..fs[i].len
      PROVE  ByteOf(fs[i], b, k) = ByteOf(fs[i], a, k)
  <2>1. fs[i].src = "packet" => m < fs[i].ptr /\ fs[i].ptr + fs[i].len <= Capacity(which)
    BY DEF Calls, Ahead
  <2>2. fs[i].len \in Nat /\ fs[i].ptr \in Nat
    BY <1>1
  <2>3. ASSUME fs[i].src = "packet" PROVE b[fs[i].ptr + k - 1] = a[fs[i].ptr + k - 1]
    <3>1. fs[i].ptr + k - 1 \in Nat /\ m <= fs[i].ptr + k - 1 /\ fs[i].ptr + k - 1 < Capacity(which)
      BY <2>1, <2>2, <2>3
    <3> QED BY <3>1
  <2> QED BY <1>1, <2>3 DEF ByteOf
<1>5. Cuts(fs, b, p, at)
  BY <1>3, <1>4 DEF Cuts
<1> QED BY <1>1, <1>2, <1>3, <1>5 DEF Calls, ReadOn

\* The n bytes of the array a from position p on are those of the stream behind q.
Holds(a, p, q, n) == \A k \in 1..n : a[p + k - 1] = fed[q + k]

\* A nested call reads the n bytes in front of the position the calls have reached.
LEMMA NestedCalls ==
  ASSUME fed \in Seq(Byte), NEW fs, NEW a, NEW q \in Nat, NEW p \in Nat \ {0}, NEW n \in Nat \ {0},
         Calls(fs, a, p + n, q + n), p + n <= Capacity(which), Capacity(which) \in Nat,
         q + n <= Len(fed), Holds(a, p, q, n), NEW g, g = Nested(p, n, fs)
  PROVE  Calls(g, a, 0, q)
<1>1. /\ fs \in Seq(Frame) /\ Len(fs) \in Nat /\ Len(fed) \in Nat
      /\ \A i \in 1..Len(fs) : /\ fs[i].len \in Nat /\ fs[i].ptr \in Nat
                                /\ fs[i].src \in {"input", "packet"}
  BY CallTypes DEF Calls
<1>2. PICK x : x = [src |-> "packet", ptr |-> p, len |-> n]
  OBVIOUS
<1>3. x \in Frame /\ x.src = "packet" /\ x.ptr = p /\ x.len = n
  BY <1>2 DEF Frame
<1>4. g = <<x>> \o fs
  BY <1>2 DEF Nested
<1>5. /\ g \in Seq(Frame) /\ Len(g) = Len(fs) + 1 /\ g[1] = x
      /\ \A i \in 2..Len(g) : i - 1 \in 1..Len(fs) /\ g[i] = fs[i - 1]
  BY <1>1, <1>3, <1>4, InFront
<1>6. \A i \in 1..Len(g) : i # 1 => i \in 2..Len(g)
  BY <1>1, <1>5
<1>7. Ahead(g, 0)
  <2>1. ASSUME NEW i \in 1..Len(g)
        PROVE  /\ g[i].len > 0
               /\ g[i].src = "input" => g[i].ptr + g[i].len <= Len(input)
               /\ g[i].src = "packet" => 0 < g[i].ptr /\ g[i].ptr + g[i].len <= Capacity(which)
    <3>1. CASE i = 1
      BY <1>3, <1>5, <3>1
    <3>2. CASE i # 1
      <4>1. i - 1 \in 1..Len(fs) /\ g[i] = fs[i - 1]
        BY <1>5, <1>6, <3>2
      <4>2. /\ fs[i - 1].len > 0
            /\ fs[i - 1].src = "input" => fs[i - 1].ptr + fs[i - 1].len <= Len(input)
            /\ fs[i - 1].src = "packet" => /\ p + n < fs[i - 1].ptr
                                          /\ fs[i - 1].ptr + fs[i - 1].len <= Capacity(which)
        BY <4>1 DEF Calls, Ahead
      <4>3. fs[i - 1].ptr \in Nat
        BY <1>1, <4>1
      <4> QED BY <4>1, <4>2, <4>3
    <3> QED BY <3>1, <3>2
  <2>2. ASSUME NEW i \in 1..Len(g), NEW j \in 1..Len(g), i < j, g[j].src = "packet"
        PROVE  g[i].src = "packet" /\ g[i].ptr + g[i].len <= g[j].ptr
    <3>1. j - 1 \in 1..Len(fs) /\ g[j] = fs[j - 1]
      <4>1. j # 1
        BY <2>2
      <4> QED BY <1>5, <1>6, <4>1
    <3>2. CASE i = 1
      <4>1. p + n < fs[j - 1].ptr
        BY <2>2, <3>1 DEF Calls, Ahead
      <4>2. fs[j - 1].ptr \in Nat
        BY <1>1, <3>1
      <4> QED BY <1>3, <1>5, <3>1, <3>2, <4>1, <4>2
    <3>3. CASE i # 1
      <4>1. i - 1 \in 1..Len(fs) /\ g[i] = fs[i - 1]
        BY <1>5, <1>6, <3>3
      <4>2. i - 1 < j - 1
        BY <2>2
      <4> QED BY <2>2, <3>1, <4>1, <4>2 DEF Calls, Ahead
    <3> QED BY <3>2, <3>3
  <2> QED BY <2>1, <2>2 DEF Ahead
<1>8. ReadOn(g, a, q)
  <2>1. PICK at \in [1..(Len(fs) + 1) -> 0..Len(fed)] : Cuts(fs, a, q + n, at)
    BY DEF Calls, ReadOn
  <2>2. PICK bt : bt = [i \in 1..(Len(g) + 1) |-> IF i = 1 THEN q ELSE at[i - 1]]
    OBVIOUS
  <2>3. bt \in [1..(Len(g) + 1) -> 0..Len(fed)]
    BY <1>1, <1>5, <2>1, <2>2
  <2>4. bt[1] = q /\ bt[2] = q + n /\ bt[Len(g) + 1] = Len(fed)
    BY <1>1, <1>5, <2>1, <2>2 DEF Cuts
  <2>5. ASSUME NEW i \in 1..Len(g)
        PROVE  /\ bt[i + 1] = bt[i] + g[i].len
               /\ \A k \in 1..g[i].len : ByteOf(g[i], a, k) = fed[bt[i] + k]
    <3>1. CASE i = 1
      <4>1. \A k \in 1..n : ByteOf(x, a, k) = fed[q + k]
        BY <1>3 DEF ByteOf, Holds
      <4>2. bt[1 + 1] = bt[1] + n
        BY <2>4
      <4> QED BY <1>3, <1>5, <2>4, <3>1, <4>1, <4>2
    <3>2. CASE i # 1
      <4>1. i - 1 \in 1..Len(fs) /\ g[i] = fs[i - 1] /\ i \in 2..Len(g)
        BY <1>5, <1>6, <3>2
      <4>2. bt[i] = at[i - 1] /\ bt[i + 1] = at[(i - 1) + 1]
        BY <1>1, <1>5, <2>2, <4>1
      <4> QED BY <2>1, <4>1, <4>2 DEF Cuts
    <3> QED BY <3>1, <3>2
  <2> QED BY <2>3, <2>4, <2>5 DEF ReadOn, Cuts
<1> QED BY <1>5, <1>7, <1>8 DEF Calls

-----------------------------------------------------------------------------
(* One step. *)

LEMMA KeptBytes ==
  ASSUME StateInv, Prefix
  PROVE  /\ Kept \in Nat /\ Len(out) \in Nat /\ Len(fed) \in Nat
         /\ Kept < Capacity(which) /\ Capacity(which) \in Nat
         /\ Len(out) + Kept <= Len(fed)
         /\ Holds(packet, 0, Len(out), Kept)
<1>1. /\ Capacity(which) \in Nat /\ HeadLen \in Nat /\ HeadLen >= 2
      /\ Size \in Nat /\ HeadLen < Size /\ Size <= Capacity(which)
  BY Sizes DEF StateInv
<1>2. Kept \in Nat /\ Kept < Capacity(which)
  BY <1>1 DEF StateInv, Kept
<1>3. Len(out) \in Nat /\ Len(fed) \in Nat
  BY DEF Prefix
<1>4. Len(out) + Kept <= Len(fed)
  <2>1. CASE Kept = 0
    <3>1. CASE Len(out) = 0
      BY <1>3, <2>1, <3>1
    <3>2. CASE Len(out) # 0
      <4>1. Len(out) \in 1..Len(out)
        BY <1>3, <3>2
      <4>2. Len(out) <= Len(fed)
        BY <4>1 DEF Prefix
      <4> QED BY <1>3, <2>1, <4>2
    <3> QED BY <3>1, <3>2
  <2>2. CASE Kept # 0
    <3>1. Kept \in 1..Kept
      BY <1>2, <2>2
    <3> QED BY <3>1 DEF Prefix
  <2> QED BY <2>1, <2>2
<1>5. Holds(packet, 0, Len(out), Kept)
  <2>1. ASSUME NEW k \in 1..Kept PROVE packet[0 + k - 1] = fed[Len(out) + k]
    <3>1. packet[k - 1] = fed[Len(out) + k]
      BY DEF Prefix
    <3>2. 0 + k - 1 = k - 1
      BY <1>2
    <3> QED BY <3>1, <3>2
  <2> QED BY <2>1 DEF Holds
<1> QED BY <1>1, <1>2, <1>3, <1>4, <1>5

\* The innermost call reads the stream where what is passed on and what is kept end.
LEMMA Reading ==
  ASSUME IInv, frames # <<>>
  PROVE  /\ Top \in Frame /\ Top.len \in Nat \ {0}
         /\ Unread \in Seq(Byte) /\ Len(Unread) = Top.len
         /\ Len(out) + Kept + Top.len <= Len(fed)
         /\ Holds(Unread, 1, Len(out) + Kept, Top.len)
<1>1. frames \in Seq(Frame) /\ fed \in Seq(Byte)
  BY DEF IInv, Calls, Prefix
<1>2. /\ 1 \in 1..Len(frames) /\ Len(frames) \in Nat /\ Top \in Frame
      /\ Top.len \in Nat /\ Top.ptr \in Nat /\ Top.src \in {"input", "packet"}
  BY <1>1, CallTypes, FrameFields DEF Top
<1>3. Top.len > 0
  BY <1>2 DEF IInv, Calls, Ahead, Top
<1>4. /\ Kept \in Nat /\ Len(out) \in Nat /\ Len(fed) \in Nat
  BY KeptBytes DEF IInv
<1>5. PICK at \in [1..(Len(frames) + 1) -> 0..Len(fed)] :
        Cuts(frames, packet, Len(out) + Kept, at)
  BY DEF IInv, Calls, ReadOn
<1>6. /\ at[1] = Len(out) + Kept /\ at[1 + 1] = at[1] + Top.len
      /\ \A k \in 1..Top.len : ByteOf(Top, packet, k) = fed[at[1] + k]
  BY <1>2, <1>5 DEF Cuts, Top
<1>7. 2 \in 1..(Len(frames) + 1)
  BY <1>2
<1>8. Len(out) + Kept + Top.len <= Len(fed)
  BY <1>2, <1>4, <1>5, <1>6, <1>7
<1>9. /\ DOMAIN Unread = 1..Top.len
      /\ \A k \in 1..Top.len : Unread[k] = ByteOf(Top, packet, k)
  BY DEF Unread, Read, ByteOf
<1>10. \A k \in 1..Top.len : Unread[k] = fed[Len(out) + Kept + k]
  BY <1>6, <1>9
<1>11. \A k \in 1..Top.len : fed[Len(out) + Kept + k] \in Byte
  <2>1. ASSUME NEW k \in 1..Top.len PROVE Len(out) + Kept + k \in 1..Len(fed)
    BY <1>2, <1>4, <1>8
  <2> QED BY <1>1, <2>1
<1>12. Unread \in [1..Top.len -> Byte]
  <2>1. Unread = [i \in 1..Top.len |-> Unread[i]]
    BY <1>9 DEF Unread, Read
  <2>2. \A k \in 1..Top.len : Unread[k] \in Byte
    BY <1>10, <1>11
  <2> QED BY <2>1, <2>2
<1>13. Unread \in Seq(Byte) /\ Len(Unread) = Top.len
  BY <1>2, <1>12
<1>14. Holds(Unread, 1, Len(out) + Kept, Top.len)
  <2>1. \A k \in 1..Top.len : 1 + k - 1 = k
    BY <1>2
  <2> QED BY <1>10, <2>1 DEF Holds
<1> QED BY <1>2, <1>3, <1>8, <1>13, <1>14

\* After n bytes the calls read on, whatever was written over bytes they have read.
LEMMA Consumed ==
  ASSUME IInv, frames # <<>>, NEW n \in 1..Top.len, NEW g, g = Consume(n),
         NEW b, \A i \in Nat : Kept + n <= i /\ i < Capacity(which) => b[i] = packet[i],
         NEW m \in Nat, m <= Kept + n
  PROVE  Calls(g, b, m, Len(out) + Kept + n)
<1>1. /\ Kept \in Nat /\ Len(out) + Kept \in Nat /\ Kept + n \in Nat /\ Capacity(which) \in Nat
      /\ Len(out) \in Nat
  <2>1. Kept \in Nat /\ Len(out) \in Nat /\ Capacity(which) \in Nat
    BY KeptBytes DEF IInv
  <2>2. Top.len \in Nat
    BY Reading
  <2> QED BY <2>1, <2>2
<1>2. n \in 1..frames[1].len
  BY DEF Top
<1>3. g = Shorter(frames, n)
  BY DEF Consume, Shorter, Top
<1>4. fed \in Seq(Byte) /\ Calls(frames, packet, Kept, Len(out) + Kept)
  BY DEF IInv, Prefix
<1>5. Calls(g, packet, Kept + n, Len(out) + Kept + n)
  BY <1>1, <1>2, <1>3, <1>4, ShorterCalls
<1> QED BY <1>1, <1>5, OverwriteCalls

\* The calls, the bytes w that are passed on and what is kept make the next state.
LEMMA Assembled ==
  ASSUME IInv, UNCHANGED <<which, input, fed>>, StateInv', GoodInv',
         NEW w \in Seq(Byte), out' = out \o w, Holds(w, 1, Len(out), Len(w)),
         NEW q, q = Len(out) + Len(w), NEW k \in Nat, k = Kept', q + k <= Len(fed),
         Holds(packet', 0, q, k), Calls(frames', packet', k, q + k)
  PROVE  IInv' /\ Len(out') = q
<1>1. out \in Seq(Byte) /\ fed \in Seq(Byte) /\ input \in Seq(Byte)
  BY DEF IInv, Prefix
<1>2. /\ Len(out) \in Nat /\ Len(w) \in Nat /\ Len(fed) \in Nat /\ Len(out) <= Len(fed)
  <2>1. Len(out) \in Nat /\ Len(w) \in Nat /\ Len(fed) \in Nat
    BY <1>1
  <2> QED BY <2>1
<1>3. /\ out' \in Seq(Byte) /\ Len(out') = q
      /\ \A i \in 1..q : out'[i] = IF i <= Len(out) THEN out[i] ELSE w[i - Len(out)]
  BY <1>1, ConcatProperties
<1>4. ASSUME NEW i \in 1..q PROVE i <= Len(fed) /\ out'[i] = fed[i]
  <2>1. i <= Len(fed)
    BY <1>2
  <2>2. CASE i <= Len(out)
    <3>1. i \in 1..Len(out)
      BY <1>2, <2>2
    <3>2. out[i] = fed[i]
      BY <3>1 DEF IInv, Prefix
    <3> QED BY <1>3, <2>1, <2>2, <3>2
  <2>3. CASE ~(i <= Len(out))
    <3>1. PICK j : j = i - Len(out)
      OBVIOUS
    <3>2. j \in 1..Len(w) /\ Len(out) + j = i /\ 1 + j - 1 = j
      BY <1>2, <2>3, <3>1
    <3>3. w[1 + j - 1] = fed[Len(out) + j]
      BY <3>2 DEF Holds
    <3>4. w[j] = fed[i]
      BY <3>2, <3>3
    <3> QED BY <1>3, <2>1, <2>3, <3>1, <3>4
  <2> QED BY <2>2, <2>3
<1>5. ASSUME NEW i \in 1..k PROVE q + i <= Len(fed) /\ packet'[i - 1] = fed[q + i]
  <2>1. packet'[0 + i - 1] = fed[q + i]
    BY DEF Holds
  <2>2. 0 + i - 1 = i - 1 /\ q + i <= Len(fed)
    BY <1>2
  <2> QED BY <2>1, <2>2
<1>6. Prefix'
  BY <1>1, <1>3, <1>4, <1>5 DEF Prefix
<1>7. Calls(frames, packet, Kept, Len(out) + Kept)'
  <2>1. Len(out)' + Kept' = q + k
    BY <1>3
  <2> QED BY <2>1 DEF Calls, Ahead, ReadOn, Cuts, ByteOf
<1> QED BY <1>3, <1>6, <1>7 DEF IInv

\* What n more bytes make of the array.
LEMMA CopiedBytes ==
  ASSUME IInv, frames # <<>>, packet_len = Kept, NEW n \in 1..Top.len,
         Kept + n <= Capacity(which), NEW b, b = Copied(n)
  PROVE  /\ b \in Array
         /\ \A i \in Nat : Kept + n <= i /\ i < Capacity(which) => b[i] = packet[i]
         /\ \A i \in Nat : i < Kept => b[i] = packet[i]
         /\ Holds(b, 0, Len(out), Kept + n)
<1>1. /\ Kept \in Nat /\ Len(out) \in Nat /\ Len(fed) \in Nat
      /\ Kept < Capacity(which) /\ Capacity(which) \in Nat
      /\ Holds(packet, 0, Len(out), Kept)
  BY KeptBytes DEF IInv
<1>2. /\ Top.len \in Nat \ {0} /\ Unread \in Seq(Byte) /\ Len(Unread) = Top.len
      /\ Holds(Unread, 1, Len(out) + Kept, Top.len)
  BY Reading
<1>3. packet \in [0..(Capacity(which) - 1) -> Byte]
  BY DEF IInv, StateInv, Array
<1>4. /\ DOMAIN b = 0..(Capacity(which) - 1)
      /\ \A i \in 0..(Capacity(which) - 1) :
           b[i] = IF Kept <= i /\ i < Kept + n THEN Unread[i - Kept + 1] ELSE packet[i]
  BY <1>3 DEF Copied
<1>5. ASSUME NEW i \in 0..(Capacity(which) - 1) PROVE b[i] \in Byte
  <2>1. CASE Kept <= i /\ i < Kept + n
    <3>1. i - Kept + 1 \in 1..Len(Unread)
      BY <1>1, <1>2, <2>1
    <3>2. Unread[i - Kept + 1] \in Byte
      BY <1>2, <3>1
    <3> QED BY <1>4, <2>1, <3>2
  <2>2. CASE ~(Kept <= i /\ i < Kept + n)
    BY <1>3, <1>4, <2>2
  <2> QED BY <2>1, <2>2
<1>6. b \in Array
  <2>1. b = [i \in DOMAIN packet |-> b[i]]
    BY DEF Copied
  <2> QED BY <1>3, <1>5, <2>1 DEF Array
<1>7. ASSUME NEW k \in 1..(Kept + n) PROVE b[0 + k - 1] = fed[Len(out) + k]
  <2>1. PICK i : i = k - 1
    OBVIOUS
  <2>2. i \in 0..(Capacity(which) - 1) /\ 0 + k - 1 = i
    BY <1>1, <1>2, <2>1
  <2>3. CASE Kept <= i
    <3>1. PICK j : j = i - Kept + 1
      OBVIOUS
    <3>2. j \in 1..Top.len /\ i < Kept + n
      BY <1>1, <1>2, <2>1, <2>2, <2>3, <3>1
    <3>3. Unread[1 + j - 1] = fed[Len(out) + Kept + j]
      BY <1>2, <3>2 DEF Holds
    <3>4. 1 + j - 1 = j /\ Len(out) + Kept + j = Len(out) + k
      BY <1>1, <2>1, <3>1, <3>2
    <3>5. b[i] = Unread[j]
      BY <1>4, <2>2, <2>3, <3>1, <3>2
    <3> QED BY <2>2, <3>3, <3>4, <3>5
  <2>4. CASE ~(Kept <= i)
    <3>1. k \in 1..Kept
      BY <1>1, <2>1, <2>4
    <3>2. packet[0 + k - 1] = fed[Len(out) + k]
      BY <1>1, <3>1 DEF Holds
    <3> QED BY <1>4, <2>2, <2>4, <3>2
  <2> QED BY <2>3, <2>4
<1>8. ASSUME NEW i \in Nat, Kept + n <= i, i < Capacity(which) PROVE b[i] = packet[i]
  <2>1. i \in 0..(Capacity(which) - 1) /\ ~(i < Kept + n)
    BY <1>1, <1>2, <1>8
  <2> QED BY <1>4, <2>1
<1>9. ASSUME NEW i \in Nat, i < Kept PROVE b[i] = packet[i]
  <2>1. i \in 0..(Capacity(which) - 1) /\ ~(Kept <= i)
    BY <1>1, <1>2, <1>9
  <2> QED BY <1>4, <2>1
<1>10. Holds(b, 0, Len(out), Kept + n)
  BY <1>7 DEF Holds
<1> QED BY <1>6, <1>8, <1>9, <1>10

\* The part of the stream from position a on up to position b.
Part(a, b) == SubSeq(fed, a + 1, b)

\* The steps of the splitter, told by how much of the stream was passed on and kept.
Advances(n, m) ==
  /\ n = 0 \/ Kept = 0
  /\ Len(out') = Len(out) + n /\ Kept' = Kept + m
  /\ UNCHANGED <<fed, packets>>
Delivers(m) ==
  /\ Part(Len(out), Len(out) + Kept + m) \in Good
  /\ packets' = Append(packets, Part(Len(out), Len(out) + Kept + m))
  /\ Len(out') = Len(out) + Kept + m /\ Kept' = 0
  /\ UNCHANGED fed
Rejects(m, d) ==
  /\ d \in 1..(Kept + m)
  /\ Len(out') = Len(out) + d /\ Kept' = 0
  /\ UNCHANGED <<fed, packets>>

\* Steps within the stream.
Moves ==
  \/ \E n, m \in Nat : n + m > 0 /\ Len(out) + Kept + n + m <= Len(fed) /\ Advances(n, m)
  \/ \E m \in Nat : Kept + m > 0 /\ Len(out) + Kept + m <= Len(fed) /\ Delivers(m)
  \/ \E m \in Nat : Len(out) + Kept + m <= Len(fed) /\ \E d \in Nat : Rejects(m, d)

\* Nothing is kept and no start byte is found.
LEMMA NoStartStep ==
  ASSUME IInv, NEW first, NoStart(first), UNCHANGED which
  PROVE  IInv' /\ Moves
<1>1. /\ frames # <<>> /\ state = "BEFORE" /\ out' = out \o Unread
      /\ frames' = Consume(Top.len)
      /\ UNCHANGED <<state, packet, packet_len, input, fed, packets>>
  BY DEF NoStart, Running
<1>2. Kept = 0 /\ Kept' = 0
  BY <1>1 DEF Kept
<1>3. /\ Top.len \in Nat \ {0} /\ Unread \in Seq(Byte) /\ Len(Unread) = Top.len
      /\ Len(out) + Kept + Top.len <= Len(fed)
      /\ Holds(Unread, 1, Len(out) + Kept, Top.len)
  BY <1>1, Reading
<1>4. Len(out) \in Nat /\ Len(fed) \in Nat
  BY KeptBytes DEF IInv
<1>5. PICK q : q = Len(out) + Len(Unread)
  OBVIOUS
<1>6. Calls(frames', packet', 0, q + 0)
  <2>1. Top.len \in 1..Top.len /\ 0 <= Kept + Top.len
        /\ Len(out) + Kept + Top.len = q + 0
    BY <1>2, <1>3, <1>4, <1>5
  <2>2. \A i \in Nat : Kept + Top.len <= i /\ i < Capacity(which) => packet'[i] = packet[i]
    BY <1>1
  <2>3. Calls(frames', packet', 0, Len(out) + Kept + Top.len)
    BY <1>1, <2>1, <2>2, Consumed
  <2> QED BY <2>1, <2>3
<1>7. StateInv'
  BY <1>1 DEF IInv, StateInv, Array
<1>8. GoodInv'
  BY <1>1 DEF IInv, GoodInv
<1>9. Holds(packet', 0, q, 0)
  BY DEF Holds
<1>10. q + 0 <= Len(fed) /\ Len(out) + Kept = Len(out)
  BY <1>2, <1>3, <1>4, <1>5
<1>11. IInv' /\ Len(out') = q
  BY <1>1, <1>2, <1>3, <1>5, <1>6, <1>7, <1>8, <1>9, <1>10, Assembled
<1>12. Advances(Top.len, 0)
  BY <1>1, <1>2, <1>3, <1>5, <1>11 DEF Advances
<1>13. Top.len + 0 > 0 /\ Len(out) + Kept + Top.len + 0 <= Len(fed) /\ Top.len \in Nat
  BY <1>2, <1>3, <1>4
<1> QED BY <1>11, <1>12, <1>13 DEF Moves

\* A start byte is found behind l bytes that start nothing.
LEMMA FoundStep ==
  ASSUME IInv, NEW first, NEW next, NEW len, NEW l \in 0..(Top.len - 1),
         Found(first, l, 1, next, len), UNCHANGED which, len \in 0..Capacity(which),
         next \in {"LEN", "PREAMBLE"} \/ (next = "HEADER" /\ len = 1)
  PROVE  IInv' /\ Moves
<1>1. /\ frames # <<>> /\ state = "BEFORE" /\ Unread[l + 1] = first
      /\ out' = out \o SubSeq(Unread, 1, l)
      /\ frames' = Consume(l + 1)
      /\ packet' = [packet EXCEPT ![0] = first] /\ packet_len' = len /\ state' = next
      /\ UNCHANGED <<input, fed, packets>>
  BY DEF Found, Running
<1>2. Kept = 0 /\ Kept' = 1
  BY <1>1 DEF Kept
<1>3. /\ Top.len \in Nat \ {0} /\ Unread \in Seq(Byte) /\ Len(Unread) = Top.len
      /\ Len(out) + Kept + Top.len <= Len(fed)
      /\ Holds(Unread, 1, Len(out) + Kept, Top.len)
  BY <1>1, Reading
<1>4. Len(out) \in Nat /\ Len(fed) \in Nat /\ Capacity(which) \in Nat /\ Kept < Capacity(which)
  BY KeptBytes DEF IInv
<1>5. PICK w : w = SubSeq(Unread, 1, l)
  OBVIOUS
<1>6. w \in Seq(Byte) /\ Len(w) = l /\ \A i \in 1..l : w[i] = Unread[i]
  BY <1>3, <1>5
<1>7. l \in Nat /\ l + 1 \in 1..Top.len /\ Len(out) + Kept = Len(out)
  BY <1>2, <1>3, <1>4
<1>8. Holds(w, 1, Len(out), Len(w))
  <2>1. ASSUME NEW k \in 1..l PROVE w[1 + k - 1] = fed[Len(out) + k]
    <3>1. k \in 1..Top.len /\ 1 + k - 1 = k
      BY <1>3, <1>7
    <3>2. Unread[1 + k - 1] = fed[Len(out) + Kept + k]
      BY <1>3, <3>1 DEF Holds
    <3> QED BY <1>6, <1>7, <3>1, <3>2
  <2> QED BY <1>6, <2>1 DEF Holds
<1>9. PICK q : q = Len(out) + Len(w)
  OBVIOUS
<1>10. q = Len(out) + l /\ q + 1 <= Len(fed)
  BY <1>3, <1>4, <1>6, <1>7, <1>9
<1>11. first = fed[q + 1] /\ first \in Byte
  <2>1. Unread[1 + (l + 1) - 1] = fed[Len(out) + Kept + (l + 1)]
    BY <1>3, <1>7 DEF Holds
  <2>2. 1 + (l + 1) - 1 = l + 1 /\ Len(out) + Kept + (l + 1) = q + 1
    BY <1>2, <1>4, <1>7, <1>10
  <2>3. Unread[l + 1] \in Byte
    BY <1>3, <1>7
  <2> QED BY <1>1, <2>1, <2>2, <2>3
<1>12. packet' \in Array /\ packet'[0] = first /\ \A i \in Nat : i >= 1 => packet'[i] = packet[i]
  BY <1>1, <1>2, <1>4, <1>11 DEF IInv, StateInv, Array
<1>13. Holds(packet', 0, q, 1)
  <2>1. ASSUME NEW k \in 1..1 PROVE packet'[0 + k - 1] = fed[q + k]
    <3>1. k = 1 /\ 0 + k - 1 = 0
      OBVIOUS
    <3> QED BY <1>11, <1>12, <3>1
  <2> QED BY <2>1 DEF Holds
<1>14. Calls(frames', packet', 1, q + 1)
  <2>1. \A i \in Nat : Kept + (l + 1) <= i /\ i < Capacity(which) => packet'[i] = packet[i]
    BY <1>2, <1>7, <1>12
  <2>2. 1 <= Kept + (l + 1) /\ Len(out) + Kept + (l + 1) = q + 1
    BY <1>2, <1>4, <1>7, <1>10
  <2>3. Calls(frames', packet', 1, Len(out) + Kept + (l + 1))
    BY <1>1, <1>7, <2>1, <2>2, Consumed
  <2> QED BY <2>2, <2>3
<1>15. StateInv'
  <2>1. HeadLen \in Nat /\ HeadLen >= 2
    BY Sizes DEF IInv, StateInv
  <2>2. HeadLen' = HeadLen /\ Capacity(which)' = Capacity(which) /\ which' = which
    BY DEF HeadLen, Capacity
  <2>3. Array' = Array
    BY DEF Array, Capacity
  <2> QED BY <1>1, <1>12, <2>1, <2>2, <2>3 DEF IInv, StateInv
<1>16. GoodInv'
  BY <1>1 DEF IInv, GoodInv
<1>17. IInv' /\ Len(out') = q
  BY <1>1, <1>2, <1>5, <1>6, <1>8, <1>9, <1>10, <1>13, <1>14, <1>15, <1>16, Assembled
<1>18. Advances(l, 1)
  BY <1>1, <1>2, <1>10, <1>17 DEF Advances
<1>19. l + 1 > 0 /\ Len(out) + Kept + l + 1 <= Len(fed)
  BY <1>2, <1>4, <1>7, <1>10
<1> QED BY <1>7, <1>17, <1>18, <1>19 DEF Moves

\* n more bytes are kept.
LEMMA KeepStep ==
  ASSUME IInv, frames # <<>>, NEW n \in 1..Top.len, frames' = Consume(n),
         UNCHANGED <<which, input, fed, out, packets>>, StateInv',
         \A i \in Nat : Kept + n <= i /\ i < Capacity(which) => packet'[i] = packet[i],
         Holds(packet', 0, Len(out), Kept + n), Kept' = Kept + n
  PROVE  IInv' /\ Moves
<1>1. /\ Top.len \in Nat \ {0} /\ Len(out) + Kept + Top.len <= Len(fed)
  BY Reading
<1>2. Len(out) \in Nat /\ Len(fed) \in Nat /\ Kept \in Nat
  BY KeptBytes DEF IInv
<1>3. PICK k \in Nat : k = Kept + n
  BY <1>1, <1>2
<1>4. n \in Nat /\ Len(out) + Kept + n = Len(out) + k /\ Len(out) + k <= Len(fed)
  BY <1>1, <1>2, <1>3
<1>5. Calls(frames', packet', k, Len(out) + k)
  <2>1. Calls(frames', packet', k, Len(out) + Kept + n)
    BY <1>3, Consumed
  <2> QED BY <1>4, <2>1
<1>6. PICK w : w = <<>>
  OBVIOUS
<1>7. w \in Seq(Byte) /\ out' = out \o w /\ Len(w) = 0 /\ Len(out) = Len(out) + Len(w)
  <2>1. out \in Seq(Byte)
    BY DEF IInv, Prefix
  <2>2. out \o <<>> = out
    BY <2>1, ConcatEmptySeq
  <2> QED BY <1>2, <1>6, <2>2
<1>8. Holds(w, 1, Len(out), Len(w))
  BY <1>7 DEF Holds
<1>9. GoodInv'
  BY DEF IInv, GoodInv
<1>10. IInv' /\ Len(out') = Len(out)
  BY <1>3, <1>4, <1>5, <1>7, <1>8, <1>9, Assembled
<1>11. Advances(0, n)
  BY <1>2, <1>10 DEF Advances
<1>12. 0 + n > 0 /\ Len(out) + Kept + 0 + n <= Len(fed)
  BY <1>1, <1>2, <1>4
<1> QED BY <1>4, <1>10, <1>11, <1>12 DEF Moves

\* The second byte of a packet: all of a Mavlink header, but not all of a UBX header.
LEMMA SecondByteStep ==
  ASSUME IInv, frames # <<>>, Kept = 1, frames' = Consume(1),
         packet' = [packet EXCEPT ![1] = Unread[1]], packet_len' = 2,
         \/ state' = "LOAD" /\ HeadLen = 2
         \/ state' = "HEADER" /\ HeadLen > 2,
         UNCHANGED <<which, input, fed, out, packets>>
  PROVE  IInv' /\ Moves
<1>1. /\ Top.len \in Nat \ {0} /\ Unread \in Seq(Byte) /\ Len(Unread) = Top.len
      /\ Holds(Unread, 1, Len(out) + Kept, Top.len)
  BY Reading
<1>2. /\ Len(out) \in Nat /\ Len(fed) \in Nat /\ Capacity(which) \in Nat
      /\ Holds(packet, 0, Len(out), Kept)
  BY KeptBytes DEF IInv
<1>3. /\ which \in Protocols /\ which' \in Protocols /\ packet \in [0..(Capacity(which) - 1) -> Byte]
      /\ Capacity(which)' = Capacity(which) /\ HeadLen' = HeadLen /\ Array' = Array
  BY DEF IInv, StateInv, Array, HeadLen, Capacity
<1>4. /\ HeadLen \in Nat /\ HeadLen >= 2 /\ HeadLen < Size /\ Size \in Nat /\ Size <= Capacity(which)
  BY Sizes DEF IInv, StateInv
<1>5. 1 \in 1..Top.len /\ 1 \in 1..Len(Unread)
  BY <1>1
<1>6. Unread[1] \in Byte /\ Unread[1] = fed[Len(out) + 2]
  <2>1. Unread[1 + 1 - 1] = fed[Len(out) + Kept + 1]
    BY <1>1, <1>5 DEF Holds
  <2>2. 1 + 1 - 1 = 1 /\ Len(out) + Kept + 1 = Len(out) + 2
    BY <1>2
  <2> QED BY <1>1, <1>5, <2>1, <2>2
<1>7. /\ packet' \in Array /\ packet'[1] = Unread[1] /\ packet'[0] = packet[0]
      /\ \A i \in Nat : i >= 2 => packet'[i] = packet[i]
  <2>1. 1 \in 0..(Capacity(which) - 1) /\ 0 \in 0..(Capacity(which) - 1)
    BY <1>2, <1>4
  <2> QED BY <1>3, <1>6, <2>1 DEF Array
<1>8. Holds(packet', 0, Len(out), Kept + 1)
  <2>1. ASSUME NEW k \in 1..(Kept + 1) PROVE packet'[0 + k - 1] = fed[Len(out) + k]
    <3>1. CASE k = 1
      <4>1. packet[0 + 1 - 1] = fed[Len(out) + 1]
        BY <1>2 DEF Holds
      <4>2. 0 + 1 - 1 = 0
        OBVIOUS
      <4> QED BY <1>7, <3>1, <4>1, <4>2
    <3>2. CASE k = 2
      <4>1. 0 + 2 - 1 = 1
        OBVIOUS
      <4> QED BY <1>6, <1>7, <3>2, <4>1
    <3> QED BY <3>1, <3>2
  <2> QED BY <2>1 DEF Holds
<1>10. StateInv'
  <2>1. HeadLen < Size' /\ Size' \in Nat
    BY <1>3, <1>7, SizesNext
  <2>2. packet_len' \in 0..Capacity(which)'
    BY <1>2, <1>3, <1>4
  <2>3. state' = "HEADER" => packet_len' \in 1..(HeadLen' - 1)
    BY <1>3, <1>4
  <2>4. state' = "LOAD" => packet_len' \in HeadLen'..(Size' - 1)
    <3>1. PICK z \in Nat : z = Size'
      BY <2>1
    <3>2. PICK h \in Nat : h = HeadLen' /\ h < z
      BY <1>3, <1>4, <2>1, <3>1
    <3>3. ASSUME state' = "LOAD" PROVE packet_len' = h
      BY <1>3, <3>2, <3>3
    <3>4. state' = "LOAD" => packet_len' \in h..(z - 1)
      BY <3>2, <3>3
    <3> QED BY <3>1, <3>2, <3>4
  <2>5. packet' \in Array' /\ state' \in {"BEFORE", "LEN", "PREAMBLE", "HEADER", "LOAD"}
    BY <1>3, <1>7
  <2> QED BY <1>3, <2>2, <2>3, <2>4, <2>5 DEF StateInv
<1>11. Kept' = Kept + 1
  BY DEF Kept
<1>12. \A i \in Nat : Kept + 1 <= i /\ i < Capacity(which) => packet'[i] = packet[i]
  BY <1>7
<1> QED BY <1>5, <1>8, <1>10, <1>11, <1>12, KeepStep

LEMMA Below == \A a, b \in Nat : a < b => a \in a..(b - 1)
OBVIOUS

HeaderKept == \A i \in 0..(HeadLen - 1) : packet'[i] = packet[i]

\* A packet goes on as long as the header says.
LEMMA StateNext ==
  ASSUME StateInv, UNCHANGED which, packet' \in Array, packet_len' \in 0..Capacity(which),
         state' \in {"BEFORE", "LEN", "PREAMBLE", "HEADER", "LOAD"},
         state' = "HEADER" => packet_len' \in 1..(HeadLen - 1),
         state' = "LOAD" =>
           \/ packet_len' = HeadLen
           \/ packet_len' \in HeadLen..(Size - 1) /\ HeaderKept
  PROVE  StateInv'
<1>1. /\ which \in Protocols /\ which' \in Protocols /\ packet \in Array
      /\ Capacity(which)' = Capacity(which) /\ HeadLen' = HeadLen /\ Array' = Array
  BY DEF StateInv, Array, HeadLen, Capacity
<1>2. HeadLen \in Nat /\ Size \in Nat
  BY <1>1, Sizes
<1>3. HeadLen' < Size' /\ Size' \in Nat
  BY <1>1, SizesNext
<1>4. ASSUME state' = "LOAD" PROVE packet_len' \in HeadLen'..(Size' - 1)
  <2>1. PICK z \in Nat : z = Size' /\ HeadLen < z
    BY <1>1, <1>3
  <2>2. CASE packet_len' = HeadLen
    <3>1. PICK h \in Nat : h = HeadLen /\ h < z
      BY <1>2, <2>1
    <3>2. h \in h..(z - 1)
      BY <3>1, Below
    <3> QED BY <1>1, <2>1, <2>2, <3>1, <3>2
  <2>3. CASE packet_len' \in HeadLen..(Size - 1) /\ HeaderKept
    <3>1. Size' = Size
      BY <1>1, <2>3, SizeSame DEF HeaderKept
    <3> QED BY <1>1, <2>3, <3>1
  <2> QED BY <1>4, <2>2, <2>3
<1> QED BY <1>1, <1>4 DEF StateInv

\* More bytes of a header or of the packet behind it.
LEMMA CopyStep ==
  ASSUME IInv, frames # <<>>, UNCHANGED which, NEW size, Copy(size, "LOAD"),
         \/ state = "HEADER" /\ size = HeadLen
         \/ state = "LOAD" /\ size = Size /\ Top.len < size - packet_len
  PROVE  IInv' /\ Moves
<1>1. /\ packet' = Copied(CopyLen(size)) /\ packet_len' = packet_len + CopyLen(size)
      /\ frames' = Consume(CopyLen(size))
      /\ state' = IF packet_len' = size THEN "LOAD" ELSE state
      /\ UNCHANGED <<which, input, fed, out, packets>>
  BY DEF Copy
<1>2. Top.len \in Nat \ {0}
  BY Reading
<1>3. /\ StateInv /\ Kept = packet_len /\ Kept \in Nat /\ Capacity(which) \in Nat
  BY KeptBytes DEF Kept, IInv
<1>4. /\ HeadLen \in Nat /\ HeadLen >= 2 /\ Size \in Nat /\ HeadLen < Size /\ Size <= Capacity(which)
  BY <1>3, Sizes DEF StateInv
<1>5. /\ state = "HEADER" => packet_len \in 1..(HeadLen - 1)
      /\ state = "LOAD" => packet_len \in HeadLen..(Size - 1)
  BY <1>3 DEF StateInv
<1>6. PICK n : n = CopyLen(size)
  OBVIOUS
<1>7. /\ n \in 1..Top.len /\ Kept + n <= size /\ size \in Nat /\ size <= Capacity(which)
      /\ Kept + n <= Capacity(which)
      /\ state = "LOAD" => Kept + n < size
  BY <1>2, <1>3, <1>4, <1>5, <1>6 DEF CopyLen
<1>8. /\ packet' \in Array
      /\ \A i \in Nat : Kept + n <= i /\ i < Capacity(which) => packet'[i] = packet[i]
      /\ \A i \in Nat : i < Kept => packet'[i] = packet[i]
      /\ Holds(packet', 0, Len(out), Kept + n)
  BY <1>1, <1>3, <1>6, <1>7, CopiedBytes
<1>9. packet_len' = Kept + n /\ Kept + n \in Nat /\ Kept + n >= 1
  BY <1>1, <1>3, <1>6, <1>7
<1>10. StateInv'
  <2>1. packet_len' \in 0..Capacity(which)
    BY <1>7, <1>9, <1>3
  <2>2. CASE state = "HEADER"
    <3>1. packet_len' = HeadLen \/ packet_len' \in 1..(HeadLen - 1)
      BY <1>4, <1>7, <1>9, <2>2
    <3>2. \/ state' = "LOAD" /\ packet_len' = HeadLen
          \/ state' = "HEADER" /\ packet_len' \in 1..(HeadLen - 1)
      BY <1>1, <1>4, <2>2, <3>1
    <3> QED BY <1>1, <1>3, <1>8, <2>1, <3>2, StateNext
  <2>3. CASE state = "LOAD"
    <3>1. state' = "LOAD" /\ packet_len' \in HeadLen..(Size - 1)
      BY <1>1, <1>3, <1>4, <1>5, <1>7, <1>9, <2>3
    <3>2. HeaderKept
      <4>1. \A i \in 0..(HeadLen - 1) : i \in Nat /\ i < Kept
        BY <1>3, <1>4, <1>5, <2>3
      <4> QED BY <1>8, <4>1 DEF HeaderKept
    <3> QED BY <1>1, <1>3, <1>8, <2>1, <3>1, <3>2, StateNext
  <2> QED BY <2>2, <2>3
<1>11. Kept' = Kept + n
  BY <1>1, <1>9 DEF Kept
<1> QED BY <1>1, <1>6, <1>7, <1>8, <1>10, <1>11, KeepStep

LEMMA PartIs ==
  ASSUME fed \in Seq(Byte), NEW w \in Seq(Byte), NEW q \in Nat, q + Len(w) <= Len(fed),
         Holds(w, 1, q, Len(w))
  PROVE  w = Part(q, q + Len(w))
<1>1. PICK n \in Nat : n = Len(w)
  OBVIOUS
<1>2. Len(fed) \in Nat
  OBVIOUS
<1>3. PICK p : p = Part(q, q + n)
  OBVIOUS
<1>4. p = SubSeq(fed, q + 1, q + n)
  BY <1>3 DEF Part
<1>5. \A i \in (q + 1)..(q + n) : fed[i] \in Byte
  <2>1. \A i \in (q + 1)..(q + n) : i \in 1..Len(fed)
    BY <1>1, <1>2
  <2> QED BY <2>1
<1>6. p \in Seq(Byte) /\ Len(p) = n /\ \A i \in 1..n : p[i] = fed[q + i]
  <2>1. PICK a, b \in Int : a = q + 1 /\ b = q + n
    BY <1>1
  <2>2. /\ SubSeq(fed, a, b) \in Seq(Byte)
        /\ Len(SubSeq(fed, a, b)) = IF a <= b THEN b - a + 1 ELSE 0
        /\ \A i \in 1..(b - a + 1) : SubSeq(fed, a, b)[i] = fed[a + i - 1]
    BY <1>5, <2>1, SubSeqProperties
  <2>3. b - a + 1 = n /\ (a <= b \/ n = 0) /\ \A i \in Int : a + i - 1 = q + i
    BY <1>1, <2>1
  <2> QED BY <1>1, <1>4, <2>1, <2>2, <2>3
<1>7. ASSUME NEW i \in 1..n PROVE w[i] = fed[q + i]
  <2>1. w[1 + i - 1] = fed[q + i]
    BY <1>1 DEF Holds
  <2>2. 1 + i - 1 = i
    OBVIOUS
  <2> QED BY <2>1, <2>2
<1>8. w = p
  BY <1>1, <1>6, <1>7
<1> QED BY <1>1, <1>3, <1>8

\* The bytes of a packet that has become complete.
LEMMA CompleteBytes ==
  ASSUME IInv, Complete(Size)
  PROVE  /\ frames # <<>> /\ Kept = packet_len /\ Size \in Nat /\ Size > 2 /\ Size <= Capacity(which)
         /\ Size - packet_len \in 1..Top.len /\ Kept + (Size - packet_len) = Size
         /\ Len(out) + Kept + (Size - packet_len) = Len(out) + Size
         /\ Len(out) + Size <= Len(fed)
         /\ Copied(Size - packet_len) \in Array
         /\ \A i \in Nat : Size <= i /\ i < Capacity(which) =>
              Copied(Size - packet_len)[i] = packet[i]
         /\ Holds(Copied(Size - packet_len), 0, Len(out), Size)
         /\ Whole(Size) \in Seq(Byte) /\ Len(Whole(Size)) = Size
         /\ Holds(Whole(Size), 1, Len(out), Size)
<1>1. frames # <<>> /\ state = "LOAD" /\ Top.len >= Size - packet_len
  BY DEF Complete, Running
<1>2. Top.len \in Nat \ {0} /\ Len(out) + Kept + Top.len <= Len(fed)
  BY <1>1, Reading
<1>3. /\ StateInv /\ Kept = packet_len /\ Kept \in Nat /\ Capacity(which) \in Nat
      /\ Len(out) \in Nat /\ Len(fed) \in Nat
  BY <1>1, KeptBytes DEF Kept, IInv
<1>4. /\ HeadLen \in Nat /\ HeadLen >= 2 /\ Size \in Nat /\ HeadLen < Size /\ Size <= Capacity(which)
  BY <1>3, Sizes DEF StateInv
<1>5. packet_len \in HeadLen..(Size - 1)
  BY <1>1, <1>3 DEF StateInv
<1>6. PICK n : n = Size - packet_len
  OBVIOUS
<1>7. PICK s \in Nat : s = Size /\ s > 2 /\ s <= Capacity(which)
  BY <1>4
<1>8. n \in 1..Top.len /\ Kept + n = s
  BY <1>1, <1>2, <1>3, <1>4, <1>5, <1>6, <1>7
<1>9. Len(out) + Kept + n = Len(out) + s /\ Len(out) + s <= Len(fed)
  BY <1>2, <1>3, <1>8
<1>10. PICK b : b = Copied(n)
  OBVIOUS
<1>11. /\ b \in Array
       /\ \A i \in Nat : s <= i /\ i < Capacity(which) => b[i] = packet[i]
       /\ Holds(b, 0, Len(out), s)
  <2>1. Kept + n <= Capacity(which)
    BY <1>7, <1>8
  <2>2. /\ b \in Array
        /\ \A i \in Nat : Kept + n <= i /\ i < Capacity(which) => b[i] = packet[i]
        /\ Holds(b, 0, Len(out), Kept + n)
    BY <1>1, <1>3, <1>8, <1>10, <2>1, CopiedBytes
  <2> QED BY <1>8, <2>2
<1>12. PICK w : w = Whole(Size)
  OBVIOUS
<1>13. w = [i \in 1..s |-> b[i - 1]]
  BY <1>6, <1>7, <1>10, <1>12 DEF Whole
<1>14. w \in Seq(Byte) /\ Len(w) = s
  <2>1. ASSUME NEW i \in 1..s PROVE b[i - 1] \in Byte
    <3>1. i - 1 \in 0..(Capacity(which) - 1)
      BY <1>3, <1>7
    <3> QED BY <1>11, <3>1 DEF Array
  <2> QED BY <1>7, <1>13, <2>1
<1>15. Holds(w, 1, Len(out), s)
  <2>1. ASSUME NEW k \in 1..s PROVE w[1 + k - 1] = fed[Len(out) + k]
    <3>1. b[0 + k - 1] = fed[Len(out) + k]
      BY <1>11 DEF Holds
    <3>2. 1 + k - 1 = k /\ 0 + k - 1 = k - 1
      BY <1>7
    <3> QED BY <1>13, <3>1, <3>2
  <2> QED BY <2>1 DEF Holds
<1> QED BY <1>1, <1>3, <1>6, <1>7, <1>8, <1>9, <1>10, <1>11, <1>12, <1>14, <1>15

\* A good packet leaves whole.
LEMMA GoodStep ==
  ASSUME IInv, UNCHANGED which, LoadGood(Size)
  PROVE  IInv' /\ Moves
<1>1. /\ Complete(Size) /\ Whole(Size) \in Good
      /\ packet' = Copied(Size - packet_len) /\ packet_len' = Size /\ state' = "BEFORE"
      /\ frames' = Consume(Size - packet_len)
      /\ out' = out \o Whole(Size) /\ packets' = Append(packets, Whole(Size))
      /\ UNCHANGED <<input, fed>>
  BY DEF LoadGood
<1>2. PICK s \in Nat : s = Size /\ s <= Capacity(which)
  BY <1>1, CompleteBytes
<1>3. PICK n : n = s - packet_len
  OBVIOUS
<1>4. PICK w : w = Whole(s)
  OBVIOUS
<1>5. /\ frames # <<>> /\ n \in 1..Top.len /\ Kept + n = s
      /\ Len(out) + Kept + n = Len(out) + s /\ Len(out) + s <= Len(fed)
      /\ packet' \in Array
      /\ \A i \in Nat : s <= i /\ i < Capacity(which) => packet'[i] = packet[i]
      /\ w \in Seq(Byte) /\ Len(w) = s /\ Holds(w, 1, Len(out), s)
  BY <1>1, <1>2, <1>3, <1>4, CompleteBytes
<1>6. Kept' = 0
  BY <1>1 DEF Kept
<1>7. Len(out) \in Nat /\ Kept \in Nat /\ Capacity(which) \in Nat
  BY KeptBytes DEF IInv
<1>8. Calls(frames', packet', 0, Len(out) + s)
  <2>1. \A i \in Nat : Kept + n <= i /\ i < Capacity(which) => packet'[i] = packet[i]
    BY <1>5
  <2>2. 0 <= Kept + n /\ frames' = Consume(n)
    BY <1>1, <1>2, <1>3, <1>5
  <2>3. Calls(frames', packet', 0, Len(out) + Kept + n)
    BY <1>5, <2>1, <2>2, Consumed
  <2> QED BY <1>5, <2>3
<1>9. StateInv'
  <2>1. packet_len' \in 0..Capacity(which)
    BY <1>1, <1>2, <1>7
  <2> QED BY <1>1, <1>5, <2>1, StateNext DEF IInv
<1>10. GoodInv'
  <2>1. packets \in Seq(Seq(Byte)) /\ \A i \in 1..Len(packets) : packets[i] \in Good
    BY DEF IInv, GoodInv
  <2>2. packets' = Append(packets, w) /\ w \in Good /\ w \in Seq(Byte)
    BY <1>1, <1>2, <1>4, <1>5
  <2>3. packets' \in Seq(Seq(Byte))
    BY <2>1, <2>2
  <2>4. Len(packets) \in Nat /\ Len(packets') = Len(packets) + 1
    BY <2>1, <2>2
  <2>5. ASSUME NEW i \in 1..Len(packets') PROVE packets'[i] \in Good
    <3>1. packets'[i] = IF i = Len(packets) + 1 THEN w ELSE packets[i]
      BY <2>1, <2>2, <2>4
    <3>2. i # Len(packets) + 1 => i \in 1..Len(packets)
      BY <2>4
    <3> QED BY <2>1, <2>2, <3>1, <3>2
  <2> QED BY <2>3, <2>5 DEF GoodInv
<1>11. PICK q : q = Len(out) + Len(w)
  OBVIOUS
<1>12. q = Len(out) + s /\ q + 0 = q /\ q + 0 <= Len(fed)
  BY <1>5, <1>7, <1>11
<1>13. Holds(packet', 0, q, 0)
  BY DEF Holds
<1>14. IInv' /\ Len(out') = q
  BY <1>1, <1>2, <1>4, <1>5, <1>6, <1>8, <1>9, <1>10, <1>11, <1>12, <1>13, Assembled
<1>15. w = Part(Len(out), Len(out) + Kept + n)
  <2>1. fed \in Seq(Byte)
    BY DEF IInv, Prefix
  <2> QED BY <1>5, <1>7, <2>1, PartIs
<1>16. Delivers(n)
  BY <1>1, <1>2, <1>4, <1>5, <1>6, <1>12, <1>14, <1>15 DEF Delivers
<1>17. n \in Nat /\ Kept + n > 0 /\ Len(out) + Kept + n <= Len(fed)
  <2>1. Top.len \in Nat
    BY <1>5, Reading
  <2> QED BY <1>5, <1>7, <2>1
<1> QED BY <1>14, <1>16, <1>17 DEF Moves

\* The first bytes of a bad packet leave, the others are read again.
LEMMA BadStep ==
  ASSUME IInv, UNCHANGED which, NEW d \in {1, 2}, LoadBad(Size, d, d, Size - d)
  PROVE  IInv' /\ Moves
<1>1. /\ Complete(Size)
      /\ packet' = Copied(Size - packet_len) /\ packet_len' = Size /\ state' = "BEFORE"
      /\ frames' = Nested(d, Size - d, Consume(Size - packet_len))
      /\ out' = out \o SubSeq(Whole(Size), 1, d)
      /\ UNCHANGED <<input, fed, packets>>
  BY DEF LoadBad
<1>2. PICK s \in Nat : s = Size /\ s > 2 /\ s <= Capacity(which)
  BY <1>1, CompleteBytes
<1>3. PICK n : n = s - packet_len
  OBVIOUS
<1>4. PICK v : v = Whole(s)
  OBVIOUS
<1>5. /\ frames # <<>> /\ n \in 1..Top.len /\ Kept + n = s
      /\ Len(out) + Kept + n = Len(out) + s /\ Len(out) + s <= Len(fed)
      /\ packet' \in Array
      /\ \A i \in Nat : s <= i /\ i < Capacity(which) => packet'[i] = packet[i]
      /\ Holds(packet', 0, Len(out), s)
      /\ v \in Seq(Byte) /\ Len(v) = s /\ Holds(v, 1, Len(out), s)
  BY <1>1, <1>2, <1>3, <1>4, CompleteBytes
<1>6. Kept' = 0
  BY <1>1 DEF Kept
<1>7. Len(out) \in Nat /\ Kept \in Nat /\ Capacity(which) \in Nat /\ Len(fed) \in Nat
  BY KeptBytes DEF IInv
<1>8. PICK r : r = Consume(n)
  OBVIOUS
<1>9. PICK e \in Nat \ {0} : e = s - d
  BY <1>2
<1>10. d \in Nat \ {0} /\ d + e = s
  BY <1>2, <1>9
<1>11. PICK q \in Nat : q = Len(out) + d
  BY <1>7
<1>12. q + e = Len(out) + s /\ q + e <= Len(fed)
  BY <1>5, <1>7, <1>10, <1>11
<1>13. Calls(r, packet', s, Len(out) + s)
  <2>1. \A i \in Nat : Kept + n <= i /\ i < Capacity(which) => packet'[i] = packet[i]
    BY <1>5
  <2>2. s <= Kept + n
    BY <1>2, <1>5
  <2>3. Calls(r, packet', s, Len(out) + Kept + n)
    BY <1>2, <1>5, <1>8, <2>1, <2>2, Consumed
  <2> QED BY <1>5, <2>3
<1>14. Holds(packet', d, q, e)
  <2>1. ASSUME NEW k \in 1..e PROVE packet'[d + k - 1] = fed[q + k]
    <3>1. PICK j : j = d + k
      OBVIOUS
    <3>2. j \in 1..s /\ 0 + j - 1 = d + k - 1 /\ Len(out) + j = q + k
      BY <1>2, <1>7, <1>9, <1>10, <1>11, <3>1
    <3>3. packet'[0 + j - 1] = fed[Len(out) + j]
      BY <1>5, <3>2 DEF Holds
    <3> QED BY <3>2, <3>3
  <2> QED BY <2>1 DEF Holds
<1>15. Calls(frames', packet', 0, q)
  <2>1. fed \in Seq(Byte)
    BY DEF IInv, Prefix
  <2>2. Calls(r, packet', d + e, q + e)
    BY <1>10, <1>12, <1>13
  <2>3. d + e <= Capacity(which)
    BY <1>2, <1>10
  <2>4. frames' = Nested(d, e, r)
    BY <1>1, <1>2, <1>3, <1>8, <1>9
  <2> QED BY <1>7, <1>10, <1>12, <1>14, <2>1, <2>2, <2>3, <2>4, NestedCalls
<1>16. StateInv'
  <2>1. packet_len' \in 0..Capacity(which)
    BY <1>1, <1>2, <1>7
  <2> QED BY <1>1, <1>5, <2>1, StateNext DEF IInv
<1>17. GoodInv'
  BY <1>1 DEF IInv, GoodInv
<1>18. PICK w : w = SubSeq(v, 1, d)
  OBVIOUS
<1>19. d <= s
  BY <1>9, <1>10
<1>20. w \in Seq(Byte) /\ Len(w) = d /\ \A i \in 1..d : w[i] = v[i]
  BY <1>5, <1>10, <1>18, <1>19
<1>21. Holds(w, 1, Len(out), Len(w))
  <2>1. ASSUME NEW k \in 1..d PROVE w[1 + k - 1] = fed[Len(out) + k]
    <3>1. k \in 1..s /\ 1 + k - 1 = k
      BY <1>2, <1>10, <1>19
    <3>2. v[1 + k - 1] = fed[Len(out) + k]
      BY <1>5, <3>1 DEF Holds
    <3> QED BY <1>20, <3>1, <3>2
  <2> QED BY <1>20, <2>1 DEF Holds
<1>22. q = Len(out) + Len(w) /\ q + 0 = q /\ q + 0 <= Len(fed)
  BY <1>7, <1>11, <1>12, <1>20
<1>23. Holds(packet', 0, q, 0)
  BY DEF Holds
<1>24. out' = out \o w
  BY <1>1, <1>2, <1>4, <1>18
<1>25. IInv' /\ Len(out') = q
  BY <1>1, <1>6, <1>15, <1>16, <1>17, <1>20, <1>21, <1>22, <1>23, <1>24, Assembled
<1>26. n \in Nat /\ Len(out) + Kept + n <= Len(fed)
  <2>1. Top.len \in Nat
    BY <1>5, Reading
  <2> QED BY <1>5, <2>1
<1>27. Rejects(n, d)
  BY <1>1, <1>5, <1>6, <1>10, <1>11, <1>19, <1>25 DEF Rejects
<1> QED BY <1>10, <1>25, <1>26, <1>27 DEF Moves

\* The first byte of a preamble leaves, and nothing is read.
LEMMA NoPreambleStep ==
  ASSUME IInv, UNCHANGED which, UbxNoPreamble
  PROVE  IInv' /\ Moves
<1>1. /\ frames # <<>> /\ state = "PREAMBLE" /\ state' = "BEFORE"
      /\ out' = Append(out, packet[0])
      /\ UNCHANGED <<packet, packet_len, input, frames, fed, packets>>
  BY DEF UbxNoPreamble, Running
<1>2. Kept = 1 /\ Kept' = 0
  BY <1>1 DEF Kept
<1>3. /\ Len(out) \in Nat /\ Len(fed) \in Nat /\ Capacity(which) \in Nat /\ Kept < Capacity(which)
      /\ Len(out) + Kept <= Len(fed) /\ Holds(packet, 0, Len(out), Kept)
  BY KeptBytes DEF IInv
<1>4. packet[0] \in Byte /\ packet[0] = fed[Len(out) + 1]
  <2>1. packet[0 + 1 - 1] = fed[Len(out) + 1]
    BY <1>2, <1>3 DEF Holds
  <2>2. 0 + 1 - 1 = 0 /\ 0 \in 0..(Capacity(which) - 1)
    BY <1>2, <1>3
  <2> QED BY <2>1, <2>2 DEF IInv, StateInv, Array
<1>5. PICK w : w = <<packet[0]>>
  OBVIOUS
<1>6. w \in Seq(Byte) /\ Len(w) = 1 /\ w[1] = packet[0]
  BY <1>4, <1>5
<1>7. out' = out \o w
  <2>1. out \in Seq(Byte)
    BY DEF IInv, Prefix
  <2> QED BY <1>1, <1>4, <1>5, <2>1, AppendIsConcat
<1>8. Holds(w, 1, Len(out), Len(w))
  <2>1. ASSUME NEW k \in 1..1 PROVE w[1 + k - 1] = fed[Len(out) + k]
    <3>1. k = 1 /\ 1 + k - 1 = 1
      OBVIOUS
    <3> QED BY <1>4, <1>6, <3>1
  <2> QED BY <1>6, <2>1 DEF Holds
<1>9. PICK q : q = Len(out) + Len(w)
  OBVIOUS
<1>10. q = Len(out) + 1 /\ Len(out) + Kept = q /\ q + 0 = q /\ q + 0 <= Len(fed)
  BY <1>2, <1>3, <1>6, <1>9
<1>11. Calls(frames', packet', 0, q)
  <2>1. Calls(frames, packet, 1, q)
    BY <1>2, <1>10 DEF IInv
  <2> QED BY <1>1, <1>3, <2>1, OverwriteCalls
<1>12. StateInv'
  <2>1. Array' = Array /\ Capacity(which)' = Capacity(which)
    BY DEF Array, Capacity
  <2> QED BY <1>1, <2>1, StateNext DEF IInv, StateInv
<1>13. GoodInv'
  BY <1>1 DEF IInv, GoodInv
<1>14. Holds(packet', 0, q, 0)
  BY DEF Holds
<1>15. IInv' /\ Len(out') = q
  BY <1>1, <1>2, <1>6, <1>7, <1>8, <1>9, <1>10, <1>11, <1>12, <1>13, <1>14, Assembled
<1>16. Rejects(0, 1)
  BY <1>1, <1>2, <1>10, <1>15 DEF Rejects
<1>17. Len(out) + Kept + 0 <= Len(fed)
  BY <1>10
<1> QED BY <1>15, <1>16, <1>17 DEF Moves

\* The next buffer is written when everything is read.
Feeds ==
  /\ Len(out) + Kept = Len(fed)
  /\ \E chunk \in Seq(Byte) : fed' = fed \o chunk
  /\ UNCHANGED <<state, packet, packet_len, out, packets, which>>

LEMMA WriteStep ==
  ASSUME IInv, Feed, UNCHANGED which
  PROVE  IInv' /\ Feeds
<1>0. PICK n \in 1..(MaxFed - Len(fed)) :
        \E chunk \in [1..n -> Byte] :
          /\ input' = chunk /\ fed' = fed \o chunk
          /\ frames' = <<[src |-> "input", ptr |-> 0, len |-> n]>>
  BY DEF Feed
<1>1. PICK chunk \in [1..n -> Byte] :
        /\ input' = chunk /\ fed' = fed \o chunk
        /\ frames' = <<[src |-> "input", ptr |-> 0, len |-> n]>>
  BY <1>0
<1>2. frames = <<>> /\ UNCHANGED <<state, packet, packet_len, out, packets>>
  BY DEF Feed
<1>3. /\ Len(out) \in Nat /\ Kept \in Nat /\ Len(fed) \in Nat
      /\ out \in Seq(Byte) /\ fed \in Seq(Byte)
  BY KeptBytes DEF IInv, Prefix
<1>4. Len(out) + Kept = Len(fed)
  <2>1. PICK at \in [1..(Len(frames) + 1) -> 0..Len(fed)] :
          Cuts(frames, packet, Len(out) + Kept, at)
    BY DEF IInv, Calls, ReadOn
  <2>2. Len(frames) = 0
    BY <1>2
  <2> QED BY <2>1, <2>2 DEF Cuts
<1>5. n \in Nat \ {0} /\ chunk \in Seq(Byte) /\ Len(chunk) = n
  BY <1>0, <1>1
<1>6. PICK F : F = Len(fed)
  OBVIOUS
<1>7. /\ fed' \in Seq(Byte) /\ Len(fed') = F + n
      /\ \A i \in 1..(F + n) : fed'[i] = IF i <= F THEN fed[i] ELSE chunk[i - F]
  BY <1>1, <1>3, <1>5, <1>6, ConcatProperties
<1>8. Kept' = Kept
  BY <1>2 DEF Kept
<1>9. PICK x : x = [src |-> "input", ptr |-> 0, len |-> n]
  OBVIOUS
<1>10. /\ x \in Frame /\ x.src = "input" /\ x.ptr = 0 /\ x.len = n
       /\ frames' = <<x>>
  BY <1>1, <1>5, <1>9 DEF Frame
<1>11. frames' \in Seq(Frame) /\ Len(frames') = 1 /\ frames'[1] = x
  BY <1>10
<1>12. Ahead(frames, Kept)'
  <2>1. Len(input') = n
    BY <1>1, <1>5
  <2>2. ASSUME NEW i \in 1..Len(frames')
        PROVE  /\ frames'[i].len > 0
               /\ frames'[i].src = "input" => frames'[i].ptr + frames'[i].len <= Len(input')
               /\ frames'[i].src # "packet"
    <3>1. i = 1
      BY <1>11
    <3> QED BY <1>5, <1>10, <1>11, <2>1, <3>1
  <2> QED BY <2>2 DEF Ahead
<1>13. ReadOn(frames, packet, Len(out) + Kept)'
  <2>1. PICK at : at = [i \in 1..2 |-> IF i = 1 THEN F ELSE F + n]
    OBVIOUS
  <2>2. at \in [1..(Len(frames') + 1) -> 0..Len(fed')] /\ at[1] = F /\ at[2] = F + n
    BY <1>3, <1>5, <1>6, <1>7, <1>11, <2>1
  <2>3. ASSUME NEW k \in 1..n
        PROVE  (IF x.src = "input" THEN input'[x.ptr + k] ELSE packet'[x.ptr + k - 1]) = fed'[F + k]
    <3>1. F + k \in 1..(F + n) /\ ~(F + k <= F) /\ (F + k) - F = k /\ 0 + k = k
      BY <1>3, <1>5, <1>6
    <3>2. fed'[F + k] = chunk[k]
      BY <1>7, <3>1
    <3> QED BY <1>1, <1>10, <3>1, <3>2
  <2>4. ASSUME NEW i \in 1..Len(frames')
        PROVE  /\ at[i + 1] = at[i] + frames'[i].len
               /\ \A k \in 1..frames'[i].len : ByteOf(frames[i], packet, k)' = fed'[at[i] + k]
    <3>1. i = 1
      BY <1>11
    <3>2. frames'[i].len = n /\ at[i] = F /\ at[i + 1] = F + n
      BY <1>10, <1>11, <2>2, <3>1
    <3> QED BY <1>11, <2>3, <3>1, <3>2 DEF ByteOf
  <2>5. at[1] = Len(out)' + Kept' /\ at[Len(frames') + 1] = Len(fed')
    BY <1>2, <1>4, <1>6, <1>7, <1>8, <1>11, <2>2
  <2> QED BY <2>2, <2>4, <2>5 DEF ReadOn, Cuts, ByteOf
<1>14. Prefix'
  <2>1. input' \in Seq(Byte)
    BY <1>1, <1>5
  <2>2. ASSUME NEW i \in 1..Len(out') PROVE i <= Len(fed') /\ out'[i] = fed'[i]
    <3>1. i <= F /\ out[i] = fed[i]
      BY <1>2, <1>6 DEF IInv, Prefix
    <3>2. i \in 1..(F + n)
      BY <1>3, <1>5, <1>6, <3>1
    <3> QED BY <1>2, <1>5, <1>3, <1>6, <1>7, <3>1, <3>2
  <2>3. ASSUME NEW i \in 1..Kept'
        PROVE  Len(out') + i <= Len(fed') /\ packet'[i - 1] = fed'[Len(out') + i]
    <3>1. Len(out) + i <= F /\ packet[i - 1] = fed[Len(out) + i]
      BY <1>6, <1>8 DEF IInv, Prefix
    <3>2. PICK j : j = Len(out) + i
      OBVIOUS
    <3>3. j \in 1..(F + n) /\ j <= F
      BY <1>3, <1>5, <1>6, <1>8, <3>1, <3>2
    <3>4. fed'[j] = fed[j]
      BY <1>7, <3>3
    <3> QED BY <1>2, <1>3, <1>5, <1>6, <1>7, <3>1, <3>2, <3>3, <3>4
  <2> QED BY <1>2, <1>3, <1>7, <2>1, <2>2, <2>3 DEF Prefix
<1>15. StateInv' /\ GoodInv'
  <2>1. /\ Array' = Array /\ Capacity(which)' = Capacity(which) /\ HeadLen' = HeadLen
        /\ Size' = Size
    BY <1>2 DEF Array, Capacity, HeadLen, Size, MavlinkSize, UbxSize, RtcmSize, Header
  <2> QED BY <1>2, <2>1 DEF IInv, StateInv, GoodInv
<1>16. IInv'
  BY <1>11, <1>12, <1>13, <1>14, <1>15 DEF IInv, Calls
<1>17. Feeds
  BY <1>1, <1>2, <1>4, <1>5 DEF Feeds
<1> QED BY <1>16, <1>17

-----------------------------------------------------------------------------
(* The steps of the three recognizers. *)

LEMMA MavlinkSteps ==
  ASSUME IInv, which = "mavlink1", UNCHANGED which, MavlinkStep
  PROVE  IInv' /\ Moves
<1>1. Size = MavlinkSize /\ HeadLen = 2 /\ StateInv
  BY DEF Size, HeadLen, IInv
<1>2. CASE MavlinkNoStart
  BY <1>2, NoStartStep DEF MavlinkNoStart
<1>3. CASE MavlinkStart
  <2>1. PICK l \in 0..(Top.len - 1) : Found(STX, l, 1, "LEN", packet_len)
    BY <1>3 DEF MavlinkStart, Start
  <2>2. packet_len \in 0..Capacity(which)
    BY <1>1 DEF StateInv
  <2> QED BY <2>1, <2>2, FoundStep
<1>4. CASE MavlinkLength
  <2>1. Kept = 1 /\ frames # <<>>
    BY <1>4 DEF MavlinkLength, Running, Kept
  <2> QED BY <1>1, <1>4, <2>1, SecondByteStep DEF MavlinkLength
<1>5. CASE MavlinkMore
  BY <1>1, <1>5, CopyStep DEF MavlinkMore, LoadMore, Running
<1>6. CASE MavlinkGood
  BY <1>1, <1>6, GoodStep DEF MavlinkGood
<1>7. CASE MavlinkBad
  BY <1>1, <1>7, BadStep DEF MavlinkBad
<1> QED BY <1>2, <1>3, <1>4, <1>5, <1>6, <1>7 DEF MavlinkStep

LEMMA UbxSteps ==
  ASSUME IInv, which = "ubx", UNCHANGED which, UbxStep
  PROVE  IInv' /\ Moves
<1>1. Size = UbxSize /\ HeadLen = UbxHeaderLen /\ StateInv
  BY DEF Size, HeadLen, IInv
<1>2. CASE UbxNoStart
  BY <1>2, NoStartStep DEF UbxNoStart
<1>3. CASE UbxStart
  <2>1. PICK l \in 0..(Top.len - 1) : Found(PREAMBLE0, l, 1, "PREAMBLE", packet_len)
    BY <1>3 DEF UbxStart, Start
  <2>2. packet_len \in 0..Capacity(which)
    BY <1>1 DEF StateInv
  <2> QED BY <2>1, <2>2, FoundStep
<1>4. CASE UbxPreamble
  <2>1. Kept = 1 /\ frames # <<>>
    BY <1>4 DEF UbxPreamble, Running, Kept
  <2>2. HeadLen > 2
    BY <1>1, UbxAssumption
  <2>3. /\ packet' = [packet EXCEPT ![1] = Unread[1]] /\ packet_len' = 2 /\ state' = "HEADER"
        /\ frames' = Consume(1) /\ UNCHANGED <<input, fed, out, packets>>
    BY <1>4 DEF UbxPreamble
  <2> QED BY <2>1, <2>2, <2>3, SecondByteStep
<1>5. CASE UbxNoPreamble
  BY <1>5, NoPreambleStep
<1>6. CASE UbxHeader
  BY <1>1, <1>6, CopyStep DEF UbxHeader, Running
<1>7. CASE UbxMore
  BY <1>1, <1>7, CopyStep DEF UbxMore, LoadMore, Running
<1>8. CASE UbxGood
  BY <1>1, <1>8, GoodStep DEF UbxGood
<1>9. CASE UbxBad
  BY <1>1, <1>9, BadStep DEF UbxBad
<1> QED BY <1>2, <1>3, <1>4, <1>5, <1>6, <1>7, <1>8, <1>9 DEF UbxStep

LEMMA RtcmSteps ==
  ASSUME IInv, which = "rtcm3", UNCHANGED which, RtcmStep
  PROVE  IInv' /\ Moves
<1>1. Size = RtcmSize /\ HeadLen = RtcmHeaderLen /\ StateInv
  BY DEF Size, HeadLen, IInv
<1>2. CASE RtcmNoStart
  BY <1>2, NoStartStep DEF RtcmNoStart
<1>3. CASE RtcmStart
  <2>1. PICK l \in 0..(Top.len - 1) : Found(PREAMBLE, l, 1, "HEADER", 1)
    BY <1>3 DEF RtcmStart, Start
  <2>2. 1 \in 0..Capacity(which)
    <3>1. Capacity(which) \in Nat /\ Kept \in Nat /\ Kept < Capacity(which)
      BY KeptBytes DEF IInv
    <3> QED BY <3>1
  <2> QED BY <2>1, <2>2, FoundStep
<1>4. CASE RtcmHeader
  BY <1>1, <1>4, CopyStep DEF RtcmHeader, Running
<1>5. CASE RtcmMore
  BY <1>1, <1>5, CopyStep DEF RtcmMore, LoadMore, Running
<1>6. CASE RtcmGood
  BY <1>1, <1>6, GoodStep DEF RtcmGood
<1>7. CASE RtcmBad
  BY <1>1, <1>7, BadStep DEF RtcmBad
<1> QED BY <1>2, <1>3, <1>4, <1>5, <1>6, <1>7 DEF RtcmStep

LEMMA NextStep ==
  ASSUME IInv, [Next]_<<vars, which>>
  PROVE  IInv' /\ (Moves \/ Feeds \/ UNCHANGED <<vars, which>>)
<1>1. CASE Step
  BY <1>1, MavlinkSteps, UbxSteps, RtcmSteps DEF Step
<1>2. CASE Feed /\ UNCHANGED which
  BY <1>2, WriteStep
<1>3. CASE UNCHANGED <<vars, which>>
  <2>1. /\ UNCHANGED <<state, packet, packet_len, input, frames, fed, out, packets, which>>
    BY <1>3 DEF vars
  <2>2. /\ Array' = Array /\ Capacity(which)' = Capacity(which) /\ HeadLen' = HeadLen
        /\ Size' = Size /\ Kept' = Kept
    BY <2>1 DEF Array, Capacity, HeadLen, Size, MavlinkSize, UbxSize, RtcmSize, Header, Kept
  <2>3. StateInv' /\ GoodInv' /\ Prefix'
    BY <2>1, <2>2 DEF IInv, StateInv, GoodInv, Prefix
  <2>4. Calls(frames, packet, Kept, Len(out) + Kept)'
    BY <2>1, <2>2 DEF IInv, Calls, Ahead, ReadOn, Cuts, ByteOf
  <2> QED BY <1>3, <2>3, <2>4 DEF IInv
<1> QED BY <1>1, <1>2, <1>3 DEF Next

LEMMA InitIInv == Init => IInv
<1> SUFFICES ASSUME Init PROVE IInv
  OBVIOUS
<1>1. /\ which \in Protocols /\ state = "BEFORE" /\ packet_len = 0
      /\ packet = [i \in 0..(Capacity(which) - 1) |-> CHOOSE b \in Byte : TRUE]
      /\ input = <<>> /\ frames = <<>> /\ fed = <<>> /\ out = <<>> /\ packets = <<>>
  BY DEF Init, InitWith
<1>2. Capacity(which) \in Nat
  BY <1>1, Sizes
<1>3. Kept = 0
  BY <1>1 DEF Kept
<1>4. (CHOOSE b \in Byte : TRUE) \in Byte
  BY Mavlink1Assumption
<1>5. StateInv
  <2>1. PICK b \in Byte : b = CHOOSE x \in Byte : TRUE
    BY <1>4
  <2>2. packet = [i \in 0..(Capacity(which) - 1) |-> b]
    BY <1>1, <2>1
  <2>3. packet \in Array
    BY <2>2 DEF Array
  <2>4. packet_len \in 0..Capacity(which)
    BY <1>1, <1>2
  <2> QED BY <1>1, <2>3, <2>4 DEF StateInv
<1>6. Prefix /\ GoodInv
  BY <1>1, <1>3 DEF Prefix, GoodInv
<1>7. frames \in Seq(Frame) /\ Ahead(frames, Kept)
  BY <1>1 DEF Ahead
<1>8. ReadOn(frames, packet, Len(out) + Kept)
  <2>1. Len(frames) = 0 /\ Len(out) = 0 /\ Len(fed) = 0
    BY <1>1
  <2>2. PICK at : at = [i \in 1..(Len(frames) + 1) |-> 0]
    OBVIOUS
  <2>3. at \in [1..(Len(frames) + 1) -> 0..Len(fed)] /\ at[1] = 0 /\ at[Len(frames) + 1] = 0
    BY <2>1, <2>2
  <2>4. 1..Len(frames) = {} /\ Len(out) + Kept = 0
    BY <1>3, <2>1
  <2> QED BY <2>1, <2>3, <2>4 DEF ReadOn, Cuts
<1> QED BY <1>5, <1>6, <1>7, <1>8 DEF IInv, Calls

\* Whatever the writes and the bytes, the calls of write read the stream on from where
\* the kept bytes end, ahead of where they write in the array.
THEOREM Invariance == Spec => []IInv
<1>1. Init => IInv
  BY InitIInv
<1>2. IInv /\ [Next]_<<vars, which>> => IInv'
  BY NextStep
<1> QED BY <1>1, <1>2, PTL DEF Spec

\* The packet array, the buffers and the automaton have their types.
THEOREM TypeCorrect == Spec => []TypeOK
<1>1. IInv => TypeOK
  <2> SUFFICES ASSUME IInv PROVE TypeOK
    OBVIOUS
  <2>1. /\ packet \in [0..(Capacity(which) - 1) -> Byte] /\ packet_len \in 0..Capacity(which)
        /\ state \in States
    BY DEF IInv, StateInv, Array, States
  <2>2. Capacity(which) \in Nat
    BY KeptBytes DEF IInv
  <2>3. packet_len = 0 \/ packet_len - 1 \in DOMAIN packet
    BY <2>1, <2>2
  <2>4. \A i \in DOMAIN packet : i \in Nat /\ packet[i] \in Byte
    BY <2>1, <2>2
  <2> QED BY <2>1, <2>3, <2>4 DEF TypeOK, IInv, Calls, Prefix, GoodInv
<1> QED BY <1>1, Invariance, PTL

\* Nothing unread is overwritten, although a nested call reads the array that packets
\* are assembled in.
THEOREM ReadsAheadAlways == Spec => []ReadsAhead
<1>1. IInv => ReadsAhead
  <2> SUFFICES ASSUME IInv PROVE ReadsAhead
    OBVIOUS
  <2>1. Ahead(frames, Kept) /\ frames \in Seq(Frame)
    BY DEF IInv, Calls
  <2>2. Capacity(which) \in Nat /\ Kept \in Nat
    BY KeptBytes DEF IInv
  <2>3. DOMAIN packet = 0..(Capacity(which) - 1)
    BY DEF IInv, StateInv, Array
  <2>4. ASSUME NEW i \in 1..Len(frames), frames[i].src = "packet"
        PROVE  /\ Kept < frames[i].ptr
               /\ \A j \in 0..(frames[i].len - 1) : frames[i].ptr + j \in DOMAIN packet
    <3>1. Kept < frames[i].ptr /\ frames[i].ptr + frames[i].len <= Capacity(which)
      BY <2>1, <2>4 DEF Ahead
    <3>2. frames[i].ptr \in Nat /\ frames[i].len \in Nat
      BY <2>1, CallTypes
    <3> QED BY <2>2, <2>3, <3>1, <3>2
  <2>5. \A i, j \in 1..Len(frames) :
          i < j /\ frames[j].src = "packet" =>
            frames[i].src = "packet" /\ frames[i].ptr + frames[i].len <= frames[j].ptr
    BY <2>1 DEF Ahead
  <2> QED BY <2>4, <2>5 DEF ReadsAhead
<1> QED BY <1>1, Invariance, PTL

-----------------------------------------------------------------------------
(* The recognizers implement the splitter. *)

\* A set of numbers has a least one.
LEMMA LeastNumber ==
  ASSUME NEW S \in SUBSET Nat, S # {}
  PROVE  \E n \in S : \A m \in S : n <= m
<1> DEFINE R == OpToRel(<, Nat)
<1>1. IsWellFoundedOn(R, Nat)
  BY NatLessThanWellFounded
<1>2. \A x, y \in Nat : y < x => <<y, x>> \in R
  BY DEF OpToRel
<1> HIDE DEF R
<1>3. \E x \in S : \A y \in S : ~(<<y, x>> \in R)
  BY <1>1, WFMin
<1>4. \E x \in S : \A y \in S : ~(y < x)
  BY <1>2, <1>3
<1> QED BY <1>4

\* What holds of 1, and of i + 1 if it holds of i, holds up to n.
Passes(T, n) == \A i \in 1..n : i \in T => i + 1 \in T

LEMMA UpTo ==
  ASSUME NEW n \in Nat, NEW T, 1 \in T, Passes(T, n - 1)
  PROVE  \A i \in 1..n : i \in T
<1> SUFFICES ASSUME NEW j \in 1..n, j \notin T PROVE FALSE
  OBVIOUS
<1>1. PICK S : S = {i \in 1..n : i \notin T}
  OBVIOUS
<1>2. S \in SUBSET Nat /\ S # {}
  BY <1>1
<1>3. PICK k \in S : \A m \in S : k <= m
  BY <1>2, LeastNumber
<1>4. k \in 1..n /\ k \notin T /\ k # 1
  BY <1>1, <1>3
<1>5. k - 1 \in 1..(n - 1) /\ (k - 1) + 1 = k
  BY <1>4
<1>6. k - 1 \in T
  <2>1. SUFFICES ASSUME k - 1 \in S PROVE FALSE
    BY <1>1, <1>5
  <2> QED BY <1>3, <1>4, <2>1
<1> QED BY <1>4, <1>5, <1>6 DEF Passes

\* Two parts of the stream, one behind the other, make one part.
LEMMA PartsJoin ==
  ASSUME fed \in Seq(Byte), NEW a \in Nat, NEW b \in Nat, NEW c \in Nat,
         a <= b, b <= c, c <= Len(fed)
  PROVE  Part(a, b) \o Part(b, c) = Part(a, c)
<1>1. Len(fed) \in Nat
  OBVIOUS
<1>2. a + 1 \in 1..(Len(fed) + 1) /\ b \in ((a + 1) - 1)..Len(fed) /\ c \in b..Len(fed)
  BY <1>1
<1>3. SubSeq(fed, a + 1, b) \o SubSeq(fed, b + 1, c) = SubSeq(fed, a + 1, c)
  BY <1>2, ConcatAdjacentSubSeq
<1> QED BY <1>3 DEF Part

\* The elements of s are parts of the stream, one behind the other, at the positions at.
Parts(s, n, at) == \A i \in 1..n : at[i] <= at[i + 1] /\ s[i] = Part(at[i], at[i + 1])

\* The parts of a sequence of parts, one behind the other, make one part.
LEMMA FlattenParts ==
  ASSUME fed \in Seq(Byte), NEW n \in Nat \ {0}, NEW s, Len(s) = n,
         NEW at \in [1..(n + 1) -> 0..Len(fed)], Parts(s, n, at)
  PROVE  FlattenSeq(s) = Part(at[1], at[n + 1])
<1>1. Len(fed) \in Nat /\ \A i \in 1..(n + 1) : at[i] \in Nat /\ at[i] <= Len(fed)
  OBVIOUS
<1>2. \A i \in 1..n : i + 1 \in 1..(n + 1) /\ i \in 1..(n + 1)
  OBVIOUS
<1>3. PICK T : T = {i \in 1..(n + 1) : at[1] <= at[i]}
  OBVIOUS
<1>4. 1 \in T
  BY <1>1, <1>3
<1>5. ASSUME NEW i \in 1..n, i \in T PROVE i + 1 \in T
  <2>1. i \in 1..n
    OBVIOUS
  <2>2. at[i] <= at[i + 1] /\ at[1] <= at[i]
    BY <1>3, <1>5, <2>1 DEF Parts
  <2>3. at[1] \in Nat /\ at[i] \in Nat /\ at[i + 1] \in Nat /\ i + 1 \in 1..(n + 1)
    BY <1>1, <1>2, <2>1
  <2> QED BY <1>3, <2>2, <2>3
<1>6. \A i \in 1..(n + 1) : at[1] <= at[i]
  <2>1. Passes(T, (n + 1) - 1) /\ n + 1 \in Nat
    BY <1>5 DEF Passes
  <2>2. \A i \in 1..(n + 1) : i \in T
    BY <1>4, <2>1, UpTo
  <2> QED BY <1>3, <2>2
<1>7. ASSUME NEW i \in 1..n, i # 1
      PROVE  Part(at[1], at[i]) \o s[i] = Part(at[1], at[i + 1])
  <2>1. at[1] \in Nat /\ at[i] \in Nat /\ at[i + 1] \in Nat /\ at[i + 1] <= Len(fed)
    BY <1>1, <1>2
  <2>2. at[1] <= at[i]
    BY <1>2, <1>6
  <2>3. at[i] <= at[i + 1] /\ s[i] = Part(at[i], at[i + 1])
    BY DEF Parts
  <2>4. PICK a, b, c \in Nat : a = at[1] /\ b = at[i] /\ c = at[i + 1]
    BY <2>1
  <2>5. Part(a, b) \o Part(b, c) = Part(a, c)
    BY <2>1, <2>2, <2>3, <2>4, PartsJoin
  <2> QED BY <2>3, <2>4, <2>5
<1> DEFINE Joins(g) == [i \in 1..Len(s) |-> IF i = 1 THEN s[i] ELSE g[i - 1] \o s[i]]
           G == CHOOSE g : g = Joins(g)
<1>8. PICK f : f = [i \in 1..n |-> Part(at[1], at[i + 1])]
  OBVIOUS
<1>9. f = Joins(f)
  <2>1. ASSUME NEW i \in 1..n
        PROVE  f[i] = IF i = 1 THEN s[i] ELSE f[i - 1] \o s[i]
    <3>1. f[i] = Part(at[1], at[i + 1])
      BY <1>8
    <3>2. CASE i = 1
      BY <3>1, <3>2 DEF Parts
    <3>3. CASE i # 1
      <4>1. i - 1 \in 1..n /\ (i - 1) + 1 = i
        BY <3>3
      <4>2. f[i - 1] = Part(at[1], at[i])
        BY <1>8, <4>1
      <4> QED BY <1>7, <3>1, <3>3, <4>2
    <3> QED BY <3>2, <3>3
  <2> QED BY <1>8, <2>1
<1>10. G = Joins(G)
  BY <1>9
<1>11. FlattenSeq(s) = G[n]
  BY DEF FlattenSeq
<1>12. \A i \in 1..n : G[i] = IF i = 1 THEN s[i] ELSE G[i - 1] \o s[i]
  BY <1>10
<1> HIDE DEF Joins, G
<1>13. PICK U : U = {i \in 1..n : G[i] = Part(at[1], at[i + 1])}
  OBVIOUS
<1>14. 1 \in U
  <2>1. 1 \in 1..n /\ G[1] = s[1]
    BY <1>12
  <2>2. s[1] = Part(at[1], at[1 + 1])
    BY <2>1 DEF Parts
  <2> QED BY <1>13, <2>1, <2>2
<1>15. ASSUME NEW i \in 1..(n - 1), i \in U PROVE i + 1 \in U
  <2>1. i + 1 \in 1..n /\ i + 1 # 1 /\ (i + 1) - 1 = i
    OBVIOUS
  <2>2. G[i] = Part(at[1], at[i + 1])
    BY <1>13, <1>15
  <2>3. G[i + 1] = G[i] \o s[i + 1]
    BY <1>12, <2>1
  <2>4. G[i + 1] = Part(at[1], at[(i + 1) + 1])
    BY <1>7, <2>1, <2>2, <2>3
  <2> QED BY <1>13, <2>1, <2>4
<1>16. n \in U
  <2>1. Passes(U, n - 1)
    BY <1>15 DEF Passes
  <2> QED BY <1>14, <2>1, UpTo
<1> QED BY <1>11, <1>13, <1>16

\* The sequence s has the n bytes of the stream behind position x.
Has(s, x, n) == s \in Seq(Byte) /\ Len(s) = n /\ \A i \in 1..n : s[i] = fed[x + i]

LEMMA PartBytes ==
  ASSUME fed \in Seq(Byte), NEW x \in Nat, NEW y \in Nat, NEW n \in Nat, x + n = y, y <= Len(fed),
         NEW s, s = Part(x, y)
  PROVE  Has(s, x, n)
<1>1. Len(fed) \in Nat
  OBVIOUS
<1>2. \A i \in (x + 1)..y : fed[i] \in Byte
  <2>1. \A i \in (x + 1)..y : i \in 1..Len(fed)
    BY <1>1
  <2> QED BY <2>1
<1>3. PICK t : t = SubSeq(fed, x + 1, y)
  OBVIOUS
<1>4. /\ t \in Seq(Byte) /\ Len(t) = IF x + 1 <= y THEN y - (x + 1) + 1 ELSE 0
      /\ \A i \in 1..(y - (x + 1) + 1) : t[i] = fed[(x + 1) + i - 1]
  BY <1>2, <1>3, SubSeqProperties
<1>5. y - (x + 1) + 1 = n /\ (~(x + 1 <= y) => n = 0)
  OBVIOUS
<1>6. ASSUME NEW i \in 1..n PROVE t[i] = fed[x + i]
  <2>1. (x + 1) + i - 1 = x + i
    OBVIOUS
  <2> QED BY <1>4, <1>5, <2>1
<1>7. s = t
  BY <1>3 DEF Part
<1> QED BY <1>4, <1>5, <1>6, <1>7 DEF Has

\* The part s from a to b, cut at c behind its first n bytes; and the parts from a to b
\* and from b to c, joined.
IsCut(s, n, a, c, b) ==
  /\ Len(s) = b - a
  /\ SubSeq(s, 1, n) = Part(a, c) /\ SubSeq(s, n + 1, Len(s)) = Part(c, b)
IsJoin(a, b, c) == Part(a, b) \o Part(b, c) = Part(a, c)

\* Cutting a part of the stream.
LEMMA PartCut ==
  ASSUME fed \in Seq(Byte), NEW a \in Nat, NEW b \in Nat, NEW c \in Nat,
         NEW n \in Nat, a + n = c, c <= b, b <= Len(fed), NEW s, s = Part(a, b)
  PROVE  IsCut(s, n, a, c, b)
<1>1. a + n = c /\ a <= c /\ c <= b /\ b <= Len(fed) /\ c <= Len(fed) /\ a <= b
  <2>1. Len(fed) \in Nat
    OBVIOUS
  <2> QED BY <2>1
<1>2. PICK l \in Nat : l = b - a /\ n <= l /\ a + l = b
  OBVIOUS
<1>3. /\ s \in Seq(Byte) /\ Len(s) = l
      /\ \A i \in 1..l : s[i] = fed[a + i]
  <2>1. Has(s, a, l)
    BY <1>1, <1>2, PartBytes
  <2> QED BY <2>1 DEF Has
<1>4. ASSUME NEW i \in 1..l PROVE s[i] \in Byte
  BY <1>3
<1>5. SubSeq(s, 1, n) = Part(a, c)
  <2>1. PICK u : u = SubSeq(s, 1, n)
    OBVIOUS
  <2>2. PICK v : v = Part(a, c)
    OBVIOUS
  <2>3. u \in Seq(Byte) /\ Len(u) = n /\ \A i \in 1..n : u[i] = s[i]
    BY <1>2, <1>3, <2>1
  <2>4. v \in Seq(Byte) /\ Len(v) = n /\ \A i \in 1..n : v[i] = fed[a + i]
    <3>1. Has(v, a, n)
      BY <1>1, <2>2, PartBytes
    <3> QED BY <3>1 DEF Has
  <2>5. ASSUME NEW i \in 1..n PROVE u[i] = v[i]
    <3>1. i \in 1..l
      BY <1>2
    <3> QED BY <1>3, <2>3, <2>4, <3>1
  <2>6. u = v
    BY <2>3, <2>4, <2>5
  <2> QED BY <2>1, <2>2, <2>6
<1>6. SubSeq(s, n + 1, Len(s)) = Part(c, b)
  <2>1. PICK u : u = SubSeq(s, n + 1, l)
    OBVIOUS
  <2>2. PICK v : v = Part(c, b)
    OBVIOUS
  <2>3. PICK r \in Nat : r = l - n /\ c + r = b
    BY <1>1, <1>2
  <2>4. u \in Seq(Byte) /\ Len(u) = r /\ \A i \in 1..r : u[i] = s[n + i]
    <3>1. \A i \in (n + 1)..l : s[i] \in Byte
      <4>1. \A i \in (n + 1)..l : i \in 1..l
        OBVIOUS
      <4> QED BY <1>4, <4>1
    <3>2. /\ u \in Seq(Byte) /\ Len(u) = IF n + 1 <= l THEN l - (n + 1) + 1 ELSE 0
          /\ \A i \in 1..(l - (n + 1) + 1) : u[i] = s[(n + 1) + i - 1]
      BY <2>1, <3>1, SubSeqProperties
    <3>3. l - (n + 1) + 1 = r /\ (~(n + 1 <= l) => r = 0)
      BY <1>2, <2>3
    <3>4. ASSUME NEW i \in 1..r PROVE u[i] = s[n + i]
      <4>1. (n + 1) + i - 1 = n + i
        OBVIOUS
      <4> QED BY <3>2, <3>3, <4>1
    <3> QED BY <3>2, <3>3, <3>4
  <2>5. v \in Seq(Byte) /\ Len(v) = r /\ \A i \in 1..r : v[i] = fed[c + i]
    <3>1. Has(v, c, r)
      BY <1>1, <2>2, <2>3, PartBytes
    <3> QED BY <3>1 DEF Has
  <2>6. ASSUME NEW i \in 1..r PROVE u[i] = v[i]
    <3>1. PICK j : j = n + i
      OBVIOUS
    <3>2. j \in 1..l /\ a + j = c + i
      BY <1>1, <1>2, <2>3, <3>1
    <3>3. s[j] = fed[a + j]
      BY <1>3, <3>2
    <3> QED BY <2>4, <2>5, <3>1, <3>2, <3>3
  <2>7. u = v
    BY <2>4, <2>5, <2>6
  <2> QED BY <1>3, <2>1, <2>2, <2>7
<1> QED BY <1>1, <1>2, <1>3, <1>5, <1>6 DEF IsCut

\* Bytes passed on, kept bytes and unread bytes are three parts of the stream.
InPlace ==
  /\ fed \in Seq(Byte) /\ Len(fed) \in Nat /\ Len(out) \in Nat /\ Kept \in Nat
  /\ Len(out) + Kept <= Len(fed)
  /\ out = Part(0, Len(out))
  /\ Pend = Part(Len(out), Len(out) + Kept)
  /\ Todo = Part(Len(out) + Kept, Len(fed))

LEMMA View == IInv => InPlace
<1> SUFFICES ASSUME IInv PROVE InPlace
  OBVIOUS
<1>1. /\ fed \in Seq(Byte) /\ out \in Seq(Byte) /\ Len(out) \in Nat /\ Kept \in Nat
      /\ Len(fed) \in Nat /\ Len(out) + Kept <= Len(fed) /\ Holds(packet, 0, Len(out), Kept)
      /\ Kept < Capacity(which) /\ Capacity(which) \in Nat
  BY KeptBytes DEF IInv, Prefix
<1>2. out = Part(0, Len(out))
  <2>1. Holds(out, 1, 0, Len(out))
    <3>1. ASSUME NEW i \in 1..Len(out) PROVE out[1 + i - 1] = fed[0 + i]
      <4>1. out[i] = fed[i]
        BY DEF IInv, Prefix
      <4>2. 1 + i - 1 = i /\ 0 + i = i
        BY <1>1
      <4> QED BY <4>1, <4>2
    <3> QED BY <3>1 DEF Holds
  <2>2. 0 + Len(out) <= Len(fed) /\ 0 + Len(out) = Len(out)
    BY <1>1
  <2>3. out = Part(0, 0 + Len(out))
    BY <1>1, <2>1, <2>2, PartIs
  <2> QED BY <2>2, <2>3
<1>3. Pend = Part(Len(out), Len(out) + Kept)
  <2>1. PICK p : p = Pend
    OBVIOUS
  <2>2. PICK k \in Nat : k = Kept
    BY <1>1
  <2>3. p = [i \in 1..k |-> packet[i - 1]]
    BY <2>1, <2>2 DEF Pend
  <2>4. p \in Seq(Byte) /\ Len(p) = k
    <3>1. ASSUME NEW i \in 1..k PROVE packet[i - 1] \in Byte
      <4>1. i - 1 \in 0..(Capacity(which) - 1)
        BY <1>1, <2>2
      <4> QED BY <4>1 DEF IInv, StateInv, Array
    <3> QED BY <2>2, <2>3, <3>1
  <2>5. Holds(p, 1, Len(out), k)
    <3>1. ASSUME NEW i \in 1..k PROVE p[1 + i - 1] = fed[Len(out) + i]
      <4>1. packet[0 + i - 1] = fed[Len(out) + i]
        BY <1>1, <2>2 DEF Holds
      <4>2. 1 + i - 1 = i /\ 0 + i - 1 = i - 1
        BY <2>2
      <4> QED BY <2>3, <4>1, <4>2
    <3> QED BY <3>1 DEF Holds
  <2>6. p = Part(Len(out), Len(out) + Len(p))
    BY <1>1, <2>2, <2>4, <2>5, PartIs
  <2> QED BY <2>1, <2>2, <2>4, <2>6
<1>4. Todo = Part(Len(out) + Kept, Len(fed))
  <2>1. PICK at \in [1..(Len(frames) + 1) -> 0..Len(fed)] :
          Cuts(frames, packet, Len(out) + Kept, at)
    BY DEF IInv, Calls, ReadOn
  <2>2. /\ Len(frames) \in Nat
        /\ \A i \in 1..Len(frames) : frames[i].len \in Nat
    BY CallTypes DEF IInv, Calls
  <2>3. PICK n \in Nat : n = Len(frames)
    BY <2>2
  <2>4. PICK s : s = [i \in 1..n |-> Read(frames[i].src, frames[i].ptr, frames[i].len)]
    OBVIOUS
  <2>5. Todo = FlattenSeq(s) /\ Len(s) = n
    <3>1. Todo = FlattenSeq(s)
      BY <2>3, <2>4 DEF Todo
    <3> QED BY <2>4, <3>1
  <2>6. at[1] = Len(out) + Kept /\ at[n + 1] = Len(fed)
    BY <2>1, <2>3 DEF Cuts
  <2>7. ASSUME NEW i \in 1..n
        PROVE  at[i] <= at[i + 1] /\ s[i] = Part(at[i], at[i + 1])
    <3>1. i \in 1..(n + 1) /\ i + 1 \in 1..(n + 1) /\ frames[i].len \in Nat
      BY <2>2, <2>3
    <3>2. PICK l \in Nat : l = frames[i].len
      BY <3>1
    <3>3. PICK a, b \in Nat : a = at[i] /\ b = at[i + 1] /\ b <= Len(fed)
      <4>1. \A j \in 1..(n + 1) : at[j] \in Nat /\ at[j] <= Len(fed)
        BY <1>1, <2>1, <2>3
      <4> QED BY <3>1, <4>1
    <3>11. b = a + l
      BY <2>1, <2>3, <3>2, <3>3 DEF Cuts
    <3>4. \A k \in 1..l : ByteOf(frames[i], packet, k) = fed[a + k]
      BY <2>1, <2>3, <3>2, <3>3 DEF Cuts
    <3>5. PICK w : w = Read(frames[i].src, frames[i].ptr, frames[i].len)
      OBVIOUS
    <3>6. w = [k \in 1..l |-> ByteOf(frames[i], packet, k)]
      BY <3>2, <3>5 DEF Read, ByteOf
    <3>7. w \in Seq(Byte) /\ Len(w) = l
      <4>1. ASSUME NEW k \in 1..l PROVE ByteOf(frames[i], packet, k) \in Byte
        <5>1. a + k <= b /\ a + k \in Nat /\ a + k >= 1
          BY <3>2, <3>3, <3>11
        <5>2. PICK F \in Nat : F = Len(fed)
          BY <1>1
        <5>3. a + k \in 1..F
          BY <3>3, <5>1, <5>2
        <5>4. fed[a + k] \in Byte
          BY <1>1, <5>2, <5>3
        <5> QED BY <3>4, <5>4
      <4> QED BY <3>2, <3>6, <4>1
    <3>8. Holds(w, 1, a, l)
      <4>1. ASSUME NEW k \in 1..l PROVE w[1 + k - 1] = fed[a + k]
        <5>1. 1 + k - 1 = k
          BY <3>2
        <5> QED BY <3>4, <3>6, <5>1
      <4> QED BY <4>1 DEF Holds
    <3>9. w = Part(a, a + l)
      BY <1>1, <3>3, <3>11, <3>7, <3>8, PartIs
    <3>10. s[i] = w /\ a <= b
      BY <1>1, <2>4, <3>2, <3>3, <3>11, <3>5
    <3> QED BY <3>3, <3>11, <3>9, <3>10
  <2>8. CASE n = 0
    <3>1. s = <<>> /\ FlattenSeq(s) = s
      BY <2>4, <2>5, <2>8 DEF FlattenSeq
    <3>2. Len(out) + Kept = Len(fed)
      BY <2>6, <2>8
    <3>3. Part(Len(fed), Len(fed)) = <<>>
      BY <1>1 DEF Part
    <3> QED BY <2>5, <3>1, <3>2, <3>3
  <2>9. CASE n # 0
    <3>1. Parts(s, n, at)
      BY <2>7 DEF Parts
    <3>2. at \in [1..(n + 1) -> 0..Len(fed)] /\ n \in Nat \ {0}
      BY <2>1, <2>3, <2>9
    <3>3. FlattenSeq(s) = Part(at[1], at[n + 1])
      BY <1>1, <2>5, <3>1, <3>2, FlattenParts
    <3> QED BY <2>5, <2>6, <3>3
  <2> QED BY <2>8, <2>9
<1> QED BY <1>1, <1>2, <1>3, <1>4 DEF InPlace

Empty == \A a \in Nat : Part(a, a) = <<>>

LEMMA EmptyPart == Empty
<1> SUFFICES ASSUME NEW a \in Nat PROVE Part(a, a) = <<>>
  BY DEF Empty
<1>1. a < a + 1
  OBVIOUS
<1> QED BY <1>1, SubSeqEmpty DEF Part

LEMMA CutAndJoin ==
  ASSUME fed \in Seq(Byte), NEW F \in Nat, F = Len(fed)
  PROVE  /\ \A a, b, c, n \in Nat : a + n = c /\ c <= b /\ b <= F => IsCut(Part(a, b), n, a, c, b)
         /\ \A a, b, c \in Nat : a <= b /\ b <= c /\ c <= F => IsJoin(a, b, c)
<1>1. ASSUME NEW a \in Nat, NEW b \in Nat, NEW c \in Nat, NEW n \in Nat,
             a + n = c, c <= b, b <= F
      PROVE  IsCut(Part(a, b), n, a, c, b)
  BY <1>1, PartCut
<1>2. ASSUME NEW a \in Nat, NEW b \in Nat, NEW c \in Nat, a <= b, b <= c, c <= F
      PROVE  IsJoin(a, b, c)
  BY <1>2, PartsJoin DEF IsJoin
<1> QED BY <1>1, <1>2

\* What the steps do to the three parts of the stream.
LEMMA AdvancesImplements ==
  ASSUME InPlace, InPlace', NEW n \in Nat, NEW m \in Nat,
         Len(out) + Kept + n + m <= Len(fed), Advances(n, m)
  PROVE  Abs!SNext
<1>1. /\ fed \in Seq(Byte) /\ fed' = fed /\ packets' = packets
      /\ n = 0 \/ Kept = 0
  BY DEF InPlace, Advances
<1>2. PICK o, k, F \in Nat : o = Len(out) /\ k = Kept /\ F = Len(fed)
  BY DEF InPlace
<1>3. PICK o1, k1 \in Nat : o1 = Len(out') /\ k1 = Kept' /\ o1 = o + n /\ k1 = k + m
  BY <1>2 DEF Advances
<1>4. PICK q, r, s \in Nat : q = o + k /\ r = q + n /\ s = r + m /\ s <= F
  BY <1>2
<1>5. /\ out = Part(0, o) /\ Pend = Part(o, q) /\ Todo = Part(q, F)
      /\ out' = Part(0, o1) /\ Pend' = Part(o1, s) /\ Todo' = Part(s, F)
  <2>1. out = Part(0, o) /\ Pend = Part(o, q) /\ Todo = Part(q, F)
    BY <1>2, <1>4 DEF InPlace
  <2>2. o1 + k1 = s
    BY <1>2, <1>3, <1>4
  <2>3. /\ out' = SubSeq(fed', 0 + 1, o1) /\ Pend' = SubSeq(fed', o1 + 1, o1 + k1)
        /\ Todo' = SubSeq(fed', (o1 + k1) + 1, Len(fed'))
    BY <1>3 DEF InPlace, Part
  <2> QED BY <1>1, <1>2, <2>1, <2>2, <2>3 DEF Part
<1>6. Empty
  BY EmptyPart
<1>7. /\ Len(Todo) = F - q /\ SubSeq(Todo, 1, n) = Part(q, r)
      /\ SubSeq(Todo, n + 1, Len(Todo)) = Part(r, F)
  <2>1. r <= F
    BY <1>4
  <2>2. IsCut(Part(q, F), n, q, r, F)
    BY <1>1, <1>2, <1>4, <2>1, CutAndJoin
  <2> QED BY <1>5, <2>2 DEF IsCut
<1>8. PICK t : t = Part(r, F)
  OBVIOUS
<1>9. SubSeq(t, 1, m) = Part(r, s) /\ SubSeq(t, m + 1, Len(t)) = Part(s, F)
  <2>1. IsCut(Part(r, F), m, r, s, F)
    BY <1>1, <1>2, <1>4, CutAndJoin
  <2> QED BY <1>8, <2>1 DEF IsCut
<1>10. Part(q, r) = Part(o, o1) /\ Part(o, q) = Part(o1, r)
  <2>1. CASE n = 0
    <3>1. q = r /\ o = o1
      BY <1>3, <1>4, <2>1
    <3> QED BY <1>6, <3>1 DEF Empty
  <2>2. CASE k = 0
    <3>1. q = o /\ o1 = r
      BY <1>3, <1>4, <2>2
    <3> QED BY <1>6, <3>1 DEF Empty
  <2> QED BY <1>1, <1>2, <2>1, <2>2
<1>11. out' = out \o Part(q, r)
  <2>1. 0 <= o /\ o <= o1 /\ o1 <= F /\ 0 \in Nat
    BY <1>3, <1>4
  <2>2. IsJoin(0, o, o1)
    BY <1>1, <1>2, <1>3, <2>1, CutAndJoin
  <2> QED BY <1>5, <1>10, <2>2 DEF IsJoin
<1>12. Pend' = Pend \o Part(r, s)
  <2>1. o1 <= r /\ r <= s
    BY <1>3, <1>4
  <2>2. IsJoin(o1, r, s)
    BY <1>1, <1>2, <1>3, <1>4, <2>1, CutAndJoin
  <2> QED BY <1>5, <1>10, <2>2 DEF IsJoin
<1>13. n = 0 \/ Pend = <<>>
  <2>1. ASSUME k = 0 PROVE Pend = <<>>
    <3>1. o = q
      BY <1>4, <2>1
    <3> QED BY <1>5, <1>6, <3>1 DEF Empty
  <2> QED BY <1>1, <1>2, <2>1
<1>14. Abs!SAdvance(n, m)
  BY <1>1, <1>5, <1>7, <1>8, <1>9, <1>11, <1>12, <1>13 DEF Abs!SAdvance, Abs!First, Abs!Rest
<1>15. n \in 0..Len(Todo) /\ m \in 0..(Len(Todo) - n)
  BY <1>4, <1>7
<1> QED BY <1>14, <1>15 DEF Abs!SNext

LEMMA DeliversImplements ==
  ASSUME InPlace, InPlace', NEW m \in Nat, Len(out) + Kept + m <= Len(fed), Delivers(m)
  PROVE  Abs!SNext
<1>1. /\ fed \in Seq(Byte) /\ fed' = fed
  BY DEF InPlace, Delivers
<1>2. PICK o, k, F \in Nat : o = Len(out) /\ k = Kept /\ F = Len(fed)
  BY DEF InPlace
<1>3. PICK q, r \in Nat : q = o + k /\ r = q + m /\ r <= F /\ o <= q /\ q <= r
  BY <1>2
<1>4. /\ Len(out') = r /\ Kept' = 0 /\ Part(o, r) \in Good /\ packets' = Append(packets, Part(o, r))
  BY <1>2, <1>3 DEF Delivers
<1>5. /\ out = Part(0, o) /\ Pend = Part(o, q) /\ Todo = Part(q, F)
      /\ out' = Part(0, r) /\ Pend' = Part(r, r) /\ Todo' = Part(r, F)
  <2>1. out = Part(0, o) /\ Pend = Part(o, q) /\ Todo = Part(q, F)
    BY <1>2, <1>3 DEF InPlace
  <2>2. r + 0 = r
    BY <1>3
  <2>3. /\ out' = SubSeq(fed', 0 + 1, r) /\ Pend' = SubSeq(fed', r + 1, r + 0)
        /\ Todo' = SubSeq(fed', (r + 0) + 1, Len(fed'))
    BY <1>4 DEF InPlace, Part
  <2> QED BY <1>1, <1>2, <2>1, <2>2, <2>3 DEF Part
<1>6. Pend' = <<>>
  BY <1>5, EmptyPart DEF Empty
<1>7. /\ Len(Todo) = F - q /\ SubSeq(Todo, 1, m) = Part(q, r)
      /\ SubSeq(Todo, m + 1, Len(Todo)) = Part(r, F)
  <2>1. q + m = r /\ r <= F
    BY <1>3
  <2>2. IsCut(Part(q, F), m, q, r, F)
    BY <1>1, <1>2, <2>1, CutAndJoin
  <2> QED BY <1>5, <2>2 DEF IsCut
<1>8. Part(o, q) \o Part(q, r) = Part(o, r)
  <2>1. IsJoin(o, q, r)
    BY <1>1, <1>2, <1>3, CutAndJoin
  <2> QED BY <2>1 DEF IsJoin
<1>9. Part(0, o) \o Part(o, r) = Part(0, r)
  <2>1. 0 <= o /\ o <= r /\ 0 \in Nat
    BY <1>3
  <2>2. IsJoin(0, o, r)
    BY <1>1, <1>2, <1>3, <2>1, CutAndJoin
  <2> QED BY <2>2 DEF IsJoin
<1>10. Abs!SDeliver(m)
  BY <1>1, <1>4, <1>5, <1>6, <1>7, <1>8, <1>9 DEF Abs!SDeliver, Abs!First, Abs!Rest
<1>11. m \in 0..Len(Todo)
  BY <1>2, <1>3, <1>7
<1> QED BY <1>10, <1>11 DEF Abs!SNext

LEMMA RejectsImplements ==
  ASSUME InPlace, InPlace', NEW m \in Nat, Len(out) + Kept + m <= Len(fed),
         NEW d \in Nat, Rejects(m, d)
  PROVE  Abs!SNext
<1>1. /\ fed \in Seq(Byte) /\ fed' = fed /\ packets' = packets
  BY DEF InPlace, Rejects
<1>2. PICK o, k, F \in Nat : o = Len(out) /\ k = Kept /\ F = Len(fed)
  BY DEF InPlace
<1>3. PICK q, r, e \in Nat :
        /\ q = o + k /\ r = q + m /\ r <= F /\ o <= q /\ q <= r
        /\ e = o + d /\ o <= e /\ e <= r
  BY <1>2 DEF Rejects
<1>4. /\ Len(out') = e /\ Kept' = 0 /\ d \in 1..(k + m)
  BY <1>2, <1>3 DEF Rejects
<1>5. /\ out = Part(0, o) /\ Pend = Part(o, q) /\ Todo = Part(q, F)
      /\ out' = Part(0, e) /\ Pend' = Part(e, e) /\ Todo' = Part(e, F)
  <2>1. out = Part(0, o) /\ Pend = Part(o, q) /\ Todo = Part(q, F)
    BY <1>2, <1>3 DEF InPlace
  <2>2. e + 0 = e
    BY <1>3
  <2>3. /\ out' = SubSeq(fed', 0 + 1, e) /\ Pend' = SubSeq(fed', e + 1, e + 0)
        /\ Todo' = SubSeq(fed', (e + 0) + 1, Len(fed'))
    BY <1>4 DEF InPlace, Part
  <2> QED BY <1>1, <1>2, <2>1, <2>2, <2>3 DEF Part
<1>6. Pend' = <<>>
  BY <1>5, EmptyPart DEF Empty
<1>7. /\ Len(Todo) = F - q /\ SubSeq(Todo, 1, m) = Part(q, r)
      /\ SubSeq(Todo, m + 1, Len(Todo)) = Part(r, F)
  <2>1. q + m = r /\ r <= F
    BY <1>3
  <2>2. IsCut(Part(q, F), m, q, r, F)
    BY <1>1, <1>2, <2>1, CutAndJoin
  <2> QED BY <1>5, <2>2 DEF IsCut
<1>8. PICK p : p = Part(o, r)
  OBVIOUS
<1>9. Pend \o Part(q, r) = p
  <2>1. IsJoin(o, q, r)
    BY <1>1, <1>2, <1>3, CutAndJoin
  <2> QED BY <1>5, <1>8, <2>1 DEF IsJoin
<1>10. Len(p) = r - o /\ SubSeq(p, 1, d) = Part(o, e) /\ SubSeq(p, d + 1, Len(p)) = Part(e, r)
  <2>1. IsCut(Part(o, r), d, o, e, r)
    BY <1>1, <1>2, <1>3, CutAndJoin
  <2> QED BY <1>8, <2>1 DEF IsCut
<1>11. Part(0, o) \o Part(o, e) = Part(0, e)
  <2>1. 0 <= o /\ e <= F /\ 0 \in Nat
    BY <1>3
  <2>2. IsJoin(0, o, e)
    BY <1>1, <1>2, <1>3, <2>1, CutAndJoin
  <2> QED BY <2>2 DEF IsJoin
<1>12. Part(e, r) \o Part(r, F) = Part(e, F)
  <2>1. IsJoin(e, r, F)
    BY <1>1, <1>2, <1>3, CutAndJoin
  <2> QED BY <2>1 DEF IsJoin
<1>13. d <= Len(p)
  BY <1>3, <1>10
<1>14. Abs!SReject(m, d)
  <2>1. /\ d <= Len(Pend \o SubSeq(Todo, 1, m))
        /\ out' = out \o SubSeq(Pend \o SubSeq(Todo, 1, m), 1, d)
    BY <1>5, <1>7, <1>9, <1>10, <1>11, <1>13
  <2>2. Todo' = SubSeq(Pend \o SubSeq(Todo, 1, m), d + 1, Len(Pend \o SubSeq(Todo, 1, m)))
                  \o SubSeq(Todo, m + 1, Len(Todo))
    BY <1>5, <1>7, <1>9, <1>10, <1>12
  <2> QED BY <1>1, <1>6, <2>1, <2>2 DEF Abs!SReject, Abs!First, Abs!Rest
<1>15. Len(Pend) = k
  <2>1. IsCut(Part(o, q), k, o, q, q)
    BY <1>1, <1>2, <1>3, CutAndJoin
  <2> QED BY <1>3, <1>5, <2>1 DEF IsCut
<1>16. m \in 0..Len(Todo) /\ d \in 1..(Len(Pend) + m)
  BY <1>2, <1>3, <1>4, <1>7, <1>15
<1> QED BY <1>14, <1>16 DEF Abs!SNext

LEMMA FeedsImplements ==
  ASSUME InPlace, InPlace', Feeds
  PROVE  Abs!SNext
<1>1. /\ fed \in Seq(Byte) /\ Len(out) + Kept = Len(fed)
      /\ UNCHANGED <<state, packet, packet_len, out, packets, which>>
  BY DEF InPlace, Feeds
<1>2. PICK chunk \in Seq(Byte) : fed' = fed \o chunk
  BY DEF Feeds
<1>3. PICK F, n \in Nat : F = Len(fed) /\ n = Len(chunk)
  BY <1>1
<1>4. Pend' = Pend /\ Kept' = Kept
  BY <1>1 DEF Pend, Kept
<1>5. Todo = <<>>
  BY <1>1, <1>3, EmptyPart DEF InPlace, Empty
<1>6. /\ fed' \in Seq(Byte) /\ Len(fed') = F + n
      /\ \A i \in 1..(F + n) : fed'[i] = IF i <= F THEN fed[i] ELSE chunk[i - F]
  BY <1>1, <1>2, <1>3, ConcatProperties
<1>7. Todo' = SubSeq(fed', F + 1, F + n)
  BY <1>1, <1>3, <1>4, <1>6 DEF InPlace, Part
<1>8. SubSeq(fed', F + 1, F + n) = chunk
  <2>1. PICK u : u = SubSeq(fed', F + 1, F + n)
    OBVIOUS
  <2>2. \A i \in (F + 1)..(F + n) : fed'[i] \in Byte
    <3>1. \A i \in (F + 1)..(F + n) : i \in 1..Len(fed')
      BY <1>6
    <3> QED BY <1>6, <3>1
  <2>3. u \in Seq(Byte) /\ Len(u) = n /\ \A i \in 1..n : u[i] = fed'[F + i]
    <3>1. /\ u \in Seq(Byte) /\ Len(u) = IF F + 1 <= F + n THEN F + n - (F + 1) + 1 ELSE 0
          /\ \A i \in 1..(F + n - (F + 1) + 1) : u[i] = fed'[F + 1 + i - 1]
      BY <2>1, <2>2, SubSeqProperties
    <3>2. F + n - (F + 1) + 1 = n /\ (~(F + 1 <= F + n) => n = 0)
      OBVIOUS
    <3>3. ASSUME NEW i \in 1..n PROVE u[i] = fed'[F + i]
      <4>1. F + 1 + i - 1 = F + i
        OBVIOUS
      <4> QED BY <3>1, <3>2, <4>1
    <3> QED BY <3>1, <3>2, <3>3
  <2>4. ASSUME NEW i \in 1..n PROVE u[i] = chunk[i]
    <3>1. PICK j : j = F + i
      OBVIOUS
    <3>2. j \in 1..(F + n) /\ ~(j <= F) /\ j - F = i
      BY <3>1
    <3> QED BY <1>6, <2>3, <3>1, <3>2
  <2>5. u = chunk
    BY <1>3, <2>3, <2>4
  <2> QED BY <2>1, <2>5
<1>9. Todo' = chunk
  BY <1>7, <1>8
<1>10. Abs!SFeed
  BY <1>1, <1>2, <1>4, <1>5, <1>9 DEF Abs!SFeed, Abs!Bytes
<1> QED BY <1>10 DEF Abs!SNext

\* The Mavlink v1, UBX and RTCM3 recognizers implement the splitter: with their arrays
\* and their nested calls they do to the stream what the splitter may do.
THEOREM RecognizersImplementSplitter == Spec => ImplementsSplitter
<1>1. Init => Abs!SInit
  <2> SUFFICES ASSUME Init PROVE Abs!SInit
    OBVIOUS
  <2>1. fed = <<>> /\ out = <<>> /\ packets = <<>> /\ frames = <<>> /\ Kept = 0
    BY DEF Init, InitWith, Kept
  <2>2. IInv
    BY InitIInv
  <2>3. InPlace
    BY <2>2, View
  <2>4. Pend = <<>> /\ Todo = <<>>
    <3>1. Len(out) = 0 /\ Len(fed) = 0 /\ 0 + 0 = 0
      BY <2>1
    <3> QED BY <2>1, <2>3, <3>1, EmptyPart DEF InPlace, Empty
  <2> QED BY <2>1, <2>4 DEF Abs!SInit
<1>2. IInv => InPlace
  BY View
<1>3. IInv /\ InPlace /\ InPlace' /\ [Next]_<<vars, which>> => [Abs!SNext]_(Abs!svars)
  <2> SUFFICES ASSUME IInv, InPlace, InPlace', [Next]_<<vars, which>>
               PROVE  [Abs!SNext]_(Abs!svars)
    OBVIOUS
  <2>1. Moves \/ Feeds \/ UNCHANGED <<vars, which>>
    BY NextStep
  <2>2. CASE Moves
    BY <2>2, AdvancesImplements, DeliversImplements, RejectsImplements DEF Moves
  <2>3. CASE Feeds
    BY <2>3, FeedsImplements
  <2>4. CASE UNCHANGED <<vars, which>>
    <3>1. UNCHANGED <<fed, out, packets, Pend, Todo>>
      BY <2>4 DEF vars, Pend, Todo, Kept, Read
    <3> QED BY <3>1 DEF Abs!svars
  <2> QED BY <2>1, <2>2, <2>3, <2>4
<1> QED BY <1>1, <1>2, <1>3, Invariance, PTL DEF Spec, ImplementsSplitter, Abs!SSpec

\* So a recognizer passes on what was written to it, in order and without a gap but for
\* the beginning of a packet it keeps and what it has not read, and passes nothing but
\* good packets to next.
THEOREM RecognizersAreLossless == Spec => [](Abs!Lossless /\ Abs!OnlyGood)
<1>1. IInv => InPlace
  BY View
<1>2. IInv /\ InPlace => Abs!Lossless /\ Abs!OnlyGood
  <2> SUFFICES ASSUME IInv, InPlace PROVE Abs!Lossless /\ Abs!OnlyGood
    OBVIOUS
  <2>1. PICK o, q, F \in Nat : o = Len(out) /\ q = o + Kept /\ F = Len(fed) /\ o <= q /\ q <= F
    BY DEF InPlace
  <2>2. fed \in Seq(Byte) /\ out = Part(0, o) /\ Pend = Part(o, q) /\ Todo = Part(q, F)
    BY <2>1 DEF InPlace
  <2>3. IsJoin(o, q, F) /\ IsJoin(0, o, F)
    <3>1. 0 <= o /\ o <= F /\ 0 \in Nat
      BY <2>1
    <3> QED BY <2>1, <2>2, <3>1, CutAndJoin
  <2>4. Part(0, F) = fed
    <3>1. SubSeq(fed, 0 + 1, Len(fed)) = fed
      BY <2>2
    <3> QED BY <2>1, <3>1 DEF Part
  <2>5. Abs!Lossless
    BY <2>2, <2>3, <2>4 DEF Abs!Lossless, IsJoin
  <2>6. Abs!OnlyGood
    BY DEF IInv, GoodInv, Abs!OnlyGood
  <2> QED BY <2>5, <2>6
<1> QED BY <1>1, <1>2, Invariance, PTL


-----------------------------------------------------------------------------
(* Definition by recursion.  That a recursive function exists, and so is what its  *)
(* definition says, is shown for functions F: the function defined is one that F   *)
(* maps, at each argument, to its value there.                                     *)

\* What F makes of x and of a function depends on what this is for smaller arguments.
Recurs(F, D, V, m) ==
  /\ m \in [D -> Nat]
  /\ \A x \in D : \A g \in [D -> V] : F[<<x, g>>] \in V
  /\ \A x \in D : \A g, h \in [D -> V] :
       (\A y \in D : m[y] < m[x] => g[y] = h[y]) => F[<<x, g>>] = F[<<x, h>>]

\* The functions that obey F on what is smaller than n.
ObeysTo(F, D, V, m, n) == {f \in [D -> V] : \A x \in D : m[x] < n => f[x] = F[<<x, f>>]}

\* Two functions that obey F agree as far as both do.
LEMMA ObeyAlike ==
  ASSUME NEW F, NEW D, NEW V, NEW m, Recurs(F, D, V, m), NEW n \in Nat, NEW k \in Nat,
         NEW f \in ObeysTo(F, D, V, m, n), NEW g \in ObeysTo(F, D, V, m, k),
         NEW x \in D, m[x] < n, m[x] < k
  PROVE  f[x] = g[x]
<1> DEFINE B == {y \in D : m[y] < n /\ m[y] < k /\ f[y] # g[y]}
           T == {m[y] : y \in B}
<1> SUFFICES ASSUME f[x] # g[x] PROVE FALSE
  OBVIOUS
<1>1. m \in [D -> Nat] /\ f \in [D -> V] /\ g \in [D -> V]
  BY DEF Recurs, ObeysTo
<1>2. x \in B
  OBVIOUS
<1>3. T \in SUBSET Nat /\ T # {}
  BY <1>1, <1>2
<1>4. PICK l \in T : \A j \in T : l <= j
  BY <1>3, LeastNumber
<1>5. PICK y \in B : m[y] = l
  OBVIOUS
<1>6. ASSUME NEW z \in D, m[z] < m[y] PROVE f[z] = g[z]
  <2>1. SUFFICES ASSUME z \in B PROVE FALSE
    BY <1>1, <1>5, <1>6
  <2>2. m[y] <= m[z]
    BY <1>4, <1>5, <2>1
  <2> QED BY <1>1, <1>5, <1>6, <2>2
<1>7. F[<<y, f>>] = F[<<y, g>>]
  BY <1>1, <1>6 DEF Recurs
<1>8. f[y] = F[<<y, f>>] /\ g[y] = F[<<y, g>>]
  BY <1>5 DEF ObeysTo
<1> QED BY <1>5, <1>7, <1>8

\* There are functions that obey F as far as one likes.
LEMMA ObeySome ==
  ASSUME NEW F, NEW D, NEW V, NEW m, Recurs(F, D, V, m), V # {}, NEW n \in Nat
  PROVE  ObeysTo(F, D, V, m, n) # {}
<1> DEFINE T == {k \in Nat : ObeysTo(F, D, V, m, k) = {}}
<1> SUFFICES ASSUME n \in T PROVE FALSE
  OBVIOUS
<1>1. m \in [D -> Nat]
  BY DEF Recurs
<1>2. T \in SUBSET Nat /\ T # {}
  OBVIOUS
<1>3. PICK k \in T : \A j \in T : k <= j
  BY <1>2, LeastNumber
<1>4. k # 0
  <2>1. PICK v : v \in V
    OBVIOUS
  <2>2. [x \in D |-> v] \in ObeysTo(F, D, V, m, 0)
    <3>1. PICK c : c = [x \in D |-> v]
      OBVIOUS
    <3>2. c \in [D -> V]
      BY <2>1, <3>1
    <3>3. \A x \in D : ~(m[x] < 0)
      BY <1>1
    <3> QED BY <3>1, <3>2, <3>3 DEF ObeysTo
  <2> QED BY <2>2
<1>5. k \in Nat /\ k - 1 \in Nat /\ k - 1 \notin T
  BY <1>3, <1>4
<1>6. PICK f : f \in ObeysTo(F, D, V, m, k - 1)
  BY <1>5
<1>7. f \in [D -> V] /\ \A x \in D : m[x] < k - 1 => f[x] = F[<<x, f>>]
  BY <1>6 DEF ObeysTo
<1> DEFINE g == [x \in D |-> IF m[x] = k - 1 THEN F[<<x, f>>] ELSE f[x]]
<1>8. g \in [D -> V]
  BY <1>7 DEF Recurs
<1>9. ASSUME NEW x \in D, m[x] < k PROVE g[x] = F[<<x, g>>]
  <2>1. m[x] <= k - 1
    BY <1>1, <1>5, <1>9
  <2>2. \A y \in D : m[y] < m[x] => f[y] = g[y]
    <3>1. ASSUME NEW y \in D, m[y] < m[x] PROVE f[y] = g[y]
      <4>1. m[y] # k - 1
        BY <1>1, <1>5, <2>1, <3>1
      <4> QED BY <4>1
    <3> HIDE DEF g
    <3> QED BY <3>1
  <2>3. F[<<x, f>>] = F[<<x, g>>]
    BY <1>7, <1>8, <2>2 DEF Recurs
  <2>4. CASE m[x] = k - 1
    BY <2>3, <2>4
  <2>5. CASE m[x] # k - 1
    <3>1. m[x] < k - 1
      BY <1>1, <1>5, <2>1, <2>5
    <3> QED BY <1>7, <2>3, <2>5, <3>1
  <2> QED BY <2>4, <2>5
<1>10. g \in ObeysTo(F, D, V, m, k)
  BY <1>8, <1>9 DEF ObeysTo
<1> QED BY <1>3, <1>10

\* A function can be defined by recursion on a measure.
LEMMA Recursion ==
  ASSUME NEW F, NEW D, NEW V, NEW m, Recurs(F, D, V, m), V # {}
  PROVE  \E f \in [D -> V] : \A x \in D : f[x] = F[<<x, f>>]
<1> DEFINE S(n) == ObeysTo(F, D, V, m, n)
           G == [n \in Nat |-> CHOOSE g \in S(n) : TRUE]
           f == [x \in D |-> G[m[x] + 1][x]]
<1>1. m \in [D -> Nat]
  BY DEF Recurs
<1>2. \A n \in Nat : G[n] \in S(n) /\ G[n] \in [D -> V]
  <2>1. ASSUME NEW n \in Nat PROVE G[n] \in S(n) /\ G[n] \in [D -> V]
    <3>1. S(n) # {}
      BY ObeySome
    <3>2. \A g \in S(n) : g \in [D -> V]
      BY DEF ObeysTo
    <3> HIDE DEF S
    <3>3. G[n] = CHOOSE g \in S(n) : TRUE
      OBVIOUS
    <3> QED BY <3>1, <3>2, <3>3
  <2> HIDE DEF G, S
  <2> QED BY <2>1
<1>3. f \in [D -> V]
  BY <1>1, <1>2
<1>4. ASSUME NEW x \in D PROVE f[x] = F[<<x, f>>]
  <2>1. PICK n \in Nat : n = m[x] + 1
    BY <1>1
  <2>2. G[n] \in S(n) /\ G[n] \in [D -> V] /\ f[x] = G[n][x]
    BY <1>2, <2>1
  <2>3. ASSUME NEW y \in D, m[y] < m[x] PROVE f[y] = G[n][y]
    <3>1. PICK k \in Nat : k = m[y] + 1
      BY <1>1
    <3>2. G[k] \in S(k) /\ f[y] = G[k][y] /\ m[y] < n /\ m[y] < k
      BY <1>1, <1>2, <2>1, <2>3, <3>1
    <3> HIDE DEF f, G
    <3> QED BY <2>2, <3>2, ObeyAlike
  <2>4. F[<<x, f>>] = F[<<x, G[n]>>]
    <3> HIDE DEF f, G
    <3> QED BY <1>3, <2>2, <2>3 DEF Recurs
  <2>5. G[n][x] = F[<<x, G[n]>>]
    <3>1. m[x] < n
      BY <1>1, <2>1
    <3> QED BY <2>2, <3>1 DEF ObeysTo
  <2> QED BY <2>2, <2>4, <2>5
<1> QED BY <1>3, <1>4

-----------------------------------------------------------------------------
(* The packets of a stream. *)

\* What a header announces is longer than the header.
LEMMA PacketLens ==
  ASSUME NEW p \in Protocols
  PROVE  /\ HeaderLen(p) \in Nat /\ HeaderLen(p) >= 2
         /\ \A s \in Seq(Byte) :
              Len(s) >= HeaderLen(p) => PacketLen(p, s) \in Nat /\ HeaderLen(p) < PacketLen(p, s)
<1> USE Mavlink1Assumption, UbxAssumption, Rtcm3Assumption
<1>1. HeaderLen(p) \in Nat /\ HeaderLen(p) >= 2
  BY DEF Protocols, HeaderLen
<1>2. ASSUME NEW s \in Seq(Byte), Len(s) >= HeaderLen(p)
      PROVE  PacketLen(p, s) \in Nat /\ HeaderLen(p) < PacketLen(p, s)
  <2>1. PICK head : head = [i \in 0..(HeaderLen(p) - 1) |-> s[i + 1]]
    OBVIOUS
  <2>2. head \in [0..(HeaderLen(p) - 1) -> Byte]
    <3>1. ASSUME NEW i \in 0..(HeaderLen(p) - 1) PROVE s[i + 1] \in Byte
      <4>1. i + 1 \in 1..Len(s)
        BY <1>1, <1>2
      <4> QED BY <4>1
    <3> QED BY <2>1, <3>1
  <2>3. CASE p = "mavlink1"
    <3>1. HeaderLen(p) = 2 /\ PacketLen(p, s) = MavlinkOverhead + head[1]
      BY <2>1, <2>3 DEF HeaderLen, PacketLen
    <3>2. PICK b \in Byte : b = head[1]
      <4>1. 1 \in 0..(HeaderLen(p) - 1)
        BY <3>1
      <4> QED BY <2>2, <4>1
    <3>3. b \in Nat
      OBVIOUS
    <3> QED BY <3>1, <3>2, <3>3
  <2>4. CASE p = "ubx"
    <3>1. /\ HeaderLen(p) = UbxHeaderLen
          /\ PacketLen(p, s) = UbxHeaderLen + UbxPayloadLen[head] + UbxTrailer
      BY <2>1, <2>4 DEF HeaderLen, PacketLen
    <3>2. UbxPayloadLen[head] \in 0..(UbxCapacity - UbxHeaderLen - UbxTrailer)
      BY <2>2, <3>1
    <3>3. PICK k \in Nat : k = UbxPayloadLen[head]
      BY <3>2
    <3>4. UbxHeaderLen + k + UbxTrailer \in Nat /\ UbxHeaderLen < UbxHeaderLen + k + UbxTrailer
      OBVIOUS
    <3> QED BY <3>1, <3>3, <3>4
  <2>5. CASE p = "rtcm3"
    <3>1. /\ HeaderLen(p) = RtcmHeaderLen
          /\ PacketLen(p, s) = RtcmHeaderLen + RtcmPayloadLen[head] + RtcmTrailer
      BY <2>1, <2>5 DEF HeaderLen, PacketLen
    <3>2. RtcmPayloadLen[head] \in 0..(RtcmCapacity - RtcmHeaderLen - RtcmTrailer)
      BY <2>2, <3>1
    <3>3. PICK k \in Nat : k = RtcmPayloadLen[head]
      BY <3>2
    <3>4. RtcmHeaderLen + k + RtcmTrailer \in Nat /\ RtcmHeaderLen < RtcmHeaderLen + k + RtcmTrailer
      OBVIOUS
    <3> QED BY <3>1, <3>3, <3>4
  <2> QED BY <2>3, <2>4, <2>5 DEF Protocols
<1> QED BY <1>1, <1>2

\* One step of Parse(p), if f is what it makes of shorter streams.
ParseBody(p, s, f) ==
  IF s = <<>> \/ (Starts(p, s) /\ Incomplete(p, s)) THEN <<>>
  ELSE IF Starts(p, s) /\ SubSeq(s, 1, PacketLen(p, s)) \in Good
    THEN <<SubSeq(s, 1, PacketLen(p, s))>> \o f[SubSeq(s, PacketLen(p, s) + 1, Len(s))]
    ELSE f[Tail(s)]

LEMMA Shortens ==
  ASSUME NEW p \in Protocols, NEW s \in Seq(Byte), s # <<>>
  PROVE  /\ Tail(s) \in Seq(Byte) /\ Len(Tail(s)) < Len(s)
         /\ ~Incomplete(p, s) =>
              /\ SubSeq(s, 1, PacketLen(p, s)) \in Seq(Byte)
              /\ SubSeq(s, PacketLen(p, s) + 1, Len(s)) \in Seq(Byte)
              /\ Len(SubSeq(s, PacketLen(p, s) + 1, Len(s))) < Len(s)
<1>1. Tail(s) \in Seq(Byte) /\ Len(Tail(s)) = Len(s) - 1 /\ Len(s) \in Nat
  OBVIOUS
<1>2. ASSUME ~Incomplete(p, s)
      PROVE  /\ SubSeq(s, 1, PacketLen(p, s)) \in Seq(Byte)
             /\ SubSeq(s, PacketLen(p, s) + 1, Len(s)) \in Seq(Byte)
             /\ Len(SubSeq(s, PacketLen(p, s) + 1, Len(s))) < Len(s)
  <2>1. PICK h \in Nat : h = HeaderLen(p) /\ h >= 2
    BY PacketLens
  <2>2. Len(s) >= HeaderLen(p)
    BY <1>1, <1>2, <2>1 DEF Incomplete
  <2>3. PICK n \in Nat : n = PacketLen(p, s) /\ h < n
    BY <2>1, <2>2, PacketLens
  <2>4. n <= Len(s)
    BY <1>1, <1>2, <2>3 DEF Incomplete
  <2>5. SubSeq(s, 1, n) \in Seq(Byte)
    BY <1>1, <2>4
  <2>6. SubSeq(s, n + 1, Len(s)) \in Seq(Byte) /\ Len(SubSeq(s, n + 1, Len(s))) = Len(s) - n
    <3>1. n \in 0..Len(s)
      BY <1>1, <2>4
    <3> QED BY <3>1, CutJoin DEF Rest
  <2> QED BY <1>1, <2>1, <2>3, <2>5, <2>6
<1> QED BY <1>1, <1>2

\* Parse(p) is what its definition says.
LEMMA Parses ==
  ASSUME NEW p \in Protocols
  PROVE  \A s \in Seq(Byte) :
           Parse(p)[s] \in Seq(Seq(Byte)) /\ Parse(p)[s] = ParseBody(p, s, Parse(p))
<1> DEFINE D == Seq(Byte)
           V == Seq(Seq(Byte))
           m == [s \in D |-> Len(s)]
           F == [x \in D \X [D -> V] |-> ParseBody(p, x[1], x[2])]
<1>1. ASSUME NEW s \in D, NEW g, \A y \in D : Len(y) < Len(s) => g[y] \in V
      PROVE  ParseBody(p, s, g) \in V
  <2>1. CASE s = <<>> \/ (Starts(p, s) /\ Incomplete(p, s))
    BY <2>1 DEF ParseBody
  <2>2. CASE ~(s = <<>> \/ (Starts(p, s) /\ Incomplete(p, s)))
    <3>1. g[Tail(s)] \in V
      BY <1>1, <2>2, Shortens
    <3>2. ASSUME Starts(p, s)
          PROVE  <<SubSeq(s, 1, PacketLen(p, s))>> \o g[SubSeq(s, PacketLen(p, s) + 1, Len(s))] \in V
      <4>1. PICK w \in D : w = SubSeq(s, 1, PacketLen(p, s))
        BY <2>2, <3>2, Shortens
      <4>2. PICK y \in V : y = g[SubSeq(s, PacketLen(p, s) + 1, Len(s))]
        BY <1>1, <2>2, <3>2, Shortens
      <4>3. <<w>> \o y \in V
        OBVIOUS
      <4> QED BY <4>1, <4>2, <4>3
    <3> QED BY <2>2, <3>1, <3>2 DEF ParseBody
  <2> QED BY <2>1, <2>2
<1>2. ASSUME NEW s \in D, NEW g \in [D -> V], NEW h \in [D -> V],
             \A y \in D : Len(y) < Len(s) => g[y] = h[y]
      PROVE  ParseBody(p, s, g) = ParseBody(p, s, h)
  <2>1. CASE s = <<>> \/ (Starts(p, s) /\ Incomplete(p, s))
    BY <2>1 DEF ParseBody
  <2>2. CASE ~(s = <<>> \/ (Starts(p, s) /\ Incomplete(p, s)))
    <3>1. g[Tail(s)] = h[Tail(s)]
      BY <1>2, <2>2, Shortens
    <3>2. ASSUME Starts(p, s)
          PROVE  g[SubSeq(s, PacketLen(p, s) + 1, Len(s))] = h[SubSeq(s, PacketLen(p, s) + 1, Len(s))]
      BY <1>2, <2>2, <3>2, Shortens
    <3> QED BY <2>2, <3>1, <3>2 DEF ParseBody
  <2> QED BY <2>1, <2>2
<1>3. \A s \in D : \A g \in [D -> V] : F[<<s, g>>] = ParseBody(p, s, g)
  OBVIOUS
<1>4. m \in [D -> Nat] /\ \A s \in D : m[s] = Len(s)
  OBVIOUS
<1>5. Recurs(F, D, V, m)
  <2> HIDE DEF F, m, D, V
  <2>1. ASSUME NEW s \in D, NEW g \in [D -> V] PROVE F[<<s, g>>] \in V
    BY <1>1, <1>3
  <2>2. ASSUME NEW s \in D, NEW g \in [D -> V], NEW h \in [D -> V],
               \A y \in D : m[y] < m[s] => g[y] = h[y]
        PROVE  F[<<s, g>>] = F[<<s, h>>]
    <3>1. \A y \in D : Len(y) < Len(s) => g[y] = h[y]
      BY <1>4, <2>2
    <3>2. ParseBody(p, s, g) = ParseBody(p, s, h)
      BY <1>2, <3>1
    <3> QED BY <1>3, <3>2
  <2> QED BY <1>4, <2>1, <2>2 DEF Recurs
<1>6. V # {}
  <2>1. <<>> \in V
    OBVIOUS
  <2> QED BY <2>1
<1>7. \E f \in [D -> V] : \A s \in D : f[s] = F[<<s, f>>]
  <2> HIDE DEF F, m, D, V
  <2> QED BY <1>5, <1>6, Recursion
<1>8. \E f : f = [s \in D |-> ParseBody(p, s, f)] /\ f \in [D -> V]
  <2>1. PICK f \in [D -> V] : \A s \in D : f[s] = F[<<s, f>>]
    BY <1>7
  <2>2. f = [s \in D |-> ParseBody(p, s, f)]
    <3> HIDE DEF F, m, V
    <3> QED BY <1>3, <2>1
  <2> QED BY <2>1, <2>2
<1>9. Parse(p) = CHOOSE f : f = [s \in D |-> ParseBody(p, s, f)]
  BY DEF Parse, ParseBody
<1>10. Parse(p) = [s \in D |-> ParseBody(p, s, Parse(p))]
  <2> HIDE DEF D
  <2> QED BY <1>8, <1>9
<1>11. \A s \in D : Parse(p)[s] = ParseBody(p, s, Parse(p))
  <2> HIDE DEF D
  <2>1. \A f : f = [s \in D |-> ParseBody(p, s, Parse(p))] => \A s \in D : f[s] = ParseBody(p, s, Parse(p))
    OBVIOUS
  <2> QED BY <1>10, <2>1
<1>12. ASSUME NEW s \in D, Parse(p)[s] \notin V PROVE FALSE
  <2> DEFINE B == {y \in D : Parse(p)[y] \notin V}
             T == {Len(y) : y \in B}
  <2>1. T \in SUBSET Nat /\ T # {}
    <3>1. s \in B
      BY <1>12
    <3>2. \A y \in D : Len(y) \in Nat
      OBVIOUS
    <3> HIDE DEF D
    <3> QED BY <3>1, <3>2
  <2>2. PICK l \in T : \A j \in T : l <= j
    BY <2>1, LeastNumber
  <2>3. PICK y \in B : Len(y) = l
    OBVIOUS
  <2>4. ASSUME NEW z \in D, Len(z) < Len(y) PROVE Parse(p)[z] \in V
    <3>1. SUFFICES ASSUME z \in B PROVE FALSE
      OBVIOUS
    <3>2. l <= Len(z)
      BY <2>2, <3>1
    <3>3. l \in Nat /\ Len(z) \in Nat
      BY <2>1
    <3> QED BY <2>3, <2>4, <3>2, <3>3
  <2>5. ParseBody(p, y, Parse(p)) \in V
    BY <1>1, <2>4
  <2> QED BY <1>11, <2>5
<1> QED BY <1>11, <1>12

\* What a stream holds behind its first n bytes.
LEMMA RestIs ==
  ASSUME NEW s \in Seq(Byte), NEW o \in 0..Len(s)
  PROVE  /\ Rest(s, o) \in Seq(Byte) /\ Len(Rest(s, o)) = Len(s) - o
         /\ \A i \in 1..(Len(s) - o) : Rest(s, o)[i] = s[o + i]
<1>1. Len(s) \in Nat /\ o + 1 \in Int
  OBVIOUS
<1>2. \A i \in (o + 1)..Len(s) : s[i] \in Byte
  BY <1>1
<1>3. /\ SubSeq(s, o + 1, Len(s)) \in Seq(Byte)
      /\ Len(SubSeq(s, o + 1, Len(s))) = IF o + 1 <= Len(s) THEN Len(s) - (o + 1) + 1 ELSE 0
      /\ \A i \in 1..(Len(s) - (o + 1) + 1) : SubSeq(s, o + 1, Len(s))[i] = s[o + 1 + i - 1]
  BY <1>1, <1>2, SubSeqProperties
<1>4. Len(s) - (o + 1) + 1 = Len(s) - o /\ \A i \in Int : o + 1 + i - 1 = o + i
  BY <1>1
<1>5. Len(SubSeq(s, o + 1, Len(s))) = Len(s) - o
  <2>1. CASE o + 1 <= Len(s)
    BY <1>3, <1>4, <2>1
  <2>2. CASE ~(o + 1 <= Len(s))
    <3>1. Len(s) - o = 0
      BY <1>1, <2>2
    <3> QED BY <1>3, <2>2, <3>1
  <2> QED BY <2>1, <2>2
<1>6. ASSUME NEW i \in 1..(Len(s) - o) PROVE SubSeq(s, o + 1, Len(s))[i] = s[o + i]
  BY <1>3, <1>4
<1> QED BY <1>3, <1>5, <1>6 DEF Rest

LEMMA RestOfRest ==
  ASSUME NEW s \in Seq(Byte), NEW o \in 0..Len(s), NEW n \in 0..(Len(s) - o)
  PROVE  /\ SubSeq(Rest(s, o), n + 1, Len(Rest(s, o))) = Rest(s, o + n)
         /\ n > 0 => SubSeq(Rest(s, o), 1, n) = SubSeq(s, o + 1, o + n)
         /\ n = 1 => Rest(s, o) # <<>> /\ Tail(Rest(s, o)) = Rest(s, o + 1)
<1>1. Len(s) \in Nat /\ o + n \in 0..Len(s)
  OBVIOUS
<1>2. PICK r \in Seq(Byte) : r = Rest(s, o)
  BY RestIs
<1>3. Len(r) = Len(s) - o /\ \A i \in 1..(Len(s) - o) : r[i] = s[o + i]
  BY <1>2, RestIs
<1>4. n \in 0..Len(r)
  BY <1>3
<1>5. /\ Rest(r, n) \in Seq(Byte) /\ Len(Rest(r, n)) = Len(s) - (o + n)
      /\ \A i \in 1..(Len(s) - (o + n)) : Rest(r, n)[i] = r[n + i]
  <2>1. /\ Rest(r, n) \in Seq(Byte) /\ Len(Rest(r, n)) = Len(r) - n
        /\ \A i \in 1..(Len(r) - n) : Rest(r, n)[i] = r[n + i]
    BY <1>4, RestIs
  <2>2. Len(r) - n = Len(s) - (o + n)
    BY <1>1, <1>3
  <2> QED BY <2>1, <2>2
<1>6. /\ Rest(s, o + n) \in Seq(Byte) /\ Len(Rest(s, o + n)) = Len(s) - (o + n)
      /\ \A i \in 1..(Len(s) - (o + n)) : Rest(s, o + n)[i] = s[o + n + i]
  BY <1>1, RestIs
<1>7. ASSUME NEW i \in 1..(Len(s) - (o + n)) PROVE Rest(r, n)[i] = Rest(s, o + n)[i]
  <2>1. n + i \in 1..(Len(s) - o) /\ o + (n + i) = o + n + i
    BY <1>1
  <2> QED BY <1>3, <1>5, <1>6, <2>1
<1>8. Rest(r, n) = Rest(s, o + n)
  BY <1>5, <1>6, <1>7, SeqEqual
<1>9. ASSUME n > 0 PROVE SubSeq(r, 1, n) = SubSeq(s, o + 1, o + n)
  <2>1. /\ SubSeq(r, 1, n) \in Seq(Byte) /\ Len(SubSeq(r, 1, n)) = n
        /\ \A i \in 1..n : SubSeq(r, 1, n)[i] = r[i]
    BY <1>3, <1>4
  <2>2. \A i \in (o + 1)..(o + n) : s[i] \in Byte
    BY <1>1
  <2>3. /\ SubSeq(s, o + 1, o + n) \in Seq(Byte) /\ Len(SubSeq(s, o + 1, o + n)) = n
        /\ \A i \in 1..n : SubSeq(s, o + 1, o + n)[i] = s[o + i]
    <3>1. PICK a, b \in Int : a = o + 1 /\ b = o + n
      BY <1>1
    <3>2. /\ SubSeq(s, a, b) \in Seq(Byte)
          /\ Len(SubSeq(s, a, b)) = IF a <= b THEN b - a + 1 ELSE 0
          /\ \A i \in 1..(b - a + 1) : SubSeq(s, a, b)[i] = s[a + i - 1]
      BY <2>2, <3>1, SubSeqProperties
    <3>3. a <= b /\ b - a + 1 = n /\ \A i \in Int : a + i - 1 = o + i
      BY <1>1, <1>9, <3>1
    <3> QED BY <1>1, <3>1, <3>2, <3>3
  <2>4. \A i \in 1..n : r[i] = s[o + i]
    BY <1>1, <1>3
  <2> QED BY <2>1, <2>3, <2>4, SeqEqual
<1>10. ASSUME n = 1 PROVE r # <<>> /\ Tail(r) = Rest(s, o + 1)
  <2>1. r # <<>>
    BY <1>3, <1>4, <1>10
  <2>2. Tail(r) = SubSeq(r, 2, Len(r))
    BY <2>1, TailIsSubSeq
  <2>3. Rest(r, 1) = SubSeq(r, 2, Len(r))
    BY DEF Rest
  <2> QED BY <1>8, <1>10, <2>1, <2>2, <2>3
<1> QED BY <1>2, <1>8, <1>9, <1>10 DEF Rest

\* What starts no good packet is skipped.
LEMMA ParseSkips ==
  ASSUME NEW p \in Protocols, NEW s \in Seq(Byte), NEW o \in Nat, o < Len(s),
         \/ ~Starts(p, Rest(s, o))
         \/ /\ ~Incomplete(p, Rest(s, o))
            /\ SubSeq(Rest(s, o), 1, PacketLen(p, Rest(s, o))) \notin Good
  PROVE  Parse(p)[Rest(s, o)] = Parse(p)[Rest(s, o + 1)]
<1>1. o \in 0..Len(s) /\ 1 \in 0..(Len(s) - o)
  OBVIOUS
<1>2. PICK r \in Seq(Byte) : r = Rest(s, o)
  BY <1>1, RestIs
<1>3. r # <<>> /\ Tail(r) = Rest(s, o + 1)
  BY <1>1, <1>2, RestOfRest
<1>4. Parse(p)[r] = ParseBody(p, r, Parse(p))
  BY Parses
<1>5. ParseBody(p, r, Parse(p)) = Parse(p)[Tail(r)]
  BY <1>2, <1>3 DEF ParseBody
<1> QED BY <1>2, <1>3, <1>4, <1>5

LEMMA PreambleIs ==
  ASSUME NEW p \in Protocols
  PROVE  /\ 1 \in DOMAIN Preamble(p) /\ Len(Preamble(p)) \in {1, 2}
         /\ DOMAIN Preamble(p) = 1..Len(Preamble(p))
         /\ p = "ubx" <=> Len(Preamble(p)) = 2
         /\ p = "ubx" => Preamble(p) = <<PREAMBLE0, PREAMBLE1>>
         /\ p = "mavlink1" => Preamble(p) = <<STX>>
         /\ p = "rtcm3" => Preamble(p) = <<PREAMBLE>>
<1>1. CASE p = "mavlink1"
  BY <1>1 DEF Preamble
<1>2. CASE p = "ubx"
  BY <1>2 DEF Preamble
<1>3. CASE p = "rtcm3"
  BY <1>3 DEF Preamble
<1> QED BY <1>1, <1>2, <1>3 DEF Protocols

\* A byte that is not the start byte is skipped.
LEMMA ParseSkipsByte ==
  ASSUME NEW p \in Protocols, NEW s \in Seq(Byte), NEW o \in Nat, o < Len(s),
         s[o + 1] # Preamble(p)[1]
  PROVE  Parse(p)[Rest(s, o)] = Parse(p)[Rest(s, o + 1)]
<1>1. Rest(s, o) \in Seq(Byte) /\ Len(Rest(s, o)) = Len(s) - o /\ Rest(s, o)[1] = s[o + 1]
  <2>1. o \in 0..Len(s) /\ 1 \in 1..(Len(s) - o)
    OBVIOUS
  <2> QED BY <2>1, RestIs
<1>2. 1 \in DOMAIN Preamble(p) /\ 1 <= Len(Rest(s, o))
  BY <1>1, PreambleIs
<1>3. ~Starts(p, Rest(s, o))
  BY <1>1, <1>2 DEF Starts
<1> QED BY <1>3, ParseSkips

\* And so are n of them.
LEMMA ParseSkipsBytes ==
  ASSUME NEW p \in Protocols, NEW s \in Seq(Byte), NEW o \in Nat, NEW n \in Nat,
         o + n <= Len(s), \A i \in 1..n : s[o + i] # Preamble(p)[1]
  PROVE  Parse(p)[Rest(s, o)] = Parse(p)[Rest(s, o + n)]
<1> DEFINE T == {i \in Nat : Parse(p)[Rest(s, o)] = Parse(p)[Rest(s, o + (i - 1))]}
<1>1. 1 \in T
  <2>1. o + (1 - 1) = o
    OBVIOUS
  <2> QED BY <2>1
<1>2. ASSUME NEW i \in 1..((n + 1) - 1), i \in T PROVE i + 1 \in T
  <2>1. PICK q \in Nat : q = o + (i - 1)
    OBVIOUS
  <2>2. q < Len(s) /\ q + 1 = o + i /\ q + 1 = o + ((i + 1) - 1) /\ i \in 1..n /\ i + 1 \in Nat
    BY <2>1
  <2>3. Parse(p)[Rest(s, q)] = Parse(p)[Rest(s, q + 1)]
    BY <2>2, ParseSkipsByte
  <2> QED BY <1>2, <2>1, <2>2, <2>3
<1> HIDE DEF T
<1>3. n + 1 \in T
  <2>1. Passes(T, (n + 1) - 1)
    BY <1>2 DEF Passes
  <2>2. n + 1 \in Nat /\ n + 1 \in 1..(n + 1)
    OBVIOUS
  <2> QED BY <1>1, <2>1, <2>2, UpTo
<1> USE DEF T
<1>4. o + ((n + 1) - 1) = o + n
  OBVIOUS
<1> QED BY <1>3, <1>4

\* The first byte of a UBX preamble without the second is skipped.
LEMMA ParseSkipsPreamble ==
  ASSUME NEW s \in Seq(Byte), NEW o \in Nat, o + 2 <= Len(s), s[o + 2] # PREAMBLE1
  PROVE  Parse("ubx")[Rest(s, o)] = Parse("ubx")[Rest(s, o + 1)]
<1>1. Rest(s, o) \in Seq(Byte) /\ Len(Rest(s, o)) = Len(s) - o /\ Rest(s, o)[2] = s[o + 2]
  <2>1. o \in 0..Len(s) /\ 2 \in 1..(Len(s) - o)
    OBVIOUS
  <2> QED BY <2>1, RestIs
<1>2. "ubx" \in Protocols
  BY DEF Protocols
<1>3. 2 \in DOMAIN Preamble("ubx") /\ Preamble("ubx")[2] = PREAMBLE1 /\ 2 <= Len(Rest(s, o))
  BY <1>1, <1>2, PreambleIs
<1>4. ~Starts("ubx", Rest(s, o))
  BY <1>1, <1>3 DEF Starts
<1> QED BY <1>2, <1>4, ParseSkips

\* A packet of n bytes would begin at o and is complete in s; it is skipped or taken.
Measured(p, s, o, n) ==
  o + n <= Len(s) /\ HeaderLen(p) < n /\ n = PacketLen(p, Rest(s, o))
SkipsOrTakes(p, s, o, n) ==
  /\ SubSeq(s, o + 1, o + n) \notin Good =>
       Parse(p)[Rest(s, o)] = Parse(p)[Rest(s, o + 1)]
  /\ SubSeq(s, o + 1, o + n) \in Good /\ Starts(p, Rest(s, o)) =>
       Parse(p)[Rest(s, o)] = <<SubSeq(s, o + 1, o + n)>> \o Parse(p)[Rest(s, o + n)]

\* A complete packet is either skipped or taken.
LEMMA ParseTakes ==
  ASSUME NEW p \in Protocols, NEW s \in Seq(Byte), NEW o \in Nat, NEW n \in Nat,
         Measured(p, s, o, n)
  PROVE  SkipsOrTakes(p, s, o, n)
<1>0. o + n <= Len(s) /\ HeaderLen(p) < n /\ n = PacketLen(p, Rest(s, o))
  BY DEF Measured
<1>1. HeaderLen(p) \in Nat /\ HeaderLen(p) >= 2 /\ Len(s) \in Nat
  BY PacketLens
<1>2. o < Len(s) /\ o \in 0..Len(s) /\ n \in 0..(Len(s) - o) /\ n > 0 /\ 1 \in 0..(Len(s) - o)
  BY <1>0, <1>1
<1>3. PICK r \in Seq(Byte) : r = Rest(s, o)
  BY <1>2, RestIs
<1>4. /\ Len(r) = Len(s) - o /\ SubSeq(r, 1, n) = SubSeq(s, o + 1, o + n)
      /\ SubSeq(r, n + 1, Len(r)) = Rest(s, o + n) /\ r # <<>>
  BY <1>2, <1>3, RestIs, RestOfRest
<1>5. ~Incomplete(p, r)
  <2>1. n = PacketLen(p, r)
    BY <1>0, <1>3
  <2>2. PICK h, l \in Nat : h = HeaderLen(p) /\ l = Len(r)
    BY <1>1, <1>3
  <2>3. h < n /\ n <= l
    BY <1>0, <1>1, <1>2, <1>4, <2>2
  <2>4. ~(l < h \/ l < n)
    BY <2>2, <2>3
  <2> QED BY <2>1, <2>2, <2>4 DEF Incomplete
<1>6. ASSUME SubSeq(s, o + 1, o + n) \notin Good
      PROVE  Parse(p)[Rest(s, o)] = Parse(p)[Rest(s, o + 1)]
  BY <1>0, <1>2, <1>3, <1>4, <1>5, <1>6, ParseSkips
<1>7. ASSUME SubSeq(s, o + 1, o + n) \in Good, Starts(p, Rest(s, o))
      PROVE  Parse(p)[Rest(s, o)] = <<SubSeq(s, o + 1, o + n)>> \o Parse(p)[Rest(s, o + n)]
  <2>1. Parse(p)[r] = ParseBody(p, r, Parse(p))
    BY Parses
  <2>2. ParseBody(p, r, Parse(p)) = <<SubSeq(r, 1, n)>> \o Parse(p)[SubSeq(r, n + 1, Len(r))]
    BY <1>0, <1>3, <1>4, <1>5, <1>7 DEF ParseBody
  <2> QED BY <1>3, <1>4, <2>1, <2>2
<1> QED BY <1>6, <1>7 DEF SkipsOrTakes

\* An incomplete packet is none.
LEMMA ParseStops ==
  ASSUME NEW p \in Protocols, NEW r \in Seq(Byte),
         r = <<>> \/ (Starts(p, r) /\ Incomplete(p, r))
  PROVE  Parse(p)[r] = <<>>
<1>1. Parse(p)[r] = ParseBody(p, r, Parse(p))
  BY Parses
<1> QED BY <1>1 DEF ParseBody

-----------------------------------------------------------------------------
(* The recognizers find the packets of the stream. *)

\* s begins with the stream.
Extends(s) == Len(fed) <= Len(s) /\ \A i \in 1..Len(fed) : s[i] = fed[i]

\* What is kept begins like a packet.
BegunInv ==
  /\ Kept > 0 => fed[Len(out) + 1] = Preamble(which)[1]
  /\ Kept > 1 /\ which = "ubx" => fed[Len(out) + 2] = PREAMBLE1
  /\ state = "HEADER" /\ which = "ubx" => Kept > 1

\* However the stream goes on: its packets are those found and those of what is not
\* yet passed on.
Finds(s) == packets \o Parse(which)[Rest(s, Len(out))]
FoundInv == \A s \in Seq(Byte) : Extends(s) => Parse(which)[s] = Finds(s)

PInv == BegunInv /\ FoundInv

\* A step changes nothing about that.
Follows == \A s \in Seq(Byte) : Extends(s) => Finds(s)' = Finds(s)

\* What is kept and what is read, in a stream that goes on as s.
LEMMA StreamBytes ==
  ASSUME IInv, NEW s \in Seq(Byte), Extends(s)
  PROVE  /\ Len(out) \in Nat /\ Kept \in Nat /\ Len(s) \in Nat /\ Len(out) + Kept <= Len(s)
         /\ \A k \in 1..Kept : s[Len(out) + k] = packet[k - 1]
         /\ frames # <<>> =>
              /\ Top.len \in Nat \ {0} /\ Unread \in Seq(Byte) /\ Len(Unread) = Top.len
              /\ Len(out) + Kept + Top.len <= Len(s)
              /\ \A k \in 1..Top.len : s[Len(out) + Kept + k] = Unread[k]
<1>1. /\ Len(out) \in Nat /\ Kept \in Nat /\ Len(fed) \in Nat /\ Len(s) \in Nat
      /\ Len(out) + Kept <= Len(fed) /\ Len(fed) <= Len(s)
      /\ Holds(packet, 0, Len(out), Kept)
  BY KeptBytes DEF IInv, Extends
<1>2. ASSUME NEW k \in 1..Kept PROVE s[Len(out) + k] = packet[k - 1]
  <2>1. Len(out) + k \in 1..Len(fed) /\ 0 + k - 1 = k - 1
    BY <1>1
  <2>2. packet[0 + k - 1] = fed[Len(out) + k]
    BY <1>1 DEF Holds
  <2> QED BY <2>1, <2>2 DEF Extends
<1>3. ASSUME frames # <<>>
      PROVE  /\ Top.len \in Nat \ {0} /\ Unread \in Seq(Byte) /\ Len(Unread) = Top.len
             /\ Len(out) + Kept + Top.len <= Len(s)
             /\ \A k \in 1..Top.len : s[Len(out) + Kept + k] = Unread[k]
  <2>1. /\ Top.len \in Nat \ {0} /\ Unread \in Seq(Byte) /\ Len(Unread) = Top.len
        /\ Len(out) + Kept + Top.len <= Len(fed)
        /\ Holds(Unread, 1, Len(out) + Kept, Top.len)
    BY <1>3, Reading
  <2>2. ASSUME NEW k \in 1..Top.len PROVE s[Len(out) + Kept + k] = Unread[k]
    <3>1. Len(out) + Kept + k \in 1..Len(fed) /\ 1 + k - 1 = k
      BY <1>1, <2>1
    <3>2. Unread[1 + k - 1] = fed[Len(out) + Kept + k]
      BY <2>1 DEF Holds
    <3> QED BY <3>1, <3>2 DEF Extends
  <2>3. Len(out) + Kept + Top.len <= Len(s)
    BY <1>1, <2>1
  <2> QED BY <2>1, <2>2, <2>3
<1>4. Len(out) + Kept <= Len(s)
  BY <1>1
<1> QED BY <1>1, <1>2, <1>3, <1>4

LEMMA HeadLenIs == HeaderLen(which) = HeadLen \/ which \notin Protocols
BY DEF HeaderLen, HeadLen, Protocols

\* The header kept says how long the packet is.
LEMMA SizeIs ==
  ASSUME IInv, state = "LOAD", NEW s \in Seq(Byte), Extends(s)
  PROVE  PacketLen(which, Rest(s, Len(out))) = Size
<1>1. which \in Protocols /\ Kept >= HeadLen /\ HeadLen \in Nat /\ HeadLen >= 2
  BY Sizes DEF IInv, StateInv, Kept
<1>2. /\ Len(out) \in 0..Len(s) /\ Kept <= Len(s) - Len(out) /\ Kept \in Nat /\ Len(s) \in Nat
      /\ \A k \in 1..Kept : s[Len(out) + k] = packet[k - 1]
  BY StreamBytes
<1>3. PICK r \in Seq(Byte) : r = Rest(s, Len(out))
  BY <1>2, RestIs
<1>4. ASSUME NEW i \in 0..(HeadLen - 1) PROVE r[i + 1] = packet[i]
  <2>1. i + 1 \in 1..Kept /\ i + 1 \in 1..(Len(s) - Len(out)) /\ (i + 1) - 1 = i
    BY <1>1, <1>2
  <2>2. r[i + 1] = s[Len(out) + (i + 1)]
    BY <1>2, <1>3, <2>1, RestIs
  <2>3. s[Len(out) + (i + 1)] = packet[(i + 1) - 1]
    BY <1>2, <2>1
  <2> QED BY <2>1, <2>2, <2>3
<1>5. PICK h : h = [i \in 0..(HeadLen - 1) |-> r[i + 1]]
  OBVIOUS
<1>6. h = [i \in 0..(HeadLen - 1) |-> packet[i]] /\ h[1] = packet[1]
  <2>1. 1 \in 0..(HeadLen - 1)
    BY <1>1
  <2> QED BY <1>4, <1>5, <2>1
<1>7. CASE which = "mavlink1"
  BY <1>3, <1>5, <1>6, <1>7 DEF PacketLen, HeaderLen, HeadLen, Size, MavlinkSize
<1>8. CASE which = "ubx"
  BY <1>3, <1>5, <1>6, <1>8 DEF PacketLen, HeaderLen, HeadLen, Size, UbxSize, Header
<1>9. CASE which = "rtcm3"
  BY <1>3, <1>5, <1>6, <1>9 DEF PacketLen, HeaderLen, HeadLen, Size, RtcmSize, Header
<1> QED BY <1>1, <1>7, <1>8, <1>9 DEF Protocols

\* The preamble is there as far as bytes are kept.
LEMMA StartsThere ==
  ASSUME IInv, BegunInv, NEW s \in Seq(Byte), Extends(s),
         Kept > 1 \/ Len(s) = Len(out) + Kept, Kept > 0
  PROVE  Starts(which, Rest(s, Len(out)))
<1>1. /\ Len(out) \in 0..Len(s) /\ Kept \in Nat /\ Len(out) \in Nat /\ Len(s) \in Nat
      /\ Len(out) + Kept <= Len(s)
  BY StreamBytes
<1>2. PICK r \in Seq(Byte) : r = Rest(s, Len(out))
  BY <1>1, RestIs
<1>3. Len(r) = Len(s) - Len(out) /\ \A i \in 1..(Len(s) - Len(out)) : r[i] = s[Len(out) + i]
  BY <1>1, <1>2, RestIs
<1>4. /\ which \in Protocols /\ Len(out) + Kept <= Len(fed) /\ Len(fed) \in Nat
  BY KeptBytes DEF IInv, StateInv
<1>5. ASSUME NEW i \in DOMAIN Preamble(which), i <= Len(r) PROVE r[i] = Preamble(which)[i]
  <2>1. i \in {1, 2} /\ (i = 2 => which = "ubx" /\ Preamble(which)[2] = PREAMBLE1)
    BY <1>4, PreambleIs
  <2>2. i <= Kept
    BY <1>1, <1>3, <1>5, <2>1
  <2>3. Len(out) + i \in 1..Len(fed) /\ i \in 1..(Len(s) - Len(out))
    BY <1>1, <1>3, <1>4, <1>5, <2>1, <2>2
  <2>4. r[i] = fed[Len(out) + i]
    BY <1>3, <2>3 DEF Extends
  <2>5. CASE i = 1
    BY <2>4, <2>5 DEF BegunInv
  <2>6. CASE i = 2
    BY <1>1, <2>1, <2>2, <2>4, <2>6 DEF BegunInv
  <2> QED BY <2>1, <2>5, <2>6
<1> QED BY <1>2, <1>5 DEF Starts

LEMMA OutGrows ==
  ASSUME IInv, NEW w \in Seq(Byte), out' = out \o w
  PROVE  Len(out') = Len(out) + Len(w)
BY ConcatProperties DEF IInv, Prefix

\* Nothing is kept.
LEMMA NoneKept == ASSUME state' = "BEFORE" PROVE BegunInv'
BY DEF BegunInv, Kept

\* Bytes without a start byte.
LEMMA NoStartFinds ==
  ASSUME IInv, UNCHANGED which, NoStart(Preamble(which)[1])
  PROVE  BegunInv' /\ Follows
<1>1. /\ frames # <<>> /\ state = "BEFORE" /\ out' = out \o Unread
      /\ \A i \in 1..Top.len : Unread[i] # Preamble(which)[1]
      /\ UNCHANGED <<state, packets, which>>
  BY DEF NoStart, Running
<1>2. Kept = 0 /\ which \in Protocols
  BY <1>1 DEF Kept, IInv, StateInv
<1>3. ASSUME NEW s \in Seq(Byte), Extends(s) PROVE Finds(s)' = Finds(s)
  <2>1. PICK o \in Nat : o = Len(out) /\ o + 0 = o
    BY StreamBytes, <1>3
  <2>2. PICK n \in Nat : n = Top.len
    BY StreamBytes, <1>1, <1>3
  <2>3. /\ Unread \in Seq(Byte) /\ Len(Unread) = n /\ o + n <= Len(s)
        /\ \A i \in 1..n : s[o + i] = Unread[i]
    BY <1>1, <1>2, <1>3, <2>1, <2>2, StreamBytes
  <2>4. Parse(which)[Rest(s, o)] = Parse(which)[Rest(s, o + n)]
    <3>1. \A i \in 1..n : s[o + i] # Preamble(which)[1]
      BY <1>1, <2>2, <2>3
    <3> QED BY <1>2, <2>3, <3>1, ParseSkipsBytes
  <2>5. Len(out') = o + n
    BY <1>1, <2>1, <2>3, OutGrows
  <2> QED BY <1>1, <2>1, <2>4, <2>5 DEF Finds
<1> QED BY <1>1, <1>3, NoneKept DEF Follows

\* A start byte behind l bytes that are none.
LEMMA FoundFinds ==
  ASSUME IInv, UNCHANGED which, NEW l \in 0..(Top.len - 1), NEW next, NEW len,
         Found(Preamble(which)[1], l, 1, next, len),
         next \in {"LEN", "PREAMBLE"} \/ (next = "HEADER" /\ len = 1 /\ which # "ubx")
  PROVE  BegunInv' /\ Follows
<1>1. /\ frames # <<>> /\ state = "BEFORE" /\ out' = out \o SubSeq(Unread, 1, l)
      /\ Unread[l + 1] = Preamble(which)[1]
      /\ \A i \in 1..l : Unread[i] # Preamble(which)[1]
      /\ state' = next /\ packet_len' = len /\ UNCHANGED <<fed, packets, which>>
  BY DEF Found, Running
<1>2. Kept = 0 /\ Kept' = 1 /\ which \in Protocols /\ Len(out) \in Nat
  BY <1>1, KeptBytes DEF Kept, IInv, StateInv
<1>3. /\ Top.len \in Nat \ {0} /\ Unread \in Seq(Byte) /\ Len(Unread) = Top.len /\ l \in Nat
      /\ Len(out) + Kept + Top.len <= Len(fed)
      /\ Holds(Unread, 1, Len(out) + Kept, Top.len)
  <2>1. /\ Top.len \in Nat \ {0} /\ Unread \in Seq(Byte) /\ Len(Unread) = Top.len
        /\ Len(out) + Kept + Top.len <= Len(fed)
        /\ Holds(Unread, 1, Len(out) + Kept, Top.len)
    BY <1>1, Reading
  <2> QED BY <2>1
<1>4. SubSeq(Unread, 1, l) \in Seq(Byte) /\ Len(SubSeq(Unread, 1, l)) = l
  BY <1>3
<1>5. PICK o \in Nat : o = Len(out) /\ Len(out') = o + l
  BY <1>1, <1>2, <1>4, OutGrows
<1>6. fed[(o + l) + 1] = Preamble(which)[1]
  <2>1. l + 1 \in 1..Top.len /\ 1 + (l + 1) - 1 = l + 1
    BY <1>3
  <2>2. Len(out) + Kept + (l + 1) = (o + l) + 1
    BY <1>2, <1>3, <1>5
  <2>3. Unread[1 + (l + 1) - 1] = fed[Len(out) + Kept + (l + 1)]
    BY <1>3, <2>1 DEF Holds
  <2> QED BY <1>1, <2>1, <2>2, <2>3
<1>7. BegunInv'
  BY <1>1, <1>2, <1>5, <1>6 DEF BegunInv
<1>8. ASSUME NEW s \in Seq(Byte), Extends(s) PROVE Finds(s)' = Finds(s)
  <2>1. /\ o + l <= Len(s) /\ \A i \in 1..l : s[o + i] = Unread[i]
    <3>1. /\ Len(out) + Kept + Top.len <= Len(s) /\ Len(s) \in Nat
          /\ \A k \in 1..Top.len : s[Len(out) + Kept + k] = Unread[k]
      BY <1>1, <1>8, StreamBytes
    <3>2. Len(out) + Kept = o /\ \A i \in 1..l : i \in 1..Top.len
      BY <1>2, <1>3, <1>5
    <3>3. l <= Top.len
      BY <1>3
    <3>4. o + Top.len <= Len(s) /\ \A k \in 1..Top.len : s[o + k] = Unread[k]
      BY <3>1, <3>2
    <3> QED BY <1>3, <3>1, <3>2, <3>3, <3>4
  <2>2. Parse(which)[Rest(s, o)] = Parse(which)[Rest(s, o + l)]
    <3>1. \A i \in 1..l : s[o + i] # Preamble(which)[1]
      BY <1>1, <2>1
    <3> QED BY <1>2, <1>3, <2>1, <3>1, ParseSkipsBytes
  <2> QED BY <1>1, <1>5, <2>2 DEF Finds
<1> QED BY <1>7, <1>8 DEF Follows

\* More bytes of a packet.
LEMMA KeepFinds ==
  ASSUME IInv, BegunInv, frames # <<>>, Kept > 0, UNCHANGED <<which, fed, out, packets>>,
         which = "ubx" => \/ Kept > 1
                          \/ Kept = 1 /\ Unread[1] = PREAMBLE1 /\ (state' = "HEADER" => Kept' > 1),
         Kept' \in Nat /\ Kept' >= Kept
  PROVE  BegunInv' /\ Follows
<1>1. /\ Kept \in Nat /\ Len(out) \in Nat /\ Top.len \in Nat \ {0}
      /\ Holds(Unread, 1, Len(out) + Kept, Top.len)
  BY Reading, KeptBytes DEF IInv
<1>2. ASSUME Kept = 1 PROVE fed[Len(out) + 2] = Unread[1]
  <2>1. Unread[1 + 1 - 1] = fed[Len(out) + Kept + 1] /\ 1 + 1 - 1 = 1
    BY <1>1 DEF Holds
  <2>2. Len(out) + Kept + 1 = Len(out) + 2
    BY <1>1, <1>2
  <2> QED BY <2>1, <2>2
<1>3. fed[Len(out) + 1] = Preamble(which)[1]
  BY DEF BegunInv
<1>4. ASSUME which = "ubx" PROVE fed[Len(out) + 2] = PREAMBLE1
  BY <1>2, <1>4 DEF BegunInv
<1>5. which = "ubx" /\ state' = "HEADER" => Kept' > 1
  BY <1>1
<1>6. BegunInv'
  BY <1>3, <1>4, <1>5 DEF BegunInv
<1>7. Follows
  BY DEF Follows, Finds
<1> QED BY <1>6, <1>7

\* The first byte of a preamble that the second does not follow.
LEMMA NoPreambleFinds ==
  ASSUME IInv, UNCHANGED which, which = "ubx", UbxNoPreamble
  PROVE  BegunInv' /\ Follows
<1>1. /\ frames # <<>> /\ state = "PREAMBLE" /\ state' = "BEFORE" /\ Unread[1] # PREAMBLE1
      /\ out' = Append(out, packet[0]) /\ UNCHANGED <<fed, packets, which>>
  BY DEF UbxNoPreamble, Running
<1>2. Kept = 1
  BY <1>1 DEF Kept
<1>3. out \in Seq(Byte) /\ Len(out) \in Nat
  BY DEF IInv, Prefix
<1>4. Len(out') = Len(out) + 1
  BY <1>1, <1>3
<1>5. ASSUME NEW s \in Seq(Byte), Extends(s) PROVE Finds(s)' = Finds(s)
  <2>1. /\ Len(out) + Kept + Top.len <= Len(s) /\ Len(s) \in Nat /\ Top.len \in Nat \ {0}
        /\ \A k \in 1..Top.len : s[Len(out) + Kept + k] = Unread[k]
    BY <1>1, <1>5, StreamBytes
  <2>2. s[Len(out) + Kept + 1] = Unread[1]
    BY <2>1
  <2>3. Len(out) + 2 <= Len(s) /\ Len(out) + Kept + 1 = Len(out) + 2
    BY <1>2, <1>3, <2>1
  <2>4. Parse("ubx")[Rest(s, Len(out))] = Parse("ubx")[Rest(s, Len(out) + 1)]
    BY <1>1, <1>3, <2>2, <2>3, ParseSkipsPreamble
  <2> QED BY <1>1, <1>4, <2>4 DEF Finds
<1> QED BY <1>1, <1>5, NoneKept DEF Follows

\* More bytes are copied.
LEMMA CopyFinds ==
  ASSUME IInv, BegunInv, frames # <<>>, UNCHANGED which, NEW size, Copy(size, "LOAD"),
         \/ state = "HEADER" /\ size = HeadLen
         \/ state = "LOAD" /\ size = Size
  PROVE  BegunInv' /\ Follows
<1>1. /\ packet_len' = packet_len + CopyLen(size)
      /\ state' = (IF packet_len' = size THEN "LOAD" ELSE state)
      /\ UNCHANGED <<fed, out, packets>>
  BY DEF Copy
<1>2. Kept = packet_len /\ Kept' = packet_len'
  BY <1>1 DEF Kept
<1>3. HeadLen \in Nat /\ HeadLen >= 2 /\ Size \in Nat /\ HeadLen < Size
  BY Sizes DEF IInv, StateInv
<1>4. size \in Nat /\ packet_len \in Nat /\ packet_len < size /\ packet_len > 0
  BY <1>3 DEF IInv, StateInv
<1>5. CopyLen(size) \in Nat
  <2>1. Top.len \in Nat
    BY Reading
  <2> QED BY <1>4, <2>1 DEF CopyLen
<1>6. Kept > 0 /\ Kept' \in Nat /\ Kept' >= Kept
  BY <1>1, <1>2, <1>4, <1>5
<1>7. which = "ubx" => Kept > 1
  <2>1. CASE state = "HEADER"
    BY <2>1 DEF BegunInv
  <2>2. CASE state = "LOAD"
    <3>1. packet_len >= HeadLen /\ packet_len \in Nat
      BY <1>3, <2>2 DEF IInv, StateInv
    <3> QED BY <1>2, <1>3, <3>1
  <2> QED BY <2>1, <2>2
<1> QED BY <1>1, <1>6, <1>7, KeepFinds

\* What is complete, in a stream that goes on as s.
LEMMA CompleteFinds ==
  ASSUME IInv, BegunInv, Complete(Size), NEW s \in Seq(Byte), Extends(s)
  PROVE  /\ which \in Protocols /\ Size \in Nat /\ Size > 2 /\ HeaderLen(which) < Size
         /\ Len(out) \in Nat /\ Len(out) + Size <= Len(s) /\ Len(s) \in Nat
         /\ Size = PacketLen(which, Rest(s, Len(out))) /\ Starts(which, Rest(s, Len(out)))
         /\ Whole(Size) = SubSeq(s, Len(out) + 1, Len(out) + Size)
         /\ which = "ubx" => s[Len(out) + 2] = PREAMBLE1
<1>1. state = "LOAD" /\ frames # <<>>
  BY DEF Complete, Running
<1>2. PICK n \in Nat : n = Size /\ n > 2
  BY CompleteBytes
<1>3. /\ Kept = packet_len /\ Whole(n) \in Seq(Byte) /\ Len(Whole(n)) = n
      /\ Len(out) + n <= Len(fed) /\ Holds(Whole(n), 1, Len(out), n)
  BY <1>2, CompleteBytes
<1>4. which \in Protocols /\ HeadLen >= 2 /\ HeadLen \in Nat /\ HeadLen < n /\ Kept >= HeadLen
  BY <1>1, <1>2, <1>3, Sizes DEF IInv, StateInv
<1>5. HeaderLen(which) < n
  BY <1>4, HeadLenIs
<1>6. n = PacketLen(which, Rest(s, Len(out)))
  BY <1>1, <1>2, SizeIs
<1>7. /\ Kept \in Nat /\ Len(out) \in Nat /\ Len(s) \in Nat /\ Len(fed) \in Nat
      /\ Len(fed) <= Len(s)
  BY KeptBytes DEF IInv, Extends
<1>8. Starts(which, Rest(s, Len(out)))
  BY <1>4, <1>7, StartsThere
<1>9. Len(out) + n <= Len(s)
  BY <1>2, <1>3, <1>7
<1>10. Whole(n) = SubSeq(s, Len(out) + 1, Len(out) + n)
  <2>1. PICK p : p = SubSeq(s, Len(out) + 1, Len(out) + n)
    OBVIOUS
  <2>2. Len(out) \in 0..Len(s) /\ n \in 0..(Len(s) - Len(out)) /\ n > 0
    BY <1>2, <1>7, <1>9
  <2>3. PICK r \in Seq(Byte) : r = Rest(s, Len(out))
    BY <2>2, RestIs
  <2>4. p = SubSeq(r, 1, n)
    BY <2>1, <2>2, <2>3, RestOfRest
  <2>5. Len(r) = Len(s) - Len(out) /\ \A i \in 1..(Len(s) - Len(out)) : r[i] = s[Len(out) + i]
    BY <2>2, <2>3, RestIs
  <2>6. p \in Seq(Byte) /\ Len(p) = n /\ \A i \in 1..n : p[i] = r[i]
    BY <2>2, <2>3, <2>4, <2>5
  <2>7. ASSUME NEW i \in 1..n PROVE p[i] = Whole(n)[i]
    <3>1. i \in 1..(Len(s) - Len(out)) /\ Len(out) + i \in 1..Len(fed) /\ 1 + i - 1 = i
      BY <1>2, <1>3, <1>7, <2>2
    <3>2. Whole(n)[1 + i - 1] = fed[Len(out) + i]
      BY <1>3 DEF Holds
    <3>3. p[i] = s[Len(out) + i] /\ s[Len(out) + i] = fed[Len(out) + i]
      BY <2>5, <2>6, <3>1 DEF Extends
    <3> QED BY <3>1, <3>2, <3>3
  <2> QED BY <1>3, <2>1, <2>6, <2>7, SeqEqual
<1>11. ASSUME which = "ubx" PROVE s[Len(out) + 2] = PREAMBLE1
  <2>1. Len(out) + 2 \in 1..Len(fed) /\ Kept > 1
    BY <1>2, <1>3, <1>4, <1>7
  <2> QED BY <1>11, <2>1 DEF BegunInv, Extends
<1> QED BY <1>2, <1>4, <1>5, <1>6, <1>7, <1>8, <1>9, <1>10, <1>11

LEMMA AppendInFront ==
  ASSUME NEW S, NEW a \in Seq(S), NEW x \in S, NEW b \in Seq(S)
  PROVE  Append(a, x) \o b = a \o (<<x>> \o b)
<1>1. PICK y : y = <<x>>
  OBVIOUS
<1>2. y \in Seq(S)
  BY <1>1
<1>3. Append(a, x) = a \o y
  BY <1>1, AppendIsConcat
<1>4. (a \o y) \o b = a \o (y \o b)
  BY <1>2, ConcatAssociative
<1> QED BY <1>1, <1>3, <1>4

\* A good packet is the next packet of the stream.
LEMMA GoodFinds ==
  ASSUME IInv, BegunInv, UNCHANGED which, LoadGood(Size)
  PROVE  BegunInv' /\ Follows
<1>1. /\ Complete(Size) /\ Whole(Size) \in Good /\ state' = "BEFORE"
      /\ out' = out \o Whole(Size) /\ packets' = Append(packets, Whole(Size))
      /\ UNCHANGED <<fed, which>>
  BY DEF LoadGood
<1>2. PICK n \in Nat : n = Size
  BY <1>1, CompleteBytes
<1>3. PICK w \in Seq(Byte) : w = Whole(Size) /\ Len(w) = n
  BY <1>1, <1>2, CompleteBytes
<1>4. Len(out') = Len(out) + n
  BY <1>1, <1>3, OutGrows
<1>5. ASSUME NEW s \in Seq(Byte), Extends(s) PROVE Finds(s)' = Finds(s)
  <2>0. PICK o \in Nat : o = Len(out)
    BY <1>5, StreamBytes
  <2>1. /\ which \in Protocols /\ HeaderLen(which) < n
        /\ o + n <= Len(s) /\ Len(s) \in Nat
        /\ n = PacketLen(which, Rest(s, o)) /\ Starts(which, Rest(s, o))
        /\ w = SubSeq(s, o + 1, o + n)
    BY <1>1, <1>2, <1>3, <1>5, <2>0, CompleteFinds
  <2>2. PICK p \in Seq(Seq(Byte)) : p = Parse(which)[Rest(s, o + n)]
    <3>1. o + n \in 0..Len(s)
      BY <2>1
    <3> QED BY <2>1, <3>1, RestIs, Parses
  <2>3. Parse(which)[Rest(s, o)] = <<w>> \o p
    <3>1. SubSeq(s, o + 1, o + n) \in Good
      BY <1>1, <1>3, <2>1
    <3>2. Parse(which)[Rest(s, o)] = <<SubSeq(s, o + 1, o + n)>> \o Parse(which)[Rest(s, o + n)]
      <4>1. Measured(which, s, o, n)
        BY <2>1 DEF Measured
      <4>2. SkipsOrTakes(which, s, o, n)
        BY <2>1, <4>1, ParseTakes, Zenon
      <4> QED BY <2>1, <3>1, <4>2 DEF SkipsOrTakes
    <3> QED BY <2>1, <2>2, <3>2
  <2>4. packets \in Seq(Seq(Byte))
    BY DEF IInv, GoodInv
  <2>5. Append(packets, w) \o p = packets \o (<<w>> \o p)
    <3>1. PICK S : S = Seq(Byte)
      OBVIOUS
    <3>2. packets \in Seq(S) /\ w \in S /\ p \in Seq(S)
      BY <1>3, <2>2, <2>4, <3>1
    <3> QED BY <3>2, AppendInFront
  <2> QED BY <1>1, <1>3, <1>4, <2>0, <2>2, <2>3, <2>5 DEF Finds
<1> QED BY <1>1, <1>5, NoneKept DEF Follows

\* A bad packet is none, and neither starts one at its second byte if that leaves too.
LEMMA BadFinds ==
  ASSUME IInv, BegunInv, UNCHANGED which, NEW d \in {1, 2}, LoadBad(Size, d, d, Size - d),
         d = 2 => which = "ubx"
  PROVE  BegunInv' /\ Follows
<1>1. /\ Complete(Size) /\ Whole(Size) \notin Good /\ state' = "BEFORE"
      /\ out' = out \o SubSeq(Whole(Size), 1, d) /\ UNCHANGED <<fed, packets, which>>
  BY DEF LoadBad
<1>2. PICK n \in Nat : n = Size /\ n > 2
  BY <1>1, CompleteBytes
<1>3. PICK w \in Seq(Byte) : w = Whole(Size) /\ Len(w) = n
  BY <1>1, <1>2, CompleteBytes
<1>4. Len(out') = Len(out) + d
  <2>1. SubSeq(w, 1, d) \in Seq(Byte) /\ Len(SubSeq(w, 1, d)) = d
    BY <1>2, <1>3
  <2> QED BY <1>1, <1>3, <2>1, OutGrows
<1>5. ASSUME NEW s \in Seq(Byte), Extends(s) PROVE Finds(s)' = Finds(s)
  <2>0. PICK o \in Nat : o = Len(out)
    BY <1>5, StreamBytes
  <2>1. /\ which \in Protocols /\ HeaderLen(which) < n
        /\ o + n <= Len(s) /\ Len(s) \in Nat
        /\ n = PacketLen(which, Rest(s, o))
        /\ w = SubSeq(s, o + 1, o + n)
        /\ which = "ubx" => s[o + 2] = PREAMBLE1
    BY <1>1, <1>2, <1>3, <1>5, <2>0, CompleteFinds
  <2>2. Parse(which)[Rest(s, o)] = Parse(which)[Rest(s, o + 1)]
    <3>1. SubSeq(s, o + 1, o + n) \notin Good
      BY <1>1, <1>3, <2>1
    <3>2. Measured(which, s, o, n)
      BY <2>1 DEF Measured
    <3>3. SkipsOrTakes(which, s, o, n)
      BY <2>1, <3>2, ParseTakes, Zenon
    <3> QED BY <2>1, <3>1, <3>3 DEF SkipsOrTakes
  <2>3. CASE d = 1
    BY <1>1, <1>4, <2>0, <2>2, <2>3 DEF Finds
  <2>4. CASE d = 2
    <3>1. PICK q \in Nat : q = o + 1 /\ q + 1 = o + 2 /\ q < Len(s)
      BY <1>2, <2>1
    <3>2. s[q + 1] # Preamble(which)[1]
      <4>1. which = "ubx" /\ Preamble(which)[1] = PREAMBLE0
        BY <2>1, <2>4, PreambleIs
      <4> QED BY <2>1, <3>1, <4>1, UbxAssumption
    <3>3. Parse(which)[Rest(s, q)] = Parse(which)[Rest(s, q + 1)]
      BY <2>1, <3>1, <3>2, ParseSkipsByte
    <3> QED BY <1>1, <1>4, <2>0, <2>2, <2>4, <3>1, <3>3 DEF Finds
  <2> QED BY <2>3, <2>4
<1> QED BY <1>1, <1>5, NoneKept DEF Follows

LEMMA FindsMavlink ==
  ASSUME IInv, BegunInv, which = "mavlink1", UNCHANGED which, MavlinkStep
  PROVE  BegunInv' /\ Follows
<1>1. Size = MavlinkSize /\ HeadLen = 2 /\ StateInv /\ Preamble(which)[1] = STX
  BY DEF Size, HeadLen, IInv, Preamble
<1>2. CASE MavlinkNoStart
  BY <1>1, <1>2, NoStartFinds DEF MavlinkNoStart
<1>3. CASE MavlinkStart
  <2>1. PICK l \in 0..(Top.len - 1) : Found(STX, l, 1, "LEN", packet_len)
    BY <1>3 DEF MavlinkStart, Start
  <2> QED BY <1>1, <2>1, FoundFinds
<1>4. CASE MavlinkLength
  <2>1. /\ Kept = 1 /\ Kept' = 2 /\ frames # <<>> /\ UNCHANGED <<fed, out, packets>>
    BY <1>4 DEF MavlinkLength, Running, Kept
  <2>2. Kept > 0 /\ Kept' \in Nat /\ Kept' >= Kept
    BY <2>1
  <2> QED BY <2>1, <2>2, KeepFinds
<1>5. CASE MavlinkMore
  BY <1>1, <1>5, CopyFinds DEF MavlinkMore, LoadMore, Running
<1>6. CASE MavlinkGood
  BY <1>1, <1>6, GoodFinds DEF MavlinkGood
<1>7. CASE MavlinkBad
  BY <1>1, <1>7, BadFinds DEF MavlinkBad
<1> QED BY <1>2, <1>3, <1>4, <1>5, <1>6, <1>7 DEF MavlinkStep

LEMMA FindsUbx ==
  ASSUME IInv, BegunInv, which = "ubx", UNCHANGED which, UbxStep
  PROVE  BegunInv' /\ Follows
<1>1. Size = UbxSize /\ HeadLen = UbxHeaderLen /\ StateInv /\ Preamble(which)[1] = PREAMBLE0
  BY DEF Size, HeadLen, IInv, Preamble
<1>2. CASE UbxNoStart
  BY <1>1, <1>2, NoStartFinds DEF UbxNoStart
<1>3. CASE UbxStart
  <2>1. PICK l \in 0..(Top.len - 1) : Found(PREAMBLE0, l, 1, "PREAMBLE", packet_len)
    BY <1>3 DEF UbxStart, Start
  <2> QED BY <1>1, <2>1, FoundFinds
<1>4. CASE UbxPreamble
  <2>1. /\ Kept = 1 /\ Kept' = 2 /\ frames # <<>> /\ UNCHANGED <<fed, out, packets>>
        /\ Unread[1] = PREAMBLE1
    BY <1>4 DEF UbxPreamble, Running, Kept
  <2>2. Kept > 0 /\ Kept' \in Nat /\ Kept' >= Kept /\ Kept' > 1
    BY <2>1
  <2> QED BY <2>1, <2>2, KeepFinds
<1>5. CASE UbxNoPreamble
  BY <1>5, NoPreambleFinds
<1>6. CASE UbxHeader
  BY <1>1, <1>6, CopyFinds DEF UbxHeader, Running
<1>7. CASE UbxMore
  BY <1>1, <1>7, CopyFinds DEF UbxMore, LoadMore, Running
<1>8. CASE UbxGood
  BY <1>1, <1>8, GoodFinds DEF UbxGood
<1>9. CASE UbxBad
  BY <1>1, <1>9, BadFinds DEF UbxBad
<1> QED BY <1>2, <1>3, <1>4, <1>5, <1>6, <1>7, <1>8, <1>9 DEF UbxStep

LEMMA FindsRtcm ==
  ASSUME IInv, BegunInv, which = "rtcm3", UNCHANGED which, RtcmStep
  PROVE  BegunInv' /\ Follows
<1>1. Size = RtcmSize /\ HeadLen = RtcmHeaderLen /\ StateInv /\ Preamble(which)[1] = PREAMBLE
  BY DEF Size, HeadLen, IInv, Preamble
<1>2. CASE RtcmNoStart
  BY <1>1, <1>2, NoStartFinds DEF RtcmNoStart
<1>3. CASE RtcmStart
  <2>1. PICK l \in 0..(Top.len - 1) : Found(PREAMBLE, l, 1, "HEADER", 1)
    BY <1>3 DEF RtcmStart, Start
  <2> QED BY <1>1, <2>1, FoundFinds
<1>4. CASE RtcmHeader
  BY <1>1, <1>4, CopyFinds DEF RtcmHeader, Running
<1>5. CASE RtcmMore
  BY <1>1, <1>5, CopyFinds DEF RtcmMore, LoadMore, Running
<1>6. CASE RtcmGood
  BY <1>1, <1>6, GoodFinds DEF RtcmGood
<1>7. CASE RtcmBad
  BY <1>1, <1>7, BadFinds DEF RtcmBad
<1> QED BY <1>2, <1>3, <1>4, <1>5, <1>6, <1>7 DEF RtcmStep

LEMMA FindsNext ==
  ASSUME IInv, PInv, [Next]_<<vars, which>>
  PROVE  PInv'
<1>1. CASE Step
  <2>1. BegunInv' /\ Follows
    BY <1>1, FindsMavlink, FindsUbx, FindsRtcm DEF Step, IInv, StateInv, Protocols, PInv
  <2>2. fed' = fed /\ which' = which
    <3>1. Moves
      BY <1>1, MavlinkSteps, UbxSteps, RtcmSteps DEF Step
    <3> QED BY <1>1, <3>1 DEF Moves, Advances, Delivers, Rejects, Step
  <2>3. FoundInv'
    BY <2>1, <2>2 DEF PInv, FoundInv, Follows, Extends
  <2> QED BY <2>1, <2>3 DEF PInv
<1>2. CASE Feed /\ UNCHANGED which
  <2>1. /\ Len(out) + Kept = Len(fed)
        /\ \E chunk \in Seq(Byte) : fed' = fed \o chunk
        /\ UNCHANGED <<state, packet, packet_len, out, packets, which>>
    BY <1>2, WriteStep DEF Feeds
  <2>2. PICK chunk \in Seq(Byte) : fed' = fed \o chunk
    BY <2>1
  <2>3. /\ fed \in Seq(Byte) /\ Len(fed) \in Nat /\ Len(out) \in Nat /\ Kept \in Nat
        /\ Kept' = Kept
    BY <2>1, KeptBytes DEF IInv, Prefix, Kept
  <2>4. /\ Len(fed') >= Len(fed) /\ Len(fed') \in Nat
        /\ \A i \in 1..Len(fed) : fed'[i] = fed[i]
    BY <2>2, <2>3
  <2>5. BegunInv'
    <3>1. Kept > 0 => fed'[Len(out) + 1] = fed[Len(out) + 1]
      BY <2>1, <2>3, <2>4
    <3>2. Kept > 1 => fed'[Len(out) + 2] = fed[Len(out) + 2]
      BY <2>1, <2>3, <2>4
    <3> QED BY <2>1, <2>3, <3>1, <3>2 DEF PInv, BegunInv
  <2>6. ASSUME NEW s \in Seq(Byte), Extends(s)' PROVE Extends(s)
    <3>1. Len(s) \in Nat /\ Len(fed) <= Len(s)
      BY <2>3, <2>4, <2>6 DEF Extends
    <3>2. ASSUME NEW i \in 1..Len(fed) PROVE s[i] = fed[i]
      <4>1. i \in 1..Len(fed')
        BY <2>3, <2>4
      <4> QED BY <2>4, <2>6, <4>1 DEF Extends
    <3> QED BY <3>1, <3>2 DEF Extends
  <2>7. FoundInv'
    BY <2>1, <2>6 DEF PInv, FoundInv, Finds
  <2> QED BY <2>5, <2>7 DEF PInv
<1>3. CASE UNCHANGED <<vars, which>>
  BY <1>3 DEF vars, PInv, BegunInv, FoundInv, Finds, Extends, Kept
<1> QED BY <1>1, <1>2, <1>3 DEF Next

LEMMA InitFinds == Init => PInv
<1> SUFFICES ASSUME Init PROVE PInv
  OBVIOUS
<1>1. /\ state = "BEFORE" /\ which \in Protocols
      /\ fed = <<>> /\ out = <<>> /\ packets = <<>>
  BY DEF Init, InitWith
<1>2. BegunInv
  BY <1>1 DEF BegunInv, Kept
<1>3. ASSUME NEW s \in Seq(Byte) PROVE Parse(which)[s] = Finds(s)
  <2>1. Rest(s, 0) = s
    BY DEF Rest
  <2>2. PICK p \in Seq(Seq(Byte)) : p = Parse(which)[s]
    BY <1>1, Parses
  <2>3. <<>> \o p = p
    BY ConcatEmptySeq
  <2> QED BY <1>1, <2>1, <2>2, <2>3 DEF Finds
<1> QED BY <1>2, <1>3 DEF PInv, FoundInv

\* However the stream goes on, the packets passed to next are those at its beginning, and
\* the search for the others may go on from what is kept.
THEOREM Findings == Spec => [](IInv /\ PInv)
<1>1. Init => IInv /\ PInv
  BY InitIInv, InitFinds
<1>2. IInv /\ PInv /\ [Next]_<<vars, which>> => IInv' /\ PInv'
  BY NextStep, FindsNext
<1> QED BY <1>1, <1>2, PTL DEF Spec

\* When write has returned, the packets passed to next are those of the whole stream, for
\* every way to cut it into writes.
THEOREM PacketsAreFound == Spec => []FindsThePackets
<1>1. IInv /\ PInv => FindsThePackets
  <2> SUFFICES ASSUME IInv, PInv, frames = <<>> PROVE packets = Parse(which)[fed]
    BY DEF FindsThePackets
  <2>1. /\ which \in Protocols /\ fed \in Seq(Byte) /\ Len(fed) \in Nat /\ Len(out) \in Nat
        /\ Kept \in Nat
    BY KeptBytes DEF IInv, Prefix, StateInv
  <2>2. Len(fed) = Len(out) + Kept
    <3>1. PICK at \in [1..(Len(frames) + 1) -> 0..Len(fed)] :
            Cuts(frames, packet, Len(out) + Kept, at)
      BY DEF IInv, Calls, ReadOn
    <3>2. Len(frames) = 0
      OBVIOUS
    <3> QED BY <3>1, <3>2 DEF Cuts
  <2>3. Extends(fed)
    BY <2>1 DEF Extends
  <2>4. PICK r \in Seq(Byte) : r = Rest(fed, Len(out)) /\ Len(r) = Kept
    <3>1. Len(out) \in 0..Len(fed) /\ Len(fed) - Len(out) = Kept
      BY <2>1, <2>2
    <3> QED BY <2>1, <3>1, RestIs
  <2>5. r = <<>> \/ (Starts(which, r) /\ Incomplete(which, r))
    <3>1. CASE Kept = 0
      BY <2>4, <3>1
    <3>2. CASE Kept # 0
      <4>1. Starts(which, r)
        BY <2>1, <2>2, <2>3, <2>4, <3>2, StartsThere DEF PInv
      <4>2. HeadLen \in Nat /\ HeadLen >= 2 /\ HeaderLen(which) = HeadLen
        BY <2>1, Sizes, HeadLenIs
      <4>3. CASE state = "LOAD"
        <5>1. PacketLen(which, r) = Size
          BY <2>1, <2>3, <2>4, <4>3, SizeIs
        <5>2. Kept = packet_len /\ packet_len \in HeadLen..(Size - 1) /\ Size \in Nat
          BY <2>1, <4>3, Sizes DEF IInv, StateInv, Kept
        <5>3. Len(r) < PacketLen(which, r)
          BY <2>4, <4>2, <5>1, <5>2
        <5> QED BY <4>1, <5>3 DEF Incomplete
      <4>4. CASE state # "LOAD"
        <5>1. Kept < HeadLen
          BY <3>2, <4>2, <4>4 DEF IInv, StateInv, Kept
        <5> QED BY <2>4, <4>1, <4>2, <5>1 DEF Incomplete
      <4> QED BY <4>3, <4>4
    <3> QED BY <3>1, <3>2
  <2>6. Parse(which)[r] = <<>>
    BY <2>1, <2>5, ParseStops
  <2>7. Parse(which)[fed] = packets \o <<>>
    BY <2>1, <2>3, <2>4, <2>6 DEF PInv, FoundInv, Finds
  <2>8. packets \o <<>> = packets
    BY ConcatEmptySeq DEF IInv, GoodInv
  <2> QED BY <2>7, <2>8
<1> QED BY <1>1, Findings, PTL

\* A step of write passes on more of the stream, or keeps more of what follows.
THEOREM WriteGetsOn == Spec => GetsOn
<1>1. IInv /\ IInv' /\ [Next]_<<vars, which>> =>
        [Step => /\ fed' = fed
                 /\ \/ Len(out') > Len(out)
                    \/ out' = out /\ Kept' > Kept]_<<vars, which>>
  <2> SUFFICES ASSUME IInv, IInv', Step
               PROVE  fed' = fed /\ (Len(out') > Len(out) \/ (out' = out /\ Kept' > Kept))
    OBVIOUS
  <2>1. Moves
    BY MavlinkSteps, UbxSteps, RtcmSteps DEF Step
  <2>2. Len(out) \in Nat /\ Kept \in Nat
    BY KeptBytes DEF IInv
  <2>3. CASE \E n, m \in Nat : n + m > 0 /\ Advances(n, m)
    <3>1. PICK n, m \in Nat : n + m > 0 /\ Advances(n, m)
      BY <2>3
    <3>2. CASE n > 0
      BY <2>2, <3>1, <3>2 DEF Advances
    <3>3. CASE n = 0
      <4>1. Len(out') = Len(out) /\ Kept' > Kept /\ fed' = fed
        BY <2>2, <3>1, <3>3 DEF Advances
      <4>2. /\ out \in Seq(Byte) /\ out' \in Seq(Byte)
            /\ \A i \in 1..Len(out) : out[i] = fed[i]
            /\ \A i \in 1..Len(out') : out'[i] = fed'[i]
        BY DEF IInv, Prefix
      <4>3. out' = out
        BY <4>1, <4>2, SeqEqual
      <4> QED BY <4>1, <4>3
    <3> QED BY <3>1, <3>2, <3>3
  <2>4. CASE \E m \in Nat : Kept + m > 0 /\ Delivers(m)
    <3>1. PICK m \in Nat : Kept + m > 0 /\ Delivers(m)
      BY <2>4
    <3> QED BY <2>2, <3>1 DEF Delivers
  <2>5. CASE \E m, d \in Nat : Rejects(m, d)
    BY <2>2, <2>5 DEF Rejects
  <2> QED BY <2>1, <2>3, <2>4, <2>5 DEF Moves
<1> QED BY <1>1, Invariance, PTL DEF Spec, GetsOn

-----------------------------------------------------------------------------
(* NMEA: what of a sequence is in a set. *)

\* What holds of 0, and of i if it holds of i - 1, holds up to n.
Climbs(T, n) == 0 \in T /\ \A i \in 1..n : i - 1 \in T => i \in T

\* Such a set has all of them.
LEMMA Climb ==
  ASSUME NEW n \in Nat, NEW T, Climbs(T, n)
  PROVE  \A i \in 0..n : i \in T
<1> SUFFICES ASSUME NEW j \in 0..n, j \notin T PROVE FALSE
  OBVIOUS
<1>1. PICK S : S = {i \in 0..n : i \notin T}
  OBVIOUS
<1>2. S \in SUBSET Nat /\ S # {}
  BY <1>1
<1>3. PICK k \in S : \A m \in S : k <= m
  BY <1>2, LeastNumber
<1>4. k \in 1..n /\ k \notin T /\ k - 1 \in 0..n
  BY <1>1, <1>3 DEF Climbs
<1>5. k - 1 \in T
  <2>1. SUFFICES ASSUME k - 1 \in S PROVE FALSE
    BY <1>1, <1>4
  <2> QED BY <1>3, <1>4, <2>1
<1> QED BY <1>4, <1>5 DEF Climbs

\* f says of each beginning of s what of it is in S.
Sifts(f, s, S, n) ==
  /\ f[0] = <<>>
  /\ \A i \in 1..n : f[i] = IF s[i] \in S THEN Append(f[i - 1], s[i]) ELSE f[i - 1]

Sifted(s, S, n, V) == \E f \in [0..n -> V] : Sifts(f, s, S, n) /\ Among(s, S) = f[n]

\* Among is what its definition says.
LEMMA AmongSifts ==
  ASSUME NEW M, NEW S, NEW s \in Seq(M), NEW n \in Nat, n = Len(s)
  PROVE  Sifted(s, S, n, Seq(M))
<1> DEFINE D == 0..n
           V == Seq(M)
           m == [i \in D |-> i]
           Body(i, g) == IF i = 0 THEN <<>>
                         ELSE IF s[i] \in S THEN Append(g[i - 1], s[i]) ELSE g[i - 1]
           F == [x \in D \X [D -> V] |-> Body(x[1], x[2])]
           Is(g) == g = [i \in 0..n |-> Body(i, g)]
<1>1. \A i \in 1..n : s[i] \in M /\ i - 1 \in D /\ i # 0 /\ i - 1 < i
  OBVIOUS
<1>2. <<>> \in V /\ \A q \in V, x \in M : Append(q, x) \in V
  OBVIOUS
<1>3. \A i \in D : i = 0 \/ i \in 1..n
  OBVIOUS
<1>4. \A i \in D : \A g \in [D -> V] : F[<<i, g>>] = Body(i, g)
  OBVIOUS
<1>5. \A i \in D : \A g \in [D -> V] : Body(i, g) \in V
  <2> HIDE DEF D, V
  <2>1. ASSUME NEW i \in D, NEW g \in [D -> V] PROVE Body(i, g) \in V
    <3>1. CASE i = 0
      BY <1>2, <3>1
    <3>2. CASE i \in 1..n
      BY <1>1, <1>2, <3>2
    <3> QED BY <1>3, <3>1, <3>2
  <2> HIDE DEF Body
  <2> QED BY <2>1
<1>6. Recurs(F, D, V, m)
  <2>1. m \in [D -> Nat] /\ \A i \in D : m[i] = i
    OBVIOUS
  <2>2. ASSUME NEW i \in D, NEW g \in [D -> V], NEW h \in [D -> V],
               \A y \in D : m[y] < m[i] => g[y] = h[y]
        PROVE  Body(i, g) = Body(i, h)
    <3>1. CASE i = 0
      BY <3>1
    <3>2. CASE i \in 1..n
      <4>1. g[i - 1] = h[i - 1]
        <5> HIDE DEF m
        <5> QED BY <1>1, <2>1, <2>2, <3>2
      <4> QED BY <4>1
    <3> HIDE DEF Body, m
    <3> QED BY <1>3, <3>1, <3>2
  <2> HIDE DEF F, m, D, V, Body
  <2>3. ASSUME NEW i \in D, NEW g \in [D -> V] PROVE F[<<i, g>>] \in V
    BY <1>4, <1>5
  <2>4. ASSUME NEW i \in D, NEW g \in [D -> V], NEW h \in [D -> V],
               \A y \in D : m[y] < m[i] => g[y] = h[y]
        PROVE  F[<<i, g>>] = F[<<i, h>>]
    BY <1>4, <2>2, <2>4
  <2> QED BY <2>1, <2>3, <2>4 DEF Recurs
<1>7. \E f \in [D -> V] : \A i \in D : f[i] = F[<<i, f>>]
  <2> HIDE DEF F, m, D, V
  <2>1. V # {}
    BY <1>2
  <2> QED BY <1>6, <2>1, Recursion
<1>8. \E g : Is(g)
  <2>1. PICK f \in [D -> V] : \A i \in D : f[i] = F[<<i, f>>]
    BY <1>7
  <2>2. \A i \in D : f[i] = Body(i, f)
    <3> HIDE DEF F, D, V, Body
    <3> QED BY <1>4, <2>1
  <2>3. f = [i \in D |-> Body(i, f)]
    <3> HIDE DEF F, V, Body
    <3> QED BY <2>2
  <2> QED BY <2>3
<1>9. PICK g : g = CHOOSE h : Is(h)
  OBVIOUS
<1>10. Is(g)
  <2> HIDE DEF Is
  <2> QED BY <1>8, <1>9
<1>11. Among(s, S) = g[n]
  BY <1>9 DEF Among
<1>12. Sifts(g, s, S, n)
  <2>1. g[0] = <<>>
    BY <1>10
  <2>2. ASSUME NEW i \in 1..n
        PROVE  g[i] = IF s[i] \in S THEN Append(g[i - 1], s[i]) ELSE g[i - 1]
    <3>1. i \in 0..n /\ i # 0
      OBVIOUS
    <3> QED BY <1>10, <3>1
  <2> QED BY <2>1, <2>2 DEF Sifts
<1>13. g \in [0..n -> Seq(M)]
  <2>1. PICK T : T = {i \in 0..n : g[i] \in V}
    OBVIOUS
  <2>2. Climbs(T, n)
    <3>1. 0 \in T
      <4>1. 0 \in 0..n /\ g[0] \in V
        BY <1>2, <1>12 DEF Sifts
      <4> QED BY <2>1, <4>1
    <3>2. ASSUME NEW i \in 1..n, i - 1 \in T PROVE i \in T
      <4>1. g[i - 1] \in V /\ s[i] \in M /\ i \in 0..n
        BY <1>1, <2>1, <3>2
      <4>2. g[i] \in V
        BY <1>2, <1>12, <4>1 DEF Sifts
      <4> QED BY <2>1, <4>1, <4>2
    <3> QED BY <3>1, <3>2 DEF Climbs
  <2>3. \A i \in 0..n : g[i] \in V
    BY <2>1, <2>2, Climb
  <2> QED BY <1>10, <2>3
<1> QED BY <1>11, <1>12, <1>13 DEF Sifted

\* Joining and appending is appending and joining.
AppendsBehind(M) == \A p, q \in Seq(M), x \in M : Append(p \o q, x) = p \o Append(q, x)

LEMMA AppendBehind ==
  ASSUME NEW M
  PROVE  AppendsBehind(M)
<1>1. ASSUME NEW p \in Seq(M), NEW q \in Seq(M), NEW x \in M
      PROVE  Append(p \o q, x) = p \o Append(q, x)
  <2>1. PICK y : y = <<x>>
    OBVIOUS
  <2>2. y \in Seq(M)
    BY <2>1
  <2>3. PICK r \in Seq(M) : r = p \o q
    BY ConcatProperties
  <2>4. Append(r, x) = r \o y /\ Append(q, x) = q \o y
    BY <2>1, AppendIsConcat
  <2>5. (p \o q) \o y = p \o (q \o y)
    BY <2>2, ConcatAssociative
  <2> QED BY <2>3, <2>4, <2>5
<1> QED BY <1>1 DEF AppendsBehind

\* What of a sequence is in S, by its parts.
AmongBoth(M, S, s, t) ==
  /\ Among(s, S) \in Seq(M)
  /\ Among(s \o t, S) = Among(s, S) \o Among(t, S)

LEMMA AmongJoin ==
  ASSUME NEW M, NEW S, NEW s \in Seq(M), NEW t \in Seq(M)
  PROVE  AmongBoth(M, S, s, t)
<1>1. AppendsBehind(M)
  BY AppendBehind
<1>2. PICK u : u = s \o t
  OBVIOUS
<1>3. u \in Seq(M)
  BY <1>2, ConcatProperties
<1>4. PICK a \in Nat : a = Len(s)
  OBVIOUS
<1>5. PICK b \in Nat : b = Len(t)
  OBVIOUS
<1>6. a + b = Len(u) /\ a + b \in Nat
  BY <1>2, <1>4, <1>5
<1>7. /\ \A i \in 1..a : i \in 1..(a + b) /\ u[i] = s[i]
      /\ \A i \in 1..b : a + i \in 1..(a + b) /\ u[a + i] = t[i]
  BY <1>2, <1>4, <1>5
<1>8. PICK f \in [0..a -> Seq(M)] : Sifts(f, s, S, a) /\ Among(s, S) = f[a]
  <2>1. Sifted(s, S, a, Seq(M))
    BY <1>4, AmongSifts
  <2> QED BY <2>1 DEF Sifted
<1>9. PICK g \in [0..b -> Seq(M)] : Sifts(g, t, S, b) /\ Among(t, S) = g[b]
  <2>1. Sifted(t, S, b, Seq(M))
    BY <1>5, AmongSifts
  <2> QED BY <2>1 DEF Sifted
<1>10. PICK h \in [0..(a + b) -> Seq(M)] : Sifts(h, u, S, a + b) /\ Among(u, S) = h[a + b]
  <2>1. Sifted(u, S, a + b, Seq(M))
    BY <1>6, <1>3, AmongSifts
  <2> QED BY <2>1 DEF Sifted
<1>11. \A i \in 0..a : h[i] = f[i]
  <2>1. PICK T : T = {i \in 0..a : h[i] = f[i]}
    OBVIOUS
  <2>2. ASSUME NEW i \in 1..a, i - 1 \in T PROVE i \in T
    <3>1. h[i - 1] = f[i - 1] /\ i \in 1..(a + b) /\ u[i] = s[i] /\ i \in 0..a
      BY <1>7, <2>1, <2>2
    <3>2. h[i] = f[i]
      BY <1>8, <1>10, <3>1 DEF Sifts
    <3> QED BY <2>1, <3>1, <3>2
  <2>3. Climbs(T, a)
    BY <1>8, <1>10, <2>1, <2>2 DEF Climbs, Sifts
  <2>4. \A i \in 0..a : i \in T
    BY <2>3, Climb
  <2> QED BY <2>1, <2>4
<1>12. \A i \in 0..b : h[a + i] = f[a] \o g[i]
  <2>1. PICK T : T = {i \in 0..b : h[a + i] = f[a] \o g[i]}
    OBVIOUS
  <2>2. f[a] \in Seq(M) /\ \A i \in 0..b : g[i] \in Seq(M)
    OBVIOUS
  <2>3. 0 \in T
    <3>1. g[0] = <<>> /\ h[a + 0] = f[a]
      BY <1>9, <1>11 DEF Sifts
    <3>2. f[a] \o <<>> = f[a]
      <4>1. f[a] \in Seq(M)
        BY <2>2
      <4> QED BY <4>1, ConcatEmptySeq
    <3>3. 0 \in 0..b
      OBVIOUS
    <3>4. h[a + 0] = f[a] \o g[0]
      BY <3>1, <3>2
    <3> QED BY <2>1, <3>3, <3>4
  <2>4. ASSUME NEW i \in 1..b, i - 1 \in T PROVE i \in T
    <3>1. /\ i \in 0..b /\ i - 1 \in 0..b /\ a + i \in 1..(a + b) /\ (a + i) - 1 = a + (i - 1)
          /\ u[a + i] = t[i] /\ t[i] \in M
      BY <1>5, <1>7, <2>4
    <3>2. PICK x \in M : x = t[i]
      BY <3>1
    <3>3. PICK p, q \in Seq(M) : p = f[a] /\ q = g[i - 1]
      BY <2>2, <3>1
    <3>4. h[a + (i - 1)] = p \o q
      BY <2>1, <2>4, <3>3
    <3>5. h[a + i] = IF x \in S THEN Append(p \o q, x) ELSE p \o q
      BY <1>10, <3>1, <3>2, <3>4 DEF Sifts
    <3>6. g[i] = IF x \in S THEN Append(q, x) ELSE q
      BY <1>9, <3>2, <3>3 DEF Sifts
    <3>7. Append(p \o q, x) = p \o Append(q, x)
      BY <1>1 DEF AppendsBehind
    <3>8. h[a + i] = p \o g[i]
      BY <3>5, <3>6, <3>7
    <3> QED BY <2>1, <3>1, <3>3, <3>8
  <2>5. Climbs(T, b)
    BY <2>3, <2>4 DEF Climbs
  <2>6. \A i \in 0..b : i \in T
    BY <2>5, Climb
  <2> QED BY <2>1, <2>6
<1>13. h[a + b] = f[a] \o g[b]
  BY <1>12
<1> QED BY <1>2, <1>8, <1>9, <1>10, <1>13 DEF AmongBoth

\* Of no elements, and of one.
LEMMA AmongFew ==
  ASSUME NEW M, NEW S
  PROVE  /\ Among(<<>>, S) = <<>>
         /\ \A x \in M : Among(<<x>>, S) = IF x \in S THEN <<x>> ELSE <<>>
<1>1. Among(<<>>, S) = <<>>
  <2>1. <<>> \in Seq(M) /\ Len(<<>>) = 0
    OBVIOUS
  <2>2. PICK f \in [0..0 -> Seq(M)] : Sifts(f, <<>>, S, 0) /\ Among(<<>>, S) = f[0]
    <3>1. Sifted(<<>>, S, 0, Seq(M))
      BY <2>1, AmongSifts
    <3> QED BY <3>1 DEF Sifted
  <2> QED BY <2>2 DEF Sifts
<1>2. ASSUME NEW x \in M PROVE Among(<<x>>, S) = IF x \in S THEN <<x>> ELSE <<>>
  <2>1. PICK y : y = <<x>>
    OBVIOUS
  <2>2. y \in Seq(M) /\ Len(y) = 1 /\ y[1] = x
    BY <2>1
  <2>3. PICK f \in [0..1 -> Seq(M)] : Sifts(f, y, S, 1) /\ Among(y, S) = f[1]
    <3>1. Sifted(y, S, 1, Seq(M))
      BY <2>2, AmongSifts
    <3> QED BY <3>1 DEF Sifted
  <2>4. f[0] = <<>> /\ f[1] = IF x \in S THEN Append(f[0], x) ELSE f[0]
    <3>1. 1 \in 1..1 /\ 1 - 1 = 0
      OBVIOUS
    <3> QED BY <2>2, <2>3, <3>1 DEF Sifts
  <2>5. Append(<<>>, x) = <<x>>
    OBVIOUS
  <2> QED BY <2>1, <2>3, <2>4, <2>5
<1> QED BY <1>1, <1>2

-----------------------------------------------------------------------------
(* NMEA: the sentences of a stream. *)

\* The two parts of a joined sequence.
LEMMA JoinCut ==
  ASSUME NEW a \in Seq(Byte), NEW b \in Seq(Byte), NEW w, w = a \o b
  PROVE  /\ w \in Seq(Byte) /\ Len(w) = Len(a) + Len(b)
         /\ \A i \in 1..Len(a) : w[i] = a[i]
         /\ \A i \in 1..Len(b) : w[Len(a) + i] = b[i]
         /\ SubSeq(w, 1, Len(a)) = a
         /\ SubSeq(w, Len(a) + 1, Len(w)) = b
<1>1. /\ w \in Seq(Byte) /\ Len(w) = Len(a) + Len(b) /\ Len(a) \in Nat /\ Len(b) \in Nat
      /\ \A i \in 1..(Len(a) + Len(b)) : w[i] = IF i <= Len(a) THEN a[i] ELSE b[i - Len(a)]
  BY ConcatProperties
<1>2. \A i \in 1..Len(a) : w[i] = a[i]
  BY <1>1
<1>3. ASSUME NEW i \in 1..Len(b) PROVE w[Len(a) + i] = b[i]
  <2>1. PICK n \in Nat : n = Len(a)
    BY <1>1
  <2>2. n + i \in 1..(n + Len(b)) /\ ~(n + i <= n) /\ (n + i) - n = i
    BY <1>1, <2>1
  <2> QED BY <1>1, <2>1, <2>2
<1>4. Len(a) \in 0..Len(w)
  BY <1>1
<1>5. SubSeq(w, 1, Len(a)) = a
  <2>1. /\ First(w, Len(a)) \in Seq(Byte) /\ Len(First(w, Len(a))) = Len(a)
    BY <1>1, <1>4, CutJoin
  <2>2. ASSUME NEW i \in 1..Len(a) PROVE SubSeq(w, 1, Len(a))[i] = a[i]
    BY <1>1, <1>2
  <2> QED BY <2>1, <2>2, SeqEqual DEF First
<1>6. SubSeq(w, Len(a) + 1, Len(w)) = b
  <2>1. PICK r \in Seq(Byte) : r = Rest(w, Len(a))
    BY <1>1, <1>4, RestIs
  <2>2. Len(r) = Len(w) - Len(a) /\ \A i \in 1..(Len(w) - Len(a)) : r[i] = w[Len(a) + i]
    BY <1>1, <1>4, <2>1, RestIs
  <2>3. Len(r) = Len(b)
    BY <1>1, <2>2
  <2>4. \A i \in 1..Len(b) : r[i] = b[i]
    BY <1>1, <1>3, <2>2
  <2>5. r = b
    BY <2>3, <2>4, SeqEqual
  <2> QED BY <2>1, <2>5 DEF Rest
<1> QED BY <1>1, <1>2, <1>3, <1>5, <1>6

\* A byte in front of a sequence.
LEMMA ByteInFront ==
  ASSUME NEW x \in Byte, NEW t \in Seq(Byte), NEW w, w = <<x>> \o t
  PROVE  /\ w \in Seq(Byte) /\ w # <<>> /\ Len(w) = Len(t) + 1 /\ w[1] = x /\ Tail(w) = t
         /\ \A i \in 1..Len(t) : w[i + 1] = t[i]
<1>1. /\ w \in Seq(Byte) /\ Len(w) = Len(t) + 1 /\ w[1] = x /\ Len(t) \in Nat
      /\ \A i \in 1..Len(t) : w[i + 1] = t[i]
  BY InFront
<1>2. w # <<>>
  BY <1>1
<1>3. Tail(w) \in Seq(Byte) /\ Len(Tail(w)) = Len(t) /\ \A i \in 1..Len(t) : Tail(w)[i] = w[i + 1]
  BY <1>1, <1>2, HeadTailProperties
<1>4. \A i \in 1..Len(t) : Tail(w)[i] = t[i]
  BY <1>1, <1>3
<1>5. Tail(w) = t
  BY <1>3, <1>4, SeqEqual
<1> QED BY <1>1, <1>2, <1>5

\* A sequence is its first byte and the others.
LEMMA HeadAndTail ==
  ASSUME NEW w \in Seq(Byte), w # <<>>
  PROVE  /\ w[1] \in Byte /\ Tail(w) \in Seq(Byte) /\ w = <<w[1]>> \o Tail(w)
         /\ Len(Tail(w)) = Len(w) - 1 /\ Len(w) \in Nat \ {0}
         /\ \A i \in 1..(Len(w) - 1) : Tail(w)[i] = w[i + 1]
<1>1. w[1] \in Byte /\ Len(w) \in Nat \ {0}
  OBVIOUS
<1>2. /\ Tail(w) \in Seq(Byte) /\ Len(Tail(w)) = Len(w) - 1
      /\ \A i \in 1..(Len(w) - 1) : Tail(w)[i] = w[i + 1]
  BY HeadTailProperties
<1>3. PICK x \in Byte : x = w[1]
  BY <1>1
<1>4. PICK t \in Seq(Byte) : t = Tail(w)
  BY <1>2
<1>5. PICK v : v = <<x>> \o t
  OBVIOUS
<1>6. /\ v \in Seq(Byte) /\ Len(v) = Len(t) + 1 /\ v[1] = x
      /\ \A i \in 1..Len(t) : v[i + 1] = t[i]
  BY <1>5, ByteInFront
<1>7. Len(v) = Len(w)
  BY <1>1, <1>2, <1>4, <1>6
<1>8. ASSUME NEW i \in 1..Len(w) PROVE v[i] = w[i]
  <2>1. CASE i = 1
    BY <1>3, <1>6, <2>1
  <2>2. CASE i # 1
    <3>1. PICK j : j = i - 1
      OBVIOUS
    <3>2. j \in 1..Len(t) /\ j \in 1..(Len(w) - 1) /\ j + 1 = i
      BY <1>1, <1>2, <1>4, <2>2, <3>1
    <3>3. v[j + 1] = t[j] /\ t[j] = w[j + 1]
      BY <1>2, <1>4, <1>6, <3>2
    <3> QED BY <3>2, <3>3
  <2> QED BY <2>1, <2>2
<1>9. v = w
  BY <1>6, <1>7, <1>8, SeqEqual
<1> QED BY <1>1, <1>2, <1>3, <1>4, <1>5, <1>9

\* So many bytes come before the first carriage return.
IsPayload(s, n) ==
  /\ n \in 0..Len(s)
  /\ \A i \in 1..n : s[i] # CR
  /\ n < Len(s) => s[n + 1] = CR

\* The payload of a line is what it is said to be, and unique.
LEMMA PayloadIs ==
  ASSUME NEW s \in Seq(Byte)
  PROVE  /\ IsPayload(s, Payload(s))
         /\ \A n : IsPayload(s, n) => Payload(s) = n
<1>1. Len(s) \in Nat
  OBVIOUS
<1>2. \E n : IsPayload(s, n)
  <2>1. PICK T : T = {i \in 1..Len(s) : s[i] = CR}
    OBVIOUS
  <2>2. CASE T = {}
    <3>1. IsPayload(s, Len(s))
      BY <1>1, <2>1, <2>2 DEF IsPayload
    <3> QED BY <3>1
  <2>3. CASE T # {}
    <3>1. T \in SUBSET Nat
      BY <2>1
    <3>2. PICK k \in T : \A m \in T : k <= m
      BY <2>3, <3>1, LeastNumber
    <3>3. k \in 1..Len(s) /\ s[k] = CR
      BY <2>1, <3>2
    <3>4. PICK n \in Nat : n = k - 1 /\ n + 1 = k /\ n \in 0..Len(s)
      BY <1>1, <3>3
    <3>5. ASSUME NEW i \in 1..n, s[i] = CR PROVE FALSE
      <4>1. i \in 1..Len(s) /\ i < k
        BY <1>1, <3>3, <3>4
      <4>2. i \in T
        BY <2>1, <3>5, <4>1
      <4> QED BY <3>2, <3>3, <4>1, <4>2
    <3>6. IsPayload(s, n)
      BY <3>3, <3>4, <3>5 DEF IsPayload
    <3> QED BY <3>6
  <2> QED BY <2>2, <2>3
<1>3. ASSUME NEW n, NEW m, IsPayload(s, n), IsPayload(s, m) PROVE n = m
  <2>1. n \in 0..Len(s) /\ m \in 0..Len(s)
    BY <1>3 DEF IsPayload
  <2>2. ASSUME n < m PROVE FALSE
    <3>1. n < Len(s) /\ n + 1 \in 1..m
      BY <1>1, <2>1, <2>2
    <3> QED BY <1>3, <3>1 DEF IsPayload
  <2>3. ASSUME m < n PROVE FALSE
    <3>1. m < Len(s) /\ m + 1 \in 1..n
      BY <1>1, <2>1, <2>3
    <3> QED BY <1>3, <3>1 DEF IsPayload
  <2> QED BY <1>1, <2>1, <2>2, <2>3
<1>4. Payload(s) = CHOOSE n : IsPayload(s, n)
  <2>1. PICK n : IsPayload(s, n)
    BY <1>2
  <2>2. n \in 0..Len(s) /\ (\A i \in 1..n : s[i] # CR) /\ (n < Len(s) => s[n + 1] = CR)
    BY <2>1 DEF IsPayload
  <2>3. PICK k : k = Payload(s)
    OBVIOUS
  <2>4. k \in 0..Len(s) /\ (\A i \in 1..k : s[i] # CR) /\ (k < Len(s) => s[k + 1] = CR)
    BY <2>2, <2>3 DEF Payload
  <2>5. IsPayload(s, k)
    BY <2>4 DEF IsPayload
  <2>6. PICK l : l = CHOOSE m : IsPayload(s, m)
    OBVIOUS
  <2>7. IsPayload(s, l)
    BY <2>1, <2>6
  <2> QED BY <1>3, <2>3, <2>5, <2>6, <2>7
<1>5. IsPayload(s, Payload(s))
  BY <1>2, <1>4
<1> QED BY <1>3, <1>5

\* One step of Sentences, if f is what it makes of shorter streams.
SentenceBody(s, f) ==
  IF s = <<>> THEN <<>>
  ELSE IF s[1] # Dollar \/ Payload(s) > NmeaCapacity - 2 THEN f[Tail(s)]
  ELSE IF Len(s) < Payload(s) + 2 THEN <<>>
  ELSE IF s[Payload(s) + 2] # LF THEN f[SubSeq(s, Payload(s) + 2, Len(s))]
  ELSE IF SubSeq(s, 1, Payload(s) + 2) \in Good
    THEN <<SubSeq(s, 1, Payload(s) + 2)>> \o f[SubSeq(s, Payload(s) + 3, Len(s))]
  ELSE f[Tail(s)]

\* What the search for sentences goes on with is shorter.
LEMMA SentenceShortens ==
  ASSUME NEW s \in Seq(Byte), s # <<>>
  PROVE  /\ Tail(s) \in Seq(Byte) /\ Len(Tail(s)) < Len(s)
         /\ ~(Len(s) < Payload(s) + 2) =>
              /\ SubSeq(s, 1, Payload(s) + 2) \in Seq(Byte)
              /\ SubSeq(s, Payload(s) + 2, Len(s)) \in Seq(Byte)
              /\ Len(SubSeq(s, Payload(s) + 2, Len(s))) < Len(s)
              /\ SubSeq(s, Payload(s) + 3, Len(s)) \in Seq(Byte)
              /\ Len(SubSeq(s, Payload(s) + 3, Len(s))) < Len(s)
<1>1. Tail(s) \in Seq(Byte) /\ Len(Tail(s)) < Len(s) /\ Len(s) \in Nat
  OBVIOUS
<1>2. PICK n \in Nat : n = Payload(s)
  BY <1>1, PayloadIs DEF IsPayload
<1>3. ASSUME ~(Len(s) < n + 2)
      PROVE  /\ SubSeq(s, 1, n + 2) \in Seq(Byte)
             /\ SubSeq(s, n + 2, Len(s)) \in Seq(Byte) /\ Len(SubSeq(s, n + 2, Len(s))) < Len(s)
             /\ SubSeq(s, n + 3, Len(s)) \in Seq(Byte) /\ Len(SubSeq(s, n + 3, Len(s))) < Len(s)
  <2>1. n + 1 \in 0..Len(s) /\ n + 2 \in 0..Len(s) /\ (n + 1) + 1 = n + 2 /\ (n + 2) + 1 = n + 3
    BY <1>1, <1>3
  <2>2. SubSeq(s, 1, n + 2) \in Seq(Byte)
    BY <2>1, CutJoin DEF First
  <2>3. /\ Rest(s, n + 1) \in Seq(Byte) /\ Len(Rest(s, n + 1)) = Len(s) - (n + 1)
        /\ Rest(s, n + 2) \in Seq(Byte) /\ Len(Rest(s, n + 2)) = Len(s) - (n + 2)
    BY <2>1, CutJoin
  <2>4. Rest(s, n + 1) = SubSeq(s, n + 2, Len(s)) /\ Rest(s, n + 2) = SubSeq(s, n + 3, Len(s))
    BY <2>1 DEF Rest
  <2> QED BY <1>1, <2>2, <2>3, <2>4
<1> QED BY <1>1, <1>2, <1>3

\* Sentences is what its definition says.
LEMMA SentencesAre ==
  \A s \in Seq(Byte) :
    Sentences[s] \in Seq(Seq(Byte)) /\ Sentences[s] = SentenceBody(s, Sentences)
<1> DEFINE D == Seq(Byte)
           V == Seq(Seq(Byte))
           m == [s \in D |-> Len(s)]
           F == [x \in D \X [D -> V] |-> SentenceBody(x[1], x[2])]
<1>1. ASSUME NEW s \in D, NEW g, \A y \in D : Len(y) < Len(s) => g[y] \in V
      PROVE  SentenceBody(s, g) \in V
  <2>1. CASE s = <<>>
    BY <2>1 DEF SentenceBody
  <2>2. CASE s # <<>>
    <3>1. g[Tail(s)] \in V
      BY <1>1, <2>2, SentenceShortens
    <3>2. ASSUME ~(Len(s) < Payload(s) + 2)
          PROVE  /\ g[SubSeq(s, Payload(s) + 2, Len(s))] \in V
                 /\ <<SubSeq(s, 1, Payload(s) + 2)>> \o g[SubSeq(s, Payload(s) + 3, Len(s))] \in V
      <4>1. PICK w \in D : w = SubSeq(s, 1, Payload(s) + 2)
        BY <2>2, <3>2, SentenceShortens
      <4>2. PICK y \in V : y = g[SubSeq(s, Payload(s) + 3, Len(s))]
        BY <1>1, <2>2, <3>2, SentenceShortens
      <4>3. <<w>> \o y \in V
        OBVIOUS
      <4>4. g[SubSeq(s, Payload(s) + 2, Len(s))] \in V
        BY <1>1, <2>2, <3>2, SentenceShortens
      <4> QED BY <4>1, <4>2, <4>3, <4>4
    <3>3. <<>> \in V
      OBVIOUS
    <3> HIDE DEF V, D
    <3> QED BY <2>2, <3>1, <3>2, <3>3 DEF SentenceBody
  <2> QED BY <2>1, <2>2
<1>2. ASSUME NEW s \in D, NEW g \in [D -> V], NEW h \in [D -> V],
             \A y \in D : Len(y) < Len(s) => g[y] = h[y]
      PROVE  SentenceBody(s, g) = SentenceBody(s, h)
  <2>1. CASE s = <<>>
    BY <2>1 DEF SentenceBody
  <2>2. CASE s # <<>>
    <3>1. g[Tail(s)] = h[Tail(s)]
      BY <1>2, <2>2, SentenceShortens
    <3>2. ASSUME ~(Len(s) < Payload(s) + 2)
          PROVE  /\ g[SubSeq(s, Payload(s) + 2, Len(s))] = h[SubSeq(s, Payload(s) + 2, Len(s))]
                 /\ g[SubSeq(s, Payload(s) + 3, Len(s))] = h[SubSeq(s, Payload(s) + 3, Len(s))]
      BY <1>2, <2>2, <3>2, SentenceShortens
    <3> HIDE DEF V, D
    <3> QED BY <2>2, <3>1, <3>2 DEF SentenceBody
  <2> QED BY <2>1, <2>2
<1>3. \A s \in D : \A g \in [D -> V] : F[<<s, g>>] = SentenceBody(s, g)
  OBVIOUS
<1>4. m \in [D -> Nat] /\ \A s \in D : m[s] = Len(s)
  OBVIOUS
<1>5. Recurs(F, D, V, m)
  <2> HIDE DEF F, m, D, V
  <2>1. ASSUME NEW s \in D, NEW g \in [D -> V] PROVE F[<<s, g>>] \in V
    BY <1>1, <1>3
  <2>2. ASSUME NEW s \in D, NEW g \in [D -> V], NEW h \in [D -> V],
               \A y \in D : m[y] < m[s] => g[y] = h[y]
        PROVE  F[<<s, g>>] = F[<<s, h>>]
    <3>1. \A y \in D : Len(y) < Len(s) => g[y] = h[y]
      BY <1>4, <2>2
    <3>2. SentenceBody(s, g) = SentenceBody(s, h)
      BY <1>2, <3>1
    <3> QED BY <1>3, <3>2
  <2> QED BY <1>4, <2>1, <2>2 DEF Recurs
<1>6. V # {}
  <2>1. <<>> \in V
    OBVIOUS
  <2> QED BY <2>1
<1>7. \E f \in [D -> V] : \A s \in D : f[s] = F[<<s, f>>]
  <2> HIDE DEF F, m, D, V
  <2> QED BY <1>5, <1>6, Recursion
<1>8. \E f : f = [s \in D |-> SentenceBody(s, f)]
  <2>1. PICK f \in [D -> V] : \A s \in D : f[s] = F[<<s, f>>]
    BY <1>7
  <2>2. f = [s \in D |-> SentenceBody(s, f)]
    <3> HIDE DEF F, m, V
    <3> QED BY <1>3, <2>1
  <2> QED BY <2>2
<1>9. Sentences = CHOOSE f : f = [s \in D |-> SentenceBody(s, f)]
  BY DEF Sentences, SentenceBody
<1>10. Sentences = [s \in D |-> SentenceBody(s, Sentences)]
  <2> HIDE DEF D
  <2> QED BY <1>8, <1>9
<1>11. \A s \in D : Sentences[s] = SentenceBody(s, Sentences)
  <2> HIDE DEF D
  <2>1. \A f : f = [s \in D |-> SentenceBody(s, Sentences)]
                 => \A s \in D : f[s] = SentenceBody(s, Sentences)
    OBVIOUS
  <2> QED BY <1>10, <2>1
<1>12. ASSUME NEW s \in D, Sentences[s] \notin V PROVE FALSE
  <2> DEFINE B == {y \in D : Sentences[y] \notin V}
             T == {Len(y) : y \in B}
  <2>1. T \in SUBSET Nat /\ T # {}
    <3>1. s \in B
      BY <1>12
    <3>2. \A y \in D : Len(y) \in Nat
      OBVIOUS
    <3> HIDE DEF D
    <3> QED BY <3>1, <3>2
  <2>2. PICK l \in T : \A j \in T : l <= j
    BY <2>1, LeastNumber
  <2>3. PICK y \in B : Len(y) = l
    OBVIOUS
  <2>4. ASSUME NEW z \in D, Len(z) < Len(y) PROVE Sentences[z] \in V
    <3>1. SUFFICES ASSUME z \in B PROVE FALSE
      OBVIOUS
    <3>2. l <= Len(z)
      BY <2>2, <3>1
    <3>3. l \in Nat /\ Len(z) \in Nat
      BY <2>1
    <3> QED BY <2>3, <2>4, <3>2, <3>3
  <2>5. SentenceBody(y, Sentences) \in V
    BY <1>1, <2>4
  <2> QED BY <1>11, <2>5
<1> QED BY <1>11, <1>12

\* A byte that is not the start byte is skipped.
LEMMA SentencesSkip ==
  ASSUME NEW x \in Byte, x # Dollar, NEW t \in Seq(Byte), NEW w, w = <<x>> \o t
  PROVE  Sentences[w] = Sentences[t]
<1>1. w \in Seq(Byte) /\ w # <<>> /\ w[1] = x /\ Tail(w) = t
  BY ByteInFront
<1>2. Sentences[w] = SentenceBody(w, Sentences)
  BY <1>1, SentencesAre
<1> QED BY <1>1, <1>2 DEF SentenceBody

\* So is the first byte of a line for which the array has no room.
LEMMA SentencesTooLong ==
  ASSUME NEW w \in Seq(Byte), NEW n \in 1..Len(w), n > NmeaCapacity - 2,
         \A i \in 1..n : w[i] # CR
  PROVE  Sentences[w] = Sentences[Tail(w)]
<1>1. w # <<>> /\ Len(w) \in Nat
  OBVIOUS
<1>2. PICK p \in Nat : p = Payload(w) /\ IsPayload(w, p)
  BY PayloadIs DEF IsPayload
<1>3. p >= n
  <2>1. SUFFICES ASSUME p < n PROVE FALSE
    BY <1>2
  <2>2. p < Len(w) /\ p + 1 \in 1..n
    BY <1>1, <1>2, <2>1
  <2> QED BY <1>2, <2>2 DEF IsPayload
<1>4. p > NmeaCapacity - 2
  BY <1>2, <1>3, NmeaAssumption
<1>5. Sentences[w] = SentenceBody(w, Sentences)
  BY SentencesAre
<1> QED BY <1>1, <1>2, <1>4, <1>5 DEF SentenceBody

\* A line that is not complete is no sentence.
LEMMA SentencesStop ==
  ASSUME NEW w \in Seq(Byte), w # <<>>, w[1] = Dollar, NEW n \in Nat, IsPayload(w, n),
         n <= NmeaCapacity - 2, Len(w) < n + 2
  PROVE  Sentences[w] = <<>>
<1>1. Payload(w) = n
  BY PayloadIs
<1>2. ~(n > NmeaCapacity - 2)
  BY NmeaAssumption
<1>3. Sentences[w] = SentenceBody(w, Sentences)
  BY SentencesAre
<1> QED BY <1>1, <1>2, <1>3 DEF SentenceBody

NoCr(u) == \A i \in 1..Len(u) : u[i] # CR

\* A line: u, a carriage return, and v behind it.
IsLine(w, u, v) == w = u \o (<<CR>> \o v)

LineFacts(w, u, v) ==
  /\ w \in Seq(Byte) /\ w # <<>> /\ IsPayload(w, Len(u)) /\ Len(w) = Len(u) + 1 + Len(v)
  /\ SubSeq(w, Len(u) + 2, Len(w)) = v
  /\ v # <<>> => w[Len(u) + 2] = v[1]
  /\ u # <<>> => w[1] = u[1] /\ IsLine(Tail(w), Tail(u), v)

LEMMA LineIs ==
  ASSUME NEW u \in Seq(Byte), NoCr(u), NEW v \in Seq(Byte), NEW w, IsLine(w, u, v)
  PROVE  LineFacts(w, u, v)
<1>1. PICK r : r = <<CR>> \o v
  OBVIOUS
<1>2. CR \in Byte
  BY NmeaAssumption
<1>3. r \in Seq(Byte) /\ Len(r) = Len(v) + 1 /\ r[1] = CR /\ \A i \in 1..Len(v) : r[i + 1] = v[i]
  BY <1>1, <1>2, ByteInFront
<1>4. /\ w \in Seq(Byte) /\ Len(w) = Len(u) + Len(r)
      /\ \A i \in 1..Len(u) : w[i] = u[i]
      /\ \A i \in 1..Len(r) : w[Len(u) + i] = r[i]
  <2>1. w = u \o r
    BY <1>1 DEF IsLine
  <2>2. r \in Seq(Byte)
    BY <1>3
  <2> QED BY <2>1, <2>2, JoinCut
<1>5. PICK n, k \in Nat : n = Len(u) /\ k = Len(v)
  OBVIOUS
<1>6. Len(w) = n + 1 + k /\ w # <<>> /\ w[n + 1] = CR
  BY <1>3, <1>4, <1>5
<1>7. IsPayload(w, n)
  BY <1>4, <1>5, <1>6 DEF IsPayload, NoCr
<1>8. SubSeq(w, n + 2, Len(w)) = v
  <2>1. n + 1 \in 0..Len(w) /\ (n + 1) + 1 = n + 2
    BY <1>5, <1>6
  <2>2. PICK q \in Seq(Byte) : q = Rest(w, n + 1)
    BY <1>4, <2>1, RestIs
  <2>3. Len(q) = Len(w) - (n + 1) /\ \A i \in 1..(Len(w) - (n + 1)) : q[i] = w[n + 1 + i]
    BY <1>4, <2>1, <2>2, RestIs
  <2>4. Len(q) = k
    BY <1>5, <1>6, <2>3
  <2>5. ASSUME NEW i \in 1..k PROVE q[i] = v[i]
    <3>1. i \in 1..(Len(w) - (n + 1)) /\ i + 1 \in 1..Len(r) /\ n + 1 + i = n + (i + 1)
      BY <1>3, <1>5, <1>6
    <3>2. w[n + (i + 1)] = r[i + 1] /\ r[i + 1] = v[i]
      BY <1>3, <1>4, <1>5, <3>1
    <3> QED BY <2>3, <3>1, <3>2
  <2>6. q = v
    BY <1>5, <2>4, <2>5, SeqEqual
  <2> QED BY <2>1, <2>2, <2>6 DEF Rest
<1>9. ASSUME v # <<>> PROVE w[n + 2] = v[1]
  <2>1. 1 \in 1..k /\ 1 + 1 \in 1..Len(r) /\ n + (1 + 1) = n + 2
    BY <1>3, <1>5, <1>9
  <2>2. w[n + (1 + 1)] = r[1 + 1] /\ r[1 + 1] = v[1]
    BY <1>3, <1>4, <1>5, <2>1
  <2> QED BY <2>1, <2>2
<1>10. ASSUME u # <<>> PROVE w[1] = u[1] /\ IsLine(Tail(w), Tail(u), v)
  <2>1. PICK x \in Byte, t \in Seq(Byte) : x = u[1] /\ t = Tail(u) /\ u = <<x>> \o t
    BY <1>10, HeadAndTail
  <2>2. PICK y : y = <<x>>
    OBVIOUS
  <2>3. y \in Seq(Byte)
    BY <2>2
  <2>4. w = y \o (t \o r)
    <3>1. y \in Bytes /\ t \in Bytes /\ r \in Bytes
      BY <1>3, <2>3 DEF Bytes
    <3>2. (y \o t) \o r = y \o (t \o r)
      <4>1. Assoc(y, t, r)
        BY <3>1, Regroups, Zenon
      <4> QED BY <4>1 DEF Assoc
    <3> QED BY <1>1, <2>1, <2>2, <3>2 DEF IsLine
  <2>5. t \o r \in Seq(Byte)
    BY <1>3, ConcatProperties
  <2>6. w[1] = x /\ Tail(w) = t \o r
    BY <2>2, <2>4, <2>5, ByteInFront
  <2> QED BY <1>1, <2>1, <2>6 DEF IsLine
<1> QED BY <1>4, <1>5, <1>6, <1>7, <1>8, <1>9, <1>10 DEF LineFacts

\* What a complete line contributes: nothing by itself, and the search goes on behind its
\* first byte, or, if it is only a line feed that it lacks, behind it; or a sentence.
LineSays(w, u, v) ==
  /\ u[1] # Dollar \/ Len(u) > NmeaCapacity - 2 => Sentences[w] = Sentences[Tail(w)]
  /\ u[1] = Dollar /\ Len(u) <= NmeaCapacity - 2 =>
       /\ v[1] # LF => Sentences[w] = Sentences[v]
       /\ v[1] = LF /\ u \o <<CR, LF>> \in Good =>
            Sentences[w] = <<u \o <<CR, LF>>>> \o Sentences[Tail(v)]
       /\ v[1] = LF /\ u \o <<CR, LF>> \notin Good => Sentences[w] = Sentences[Tail(w)]

LEMMA SentencesLine ==
  ASSUME NEW u \in Seq(Byte), NoCr(u), u # <<>>, NEW v \in Seq(Byte), v # <<>>,
         NEW w, IsLine(w, u, v)
  PROVE  LineSays(w, u, v)
<1>1. PICK n, k \in Nat : n = Len(u) /\ k = Len(v) /\ k > 0
  OBVIOUS
<1>2. /\ w \in Seq(Byte) /\ w # <<>> /\ Payload(w) = n /\ Len(w) = n + 1 + k
      /\ SubSeq(w, n + 2, Len(w)) = v /\ w[n + 2] = v[1] /\ w[1] = u[1]
  <2>1. /\ w \in Seq(Byte) /\ w # <<>> /\ IsPayload(w, Len(u)) /\ Len(w) = Len(u) + 1 + Len(v)
        /\ SubSeq(w, Len(u) + 2, Len(w)) = v /\ w[Len(u) + 2] = v[1] /\ w[1] = u[1]
    <3>1. LineFacts(w, u, v)
      BY LineIs
    <3> QED BY <3>1 DEF LineFacts
  <2>2. Payload(w) = Len(u)
    BY <2>1, PayloadIs
  <2> QED BY <1>1, <2>1, <2>2
<1>3. Sentences[w] = SentenceBody(w, Sentences)
  BY <1>2, SentencesAre
<1>4. ~(Len(w) < n + 2)
  BY <1>1, <1>2
<1>5. ASSUME u[1] # Dollar \/ n > NmeaCapacity - 2 PROVE Sentences[w] = Sentences[Tail(w)]
  BY <1>2, <1>3, <1>5 DEF SentenceBody
<1>6. n <= NmeaCapacity - 2 => ~(n > NmeaCapacity - 2)
  BY NmeaAssumption
<1>7. ASSUME u[1] = Dollar, n <= NmeaCapacity - 2, v[1] # LF PROVE Sentences[w] = Sentences[v]
  BY <1>2, <1>3, <1>4, <1>6, <1>7 DEF SentenceBody
<1>8. ASSUME v[1] = LF
      PROVE  SubSeq(w, 1, n + 2) = u \o <<CR, LF>> /\ SubSeq(w, n + 3, Len(w)) = Tail(v)
  <2>1. PICK a : a = u \o <<CR, LF>>
    OBVIOUS
  <2>2. PICK t \in Seq(Byte) : t = Tail(v) /\ v = <<LF>> \o t
    BY <1>8, HeadAndTail
  <2>3. PICK x, y \in Byte : x = CR /\ y = LF
    BY NmeaAssumption
  <2>4. PICK b, c, d : b = <<x>> /\ c = <<y>> /\ d = <<x, y>>
    OBVIOUS
  <2>5. b \in Seq(Byte) /\ c \in Seq(Byte) /\ d \in Seq(Byte) /\ Len(d) = 2 /\ d = b \o c
    <3>1. b \in Seq(Byte) /\ c \in Seq(Byte) /\ d \in Seq(Byte) /\ Len(d) = 2
      BY <2>4
    <3>2. d = b \o c
      <4>1. /\ b \o c \in Seq(Byte) /\ Len(b \o c) = 2
            /\ (b \o c)[1] = x /\ (b \o c)[2] = y
        BY <2>4, <3>1, ConcatProperties
      <4>2. d[1] = x /\ d[2] = y
        BY <2>4
      <4>3. PICK e \in Seq(Byte) : e = b \o c
        BY <4>1
      <4>4. \A i \in 1..Len(d) : d[i] = e[i]
        <5>1. \A i \in 1..Len(d) : i = 1 \/ i = 2
          BY <3>1
        <5>2. e[1] = x /\ e[2] = y
          BY <4>1, <4>3
        <5> QED BY <4>2, <5>1, <5>2
      <4> QED BY <3>1, <4>1, <4>3, <4>4, SeqEqual
    <3> QED BY <3>1, <3>2
  <2>6. a \in Seq(Byte) /\ Len(a) = n + 2
    BY <1>1, <2>1, <2>3, <2>4, <2>5, ConcatProperties
  <2>7. w = a \o t
    <3>1. b \in Bytes /\ c \in Bytes /\ d \in Bytes /\ t \in Bytes /\ u \in Bytes
      BY <2>5 DEF Bytes
    <3>2. b \o (c \o t) = (b \o c) \o t /\ u \o (d \o t) = (u \o d) \o t
      <4>1. Assoc(b, c, t) /\ Assoc(u, d, t)
        BY <3>1, Regroups, Zenon
      <4> QED BY <4>1 DEF Assoc
    <3>3. v = c \o t /\ w = u \o (b \o v) /\ a = u \o d
      BY <2>1, <2>2, <2>3, <2>4 DEF IsLine
    <3>4. b \o v = d \o t
      BY <2>5, <3>2, <3>3, Zenon
    <3>5. w = (u \o d) \o t
      BY <3>2, <3>3, <3>4, Zenon
    <3> QED BY <3>3, <3>5, Zenon
  <2>8. SubSeq(w, 1, Len(a)) = a /\ SubSeq(w, Len(a) + 1, Len(w)) = t
    BY <2>6, <2>7, JoinCut
  <2>9. (n + 2) + 1 = n + 3
    BY <1>1
  <2> QED BY <2>1, <2>2, <2>6, <2>8, <2>9
<1>9. ASSUME u[1] = Dollar, n <= NmeaCapacity - 2, v[1] = LF, u \o <<CR, LF>> \in Good
      PROVE  Sentences[w] = <<u \o <<CR, LF>>>> \o Sentences[Tail(v)]
  BY <1>2, <1>3, <1>4, <1>6, <1>8, <1>9 DEF SentenceBody
<1>10. ASSUME u[1] = Dollar, n <= NmeaCapacity - 2, v[1] = LF, u \o <<CR, LF>> \notin Good
       PROVE  Sentences[w] = Sentences[Tail(w)]
  BY <1>2, <1>3, <1>4, <1>6, <1>8, <1>10 DEF SentenceBody
<1> QED BY <1>1, <1>5, <1>7, <1>9, <1>10 DEF LineSays

\* A carriage return alone is skipped.
LEMMA EmptyLine ==
  ASSUME NEW v \in Seq(Byte), NEW w, IsLine(w, <<>>, v)
  PROVE  w \in Seq(Byte) /\ Sentences[w] = Sentences[v]
<1>1. CR \in Byte /\ CR # Dollar
  BY NmeaAssumption
<1>2. PICK r : r = <<CR>> \o v
  OBVIOUS
<1>3. r \in Seq(Byte)
  BY <1>1, <1>2, ByteInFront
<1>4. Sentences[r] = Sentences[v]
  BY <1>1, <1>2, SentencesSkip
<1>5. <<>> \o r = r
  BY <1>3, ConcatEmptySeq
<1>6. w = r
  BY <1>2, <1>5 DEF IsLine
<1> QED BY <1>3, <1>4, <1>6

\* So is a line feed.
LEMMA LfInFront ==
  ASSUME NEW v \in Seq(Byte), NEW p, p = <<LF>> \o v
  PROVE  /\ p \in Seq(Byte) /\ p # <<>> /\ p[1] = LF /\ Tail(p) = v
         /\ Sentences[p] = Sentences[v]
<1>1. LF \in Byte /\ LF # Dollar
  BY NmeaAssumption
<1>2. p \in Seq(Byte) /\ p # <<>> /\ p[1] = LF /\ Tail(p) = v
  BY <1>1, ByteInFront
<1>3. Sentences[p] = Sentences[v]
  BY <1>1, SentencesSkip
<1> QED BY <1>2, <1>3

\* A byte fewer of a line.
LEMMA NoCrTail ==
  ASSUME NEW u \in Seq(Byte), u # <<>>, NoCr(u)
  PROVE  Tail(u) \in Seq(Byte) /\ NoCr(Tail(u)) /\ Len(Tail(u)) = Len(u) - 1 /\ Len(u) \in Nat \ {0}
<1>1. /\ Tail(u) \in Seq(Byte) /\ Len(Tail(u)) = Len(u) - 1 /\ Len(u) \in Nat \ {0}
      /\ \A i \in 1..(Len(u) - 1) : Tail(u)[i] = u[i + 1]
  BY HeadAndTail
<1>2. ASSUME NEW i \in 1..Len(Tail(u)) PROVE Tail(u)[i] # CR
  <2>1. i \in 1..(Len(u) - 1) /\ i + 1 \in 1..Len(u)
    BY <1>1
  <2> QED BY <1>1, <2>1 DEF NoCr
<1> QED BY <1>1, <1>2 DEF NoCr

\* A second line feed behind a line makes no difference.
SameLines(u, p, q) ==
  \A w1, w2 : IsLine(w1, u, p) /\ IsLine(w2, u, q) => Sentences[w1] = Sentences[w2]

LEMMA LfTwice ==
  ASSUME NEW v \in Seq(Byte), NEW p, p = <<LF>> \o v, NEW q, q = <<LF>> \o p,
         NEW u \in Seq(Byte), NoCr(u)
  PROVE  SameLines(u, p, q)
<1>1. PICK n \in Nat : n = Len(u)
  OBVIOUS
<1>2. /\ p \in Seq(Byte) /\ p # <<>> /\ p[1] = LF /\ Tail(p) = v
      /\ Sentences[p] = Sentences[v]
  BY LfInFront
<1>3. /\ q \in Seq(Byte) /\ q # <<>> /\ q[1] = LF /\ Tail(q) = p
      /\ Sentences[q] = Sentences[p]
  BY <1>2, LfInFront
<1>4. PICK T : T = {i \in 0..n : \A x \in Seq(Byte) : NoCr(x) /\ Len(x) = i => SameLines(x, p, q)}
  OBVIOUS
<1>5. ASSUME NEW x \in Seq(Byte), Len(x) = 0 PROVE SameLines(x, p, q)
  <2>1. x = <<>>
    BY <1>5
  <2>2. ASSUME NEW w1, NEW w2, IsLine(w1, <<>>, p), IsLine(w2, <<>>, q)
        PROVE  Sentences[w1] = Sentences[w2]
    <3>1. Sentences[w1] = Sentences[p]
      BY <1>2, <2>2, EmptyLine
    <3>2. Sentences[w2] = Sentences[q]
      BY <1>3, <2>2, EmptyLine
    <3> QED BY <1>3, <3>1, <3>2
  <2> QED BY <2>1, <2>2 DEF SameLines
<1>6. ASSUME NEW i \in 1..n, i - 1 \in T, NEW x \in Seq(Byte), NoCr(x), Len(x) = i
      PROVE  SameLines(x, p, q)
  <2>1. x # <<>>
    BY <1>6
  <2>2. Tail(x) \in Seq(Byte) /\ NoCr(Tail(x)) /\ Len(Tail(x)) = i - 1
    BY <1>6, <2>1, NoCrTail
  <2>3. SameLines(Tail(x), p, q)
    BY <1>4, <1>6, <2>2
  <2>4. ASSUME NEW w1, NEW w2, IsLine(w1, x, p), IsLine(w2, x, q)
        PROVE  Sentences[w1] = Sentences[w2]
    <3>1. LineFacts(w1, x, p) /\ LineFacts(w2, x, q)
      BY <1>2, <1>3, <1>6, <2>4, LineIs
    <3>2. Sentences[Tail(w1)] = Sentences[Tail(w2)]
      BY <2>1, <2>3, <3>1 DEF LineFacts, SameLines
    <3>3. LineSays(w1, x, p) /\ LineSays(w2, x, q)
      BY <1>2, <1>3, <1>6, <2>1, <2>4, SentencesLine
    <3>4. CASE x[1] # Dollar \/ Len(x) > NmeaCapacity - 2
      BY <3>2, <3>3, <3>4 DEF LineSays
    <3>5. CASE ~(x[1] # Dollar \/ Len(x) > NmeaCapacity - 2)
      <4>1. x[1] = Dollar /\ Len(x) <= NmeaCapacity - 2
        BY <3>5, NmeaAssumption
      <4>2. CASE x \o <<CR, LF>> \in Good
        <5>1. PICK s : s = x \o <<CR, LF>>
          OBVIOUS
        <5>2. Sentences[w1] = <<s>> \o Sentences[Tail(p)] /\ Sentences[w2] = <<s>> \o Sentences[Tail(q)]
          BY <1>2, <1>3, <3>3, <4>1, <4>2, <5>1 DEF LineSays
        <5> QED BY <1>2, <1>3, <5>2
      <4>3. CASE x \o <<CR, LF>> \notin Good
        BY <1>2, <1>3, <3>2, <3>3, <4>1, <4>3 DEF LineSays
      <4> QED BY <4>2, <4>3
    <3> QED BY <3>4, <3>5
  <2> QED BY <2>4 DEF SameLines
<1>7. Climbs(T, n)
  <2>1. 0 \in T
    <3>1. 0 \in 0..n
      OBVIOUS
    <3>2. \A x \in Seq(Byte) : NoCr(x) /\ Len(x) = 0 => SameLines(x, p, q)
      BY <1>5, Zenon
    <3> QED BY <1>4, <3>1, <3>2
  <2>2. ASSUME NEW i \in 1..n, i - 1 \in T PROVE i \in T
    <3>1. i \in 0..n
      OBVIOUS
    <3>2. \A x \in Seq(Byte) : NoCr(x) /\ Len(x) = i => SameLines(x, p, q)
      BY <1>6, <2>2
    <3> QED BY <1>4, <3>1, <3>2
  <2> QED BY <2>1, <2>2 DEF Climbs
<1>8. n \in T
  <2>1. n \in 0..n
    OBVIOUS
  <2> QED BY <1>7, <2>1, Climb
<1> QED BY <1>1, <1>4, <1>8

\* A line too short to have a checksum is no sentence, and none begins in it.
LEMMA ShortLine ==
  ASSUME NEW v \in Seq(Byte), NEW p, p = <<LF>> \o v,
         NEW u \in Seq(Byte), NoCr(u), Len(u) + 2 < NmeaTail, NEW w, IsLine(w, u, p)
  PROVE  Sentences[w] = Sentences[v]
<1> DEFINE Skips(x) == \A y : IsLine(y, x, p) => Sentences[y] = Sentences[v]
<1>1. PICK n \in Nat : n = Len(u)
  OBVIOUS
<1>2. /\ p \in Seq(Byte) /\ p # <<>> /\ p[1] = LF /\ Tail(p) = v
      /\ Sentences[p] = Sentences[v]
  BY LfInFront
<1>3. n + 2 < NmeaTail /\ NmeaTail \in Nat /\ \A s \in Good : Len(s) >= NmeaTail
  BY <1>1, NmeaAssumption
<1>4. PICK T : T = {i \in 0..n : \A x \in Seq(Byte) : NoCr(x) /\ Len(x) = i => Skips(x)}
  OBVIOUS
<1>5. ASSUME NEW x \in Seq(Byte), Len(x) = 0 PROVE Skips(x)
  <2>1. x = <<>>
    BY <1>5
  <2>2. ASSUME NEW y, IsLine(y, <<>>, p) PROVE Sentences[y] = Sentences[v]
    <3>1. Sentences[y] = Sentences[p]
      BY <1>2, <2>2, EmptyLine
    <3> QED BY <1>2, <3>1
  <2> QED BY <2>1, <2>2
<1>6. ASSUME NEW i \in 1..n, i - 1 \in T, NEW x \in Seq(Byte), NoCr(x), Len(x) = i
      PROVE  Skips(x)
  <2>1. x # <<>>
    BY <1>6
  <2>2. Tail(x) \in Seq(Byte) /\ NoCr(Tail(x)) /\ Len(Tail(x)) = i - 1
    BY <1>6, <2>1, NoCrTail
  <2>3. Skips(Tail(x))
    <3> HIDE DEF Skips
    <3> QED BY <1>4, <1>6, <2>2
  <2>4. ASSUME NEW y, IsLine(y, x, p) PROVE Sentences[y] = Sentences[v]
    <3>1. LineFacts(y, x, p)
      BY <1>2, <1>6, <2>4, LineIs
    <3>2. Sentences[Tail(y)] = Sentences[v]
      BY <2>1, <2>3, <3>1 DEF LineFacts
    <3>3. LineSays(y, x, p)
      BY <1>2, <1>6, <2>1, <2>4, SentencesLine
    <3>4. x \o <<CR, LF>> \notin Good
      <4>1. PICK e : e = <<CR, LF>>
        OBVIOUS
      <4>2. e \in Seq(Byte) /\ Len(e) = 2
        BY <4>1, NmeaAssumption
      <4>3. PICK a : a = x \o e
        OBVIOUS
      <4>4. Len(a) = Len(x) + Len(e)
        <5>1. PICK b \in Seq(Byte) : b = e
          BY <4>2
        <5>2. a = x \o b
          BY <4>3, <5>1
        <5>3. Len(a) = Len(x) + Len(b)
          BY <5>2, ConcatProperties
        <5> QED BY <5>1, <5>3
      <4>5. Len(a) < NmeaTail /\ Len(a) \in Nat
        BY <1>3, <1>6, <4>2, <4>4
      <4>6. a \notin Good
        BY <1>3, <4>5
      <4> QED BY <4>1, <4>3, <4>6
    <3>5. CASE x[1] # Dollar \/ Len(x) > NmeaCapacity - 2
      BY <3>2, <3>3, <3>5 DEF LineSays
    <3>6. CASE ~(x[1] # Dollar \/ Len(x) > NmeaCapacity - 2)
      <4>1. x[1] = Dollar /\ Len(x) <= NmeaCapacity - 2
        BY <3>6, NmeaAssumption
      <4> QED BY <1>2, <3>2, <3>3, <3>4, <4>1 DEF LineSays
    <3> QED BY <3>5, <3>6
  <2> QED BY <2>4
<1> HIDE DEF Skips
<1>7. Climbs(T, n)
  <2>1. 0 \in T
    BY <1>4, <1>5
  <2>2. ASSUME NEW i \in 1..n, i - 1 \in T PROVE i \in T
    <3>1. i \in 0..n
      OBVIOUS
    <3>2. \A x \in Seq(Byte) : NoCr(x) /\ Len(x) = i => Skips(x)
      BY <1>6, <2>2
    <3> QED BY <1>4, <3>1, <3>2
  <2> QED BY <2>1, <2>2 DEF Climbs
<1>8. n \in T
  <2>1. n \in 0..n
    OBVIOUS
  <2> QED BY <1>7, <2>1, Climb
<1>9. Skips(u)
  BY <1>1, <1>4, <1>8
<1> QED BY <1>9 DEF Skips

-----------------------------------------------------------------------------
(* NMEA: what the calls of write have not looked at. *)

\* f says of each beginning of s what its elements make, one behind the other.
Flattens(f, s, n) == \A i \in 1..n : f[i] = IF i = 1 THEN s[1] ELSE f[i - 1] \o s[i]
Flattened(s, n, V) == \E f \in [1..n -> V] : Flattens(f, s, n) /\ FlattenSeq(s) = f[n]

\* FlattenSeq is what its definition says.
LEMMA FlattenIs ==
  ASSUME NEW s \in Seq(Bytes), NEW n \in Nat \ {0}, n = Len(s)
  PROVE  Flattened(s, n, Bytes)
<1> DEFINE D == 1..n
           m == [i \in D |-> i]
           Body(i, g) == IF i = 1 THEN s[i] ELSE g[i - 1] \o s[i]
           F == [x \in D \X [D -> Bytes] |-> Body(x[1], x[2])]
           Is(g) == g = [i \in 1..Len(s) |-> Body(i, g)]
<1>1. \A i \in D : s[i] \in Bytes /\ (i # 1 => i - 1 \in D /\ i - 1 < i)
  OBVIOUS
<1>2. \A p, q \in Bytes : p \o q \in Bytes
  BY Concat
<1>3. \A i \in D : \A g \in [D -> Bytes] : F[<<i, g>>] = Body(i, g)
  OBVIOUS
<1>4. \A i \in D : \A g \in [D -> Bytes] : Body(i, g) \in Bytes
  <2> HIDE DEF D
  <2>1. ASSUME NEW i \in D, NEW g \in [D -> Bytes] PROVE Body(i, g) \in Bytes
    <3>1. CASE i = 1
      BY <1>1, <3>1
    <3>2. CASE i # 1
      <4>1. PICK p, q \in Bytes : p = g[i - 1] /\ q = s[i]
        BY <1>1, <3>2
      <4>2. p \o q \in Bytes
        BY <1>2
      <4> QED BY <3>2, <4>1, <4>2
    <3> QED BY <3>1, <3>2
  <2> HIDE DEF Body
  <2> QED BY <2>1
<1>5. Recurs(F, D, Bytes, m)
  <2>1. m \in [D -> Nat] /\ \A i \in D : m[i] = i
    OBVIOUS
  <2>2. ASSUME NEW i \in D, NEW g \in [D -> Bytes], NEW h \in [D -> Bytes],
               \A y \in D : m[y] < m[i] => g[y] = h[y]
        PROVE  Body(i, g) = Body(i, h)
    <3>1. CASE i = 1
      BY <3>1
    <3>2. CASE i # 1
      <4>1. g[i - 1] = h[i - 1]
        <5> HIDE DEF m
        <5> QED BY <1>1, <2>1, <2>2, <3>2
      <4> QED BY <4>1
    <3> HIDE DEF Body, m
    <3> QED BY <3>1, <3>2
  <2> HIDE DEF F, m, D, Body
  <2>3. ASSUME NEW i \in D, NEW g \in [D -> Bytes] PROVE F[<<i, g>>] \in Bytes
    BY <1>3, <1>4
  <2>4. ASSUME NEW i \in D, NEW g \in [D -> Bytes], NEW h \in [D -> Bytes],
               \A y \in D : m[y] < m[i] => g[y] = h[y]
        PROVE  F[<<i, g>>] = F[<<i, h>>]
    BY <1>3, <2>2, <2>4
  <2> QED BY <2>1, <2>3, <2>4 DEF Recurs
<1>6. \E f \in [D -> Bytes] : \A i \in D : f[i] = F[<<i, f>>]
  <2>1. Bytes # {}
    <3>1. <<>> \in Bytes
      BY DEF Bytes
    <3> QED BY <3>1
  <2> HIDE DEF F, m, D
  <2> QED BY <1>5, <2>1, Recursion
<1>7. \E g : Is(g)
  <2>1. PICK f \in [D -> Bytes] : \A i \in D : f[i] = F[<<i, f>>]
    BY <1>6
  <2>2. \A i \in D : f[i] = Body(i, f)
    <3> HIDE DEF F, D, Body
    <3> QED BY <1>3, <2>1
  <2>3. f = [i \in D |-> Body(i, f)]
    <3> HIDE DEF F, Body
    <3> QED BY <2>2
  <2> QED BY <2>3
<1>8. PICK g : g = CHOOSE h : Is(h)
  OBVIOUS
<1>9. Is(g)
  <2> HIDE DEF Is
  <2> QED BY <1>7, <1>8
<1>10. FlattenSeq(s) = g[n]
  BY <1>8 DEF FlattenSeq
<1>11. Flattens(g, s, n)
  <2>1. ASSUME NEW i \in 1..n PROVE g[i] = IF i = 1 THEN s[1] ELSE g[i - 1] \o s[i]
    BY <1>9
  <2> QED BY <2>1 DEF Flattens
<1>12. g \in [1..n -> Bytes]
  <2>1. PICK T : T = {i \in 1..n : g[i] \in Bytes}
    OBVIOUS
  <2>2. 1 \in T
    <3>1. 1 \in 1..n /\ g[1] = s[1] /\ s[1] \in Bytes
      BY <1>1, <1>11 DEF Flattens
    <3> QED BY <2>1, <3>1
  <2>3. ASSUME NEW i \in 1..(n - 1), i \in T PROVE i + 1 \in T
    <3>1. i + 1 \in 1..n /\ i + 1 # 1 /\ (i + 1) - 1 = i
      OBVIOUS
    <3>2. PICK p, q \in Bytes : p = g[i] /\ q = s[i + 1]
      BY <1>1, <2>1, <2>3, <3>1
    <3>3. g[i + 1] = p \o q
      BY <1>11, <3>1, <3>2 DEF Flattens
    <3>4. p \o q \in Bytes
      BY <1>2
    <3> QED BY <2>1, <3>1, <3>3, <3>4
  <2>4. \A i \in 1..n : i \in T
    <3>1. Passes(T, n - 1)
      BY <2>3 DEF Passes
    <3> QED BY <2>2, <3>1, UpTo
  <2>5. \A i \in 1..n : g[i] \in Bytes
    BY <2>1, <2>4
  <2> QED BY <1>9, <2>5
<1> QED BY <1>10, <1>11, <1>12 DEF Flattened

\* An element in front.
LEMMA FlattenFront ==
  ASSUME NEW x \in Bytes, NEW t \in Seq(Bytes), NEW s, s = <<x>> \o t
  PROVE  /\ FlattenSeq(t) \in Bytes
         /\ FlattenSeq(s) = x \o FlattenSeq(t)
<1>1. /\ s \in Seq(Bytes) /\ Len(s) = Len(t) + 1 /\ s[1] = x
      /\ \A i \in 1..Len(t) : s[i + 1] = t[i]
  BY InFront
<1>2. PICK n \in Nat : n = Len(t)
  OBVIOUS
<1>3. n + 1 \in Nat \ {0} /\ n + 1 = Len(s)
  BY <1>1, <1>2
<1>4. PICK g \in [1..(n + 1) -> Bytes] : Flattens(g, s, n + 1) /\ FlattenSeq(s) = g[n + 1]
  <2>1. Flattened(s, n + 1, Bytes)
    BY <1>1, <1>3, FlattenIs
  <2> QED BY <2>1 DEF Flattened
<1>5. g[1] = x
  <2>1. 1 \in 1..(n + 1)
    OBVIOUS
  <2> QED BY <1>1, <1>4, <2>1 DEF Flattens
<1>6. CASE n = 0
  <2>1. t = <<>> /\ Len(t) = 0
    <3>1. Len(t) = 0
      BY <1>2, <1>6
    <3> QED BY <3>1, EmptySeq
  <2>2. FlattenSeq(t) = <<>>
    <3>1. FlattenSeq(t) = t
      BY <2>1 DEF FlattenSeq
    <3> QED BY <2>1, <3>1, Zenon
  <2>3. <<>> \in Bytes
    BY DEF Bytes
  <2>4. x \o <<>> = x
    BY EmptyJoins, Zenon
  <2>5. g[n + 1] = x
    BY <1>5, <1>6
  <2> QED BY <1>4, <2>2, <2>3, <2>4, <2>5, Zenon
<1>7. CASE n # 0
  <2>1. PICK f \in [1..n -> Bytes] : Flattens(f, t, n) /\ FlattenSeq(t) = f[n]
    <3>1. Flattened(t, n, Bytes)
      BY <1>2, <1>7, FlattenIs
    <3> QED BY <3>1 DEF Flattened
  <2>2. PICK T : T = {i \in 1..n : g[i + 1] = x \o f[i]}
    OBVIOUS
  <2>3. 1 \in T
    <3>1. 1 \in 1..n /\ 1 + 1 \in 1..(n + 1) /\ 1 + 1 # 1 /\ (1 + 1) - 1 = 1
      BY <1>7
    <3>2. g[1 + 1] = g[1] \o s[1 + 1] /\ s[1 + 1] = t[1] /\ f[1] = t[1]
      BY <1>1, <1>2, <1>4, <2>1, <3>1 DEF Flattens
    <3> QED BY <1>5, <2>2, <3>1, <3>2
  <2>4. ASSUME NEW i \in 1..(n - 1), i \in T PROVE i + 1 \in T
    <3>1. /\ i \in 1..n /\ i + 1 \in 1..n /\ i + 1 # 1 /\ (i + 1) - 1 = i
          /\ (i + 1) + 1 \in 1..(n + 1) /\ (i + 1) + 1 # 1 /\ ((i + 1) + 1) - 1 = i + 1
      OBVIOUS
    <3>2. PICK p, q \in Bytes : p = f[i] /\ q = t[i + 1]
      <4>1. f[i] \in Bytes
        BY <2>1, <3>1
      <4>2. t[i + 1] \in Bytes
        BY <1>2, <3>1, ElementOfSeq
      <4> QED BY <4>1, <4>2
    <3>3. f[i + 1] = p \o q
      BY <2>1, <3>1, <3>2 DEF Flattens
    <3>4. g[i + 1] = x \o p
      BY <2>2, <2>4, <3>2
    <3>5. s[(i + 1) + 1] = q
      BY <1>1, <1>2, <3>1, <3>2
    <3>6. g[(i + 1) + 1] = (x \o p) \o q
      BY <1>4, <3>1, <3>4, <3>5 DEF Flattens
    <3>7. (x \o p) \o q = x \o (p \o q)
      <4>1. Assoc(x, p, q)
        BY Regroups, Zenon
      <4> QED BY <4>1 DEF Assoc
    <3>8. g[(i + 1) + 1] = x \o f[i + 1]
      BY <3>3, <3>6, <3>7, Zenon
    <3> QED BY <2>2, <3>1, <3>8
  <2>5. n \in T
    <3>1. Passes(T, n - 1) /\ n \in 1..n
      BY <1>7, <2>4 DEF Passes
    <3> QED BY <2>3, <3>1, UpTo
  <2> QED BY <1>4, <2>1, <2>2, <2>5
<1> QED BY <1>6, <1>7

\* What a call f, and the calls in fs one behind the other, have not looked at, if a is
\* the array.
CallText(f, a) == [k \in 1..f.len |-> ByteOf(f, a, k)]
TextOf(fs, a) == FlattenSeq([i \in 1..Len(fs) |-> CallText(fs[i], a)])

NmeaArray == [0..(NmeaCapacity - 1) -> Byte]

\* The calls in fs read the array behind its first n + 1 bytes, an inner one before an
\* outer one, and run over no end.
InReach(f, n) ==
  /\ f.len > 0
  /\ f.src = "input" => f.ptr + f.len <= Len(input)
  /\ f.src = "packet" => n < f.ptr /\ f.ptr + f.len <= NmeaCapacity
NmeaCalls(fs, n) ==
  /\ fs \in Seq(Frame)
  /\ \A i \in 1..Len(fs) : InReach(fs[i], n)
  /\ \A i, j \in 1..Len(fs) :
       i < j /\ fs[j].src = "packet" =>
         fs[i].src = "packet" /\ fs[i].ptr + fs[i].len <= fs[j].ptr

\* They are bytes, as many as the call has.
LEMMA CallBytes ==
  ASSUME input \in Seq(Byte), NEW a \in NmeaArray, NEW f \in Frame, NEW n \in Nat, InReach(f, n)
  PROVE  CallText(f, a) \in Bytes /\ Len(CallText(f, a)) = f.len
<1>1. /\ f.len \in Nat /\ f.ptr \in Nat /\ f.src \in {"input", "packet"} /\ NmeaCapacity \in Nat
  BY FrameFields, NmeaAssumption
<1>2. ASSUME NEW k \in 1..f.len PROVE ByteOf(f, a, k) \in Byte
  <2>1. CASE f.src = "input"
    <3>1. f.ptr + k \in 1..Len(input)
      BY <1>1, <2>1 DEF InReach
    <3> QED BY <2>1, <3>1 DEF ByteOf
  <2>2. CASE f.src = "packet"
    <3>1. f.ptr + k - 1 \in 0..(NmeaCapacity - 1)
      BY <1>1, <2>2 DEF InReach
    <3> QED BY <2>2, <3>1 DEF ByteOf, NmeaArray
  <2> QED BY <1>1, <2>1, <2>2
<1>3. PICK c : c = CallText(f, a)
  OBVIOUS
<1>4. c \in [1..f.len -> Byte]
  BY <1>2, <1>3 DEF CallText
<1>5. c \in Seq(Byte) /\ Len(c) = f.len
  BY <1>1, <1>4
<1> QED BY <1>3, <1>5 DEF Bytes

\* The calls are frames, each in reach.
LEMMA CallsFrames ==
  ASSUME NEW fs, NEW m \in Nat, NmeaCalls(fs, m)
  PROVE  /\ fs \in Seq(Frame) /\ Len(fs) \in Nat
         /\ \A i \in 1..Len(fs) : /\ fs[i] \in Frame /\ InReach(fs[i], m)
                                  /\ fs[i].len \in Nat /\ fs[i].ptr \in Nat
                                  /\ fs[i].src \in {"input", "packet"}
<1>1. fs \in Seq(Frame) /\ Len(fs) \in Nat
  BY DEF NmeaCalls
<1>2. \A i \in 1..Len(fs) : fs[i] \in Frame
  BY <1>1
<1> QED BY <1>1, <1>2, FrameFields DEF NmeaCalls

\* The innermost call reads first.
FrontText(fs, a) ==
  /\ CallText(fs[1], a) \in Bytes /\ TextOf(Tail(fs), a) \in Bytes
  /\ TextOf(fs, a) = CallText(fs[1], a) \o TextOf(Tail(fs), a)

LEMMA TextParts ==
  ASSUME input \in Seq(Byte), NEW a \in NmeaArray, NEW m \in Nat, NEW fs, NmeaCalls(fs, m)
  PROVE  /\ TextOf(fs, a) \in Bytes
         /\ fs = <<>> => TextOf(fs, a) = <<>>
         /\ fs # <<>> => FrontText(fs, a)
<1>1. /\ fs \in Seq(Frame) /\ Len(fs) \in Nat
      /\ \A i \in 1..Len(fs) : fs[i] \in Frame /\ InReach(fs[i], m)
  BY CallsFrames
<1>2. \A i \in 1..Len(fs) : CallText(fs[i], a) \in Bytes
  BY <1>1, CallBytes
<1>3. CASE fs = <<>>
  <2>1. PICK s : s = [i \in 1..Len(fs) |-> CallText(fs[i], a)]
    OBVIOUS
  <2>2. s = <<>> /\ Len(s) = 0
    BY <1>3, <2>1
  <2>3. FlattenSeq(s) = s
    BY <2>2 DEF FlattenSeq
  <2>4. TextOf(fs, a) = <<>>
    BY <2>1, <2>2, <2>3 DEF TextOf
  <2>5. <<>> \in Bytes
    BY DEF Bytes
  <2> QED BY <1>3, <2>4, <2>5
<1>4. CASE fs # <<>>
  <2>1. PICK g \in Seq(Frame) :
          /\ g = Tail(fs) /\ Len(g) = Len(fs) - 1 /\ \A i \in 1..Len(g) : g[i] = fs[i + 1]
    BY <1>1, <1>4, HeadTailProperties
  <2>2. PICK n \in Nat : n = Len(g) /\ Len(fs) = n + 1
    <3>1. PICK n \in Nat : n = Len(g)
      OBVIOUS
    <3>2. Len(fs) = n + 1
      BY <1>1, <2>1, <3>1
    <3> QED BY <3>1, <3>2
  <2>3. PICK x \in Bytes : x = CallText(fs[1], a)
    BY <1>2, <2>2
  <2>4. PICK t : t = [i \in 1..n |-> CallText(g[i], a)]
    OBVIOUS
  <2>5. t \in Seq(Bytes) /\ Len(t) = n
    <3>1. ASSUME NEW i \in 1..n PROVE CallText(g[i], a) \in Bytes
      <4>1. i + 1 \in 1..Len(fs) /\ g[i] = fs[i + 1]
        BY <2>1, <2>2
      <4> QED BY <1>2, <4>1
    <3>2. t \in [1..n -> Bytes]
      BY <2>4, <3>1
    <3> QED BY <3>2
  <2>6. PICK s : s = [i \in 1..(n + 1) |-> CallText(fs[i], a)]
    OBVIOUS
  <2>7. s \in Seq(Bytes) /\ Len(s) = n + 1
    <3>1. s \in [1..(n + 1) -> Bytes]
      BY <1>2, <2>2, <2>6
    <3> QED BY <3>1
  <2>8. PICK r : r = <<x>> \o t
    OBVIOUS
  <2>9. /\ r \in Seq(Bytes) /\ Len(r) = n + 1 /\ r[1] = x
        /\ \A i \in 2..Len(r) : i - 1 \in 1..Len(t) /\ r[i] = t[i - 1]
    BY <2>5, <2>8, InFront
  <2>10. ASSUME NEW i \in 1..(n + 1) PROVE s[i] = r[i]
    <3>1. CASE i = 1
      BY <2>3, <2>6, <2>9, <3>1
    <3>2. CASE i # 1
      <4>1. PICK j : j = i - 1
        OBVIOUS
      <4>2. j \in 1..n /\ j + 1 = i /\ i \in 2..(n + 1)
        BY <3>2, <4>1
      <4>3. r[i] = t[j] /\ t[j] = CallText(g[j], a) /\ g[j] = fs[j + 1]
        BY <2>1, <2>2, <2>4, <2>9, <4>1, <4>2
      <4> QED BY <2>6, <4>2, <4>3
    <3> QED BY <3>1, <3>2
  <2>11. s = r
    BY <2>7, <2>9, <2>10, SeqEqual
  <2>12. FlattenSeq(t) \in Bytes /\ FlattenSeq(s) = x \o FlattenSeq(t)
    BY <2>5, <2>8, <2>11, FlattenFront
  <2>13. FlattenSeq(t) = TextOf(g, a) /\ FlattenSeq(s) = TextOf(fs, a)
    BY <2>2, <2>4, <2>6 DEF TextOf
  <2>14. x \o FlattenSeq(t) \in Bytes
    BY <2>12, ByteJoins, Zenon
  <2>15. FrontText(fs, a)
    BY <2>1, <2>3, <2>12, <2>13 DEF FrontText
  <2> QED BY <1>4, <2>12, <2>13, <2>14, <2>15
<1> QED BY <1>3, <1>4

\* Bytes in front of what the calls read may be written to.
LEMMA OverwriteText ==
  ASSUME NEW a, NEW b, NEW m \in Nat, NEW fs, NmeaCalls(fs, m),
         \A i \in Nat : m < i /\ i < NmeaCapacity => b[i] = a[i]
  PROVE  TextOf(fs, b) = TextOf(fs, a)
<1>1. /\ fs \in Seq(Frame) /\ Len(fs) \in Nat /\ NmeaCapacity \in Nat
      /\ \A i \in 1..Len(fs) : /\ InReach(fs[i], m) /\ fs[i].len \in Nat /\ fs[i].ptr \in Nat
                               /\ fs[i].src \in {"input", "packet"}
  BY CallsFrames, NmeaAssumption
<1>2. ASSUME NEW i \in 1..Len(fs) PROVE CallText(fs[i], b) = CallText(fs[i], a)
  <2>1. ASSUME NEW k \in 1..fs[i].len PROVE ByteOf(fs[i], b, k) = ByteOf(fs[i], a, k)
    <3>1. CASE fs[i].src = "input"
      BY <3>1 DEF ByteOf
    <3>2. CASE fs[i].src = "packet"
      <4>1. PICK j : j = fs[i].ptr + k - 1
        OBVIOUS
      <4>2. j \in Nat /\ m < j + 1 /\ j < NmeaCapacity /\ fs[i].ptr <= j
        BY <1>1, <3>2, <4>1 DEF InReach
      <4>3. m < j
        BY <1>1, <3>2, <4>2 DEF InReach
      <4>4. b[j] = a[j]
        BY <4>2, <4>3
      <4> QED BY <3>2, <4>1, <4>4 DEF ByteOf
    <3> QED BY <1>1, <3>1, <3>2
  <2> QED BY <2>1 DEF CallText
<1>3. [i \in 1..Len(fs) |-> CallText(fs[i], b)] = [i \in 1..Len(fs) |-> CallText(fs[i], a)]
  BY <1>2
<1> QED BY <1>3 DEF TextOf

\* If they are ahead of m bytes, they are ahead of fewer.
LEMMA FewerAhead ==
  ASSUME NEW m \in Nat, NEW n \in Nat, n <= m, NEW fs, NmeaCalls(fs, m)
  PROVE  NmeaCalls(fs, n)
<1>1. ASSUME NEW i \in 1..Len(fs) PROVE InReach(fs[i], n)
  <2>1. InReach(fs[i], m) /\ fs[i].ptr \in Nat
    BY CallsFrames
  <2> QED BY <2>1 DEF InReach
<1> QED BY <1>1 DEF NmeaCalls

\* The calls in fs read u, and then what those in g read.
ReadsFirst(fs, g, a, u) == TextOf(fs, a) = u \o TextOf(g, a)

\* After n bytes.
LEMMA ShorterText ==
  ASSUME input \in Seq(Byte), NEW a \in NmeaArray, NEW m \in Nat, NEW fs, NmeaCalls(fs, m),
         fs # <<>>, NEW n \in 1..fs[1].len, NEW g, g = Shorter(fs, n)
  PROVE  /\ NmeaCalls(g, m + n)
         /\ ReadsFirst(fs, g, a, First(CallText(fs[1], a), n))
<1>1. /\ fs \in Seq(Frame) /\ Len(fs) \in Nat
      /\ \A i \in 1..Len(fs) : /\ fs[i] \in Frame /\ InReach(fs[i], m)
                               /\ fs[i].len \in Nat /\ fs[i].ptr \in Nat
                               /\ fs[i].src \in {"input", "packet"}
  BY CallsFrames
<1>2. Len(fs) > 0 /\ 1 \in 1..Len(fs)
  BY <1>1
<1>3. /\ g \in Seq(Frame)
      /\ fs[1].len = n => /\ Len(g) = Len(fs) - 1
                          /\ \A i \in 1..Len(g) : g[i] = fs[i + 1]
      /\ fs[1].len # n => /\ Len(g) = Len(fs) /\ g[1].src = fs[1].src
                          /\ g[1].ptr = fs[1].ptr + n /\ g[1].len = fs[1].len - n
                          /\ \A i \in 2..Len(g) : g[i] = fs[i]
  BY <1>1, ShorterIs
<1>4. ASSUME NEW j \in 2..Len(fs) PROVE InReach(fs[j], m + n)
  <2>1. /\ j \in 1..Len(fs) /\ 1 < j
    BY <1>2
  <2>2. InReach(fs[j], m) /\ InReach(fs[1], m) /\ fs[1].len \in Nat /\ fs[1].ptr \in Nat /\ fs[j].ptr \in Nat
    BY <1>1, <1>2, <2>1
  <2>3. fs[j].src = "packet" => fs[1].src = "packet" /\ fs[1].ptr + fs[1].len <= fs[j].ptr
    BY <1>2, <2>1 DEF NmeaCalls
  <2> QED BY <2>2, <2>3 DEF InReach
<1>5. PICK c \in Bytes : c = CallText(fs[1], a) /\ Len(c) = fs[1].len
  BY <1>1, <1>2, CallBytes
<1>6. PICK t \in Bytes : t = TextOf(Tail(fs), a) /\ TextOf(fs, a) = c \o t
  BY <1>5, TextParts DEF FrontText
<1>7. n \in 0..Len(c)
  BY <1>1, <1>2, <1>5
<1>8. /\ First(c, n) \in Bytes /\ Rest(c, n) \in Bytes /\ Len(Rest(c, n)) = Len(c) - n
      /\ Len(First(c, n)) = n /\ First(c, n) \o Rest(c, n) = c
  BY <1>7, Cut
<1>9. CASE fs[1].len = n
  <2>1. \A i \in 1..Len(g) : i + 1 \in 2..Len(fs) /\ g[i] = fs[i + 1]
    BY <1>1, <1>3, <1>9
  <2>2. \A i \in 1..Len(g) : InReach(g[i], m + n)
    BY <1>4, <2>1
  <2>3. ASSUME NEW i \in 1..Len(g), NEW j \in 1..Len(g), i < j, g[j].src = "packet"
        PROVE  g[i].src = "packet" /\ g[i].ptr + g[i].len <= g[j].ptr
    <3>1. i + 1 \in 1..Len(fs) /\ j + 1 \in 1..Len(fs) /\ i + 1 < j + 1
      BY <2>1, <2>3
    <3>2. g[i] = fs[i + 1] /\ g[j] = fs[j + 1]
      BY <2>1
    <3> QED BY <2>3, <3>1, <3>2 DEF NmeaCalls
  <2>4. NmeaCalls(g, m + n)
    BY <1>3, <2>2, <2>3 DEF NmeaCalls
  <2>5. g = Tail(fs)
    BY <1>9 DEF Shorter
  <2>6. First(c, n) = c
    <3>1. PICK d \in Bytes : d = Rest(c, n) /\ Len(d) = 0
      BY <1>5, <1>7, <1>8, <1>9
    <3>2. d = <<>>
      BY <3>1 DEF Bytes
    <3>3. First(c, n) \o <<>> = First(c, n)
      BY <1>8, EmptyJoins, Zenon
    <3> QED BY <1>8, <3>1, <3>2, <3>3, Zenon
  <2> QED BY <1>5, <1>6, <2>4, <2>5, <2>6 DEF ReadsFirst
<1>10. CASE fs[1].len # n
  <2>1. Len(g) = Len(fs) /\ 1 \in 1..Len(g) /\ \A i \in 1..Len(g) : i # 1 => i \in 2..Len(g)
    BY <1>1, <1>2, <1>3, <1>10
  <2>2. /\ g[1].src = fs[1].src /\ g[1].ptr = fs[1].ptr + n /\ g[1].len = fs[1].len - n
        /\ \A i \in 2..Len(g) : g[i] = fs[i]
    BY <1>3, <1>10
  <2>3. InReach(g[1], m + n)
    <3>1. InReach(fs[1], m) /\ fs[1].len \in Nat /\ fs[1].ptr \in Nat /\ n \in Nat /\ n < fs[1].len
      BY <1>1, <1>2, <1>10
    <3>2. PICK p, l \in Nat : p = fs[1].ptr /\ l = fs[1].len
      BY <3>1
    <3>3. g[1].len = l - n /\ g[1].ptr = p + n /\ g[1].src = fs[1].src
      BY <2>2, <3>2
    <3>4. fs[1].src = "input" => p + l <= Len(input)
      BY <3>1, <3>2 DEF InReach
    <3>5. fs[1].src = "packet" => m < p /\ p + l <= NmeaCapacity
      BY <3>1, <3>2 DEF InReach
    <3>6. l - n > 0 /\ (p + n) + (l - n) = p + l /\ (m < p => m + n < p + n)
      BY <3>1, <3>2
    <3> QED BY <3>3, <3>4, <3>5, <3>6 DEF InReach
  <2>4. \A i \in 1..Len(g) : InReach(g[i], m + n)
    BY <1>4, <2>1, <2>2, <2>3
  <2>5. ASSUME NEW i \in 1..Len(g), NEW j \in 1..Len(g), i < j, g[j].src = "packet"
        PROVE  g[i].src = "packet" /\ g[i].ptr + g[i].len <= g[j].ptr
    <3>1. j # 1 /\ j \in 1..Len(fs) /\ i \in 1..Len(fs) /\ g[j] = fs[j]
      BY <2>1, <2>2, <2>5
    <3>2. fs[i].src = "packet" /\ fs[i].ptr + fs[i].len <= fs[j].ptr
      BY <2>5, <3>1 DEF NmeaCalls
    <3>3. CASE i = 1
      <4>1. PICK p, l \in Nat : p = fs[1].ptr /\ l = fs[1].len
        BY <1>1, <1>2
      <4>2. (p + n) + (l - n) = p + l
        <5>1. fs[1].len \in Nat
          BY <1>1, <1>2
        <5>2. n \in Nat
          BY <5>1
        <5> QED BY <5>2
      <4>3. g[1].src = "packet" /\ g[1].ptr + g[1].len = p + l
        BY <2>2, <3>2, <3>3, <4>1, <4>2
      <4> QED BY <3>1, <3>2, <3>3, <4>1, <4>3
    <3>4. CASE i # 1
      BY <2>1, <2>2, <3>1, <3>2, <3>4
    <3> QED BY <3>3, <3>4
  <2>6. NmeaCalls(g, m + n)
    BY <1>3, <2>4, <2>5 DEF NmeaCalls
  <2>7. PICK d \in Bytes : d = CallText(g[1], a) /\ Len(d) = g[1].len
    <3>1. g[1] \in Frame /\ InReach(g[1], m + n) /\ m + n \in Nat
      BY <1>1, <1>2, <1>3, <2>1, <2>3
    <3> QED BY <3>1, CallBytes
  <2>8. Tail(g) = Tail(fs)
    <3>1. PICK x : x = [fs[1] EXCEPT !.ptr = @ + n, !.len = @ - n]
      OBVIOUS
    <3>2. x \in Frame
      <4>1. PICK y \in Frame : y = fs[1]
        BY <1>1, <1>2
      <4>2. n \in 0..y.len /\ x = [y EXCEPT !.ptr = @ + n, !.len = @ - n]
        BY <1>1, <1>2, <3>1, <4>1
      <4> QED BY <4>2, ShortenedFrame
    <3>3. PICK u \in Seq(Frame) : u = Tail(fs)
      <4>1. fs \in Seq(Frame)
        BY <1>1
      <4> QED BY <4>1, HeadTailProperties
    <3>4. g = <<x>> \o u
      BY <1>10, <3>1, <3>3 DEF Shorter
    <3>5. Len(g) = Len(u) + 1 /\ \A i \in 1..Len(u) : g[i + 1] = u[i]
      BY <3>2, <3>4, InFront
    <3>6. PICK v \in Seq(Frame) : v = Tail(g) /\ Len(v) = Len(g) - 1 /\ \A i \in 1..Len(v) : v[i] = g[i + 1]
      <4>1. g \in Seq(Frame)
        BY <1>3
      <4>2. g # <<>>
        BY <2>1, <4>1
      <4> QED BY <4>1, <4>2, HeadTailProperties
    <3>7. Len(v) = Len(u)
      BY <3>5, <3>6
    <3>8. \A i \in 1..Len(v) : v[i] = u[i]
      BY <3>5, <3>6, <3>7
    <3>9. v = u
      BY <3>7, <3>8, SeqEqual
    <3> QED BY <3>3, <3>6, <3>9
  <2>9. TextOf(g, a) = d \o t
    <3>1. g # <<>> /\ m + n \in Nat
      BY <1>1, <1>2, <2>1
    <3>2. FrontText(g, a)
      BY <2>6, <3>1, TextParts
    <3> QED BY <1>6, <2>7, <2>8, <3>2 DEF FrontText
  <2>10. d = Rest(c, n)
    <3>1. c \in Seq(Byte) /\ d \in Seq(Byte)
      BY DEF Bytes
    <3>2. PICK r \in Seq(Byte) : r = Rest(c, n) /\ Len(r) = Len(c) - n /\ \A i \in 1..(Len(c) - n) : r[i] = c[n + i]
      BY <1>7, <3>1, RestIs
    <3>3. Len(r) = Len(d)
      BY <1>5, <2>2, <2>7, <3>2
    <3>4. ASSUME NEW i \in 1..Len(d) PROVE d[i] = r[i]
      <4>1. /\ n \in Nat /\ fs[1].len \in Nat /\ fs[1].ptr \in Nat
        BY <1>1, <1>2
      <4>2. i \in 1..g[1].len /\ n + i \in 1..fs[1].len /\ i \in 1..(Len(c) - n)
        BY <1>5, <2>2, <2>7, <4>1
      <4>3. d[i] = ByteOf(g[1], a, i) /\ c[n + i] = ByteOf(fs[1], a, n + i)
        BY <1>5, <2>7, <4>2 DEF CallText
      <4>4. ByteOf(g[1], a, i) = ByteOf(fs[1], a, n + i)
        <5>1. fs[1].ptr + n + i = fs[1].ptr + (n + i)
          BY <4>1, <4>2
        <5>2. fs[1].ptr + n + i - 1 = fs[1].ptr + (n + i) - 1
          BY <4>1, <4>2
        <5> QED BY <2>2, <5>1, <5>2 DEF ByteOf
      <4> QED BY <3>2, <4>2, <4>3, <4>4
    <3>5. d = r
      BY <3>1, <3>3, <3>4, SeqEqual
    <3> QED BY <3>2, <3>5
  <2>11. First(c, n) \o (d \o t) = c \o t
    <3>1. (First(c, n) \o d) \o t = First(c, n) \o (d \o t)
      <4>1. Assoc(First(c, n), d, t)
        BY <1>8, Regroups, Zenon
      <4> QED BY <4>1 DEF Assoc
    <3> QED BY <1>8, <2>10, <3>1, Zenon
  <2> QED BY <1>5, <1>6, <2>6, <2>9, <2>11 DEF ReadsFirst
<1> QED BY <1>9, <1>10

\* A nested call reads in front of the others.
LEMMA NestedText ==
  ASSUME input \in Seq(Byte), NEW a \in NmeaArray, NEW n \in Nat, NEW fs, NmeaCalls(fs, n),
         n + 1 <= NmeaCapacity, NEW g, g = Nested(1, n, fs)
  PROVE  /\ NmeaCalls(g, 0)
         /\ ReadsFirst(g, fs, a, [k \in 1..n |-> a[k]])
<1>1. /\ fs \in Seq(Frame) /\ Len(fs) \in Nat /\ NmeaCapacity \in Nat
      /\ \A i \in 1..Len(fs) : /\ InReach(fs[i], n) /\ fs[i].len \in Nat /\ fs[i].ptr \in Nat
                               /\ fs[i].src \in {"input", "packet"}
  BY CallsFrames, NmeaAssumption
<1>2. TextOf(fs, a) \in Bytes
  BY TextParts
<1>3. CASE n = 0
  <2>1. g = fs
    <3>1. <<>> \o fs = fs
      BY <1>1, ConcatEmptySeq
    <3> QED BY <1>3, <3>1 DEF Nested
  <2>2. [k \in 1..n |-> a[k]] = <<>>
    BY <1>3
  <2>3. <<>> \o TextOf(fs, a) = TextOf(fs, a)
    BY <1>2, EmptyJoins, Zenon
  <2>4. NmeaCalls(g, 0)
    BY <1>3, <2>1
  <2> QED BY <2>1, <2>2, <2>3, <2>4 DEF ReadsFirst
<1>4. CASE n # 0
  <2>1. PICK x : x = [src |-> "packet", ptr |-> 1, len |-> n]
    OBVIOUS
  <2>2. x \in Frame /\ x.src = "packet" /\ x.ptr = 1 /\ x.len = n
    BY <2>1 DEF Frame
  <2>3. g = <<x>> \o fs
    BY <1>4, <2>1 DEF Nested
  <2>4. /\ g \in Seq(Frame) /\ Len(g) = Len(fs) + 1 /\ g[1] = x
        /\ \A i \in 1..Len(fs) : g[i + 1] = fs[i]
        /\ \A i \in 2..Len(g) : i - 1 \in 1..Len(fs) /\ g[i] = fs[i - 1]
    <3>1. fs \in Seq(Frame) /\ x \in Frame
      BY <1>1, <2>2
    <3> QED BY <2>3, <3>1, InFront
  <2>5. \A i \in 1..Len(g) : i = 1 \/ i \in 2..Len(g)
    BY <1>1, <2>4
  <2>6. ASSUME NEW i \in 1..Len(g) PROVE InReach(g[i], 0)
    <3>1. CASE i = 1
      BY <1>1, <1>4, <2>2, <2>4, <3>1 DEF InReach
    <3>2. CASE i \in 2..Len(g)
      <4>1. i - 1 \in 1..Len(fs) /\ g[i] = fs[i - 1]
        BY <2>4, <3>2
      <4>2. InReach(fs[i - 1], n) /\ fs[i - 1].ptr \in Nat
        BY <1>1, <4>1
      <4>3. PICK q \in Nat : q = fs[i - 1].ptr
        BY <4>2
      <4>4. n < q => 0 < q
        BY <1>1, <4>3
      <4> QED BY <4>1, <4>2, <4>3, <4>4 DEF InReach
    <3> QED BY <2>5, <3>1, <3>2
  <2>7. ASSUME NEW i \in 1..Len(g), NEW j \in 1..Len(g), i < j, g[j].src = "packet"
        PROVE  g[i].src = "packet" /\ g[i].ptr + g[i].len <= g[j].ptr
    <3>1. j - 1 \in 1..Len(fs) /\ g[j] = fs[j - 1]
      <4>1. j # 1
        BY <2>7
      <4> QED BY <2>4, <2>5, <4>1
    <3>2. CASE i = 1
      <4>1. InReach(fs[j - 1], n) /\ fs[j - 1].ptr \in Nat
        BY <1>1, <3>1
      <4>2. n < fs[j - 1].ptr
        BY <2>7, <3>1, <4>1 DEF InReach
      <4>3. PICK q \in Nat : q = fs[j - 1].ptr /\ q = g[j].ptr
        BY <3>1, <4>1
      <4>4. 1 + n <= q
        BY <1>1, <4>2, <4>3
      <4>5. g[i].src = "packet" /\ g[i].ptr + g[i].len = 1 + n
        BY <2>2, <2>4, <3>2
      <4> QED BY <4>3, <4>4, <4>5
    <3>3. CASE i # 1
      <4>1. i - 1 \in 1..Len(fs) /\ g[i] = fs[i - 1] /\ i - 1 < j - 1
        BY <2>4, <2>5, <2>7, <3>3
      <4> QED BY <2>7, <3>1, <4>1 DEF NmeaCalls
    <3> QED BY <3>2, <3>3
  <2>8. NmeaCalls(g, 0)
    BY <2>4, <2>6, <2>7 DEF NmeaCalls
  <2>9. g # <<>>
    BY <1>1, <2>4
  <2>10. FrontText(g, a)
    BY <2>8, <2>9, TextParts
  <2>11. Tail(g) = fs
    <3>1. PICK v \in Seq(Frame) : v = Tail(g) /\ Len(v) = Len(g) - 1 /\ \A i \in 1..Len(v) : v[i] = g[i + 1]
      <4>1. g \in Seq(Frame)
        BY <2>4
      <4> QED BY <2>9, <4>1, HeadTailProperties
    <3>2. Len(v) = Len(fs)
      BY <1>1, <2>4, <3>1
    <3>3. \A i \in 1..Len(v) : v[i] = fs[i]
      BY <2>4, <3>1, <3>2
    <3>4. v = fs
      BY <1>1, <3>2, <3>3, SeqEqual
    <3> QED BY <3>1, <3>4
  <2>12. CallText(x, a) = [k \in 1..n |-> a[k]]
    <3>1. ASSUME NEW k \in 1..n PROVE ByteOf(x, a, k) = a[k]
      <4>1. 1 + k - 1 = k
        OBVIOUS
      <4> QED BY <2>2, <4>1 DEF ByteOf
    <3> QED BY <2>2, <3>1 DEF CallText
  <2> QED BY <2>4, <2>8, <2>10, <2>11, <2>12 DEF FrontText, ReadsFirst
<1> QED BY <1>3, <1>4

-----------------------------------------------------------------------------
(* NMEA: what is true in every state. *)

\* The first n bytes of the array begin a line for which there is room.
HasLine(a, n) ==
  /\ n \in 1..(NmeaCapacity - 2) /\ a[0] = Dollar
  /\ \A i \in 0..(n - 1) : a[i] # CR

NmeaState ==
  /\ packet \in NmeaArray /\ packet_len \in 0..NmeaCapacity /\ state \in {"BEFORE", "CR", "LF"}
  /\ state = "CR" => HasLine(packet, packet_len)
  /\ state = "LF" => HasLine(packet, packet_len - 1) /\ packet[packet_len - 1] = CR
  /\ input \in Seq(Byte) /\ fed \in Bytes /\ out \in Bytes /\ packets \in Seq(Bytes)

NmeaIInv == NmeaState /\ NmeaCalls(frames, Kept)

\* Bytes that were not passed on, and the whole text that is left of the stream.
Line == Pend \o Todo
AllText == out \o Line

\* The bytes that are kept leave room in the array.
LEMMA NmeaKept ==
  ASSUME NmeaState
  PROVE  /\ Kept \in Nat /\ Kept < NmeaCapacity /\ NmeaCapacity \in Nat /\ packet_len \in Nat
         /\ state = "BEFORE" => Kept = 0
         /\ state # "BEFORE" => Kept = packet_len
<1>1. NmeaCapacity \in Nat /\ NmeaCapacity > 2
  BY NmeaAssumption
<1>2. packet_len \in Nat
  BY <1>1 DEF NmeaState
<1>3. CASE state = "BEFORE"
  BY <1>1, <1>2, <1>3 DEF Kept
<1>4. CASE state = "CR"
  <2>1. packet_len \in 1..(NmeaCapacity - 2) /\ Kept = packet_len
    BY <1>4 DEF NmeaState, HasLine, Kept
  <2> QED BY <1>1, <1>2, <1>4, <2>1
<1>5. CASE state = "LF"
  <2>1. packet_len - 1 \in 1..(NmeaCapacity - 2) /\ Kept = packet_len
    BY <1>5 DEF NmeaState, HasLine, Kept
  <2> QED BY <1>1, <1>2, <1>5, <2>1
<1> QED BY <1>3, <1>4, <1>5 DEF NmeaState

\* The first n bytes of an array, as a sequence.
Begin(a, n) == [i \in 1..n |-> a[i - 1]]

\* They are bytes.
LEMMA BeginBytes ==
  ASSUME NEW a \in NmeaArray, NEW n \in Nat, n <= NmeaCapacity
  PROVE  Begin(a, n) \in Seq(Byte) /\ Len(Begin(a, n)) = n
<1>1. PICK s : s = Begin(a, n)
  OBVIOUS
<1>2. NmeaCapacity \in Nat
  BY NmeaAssumption
<1>3. ASSUME NEW i \in 1..n PROVE a[i - 1] \in Byte
  <2>1. i - 1 \in 0..(NmeaCapacity - 1)
    BY <1>2
  <2> QED BY <2>1 DEF NmeaArray
<1>4. s \in [1..n -> Byte]
  BY <1>1, <1>3 DEF Begin
<1>5. s \in Seq(Byte) /\ Len(s) = n
  BY <1>4
<1> QED BY <1>1, <1>5

\* What is kept, what is not looked at yet, and what is left are bytes.
LEMMA NmeaView ==
  ASSUME NmeaIInv
  PROVE  /\ Pend = Begin(packet, Kept) /\ Pend \in Bytes /\ Len(Pend) = Kept
         /\ Todo = TextOf(frames, packet) /\ Todo \in Bytes
         /\ Line \in Bytes /\ out \in Bytes
<1>1. Kept \in Nat /\ Kept <= NmeaCapacity
  BY NmeaKept DEF NmeaIInv
<1>2. packet \in NmeaArray /\ input \in Seq(Byte) /\ out \in Bytes
  BY DEF NmeaIInv, NmeaState
<1>3. Pend = Begin(packet, Kept)
  BY DEF Pend, Begin
<1>4. Begin(packet, Kept) \in Seq(Byte) /\ Len(Begin(packet, Kept)) = Kept
  BY <1>1, <1>2, BeginBytes
<1>5. Todo = TextOf(frames, packet)
  BY DEF Todo, TextOf, CallText, ByteOf, Read
<1>6. TextOf(frames, packet) \in Bytes
  BY <1>1, <1>2, TextParts DEF NmeaIInv
<1>7. Pend \in Bytes
  BY <1>3, <1>4 DEF Bytes
<1>8. Line \in Bytes
  BY <1>5, <1>6, <1>7, ByteJoins, Zenon DEF Line
<1> QED BY <1>2, <1>3, <1>4, <1>5, <1>6, <1>7, <1>8

\* The innermost call.
LEMMA NmeaTop ==
  ASSUME NmeaIInv, frames # <<>>
  PROVE  /\ Top.len \in Nat \ {0} /\ 1 \in 1..Top.len
         /\ Unread \in Seq(Byte) /\ Len(Unread) = Top.len /\ Unread = CallText(frames[1], packet)
<1>1. Kept \in Nat
  BY NmeaKept DEF NmeaIInv
<1>2. /\ frames \in Seq(Frame) /\ Len(frames) \in Nat
      /\ \A i \in 1..Len(frames) : /\ frames[i] \in Frame /\ InReach(frames[i], Kept)
                                   /\ frames[i].len \in Nat /\ frames[i].ptr \in Nat
                                   /\ frames[i].src \in {"input", "packet"}
  <2>1. NmeaCalls(frames, Kept)
    BY DEF NmeaIInv
  <2> QED BY <1>1, <2>1, CallsFrames
<1>3. 1 \in 1..Len(frames)
  BY <1>2
<1>4. Top \in Frame /\ InReach(Top, Kept) /\ Top.len \in Nat
  BY <1>2, <1>3 DEF Top
<1>5. Top.len \in Nat \ {0} /\ 1 \in 1..Top.len
  BY <1>4 DEF InReach
<1>6. packet \in NmeaArray /\ input \in Seq(Byte)
  BY DEF NmeaIInv, NmeaState
<1>7. CallText(Top, packet) \in Bytes /\ Len(CallText(Top, packet)) = Top.len
  BY <1>1, <1>4, <1>6, CallBytes
<1>8. Unread = CallText(Top, packet)
  BY DEF Unread, Read, CallText, ByteOf
<1> QED BY <1>5, <1>7, <1>8 DEF Bytes, Top

\* The innermost call consumes n bytes, and the array is written to where it was read.
LEMMA NmeaConsumed ==
  ASSUME NmeaIInv, frames # <<>>, input' = input, NEW n \in 1..Top.len, frames' = Consume(n),
         \A i \in Nat : Kept + n <= i /\ i < NmeaCapacity => packet'[i] = packet[i],
         packet' \in NmeaArray
  PROVE  /\ Todo' \in Bytes /\ Todo = First(Unread, n) \o Todo'
         /\ NmeaCalls(frames', Kept + n)
<1>1. Kept \in Nat /\ packet \in NmeaArray /\ input \in Seq(Byte) /\ NmeaCalls(frames, Kept)
  BY NmeaKept DEF NmeaIInv, NmeaState
<1>2. n \in 1..frames[1].len /\ n \in Nat
  <2>1. Top.len \in Nat
    BY NmeaTop
  <2> QED BY <2>1 DEF Top
<1>3. PICK g : g = Shorter(frames, n) /\ g = frames'
  BY DEF Consume, Shorter, Top
<1>4. /\ NmeaCalls(g, Kept + n)
      /\ TextOf(frames, packet) = First(CallText(frames[1], packet), n) \o TextOf(g, packet)
  <2>1. PICK m \in Nat : m = Kept /\ NmeaCalls(frames, m)
    BY <1>1
  <2>2. g = Shorter(frames, n)
    BY <1>3
  <2>3. NmeaCalls(g, m + n) /\ ReadsFirst(frames, g, packet, First(CallText(frames[1], packet), n))
    BY <1>1, <1>2, <2>1, <2>2, ShorterText
  <2> QED BY <2>1, <2>3 DEF ReadsFirst
<1>5. Kept + n \in Nat
  BY <1>1, <1>2
<1>6. TextOf(g, packet') = TextOf(g, packet)
  <2>1. \A i \in Nat : Kept + n < i /\ i < NmeaCapacity => packet'[i] = packet[i]
    BY <1>5
  <2>2. PICK b : b = packet'
    OBVIOUS
  <2> QED BY <1>4, <1>5, <2>1, <2>2, OverwriteText
<1>7. Todo' = TextOf(g, packet')
  BY <1>3 DEF Todo, TextOf, CallText, ByteOf, Read
<1>8. TextOf(g, packet) \in Bytes
  BY <1>1, <1>4, <1>5, TextParts
<1>9. Todo = TextOf(frames, packet) /\ Unread = CallText(frames[1], packet)
  BY NmeaView, NmeaTop
<1> QED BY <1>3, <1>4, <1>6, <1>7, <1>8, <1>9

\* Bytes that are not the start byte are skipped.
LEMMA SentencesSkipAll ==
  ASSUME NEW u \in Seq(Byte), \A i \in 1..Len(u) : u[i] # Dollar, NEW v \in Seq(Byte)
  PROVE  Sentences[u \o v] = Sentences[v]
<1> DEFINE Skips(x) == Sentences[x \o v] = Sentences[v]
           None(x) == \A i \in 1..Len(x) : x[i] # Dollar
<1>1. PICK n \in Nat : n = Len(u)
  OBVIOUS
<1>2. PICK T : T = {i \in 0..n : \A x \in Seq(Byte) : None(x) /\ Len(x) = i => Skips(x)}
  OBVIOUS
<1>3. ASSUME NEW x \in Seq(Byte), Len(x) = 0 PROVE Skips(x)
  <2>1. x = <<>>
    BY <1>3
  <2>2. <<>> \o v = v
    BY ConcatEmptySeq
  <2> QED BY <2>1, <2>2
<1>4. ASSUME NEW i \in 1..n, i - 1 \in T, NEW x \in Seq(Byte), None(x), Len(x) = i
      PROVE  Skips(x)
  <2>1. x # <<>>
    BY <1>4
  <2>2. /\ x[1] \in Byte /\ Tail(x) \in Seq(Byte) /\ x = <<x[1]>> \o Tail(x)
        /\ Len(Tail(x)) = i - 1 /\ Len(x) \in Nat \ {0}
        /\ \A j \in 1..(i - 1) : Tail(x)[j] = x[j + 1]
    BY <1>4, <2>1, HeadAndTail
  <2>3. PICK b \in Byte, t \in Seq(Byte) : b = x[1] /\ t = Tail(x)
    BY <2>2
  <2>4. None(t)
    <3>1. ASSUME NEW j \in 1..Len(t) PROVE t[j] # Dollar
      <4>1. j \in 1..(i - 1) /\ j + 1 \in 1..Len(x)
        BY <1>4, <2>2, <2>3
      <4> QED BY <1>4, <2>2, <2>3, <4>1
    <3> QED BY <3>1
  <2>5. Skips(t)
    <3> HIDE DEF Skips, None
    <3> QED BY <1>2, <1>4, <2>2, <2>3, <2>4
  <2>6. b # Dollar
    <3>1. 1 \in 1..Len(x)
      BY <2>2
    <3> QED BY <1>4, <2>3, <3>1
  <2>7. PICK r \in Seq(Byte) : r = t \o v
    BY ConcatProperties
  <2>8. x \o v = <<b>> \o r
    <3>1. PICK y : y = <<b>>
      OBVIOUS
    <3>2. y \in Bytes /\ t \in Bytes /\ v \in Bytes
      BY <3>1 DEF Bytes
    <3>3. (y \o t) \o v = y \o (t \o v)
      <4>1. Assoc(y, t, v)
        BY <3>2, Regroups, Zenon
      <4> QED BY <4>1 DEF Assoc
    <3> QED BY <2>2, <2>3, <2>7, <3>1, <3>3
  <2>9. PICK w : w = <<b>> \o r
    OBVIOUS
  <2>10. Sentences[w] = Sentences[r]
    BY <2>6, <2>9, SentencesSkip
  <2> QED BY <2>5, <2>7, <2>8, <2>9, <2>10
<1> HIDE DEF Skips, None
<1>5. Climbs(T, n)
  <2>1. 0 \in T
    BY <1>2, <1>3
  <2>2. ASSUME NEW i \in 1..n, i - 1 \in T PROVE i \in T
    <3>1. i \in 0..n
      OBVIOUS
    <3>2. \A x \in Seq(Byte) : None(x) /\ Len(x) = i => Skips(x)
      BY <1>4, <2>2
    <3> QED BY <1>2, <3>1, <3>2
  <2> QED BY <2>1, <2>2 DEF Climbs
<1>6. n \in T
  <2>1. n \in 0..n
    OBVIOUS
  <2> QED BY <1>5, <2>1, Climb
<1>7. Skips(u)
  <2>1. None(u)
    BY DEF None
  <2> QED BY <1>1, <1>2, <1>6, <2>1
<1> QED BY <1>7 DEF Skips

-----------------------------------------------------------------------------
(* NMEA: one step. *)

\* What follows on the stream makes the same sentences of what is left before and after.
SameFuture == \A t \in Bytes : Sentences[Line \o t] = Sentences[Line' \o t]

\* A line feed was passed on and is still to be looked at.
LfDoubled ==
  \E a, z \in Bytes : /\ AllText = a \o (<<LF>> \o z)
                      /\ AllText' = a \o (<<LF>> \o (<<LF>> \o z))

\* s goes to next, as a sentence of the stream or because it is too short.
Takes(s) ==
  /\ s \in Bytes /\ packets' = Append(packets, s)
  /\ \/ s \in Good /\ \A t \in Bytes : Sentences[Line \o t] = <<s>> \o Sentences[Line' \o t]
     \/ s \notin Good /\ Len(s) < NmeaTail /\ SameFuture

Moved ==
  /\ fed' = fed
  /\ AllText' = AllText \/ LfDoubled
  /\ (packets' = packets /\ SameFuture) \/ \E s : Takes(s)

\* Bytes that are passed on leave the front of the text that is left.
LEMMA PassOn ==
  ASSUME NEW u \in Bytes, out \in Bytes, Line' \in Bytes, out' = out \o u, Line = u \o Line'
  PROVE  AllText' = AllText
<1>1. (out \o u) \o Line' = out \o (u \o Line')
  <2>1. PICK v \in Bytes : v = Line'
    OBVIOUS
  <2>2. (out \o u) \o v = out \o (u \o v)
    <3>1. Assoc(out, u, v)
      BY Regroups, Zenon
    <3> QED BY <3>1 DEF Assoc
  <2> QED BY <2>1, <2>2
<1> QED BY <1>1, Zenon DEF AllText

LEMMA NmeaKeptNat == NmeaState => Kept \in Nat
BY NmeaKept

\* A state with a good array whose calls are ahead of what is kept is a good one.
LEMMA NmeaNext ==
  ASSUME NmeaState', input' = input, NEW m \in Nat, NmeaCalls(frames', m), Kept' <= m
  PROVE  NmeaIInv'
<1>1. (NmeaState => Kept \in Nat)'
  BY NmeaKeptNat, PTL
<1>2. PICK k \in Nat : k = Kept'
  BY <1>1
<1>3. NmeaCalls(frames', k)
  BY <1>2, FewerAhead
<1>4. NmeaCalls(frames, Kept)'
  BY <1>2, <1>3 DEF NmeaCalls, InReach
<1> QED BY <1>4 DEF NmeaIInv

\* No start byte: all that the innermost call has is passed on.
LEMMA NmeaNoStartStep ==
  ASSUME NmeaIInv, NmeaNoStart
  PROVE  NmeaIInv' /\ Moved
<1>1. /\ frames # <<>> /\ state = "BEFORE" /\ out' = out \o Unread /\ frames' = Consume(Top.len)
      /\ UNCHANGED <<state, packet, packet_len, input, fed, packets>>
      /\ \A i \in 1..Top.len : Unread[i] # Dollar
  BY DEF NmeaNoStart, NoStart, Running
<1>2. /\ Top.len \in Nat \ {0} /\ Unread \in Seq(Byte) /\ Len(Unread) = Top.len /\ Unread \in Bytes
  BY <1>1, NmeaTop DEF Bytes
<1>3. Kept = 0 /\ Kept' = 0 /\ Pend = <<>> /\ Pend' = <<>>
  BY <1>1 DEF Kept, Pend
<1>4. packet \in NmeaArray /\ out \in Bytes
  BY DEF NmeaIInv, NmeaState
<1>5. PICK n \in Nat : n = Top.len /\ n \in 1..Top.len
  BY <1>2
<1>6. Todo' \in Bytes /\ Todo = First(Unread, n) \o Todo' /\ NmeaCalls(frames', n)
  <2>1. /\ Todo' \in Bytes /\ Todo = First(Unread, n) \o Todo'
        /\ NmeaCalls(frames', Kept + n)
    BY <1>1, <1>4, <1>5, NmeaConsumed
  <2>2. Kept + n = n
    BY <1>3
  <2> QED BY <2>1, <2>2
<1>7. First(Unread, n) = Unread
  BY <1>2, <1>5, SubSeqFull DEF First
<1>8. NmeaState'
  <2>1. out' \in Bytes
    BY <1>1, <1>2, <1>4, ByteJoins, Zenon
  <2> QED BY <1>1, <2>1 DEF NmeaIInv, NmeaState, HasLine, NmeaArray
<1>9. NmeaIInv'
  BY <1>1, <1>3, <1>6, <1>8, NmeaNext
<1>10. Line = Unread \o Line' /\ Line' = Todo' /\ Line' \in Bytes
  <2>1. PICK y \in Bytes : y = Todo'
    BY <1>6
  <2>2. <<>> \o y = y /\ <<>> \o (Unread \o y) = Unread \o y
    <3>1. Unread \o y \in Bytes
      BY <1>2, ByteJoins, Zenon
    <3> QED BY <3>1, EmptyJoins, Zenon
  <2> QED BY <1>3, <1>6, <1>7, <2>1, <2>2 DEF Line
<1>11. AllText' = AllText
  BY <1>1, <1>2, <1>4, <1>10, PassOn
<1>12. SameFuture
  <2>1. ASSUME NEW t \in Bytes PROVE Sentences[Line \o t] = Sentences[Line' \o t]
    <3>1. PICK y \in Bytes : y = Line'
      BY <1>10
    <3>2. PICK v \in Bytes : v = y \o t
      BY ByteJoins, Zenon
    <3>3. (Unread \o y) \o t = Unread \o v
      <4>1. Assoc(Unread, y, t)
        BY <1>2, Regroups, Zenon
      <4> QED BY <3>2, <4>1 DEF Assoc
    <3>4. Sentences[Unread \o v] = Sentences[v]
      <4>1. v \in Seq(Byte)
        BY DEF Bytes
      <4> QED BY <1>1, <1>2, <4>1, SentencesSkipAll
    <3> QED BY <1>10, <3>1, <3>2, <3>3, <3>4
  <2> QED BY <2>1 DEF SameFuture
<1> QED BY <1>1, <1>9, <1>11, <1>12 DEF Moved

\* A start byte: the bytes in front of it are passed on.
LEMMA NmeaStartStep ==
  ASSUME NmeaIInv, NmeaStart
  PROVE  NmeaIInv' /\ Moved
<1>1. PICK l \in 0..(Top.len - 1) : Found(Dollar, l, 1, "CR", 1)
  BY DEF NmeaStart, Start
<1>2. /\ frames # <<>> /\ state = "BEFORE" /\ Unread[l + 1] = Dollar
      /\ \A i \in 1..l : Unread[i] # Dollar
      /\ out' = out \o SubSeq(Unread, 1, l) /\ frames' = Consume(l + 1)
      /\ packet' = [packet EXCEPT ![0] = Dollar] /\ packet_len' = 1 /\ state' = "CR"
      /\ UNCHANGED <<input, fed, packets>>
  BY <1>1 DEF Found, Running
<1>3. /\ Top.len \in Nat \ {0} /\ Unread \in Seq(Byte) /\ Len(Unread) = Top.len
  BY <1>2, NmeaTop
<1>4. /\ packet \in NmeaArray /\ out \in Bytes /\ NmeaCapacity \in Nat /\ NmeaCapacity > 2
      /\ Dollar \in Byte /\ Dollar # CR
  BY NmeaAssumption DEF NmeaIInv, NmeaState
<1>5. Kept = 0 /\ Kept' = 1 /\ Pend = <<>>
  BY <1>2 DEF Kept, Pend
<1>6. PICK n \in Nat : n = l + 1 /\ n \in 1..Top.len /\ l \in 0..Len(Unread) /\ n \in 0..Len(Unread)
  BY <1>3
<1>7. /\ packet' \in NmeaArray /\ packet'[0] = Dollar
      /\ \A i \in Nat : n <= i /\ i < NmeaCapacity => packet'[i] = packet[i]
  <2>1. 0 \in 0..(NmeaCapacity - 1) /\ DOMAIN packet = 0..(NmeaCapacity - 1)
    BY <1>4 DEF NmeaArray
  <2>2. packet' \in NmeaArray
    BY <1>2, <1>4 DEF NmeaArray
  <2>3. packet'[0] = Dollar
    BY <1>2, <2>1
  <2>4. ASSUME NEW i \in Nat, n <= i, i < NmeaCapacity PROVE packet'[i] = packet[i]
    <3>1. i # 0 /\ i \in 0..(NmeaCapacity - 1)
      BY <1>4, <1>6, <2>4
    <3> QED BY <1>2, <2>1, <3>1
  <2> QED BY <2>2, <2>3, <2>4
<1>8. Todo' \in Bytes /\ Todo = First(Unread, n) \o Todo' /\ NmeaCalls(frames', n)
  <2>1. Kept + n = n
    BY <1>5
  <2>2. frames' = Consume(n)
    BY <1>2, <1>6
  <2>3. /\ Todo' \in Bytes /\ Todo = First(Unread, n) \o Todo'
        /\ NmeaCalls(frames', Kept + n)
    BY <1>2, <1>6, <1>7, <2>1, <2>2, NmeaConsumed
  <2> QED BY <2>1, <2>3
<1>9. PICK u \in Seq(Byte) : u = First(Unread, l) /\ Len(u) = l /\ \A i \in 1..l : u[i] # Dollar
  <2>1. PICK u \in Seq(Byte) : u = First(Unread, l)
    BY <1>3, <1>6, CutJoin
  <2>2. Len(u) = l
    BY <1>3, <1>6, <2>1, CutJoin
  <2>3. ASSUME NEW i \in 1..l PROVE u[i] = Unread[i]
    BY <1>3, <1>6, <2>1 DEF First
  <2> QED BY <1>2, <2>1, <2>2, <2>3
<1>10. PICK d \in Bytes : d = <<Dollar>>
  <2>1. PICK x \in Byte : x = Dollar
    BY <1>4
  <2>2. <<x>> \in Seq(Byte)
    OBVIOUS
  <2> QED BY <2>1, <2>2 DEF Bytes
<1>11. First(Unread, n) = u \o d
  <2>1. PICK a \in Seq(Byte) : a = First(Unread, n)
    BY <1>3, <1>6, CutJoin
  <2>2. Len(a) = n /\ \A i \in 1..n : a[i] = Unread[i]
    <3>1. Len(a) = n
      BY <1>3, <1>6, <2>1, CutJoin
    <3>2. \A i \in 1..n : a[i] = Unread[i]
      BY <1>3, <1>6, <2>1 DEF First
    <3> QED BY <3>1, <3>2
  <2>3. d \in Seq(Byte) /\ Len(d) = 1 /\ d[1] = Dollar
    BY <1>10 DEF Bytes
  <2>4. PICK b : b = u \o d
    OBVIOUS
  <2>5. /\ b \in Seq(Byte) /\ Len(b) = Len(u) + Len(d)
        /\ \A i \in 1..Len(u) : b[i] = u[i]
        /\ \A i \in 1..Len(d) : b[Len(u) + i] = d[i]
    <3>1. d \in Seq(Byte)
      BY <2>3
    <3> QED BY <2>4, <3>1, JoinCut
  <2>6. Len(b) = n
    BY <1>6, <1>9, <2>3, <2>5
  <2>7. ASSUME NEW i \in 1..n PROVE a[i] = b[i]
    <3>1. CASE i \in 1..l
      <4>1. u[i] = Unread[i]
        BY <1>3, <1>6, <1>9, <3>1 DEF First
      <4> QED BY <1>9, <2>2, <2>5, <3>1, <4>1
    <3>2. CASE i \notin 1..l
      <4>1. i = l + 1
        BY <1>6, <3>2
      <4>2. b[l + 1] = d[1]
        BY <1>9, <2>3, <2>5
      <4> QED BY <1>2, <2>2, <2>3, <4>1, <4>2
    <3> QED BY <3>1, <3>2
  <2>8. a = b
    BY <2>1, <2>2, <2>5, <2>6, <2>7, SeqEqual
  <2> QED BY <2>1, <2>4, <2>8
<1>12. NmeaState'
  <2>1. out' \in Bytes
    BY <1>2, <1>4, <1>9, Concat DEF First, Bytes
  <2>2. HasLine(packet', 1)
    <3>1. 1 \in 1..(NmeaCapacity - 2) /\ \A i \in 0..(1 - 1) : i = 0
      BY <1>4
    <3> QED BY <1>4, <1>7, <3>1 DEF HasLine
  <2> QED BY <1>2, <1>4, <1>7, <2>1, <2>2 DEF NmeaIInv, NmeaState, HasLine, NmeaArray
<1>13. NmeaIInv'
  BY <1>2, <1>5, <1>6, <1>8, <1>12, NmeaNext
<1>14. Pend' = d
  <2>1. Pend' = [i \in 1..1 |-> packet'[i - 1]]
    BY <1>5 DEF Pend
  <2>2. \A i \in 1..1 : packet'[i - 1] = Dollar
    BY <1>7
  <2>3. [i \in 1..1 |-> packet'[i - 1]] = <<Dollar>>
    BY <2>2
  <2> QED BY <1>10, <2>1, <2>3
<1>15. /\ Line = u \o Line' /\ Line' \in Bytes /\ u \in Bytes
  <2>1. PICK y \in Bytes : y = Todo'
    BY <1>8
  <2>2. u \in Bytes
    BY DEF Bytes
  <2>3. (u \o d) \o y = u \o (d \o y) /\ d \o y \in Bytes
    <3>1. Assoc(u, d, y) /\ d \o y \in Bytes
      BY <2>2, ByteJoins, Regroups, Zenon
    <3> QED BY <3>1 DEF Assoc
  <2>4. <<>> \o ((u \o d) \o y) = (u \o d) \o y
    <3>1. (u \o d) \o y \in Bytes
      BY <2>2, ByteJoins, Zenon
    <3> QED BY <3>1, EmptyJoins, Zenon
  <2>5. Line' = d \o y
    BY <1>14, <2>1, Zenon DEF Line
  <2>6. Line = (u \o d) \o y
    BY <1>5, <1>8, <1>11, <2>1, <2>4, Zenon DEF Line
  <2> QED BY <2>2, <2>3, <2>5, <2>6, Zenon
<1>16. AllText' = AllText
  <2>1. out' = out \o u
    BY <1>2, <1>9 DEF First
  <2> QED BY <1>4, <1>15, <2>1, PassOn
<1>17. SameFuture
  <2>1. ASSUME NEW t \in Bytes PROVE Sentences[Line \o t] = Sentences[Line' \o t]
    <3>1. PICK y \in Bytes : y = Line'
      BY <1>15
    <3>2. PICK v \in Bytes : v = y \o t
      BY ByteJoins, Zenon
    <3>3. (u \o y) \o t = u \o v
      <4>1. Assoc(u, y, t)
        BY <1>15, Regroups, Zenon
      <4> QED BY <3>2, <4>1 DEF Assoc
    <3>4. Sentences[u \o v] = Sentences[v]
      <4>1. v \in Seq(Byte) /\ \A i \in 1..Len(u) : u[i] # Dollar
        BY <1>9 DEF Bytes
      <4> QED BY <4>1, SentencesSkipAll
    <3> QED BY <1>15, <3>1, <3>2, <3>3, <3>4
  <2> QED BY <2>1 DEF SameFuture
<1> QED BY <1>2, <1>13, <1>16, <1>17 DEF Moved

\* With the array b the bytes kept are followed by the first n of the innermost call.
Lengthens(b, n) == Begin(b, packet_len + n) = Pend \o First(Unread, n)

\* n more bytes of a line.
LEMMA NmeaKeeps ==
  ASSUME NmeaIInv, frames # <<>>, state = "CR", NEW n \in 1..Top.len,
         packet_len + n <= NmeaCapacity, NEW b, b = Copied(n)
  PROVE  /\ b \in NmeaArray
         /\ \A i \in Nat : i < packet_len => b[i] = packet[i]
         /\ \A i \in 1..n : b[packet_len + i - 1] = Unread[i]
         /\ \A i \in Nat : packet_len + n <= i /\ i < NmeaCapacity => b[i] = packet[i]
         /\ Lengthens(b, n)
<1>1. PICK k \in Nat : k = packet_len /\ Kept = k /\ NmeaCapacity \in Nat /\ k < NmeaCapacity
  BY NmeaKept DEF NmeaIInv
<1>2. /\ Top.len \in Nat \ {0} /\ Unread \in Seq(Byte) /\ Len(Unread) = Top.len
  BY NmeaTop
<1>3. n \in Nat /\ n <= Len(Unread) /\ n \in 0..Len(Unread)
  BY <1>2
<1>4. packet \in [0..(NmeaCapacity - 1) -> Byte]
  BY DEF NmeaIInv, NmeaState, NmeaArray
<1>5. /\ DOMAIN b = 0..(NmeaCapacity - 1)
      /\ \A i \in 0..(NmeaCapacity - 1) :
           b[i] = IF k <= i /\ i < k + n THEN Unread[i - k + 1] ELSE packet[i]
  BY <1>1, <1>4 DEF Copied
<1>6. ASSUME NEW i \in 0..(NmeaCapacity - 1) PROVE b[i] \in Byte
  <2>1. CASE k <= i /\ i < k + n
    <3>1. i - k + 1 \in 1..Len(Unread)
      BY <1>1, <1>3, <2>1
    <3>2. Unread[i - k + 1] \in Byte
      BY <1>2, <3>1
    <3> QED BY <1>5, <2>1, <3>2
  <2>2. CASE ~(k <= i /\ i < k + n)
    BY <1>4, <1>5, <2>2
  <2> QED BY <2>1, <2>2
<1>7. b \in NmeaArray
  <2>1. b = [i \in DOMAIN packet |-> b[i]]
    BY DEF Copied
  <2> QED BY <1>4, <1>6, <2>1 DEF NmeaArray
<1>8. ASSUME NEW i \in Nat, i < k PROVE b[i] = packet[i]
  <2>1. i \in 0..(NmeaCapacity - 1) /\ ~(k <= i)
    BY <1>1, <1>8
  <2> QED BY <1>5, <2>1
<1>9. ASSUME NEW i \in 1..n PROVE b[k + i - 1] = Unread[i]
  <2>1. PICK j : j = k + i - 1
    OBVIOUS
  <2>2. j \in 0..(NmeaCapacity - 1) /\ k <= j /\ j < k + n /\ j - k + 1 = i
    BY <1>1, <1>3, <2>1
  <2>3. b[j] = Unread[j - k + 1]
    BY <1>5, <2>2
  <2> QED BY <2>1, <2>2, <2>3
<1>10. ASSUME NEW i \in Nat, k + n <= i, i < NmeaCapacity PROVE b[i] = packet[i]
  <2>1. i \in 0..(NmeaCapacity - 1) /\ ~(i < k + n)
    BY <1>1, <1>3, <1>10
  <2> QED BY <1>5, <2>1
<1>11. Begin(b, k + n) = Pend \o First(Unread, n)
  <2>1. PICK p \in Seq(Byte) : p = Pend /\ Len(p) = k /\ p = Begin(packet, k)
    BY <1>1, NmeaView DEF Bytes
  <2>2. PICK u \in Seq(Byte) : u = First(Unread, n) /\ Len(u) = n
    BY <1>2, <1>3, CutJoin
  <2>3. \A i \in 1..n : u[i] = Unread[i]
    BY <1>2, <1>3, <2>2 DEF First
  <2>4. PICK c : c = p \o u
    OBVIOUS
  <2>5. /\ c \in Seq(Byte) /\ Len(c) = Len(p) + Len(u)
        /\ \A i \in 1..Len(p) : c[i] = p[i]
        /\ \A i \in 1..Len(u) : c[Len(p) + i] = u[i]
    BY <2>4, JoinCut
  <2>6. PICK d \in Seq(Byte) : d = Begin(b, k + n) /\ Len(d) = k + n
    <3>1. k + n \in Nat /\ k + n <= NmeaCapacity
      BY <1>1, <1>3
    <3> QED BY <1>7, <3>1, BeginBytes
  <2>7. Len(c) = k + n
    BY <2>1, <2>2, <2>5
  <2>8. ASSUME NEW i \in 1..(k + n) PROVE d[i] = c[i]
    <3>1. d[i] = b[i - 1]
      BY <2>6 DEF Begin
    <3>2. CASE i <= k
      <4>1. i \in 1..k /\ i - 1 \in Nat /\ i - 1 < k
        BY <1>1, <1>3, <3>2
      <4>2. p[i] = packet[i - 1]
        BY <2>1, <4>1 DEF Begin
      <4>3. b[i - 1] = packet[i - 1]
        BY <1>8, <4>1
      <4> QED BY <2>1, <2>5, <3>1, <4>1, <4>2, <4>3
    <3>3. CASE ~(i <= k)
      <4>1. PICK j : j = i - k
        OBVIOUS
      <4>2. j \in 1..n /\ k + j = i /\ k + j - 1 = i - 1
        BY <1>1, <1>3, <3>3, <4>1
      <4>3. b[k + j - 1] = Unread[j] /\ c[k + j] = u[j] /\ u[j] = Unread[j]
        BY <1>9, <2>1, <2>2, <2>3, <2>5, <4>2
      <4> QED BY <3>1, <4>2, <4>3
    <3> QED BY <3>2, <3>3
  <2>9. d = c
    <3>1. c \in Seq(Byte) /\ Len(d) = Len(c)
      BY <2>5, <2>6, <2>7
    <3>2. \A i \in 1..Len(d) : d[i] = c[i]
      BY <2>6, <2>8
    <3> QED BY <3>1, <3>2, SeqEqual
  <2> QED BY <2>1, <2>2, <2>4, <2>6, <2>9
<1> QED BY <1>1, <1>7, <1>8, <1>9, <1>10, <1>11 DEF Lengthens

\* They are kept, with what is kept of it already.
LEMMA NmeaKeepStep ==
  ASSUME NmeaIInv, frames # <<>>, state = "CR", NEW n \in 1..Top.len,
         packet_len + n <= NmeaCapacity, packet' = Copied(n), packet_len' = packet_len + n,
         frames' = Consume(n), state' # "BEFORE", NmeaState',
         UNCHANGED <<input, fed, out, packets>>
  PROVE  NmeaIInv' /\ Moved
<1>1. PICK k \in Nat : k = packet_len /\ Kept = k
  BY NmeaKept DEF NmeaIInv
<1>2. n \in Nat /\ k + n \in Nat
  <2>1. Top.len \in Nat
    BY NmeaTop
  <2> QED BY <2>1
<1>3. PICK b : b = Copied(n)
  OBVIOUS
<1>4. /\ b \in NmeaArray
      /\ \A i \in Nat : packet_len + n <= i /\ i < NmeaCapacity => b[i] = packet[i]
      /\ Lengthens(b, n)
  BY <1>3, NmeaKeeps
<1>5. packet' = b
  BY <1>3
<1>6. Kept' = k + n
  <2>1. state' \in {"CR", "LF"} /\ packet_len' = k + n
    BY <1>1 DEF NmeaState
  <2> QED BY <2>1 DEF Kept
<1>7. /\ Todo' \in Bytes /\ Todo = First(Unread, n) \o Todo' /\ NmeaCalls(frames', k + n)
  <2>1. \A i \in Nat : Kept + n <= i /\ i < NmeaCapacity => packet'[i] = packet[i]
    BY <1>1, <1>4, <1>5
  <2>2. packet' \in NmeaArray
    BY <1>4, <1>5
  <2>3. /\ Todo' \in Bytes /\ Todo = First(Unread, n) \o Todo'
        /\ NmeaCalls(frames', Kept + n)
    BY <2>1, <2>2, NmeaConsumed
  <2> QED BY <1>1, <2>3
<1>8. NmeaIInv'
  BY <1>2, <1>6, <1>7, NmeaNext
<1>9. Line' = Line
  <2>1. PICK p, y \in Bytes : p = Pend /\ y = Todo'
    BY <1>7, NmeaView
  <2>2. PICK u \in Bytes : u = First(Unread, n)
    <3>1. Unread \in Bytes /\ n \in 0..Len(Unread)
      BY <1>2, NmeaTop DEF Bytes
    <3> QED BY <3>1, Cut
  <2>3. Pend' = p \o u
    <3>1. Pend' = Begin(b, k + n)
      BY <1>5, <1>6 DEF Pend, Begin
    <3>2. Begin(b, k + n) = Pend \o First(Unread, n)
      BY <1>1, <1>4 DEF Lengthens
    <3> QED BY <2>1, <2>2, <3>1, <3>2
  <2>4. Line' = (p \o u) \o y
    BY <2>1, <2>3 DEF Line
  <2>5. Line = p \o (u \o y)
    BY <1>7, <2>1, <2>2 DEF Line
  <2>6. Assoc(p, u, y)
    BY Regroups, Zenon
  <2> QED BY <2>4, <2>5, <2>6 DEF Assoc
<1>10. AllText' = AllText /\ SameFuture
  BY <1>9 DEF AllText, SameFuture
<1> QED BY <1>8, <1>10 DEF Moved

\* No carriage return yet: all that the innermost call has is kept.
LEMMA NmeaMoreStep ==
  ASSUME NmeaIInv, NmeaMore
  PROVE  NmeaIInv' /\ Moved
<1>1. /\ frames # <<>> /\ state = "CR" /\ Before(Top.len) /\ ~TooLong(Top.len)
      /\ packet' = Copied(Top.len) /\ packet_len' = packet_len + Top.len
      /\ frames' = Consume(Top.len) /\ UNCHANGED <<state, input, fed, out, packets>>
  BY DEF NmeaMore, Running
<1>2. PICK n \in Nat : n = Top.len /\ n \in 1..Top.len /\ n > 0
  BY <1>1, NmeaTop
<1>3. PICK k \in Nat : k = packet_len /\ HasLine(packet, k) /\ NmeaCapacity \in Nat
  BY <1>1, NmeaKept DEF NmeaIInv, NmeaState
<1>4. k + n <= NmeaCapacity - 2 /\ k + n <= NmeaCapacity
  BY <1>1, <1>2, <1>3 DEF TooLong
<1>5. PICK b : b = Copied(n)
  OBVIOUS
<1>6. /\ b \in NmeaArray
      /\ \A i \in Nat : i < k => b[i] = packet[i]
      /\ \A i \in 1..n : b[k + i - 1] = Unread[i]
  BY <1>1, <1>2, <1>3, <1>4, <1>5, NmeaKeeps
<1>7. HasLine(b, k + n)
  <2>1. k \in Nat /\ 0 < k /\ b[0] = Dollar
    BY <1>3, <1>6 DEF HasLine
  <2>2. ASSUME NEW i \in 0..(k + n - 1) PROVE b[i] # CR
    <3>1. CASE i < k
      <4>1. i \in 0..(k - 1) /\ i \in Nat
        BY <1>2, <1>3, <3>1
      <4> QED BY <1>3, <1>6, <3>1, <4>1 DEF HasLine
    <3>2. CASE ~(i < k)
      <4>1. PICK j : j = i - k + 1
        OBVIOUS
      <4>2. j \in 1..n /\ k + j - 1 = i
        BY <1>2, <1>3, <3>2, <4>1
      <4>3. b[i] = Unread[j]
        BY <1>6, <4>2
      <4>4. Unread[j] # CR
        BY <1>1, <1>2, <4>2 DEF Before
      <4> QED BY <4>3, <4>4
    <3> QED BY <3>1, <3>2
  <2>3. k + n \in 1..(NmeaCapacity - 2)
    BY <1>2, <1>3, <1>4
  <2> QED BY <2>1, <2>2, <2>3 DEF HasLine
<1>8. NmeaState'
  <2>1. k + n \in 0..NmeaCapacity /\ packet_len' = k + n /\ packet' = b
    BY <1>1, <1>2, <1>3, <1>4, <1>5
  <2>2. HasLine(packet', packet_len')
    BY <1>7, <2>1
  <2> QED BY <1>1, <1>6, <2>1, <2>2 DEF NmeaIInv, NmeaState, HasLine, NmeaArray
<1>9. state' # "BEFORE"
  BY <1>1
<1> QED BY <1>1, <1>2, <1>3, <1>4, <1>8, <1>9, NmeaKeepStep

\* A carriage return: what comes before it is kept, and it.
LEMMA NmeaCrStep ==
  ASSUME NmeaIInv, NmeaCr
  PROVE  NmeaIInv' /\ Moved
<1>1. /\ frames # <<>> /\ state = "CR" /\ state' = "LF" /\ UNCHANGED <<input, fed, out, packets>>
  BY DEF NmeaCr, Running
<1>2. PICK l \in 0..(Top.len - 1) :
        /\ Before(l) /\ ~TooLong(l)
        /\ packet' = [Copied(l) EXCEPT ![packet_len + l] = CR]
        /\ packet_len' = packet_len + l + 1
        /\ frames' = Consume(l + 1)
  BY DEF NmeaCr
<1>3. Top.len \in Nat \ {0} /\ CR \in Byte
  BY <1>1, NmeaTop, NmeaAssumption
<1>4. PICK n \in Nat : n = l + 1 /\ n \in 1..Top.len /\ l \in Nat
  BY <1>3
<1>5. PICK k \in Nat : k = packet_len /\ HasLine(packet, k) /\ NmeaCapacity \in Nat
  BY <1>1, NmeaKept DEF NmeaIInv, NmeaState
<1>6. k + l <= NmeaCapacity - 2 /\ k + n <= NmeaCapacity
  <2>1. k <= NmeaCapacity - 2
    BY <1>5 DEF HasLine
  <2> QED BY <1>2, <1>4, <1>5, <2>1 DEF TooLong
<1>7. PICK b : b = Copied(n)
  OBVIOUS
<1>8. /\ b \in NmeaArray
      /\ \A i \in Nat : i < k => b[i] = packet[i]
      /\ \A i \in 1..n : b[k + i - 1] = Unread[i]
  BY <1>1, <1>4, <1>5, <1>6, <1>7, NmeaKeeps
<1>9. Unread[n] = CR /\ \A i \in 1..l : Unread[i] # CR
  BY <1>2, <1>3, <1>4 DEF Before
<1>10. packet' = b
  <2>1. packet \in [0..(NmeaCapacity - 1) -> Byte]
    BY DEF NmeaIInv, NmeaState, NmeaArray
  <2>2. PICK c : c = Copied(l)
    OBVIOUS
  <2>3. /\ c = [i \in 0..(NmeaCapacity - 1) |->
                  IF k <= i /\ i < k + l THEN Unread[i - k + 1] ELSE packet[i]]
        /\ b = [i \in 0..(NmeaCapacity - 1) |->
                  IF k <= i /\ i < k + n THEN Unread[i - k + 1] ELSE packet[i]]
    BY <1>5, <1>7, <2>1, <2>2 DEF Copied
  <2>4. ASSUME NEW i \in 0..(NmeaCapacity - 1) PROVE [c EXCEPT ![k + l] = CR][i] = b[i]
    <3>1. CASE i = k + l
      <4>1. i - k + 1 = n /\ k <= i /\ i < k + n
        BY <1>4, <1>5, <3>1
      <4>2. b[i] = CR
        BY <1>9, <2>3, <4>1
      <4>3. i \in DOMAIN c
        BY <2>3
      <4> QED BY <3>1, <4>2, <4>3
    <3>2. CASE i # k + l
      <4>1. (k <= i /\ i < k + l) <=> (k <= i /\ i < k + n)
        BY <1>4, <1>5, <3>2
      <4>2. c[i] = b[i]
        BY <2>3, <4>1
      <4>3. [c EXCEPT ![k + l] = CR][i] = c[i]
        BY <2>3, <3>2
      <4> QED BY <4>2, <4>3
    <3> QED BY <3>1, <3>2
  <2>5. [c EXCEPT ![k + l] = CR] = b
    <3>1. PICK d : d = [c EXCEPT ![k + l] = CR]
      OBVIOUS
    <3>2. d = [i \in 0..(NmeaCapacity - 1) |-> d[i]]
      BY <2>3, <3>1
    <3>3. \A i \in 0..(NmeaCapacity - 1) : d[i] = b[i]
      BY <2>4, <3>1
    <3>4. b = [i \in 0..(NmeaCapacity - 1) |-> b[i]]
      BY <2>3
    <3> QED BY <3>1, <3>2, <3>3, <3>4
  <2> QED BY <1>2, <1>5, <2>2, <2>5
<1>11. HasLine(b, k + l)
  <2>1. k \in Nat /\ 0 < k /\ b[0] = Dollar
    BY <1>5, <1>8 DEF HasLine
  <2>2. ASSUME NEW i \in 0..(k + l - 1) PROVE b[i] # CR
    <3>1. CASE i < k
      <4>1. i \in 0..(k - 1) /\ i \in Nat
        BY <1>4, <1>5, <3>1
      <4> QED BY <1>5, <1>8, <3>1, <4>1 DEF HasLine
    <3>2. CASE ~(i < k)
      <4>1. PICK j : j = i - k + 1
        OBVIOUS
      <4>2. j \in 1..l /\ j \in 1..n /\ k + j - 1 = i
        BY <1>4, <1>5, <3>2, <4>1
      <4>3. b[i] = Unread[j]
        BY <1>8, <4>2
      <4> QED BY <1>9, <4>2, <4>3
    <3> QED BY <3>1, <3>2
  <2>3. k + l \in 1..(NmeaCapacity - 2)
    BY <1>4, <1>5, <1>6, <2>1
  <2> QED BY <2>1, <2>2, <2>3 DEF HasLine
<1>12. /\ packet_len' = k + n /\ packet_len' - 1 = k + l /\ packet_len' \in 0..NmeaCapacity
  BY <1>2, <1>4, <1>5, <1>6
<1>13. b[k + l] = CR
  <2>1. k + n - 1 = k + l /\ n \in 1..n
    BY <1>4, <1>5
  <2> QED BY <1>8, <1>9, <2>1
<1>14. NmeaState'
  <2>1. HasLine(packet', packet_len' - 1) /\ packet'[packet_len' - 1] = CR
    BY <1>10, <1>11, <1>12, <1>13
  <2> QED BY <1>1, <1>8, <1>10, <1>12, <2>1 DEF NmeaIInv, NmeaState, HasLine, NmeaArray
<1>15. state' # "BEFORE" /\ packet' = Copied(n) /\ packet_len' = packet_len + n /\ frames' = Consume(n)
  BY <1>1, <1>2, <1>4, <1>5, <1>7, <1>10, <1>12
<1> QED BY <1>1, <1>4, <1>5, <1>6, <1>14, <1>15, NmeaKeepStep

\* The bytes a sentence is delimited by, as sequences.
LEMMA Delimiters ==
  /\ <<Dollar>> \in Bytes /\ <<CR>> \in Bytes /\ <<LF>> \in Bytes
  /\ <<CR, LF>> \in Bytes /\ <<CR>> \o <<LF>> = <<CR, LF>>
<1>1. PICK x, y, d \in Byte : x = CR /\ y = LF /\ d = Dollar
  BY NmeaAssumption
<1>2. PICK b, c : b = <<x>> /\ c = <<y>>
  OBVIOUS
<1>3. b \in Seq(Byte) /\ c \in Seq(Byte) /\ Len(b) = 1 /\ Len(c) = 1 /\ <<d>> \in Seq(Byte)
  BY <1>2
<1>4. PICK f : f = <<x, y>>
  OBVIOUS
<1>5. f \in Seq(Byte) /\ Len(f) = 2 /\ f[1] = x /\ f[2] = y
  BY <1>4
<1>6. PICK e : e = b \o c
  OBVIOUS
<1>7. e \in Seq(Byte) /\ Len(e) = 2 /\ e[1] = b[1] /\ e[2] = c[1]
  BY <1>3, <1>6, ConcatProperties
<1>8. \A i \in 1..Len(f) : f[i] = e[i]
  BY <1>2, <1>5, <1>7
<1>9. f = e
  BY <1>5, <1>7, <1>8, SeqEqual
<1> QED BY <1>1, <1>2, <1>3, <1>4, <1>5, <1>6, <1>9 DEF Bytes

\* The beginning of an array: its first byte and q, or one byte fewer and the last.
BehindFirst(a, n, q) ==
  q \in Bytes /\ Len(q) = n /\ Begin(a, n + 1) = <<a[0]>> \o q
LastOf(a, n) == Begin(a, n + 1) = Begin(a, n) \o <<a[n]>>

\* Both ways to take it apart.
LEMMA BeginParts ==
  ASSUME NEW a \in NmeaArray, NEW n \in Nat, n + 1 <= NmeaCapacity
  PROVE  BehindFirst(a, n, [k \in 1..n |-> a[k]]) /\ LastOf(a, n)
<1>1. NmeaCapacity \in Nat /\ n <= NmeaCapacity /\ n + 1 \in Nat
  BY NmeaAssumption
<1>2. \A i \in 0..n : a[i] \in Byte
  <2>1. ASSUME NEW i \in 0..n PROVE a[i] \in Byte
    <3>1. i \in 0..(NmeaCapacity - 1)
      BY <1>1
    <3> QED BY <3>1 DEF NmeaArray
  <2> QED BY <2>1
<1>3. PICK s \in Seq(Byte) : s = Begin(a, n + 1) /\ Len(s) = n + 1
  BY <1>1, BeginBytes
<1>4. \A i \in 1..(n + 1) : s[i] = a[i - 1]
  BY <1>3 DEF Begin
<1>5. PICK r \in Seq(Byte) : r = Begin(a, n) /\ Len(r) = n
  BY <1>1, BeginBytes
<1>6. \A i \in 1..n : r[i] = a[i - 1]
  BY <1>5 DEF Begin
<1>7. PICK q : q = [k \in 1..n |-> a[k]]
  OBVIOUS
<1>8. q \in Seq(Byte) /\ Len(q) = n /\ \A i \in 1..n : q[i] = a[i]
  <2>1. q \in [1..n -> Byte]
    BY <1>2, <1>7
  <2> QED BY <1>7, <2>1
<1>9. s = <<a[0]>> \o q
  <2>1. PICK x \in Byte : x = a[0]
    BY <1>2
  <2>2. PICK w : w = <<x>> \o q
    OBVIOUS
  <2>3. w \in Seq(Byte) /\ Len(w) = n + 1 /\ w[1] = x /\ \A i \in 1..n : w[i + 1] = q[i]
    BY <1>8, <2>2, ByteInFront
  <2>4. ASSUME NEW i \in 1..(n + 1) PROVE s[i] = w[i]
    <3>1. CASE i = 1
      BY <1>4, <2>1, <2>3, <3>1
    <3>2. CASE i # 1
      <4>1. PICK j : j = i - 1
        OBVIOUS
      <4>2. j \in 1..n /\ j + 1 = i
        BY <3>2, <4>1
      <4>3. w[j + 1] = q[j] /\ q[j] = a[j]
        BY <1>8, <2>3, <4>2
      <4> QED BY <1>4, <4>1, <4>2, <4>3
    <3> QED BY <3>1, <3>2
  <2>5. s = w
    <3>1. Len(s) = Len(w) /\ \A i \in 1..Len(s) : s[i] = w[i]
      BY <1>3, <2>3, <2>4
    <3> QED BY <2>3, <3>1, SeqEqual
  <2> QED BY <2>1, <2>2, <2>5
<1>10. s = r \o <<a[n]>>
  <2>1. PICK x \in Byte : x = a[n]
    BY <1>2
  <2>2. PICK y : y = <<x>>
    OBVIOUS
  <2>3. y \in Seq(Byte) /\ Len(y) = 1 /\ y[1] = x
    BY <2>2
  <2>4. PICK w : w = r \o y
    OBVIOUS
  <2>5. /\ w \in Seq(Byte) /\ Len(w) = Len(r) + Len(y)
        /\ \A i \in 1..Len(r) : w[i] = r[i]
        /\ \A i \in 1..Len(y) : w[Len(r) + i] = y[i]
    <3>1. y \in Seq(Byte)
      BY <2>3
    <3> QED BY <2>4, <3>1, JoinCut
  <2>6. Len(w) = n + 1 /\ w[n + 1] = x
    BY <1>5, <2>3, <2>5
  <2>7. ASSUME NEW i \in 1..(n + 1) PROVE s[i] = w[i]
    <3>1. CASE i = n + 1
      <4>1. i - 1 = n
        BY <3>1
      <4> QED BY <1>4, <2>1, <2>6, <3>1, <4>1
    <3>2. CASE i # n + 1
      <4>1. i \in 1..n
        BY <3>2
      <4> QED BY <1>4, <1>5, <1>6, <2>5, <4>1
    <3> QED BY <3>1, <3>2
  <2>8. s = w
    <3>1. Len(s) = Len(w) /\ \A i \in 1..Len(s) : s[i] = w[i]
      BY <1>3, <2>6, <2>7
    <3> QED BY <2>5, <3>1, SeqEqual
  <2> QED BY <2>1, <2>2, <2>4, <2>8
<1> QED BY <1>3, <1>5, <1>7, <1>8, <1>9, <1>10 DEF BehindFirst, LastOf, Bytes

\* What is left to look at begins with what the innermost call has.
TodoIs(r) == r \in Bytes /\ Todo = Unread \o r

\* There is such a remainder.
LEMMA TodoFront ==
  ASSUME NmeaIInv, frames # <<>>
  PROVE  \E r : TodoIs(r)
<1>1. Kept \in Nat /\ packet \in NmeaArray /\ input \in Seq(Byte) /\ NmeaCalls(frames, Kept)
  BY NmeaKept DEF NmeaIInv, NmeaState
<1>2. FrontText(frames, packet)
  BY <1>1, TextParts
<1>3. Unread = CallText(frames[1], packet) /\ Todo = TextOf(frames, packet)
  BY NmeaTop, NmeaView
<1> QED BY <1>2, <1>3 DEF FrontText, TodoIs

\* A line that only lacks its line feed is kept: u and a carriage return.
LineKept(u) ==
  /\ u \in Bytes /\ NoCr(u) /\ u # <<>> /\ u[1] = Dollar /\ Len(u) <= NmeaCapacity - 2
  /\ Len(u) = packet_len - 1 /\ Pend = u \o <<CR>>

\* That is what the state LF means.
LEMMA LfKeepsLine ==
  ASSUME NmeaIInv, state = "LF"
  PROVE  \E u : LineKept(u)
<1>1. PICK n \in Nat : n = packet_len - 1 /\ packet_len = n + 1 /\ Kept = n + 1 /\ n + 1 < NmeaCapacity
  <2>1. packet_len - 1 \in 1..(NmeaCapacity - 2) /\ packet_len \in Nat
    BY NmeaKept DEF NmeaIInv, NmeaState, HasLine
  <2> QED BY <2>1, NmeaKept DEF NmeaIInv
<1>2. HasLine(packet, n) /\ packet[n] = CR /\ packet \in NmeaArray
  BY <1>1 DEF NmeaIInv, NmeaState
<1>3. n + 1 <= NmeaCapacity /\ n <= NmeaCapacity
  BY <1>1, NmeaAssumption
<1>4. LastOf(packet, n)
  BY <1>2, <1>3, BeginParts
<1>5. PICK u \in Seq(Byte) : u = Begin(packet, n) /\ Len(u) = n
  BY <1>2, <1>3, BeginBytes
<1>6. Pend = u \o <<CR>>
  BY <1>1, <1>2, <1>4, <1>5, NmeaView DEF LastOf
<1>7. ASSUME NEW i \in 1..n PROVE u[i] = packet[i - 1] /\ i - 1 \in 0..(n - 1)
  BY <1>5 DEF Begin
<1>8. NoCr(u)
  BY <1>2, <1>5, <1>7 DEF NoCr, HasLine
<1>9. n \in 1..(NmeaCapacity - 2)
  BY <1>2 DEF HasLine
<1>10. u # <<>> /\ n <= NmeaCapacity - 2 /\ 1 \in 1..n
  BY <1>5, <1>9, NmeaAssumption
<1>11. u[1] = Dollar
  <2>1. u[1] = packet[1 - 1]
    BY <1>7, <1>10
  <2> QED BY <1>2, <2>1 DEF HasLine
<1> QED BY <1>1, <1>5, <1>6, <1>8, <1>10, <1>11 DEF LineKept, Bytes

\* No room for the line: its start byte is passed on, the others are looked at again.
LEMMA NmeaTooLongStep ==
  ASSUME NmeaIInv, NmeaTooLong
  PROVE  NmeaIInv' /\ Moved
<1>1. PICK l \in 1..Top.len : Before(l) /\ TooLong(l)
  BY DEF NmeaTooLong
<1>2. /\ frames # <<>> /\ state = "CR" /\ out' = Append(out, packet[0]) /\ state' = "BEFORE"
      /\ frames' = Nested(1, packet_len - 1, frames)
      /\ UNCHANGED <<packet, packet_len, input, fed, packets>>
  BY DEF NmeaTooLong, Running
<1>3. PICK n \in Nat : packet_len = n + 1 /\ Kept = n + 1 /\ n + 1 < NmeaCapacity
  <2>1. packet_len \in 1..(NmeaCapacity - 2) /\ packet_len \in Nat
    BY <1>2, NmeaKept DEF NmeaIInv, NmeaState, HasLine
  <2>2. PICK n \in Nat : n = packet_len - 1
    BY <2>1
  <2> QED BY <1>2, <2>1, <2>2, NmeaKept DEF NmeaIInv
<1>4. /\ packet \in NmeaArray /\ input \in Seq(Byte) /\ out \in Bytes /\ NmeaCapacity \in Nat
      /\ HasLine(packet, n + 1) /\ n + 1 <= NmeaCapacity
  BY <1>2, <1>3, NmeaAssumption DEF NmeaIInv, NmeaState
<1>5. NmeaCalls(frames, n)
  <2>1. n + 1 \in Nat /\ n <= n + 1 /\ NmeaCalls(frames, n + 1)
    BY <1>3 DEF NmeaIInv
  <2> QED BY <2>1, FewerAhead
<1>6. PICK g : g = Nested(1, n, frames) /\ frames' = g
  <2>1. packet_len - 1 = n
    BY <1>3
  <2> QED BY <1>2, <2>1
<1>7. PICK q : q = [k \in 1..n |-> packet[k]]
  OBVIOUS
<1>8. NmeaCalls(g, 0) /\ ReadsFirst(g, frames, packet, q)
  BY <1>4, <1>5, <1>6, <1>7, NestedText
<1>9. q \in Bytes /\ Len(q) = n /\ Pend = <<Dollar>> \o q
  <2>1. BehindFirst(packet, n, q)
    BY <1>4, <1>7, BeginParts
  <2> QED BY <1>3, <1>4, <2>1, NmeaView DEF BehindFirst, HasLine
<1>10. PICK y \in Bytes : y = Todo
  BY NmeaView
<1>11. Kept' = 0 /\ Pend' = <<>> /\ Todo' = q \o y
  <2>1. Kept' = 0 /\ Pend' = <<>>
    BY <1>2 DEF Kept, Pend
  <2>2. Todo' = TextOf(g, packet)
    BY <1>2, <1>6 DEF Todo, TextOf, CallText, ByteOf, Read
  <2>3. y = TextOf(frames, packet)
    BY <1>10, NmeaView
  <2> QED BY <1>8, <2>1, <2>2, <2>3 DEF ReadsFirst
<1>12. NmeaIInv'
  <2>1. NmeaState'
    <3>1. out' \in Bytes
      <4>1. out \in Seq(Byte) /\ packet[0] \in Byte
        BY <1>4, NmeaAssumption DEF Bytes, HasLine
      <4> QED BY <1>2, <4>1 DEF Bytes
    <3> QED BY <1>2, <3>1 DEF NmeaIInv, NmeaState, HasLine, NmeaArray
  <2>2. NmeaCalls(frames', 0) /\ Kept' <= 0
    BY <1>6, <1>8, <1>11
  <2> QED BY <1>2, <2>1, <2>2, NmeaNext
<1>13. PICK d \in Bytes : d = <<Dollar>>
  BY Delimiters
<1>14. Line' = q \o y /\ q \o y \in Bytes /\ Line = d \o (q \o y)
  <2>1. q \o y \in Bytes
    BY <1>9, ByteJoins, Zenon
  <2>2. <<>> \o (q \o y) = q \o y
    BY <2>1, EmptyJoins, Zenon
  <2>3. (d \o q) \o y = d \o (q \o y)
    <3>1. Assoc(d, q, y)
      BY <1>9, Regroups, Zenon
    <3> QED BY <3>1 DEF Assoc
  <2>4. Line' = <<>> \o (q \o y)
    BY <1>11 DEF Line
  <2>5. Line = (d \o q) \o y
    BY <1>9, <1>10, <1>13 DEF Line
  <2> QED BY <2>1, <2>2, <2>3, <2>4, <2>5, Zenon
<1>15. AllText' = AllText
  <2>1. out' = out \o d
    <3>1. PICK x \in Byte : x = Dollar
      BY NmeaAssumption
    <3>2. out \in Seq(Byte) /\ packet[0] = x
      BY <1>4, <3>1 DEF HasLine, Bytes
    <3>3. Append(out, x) = out \o <<x>>
      BY <3>2, AppendIsConcat
    <3> QED BY <1>2, <1>13, <3>1, <3>2, <3>3
  <2>2. Line' \in Bytes /\ Line = d \o Line'
    BY <1>14
  <2> QED BY <1>4, <2>1, <2>2, PassOn
<1>16. SameFuture
  <2>1. ASSUME NEW t \in Bytes PROVE Sentences[Line \o t] = Sentences[Line' \o t]
    <3>1. PICK r \in Bytes : y = Unread \o r
      BY <1>2, <1>10, TodoFront DEF TodoIs
    <3>2. PICK v \in Bytes : v = (q \o y) \o t
      BY <1>14, ByteJoins, Zenon
    <3>3. PICK w : w = d \o v
      OBVIOUS
    <3>4. w \in Seq(Byte) /\ Tail(w) = v
      <4>1. PICK x \in Byte : x = Dollar
        BY NmeaAssumption
      <4>2. w = <<x>> \o v /\ v \in Seq(Byte)
        BY <1>13, <3>3, <4>1 DEF Bytes
      <4> QED BY <4>2, ByteInFront
    <3>5. Line \o t = w
      <4>1. (d \o (q \o y)) \o t = d \o ((q \o y) \o t)
        <5>1. Assoc(d, q \o y, t)
          BY <1>14, Regroups, Zenon
        <5> QED BY <5>1 DEF Assoc
      <4> QED BY <1>14, <3>2, <3>3, <4>1, Zenon
    <3>6. PICK p, o \in Seq(Byte) : p = Pend /\ o = Unread
      BY <1>2, NmeaView, NmeaTop DEF Bytes
    <3>7. PICK e \in Seq(Byte) : e = r \o t
      BY ByteJoins, Zenon DEF Bytes
    <3>8. PICK f : f = o \o e
      OBVIOUS
    <3>9. f \in Seq(Byte) /\ Len(f) = Len(o) + Len(e) /\ \A i \in 1..Len(o) : f[i] = o[i]
      BY <3>8, JoinCut
    <3>10. w = p \o f
      <4>1. p \in Bytes /\ o \in Bytes /\ e \in Bytes
        BY DEF Bytes
      <4>2. (o \o r) \o t = o \o (r \o t) /\ y \o t \in Bytes
        <5>1. Assoc(o, r, t) /\ y \o t \in Bytes
          BY <4>1, ByteJoins, Regroups, Zenon
        <5> QED BY <5>1 DEF Assoc
      <4>3. y \o t = f
        BY <3>1, <3>6, <3>7, <3>8, <4>2, Zenon
      <4>4. (q \o y) \o t = q \o (y \o t) /\ (d \o q) \o (y \o t) = d \o (q \o (y \o t))
        <5>1. Assoc(q, y, t) /\ Assoc(d, q, y \o t)
          BY <1>9, <4>2, Regroups, Zenon
        <5> QED BY <5>1 DEF Assoc
      <4>5. p = d \o q
        BY <1>9, <1>13, <3>6
      <4> QED BY <3>2, <3>3, <4>3, <4>4, <4>5, Zenon
    <3>11. /\ Len(w) = Len(p) + Len(f)
           /\ \A i \in 1..Len(p) : w[i] = p[i]
           /\ \A i \in 1..Len(f) : w[Len(p) + i] = f[i]
      <4>1. f \in Seq(Byte)
        BY <3>9
      <4> QED BY <3>10, <4>1, JoinCut
    <3>12. Len(p) = n + 1 /\ Len(o) = Top.len /\ l \in 1..Len(o) /\ l \in 1..Len(f)
      <4>1. Len(p) = n + 1 /\ Len(o) = Top.len
        BY <1>2, <1>3, <3>6, NmeaView, NmeaTop
      <4>2. Len(o) \in Nat /\ Len(e) \in Nat
        OBVIOUS
      <4> QED BY <3>9, <4>1, <4>2
    <3>13. PICK k \in Nat : k = n + 1 + l
      BY <3>12
    <3>14. k \in 1..Len(w) /\ k > NmeaCapacity - 2
      <4>1. Len(f) \in Nat
        BY <3>9
      <4>2. k \in 1..Len(w)
        BY <3>11, <3>12, <3>13, <4>1
      <4> QED BY <1>1, <1>3, <3>13, <4>2 DEF TooLong
    <3>15. ASSUME NEW i \in 1..k PROVE w[i] # CR
      <4>1. CASE i \in 1..(n + 1)
        <5>1. w[i] = p[i] /\ p[i] = packet[i - 1] /\ i - 1 \in 0..(n + 1 - 1)
          <6>1. p = Begin(packet, n + 1)
            BY <1>3, <3>6, NmeaView
          <6> QED BY <3>11, <3>12, <4>1, <6>1 DEF Begin
        <5> QED BY <1>4, <5>1 DEF HasLine
      <4>2. CASE i \notin 1..(n + 1)
        <5>1. PICK j : j = i - (n + 1)
          OBVIOUS
        <5>2. j \in 1..l /\ (n + 1) + j = i
          BY <3>12, <3>13, <4>2, <5>1
        <5>3. j \in 1..Len(o) /\ j \in 1..Len(f)
          BY <3>9, <3>12, <5>2
        <5>4. w[i] = f[j] /\ f[j] = o[j]
          BY <3>9, <3>11, <3>12, <5>2, <5>3
        <5>5. o[j] # CR
          BY <1>1, <3>6, <5>2 DEF Before
        <5> QED BY <5>4, <5>5
      <4> QED BY <4>1, <4>2
    <3>16. Sentences[w] = Sentences[v]
      <4>1. w \in Seq(Byte)
        BY <3>4
      <4>2. Sentences[w] = Sentences[Tail(w)]
        BY <3>14, <3>15, <4>1, SentencesTooLong
      <4> QED BY <3>4, <4>2
    <3> QED BY <1>14, <3>2, <3>5, <3>16
  <2> QED BY <2>1 DEF SameFuture
<1> QED BY <1>2, <1>12, <1>15, <1>16 DEF Moved

\* No line feed: the line is passed on.
LEMMA NmeaNoLfStep ==
  ASSUME NmeaIInv, NmeaNoLf
  PROVE  NmeaIInv' /\ Moved
<1>1. /\ frames # <<>> /\ state = "LF" /\ Unread[1] # LF /\ out' = out \o Sentence(packet_len)
      /\ state' = "BEFORE" /\ UNCHANGED <<packet, packet_len, input, frames, fed, packets>>
  BY DEF NmeaNoLf, Running
<1>2. PICK k \in Nat : k = packet_len /\ Kept = k
  BY <1>1, NmeaKept DEF NmeaIInv
<1>3. PICK p, y \in Bytes : p = Pend /\ y = Todo
  BY NmeaView
<1>4. out' = out \o p /\ out \in Bytes
  <2>1. Sentence(k) = Begin(packet, k)
    BY <1>2 DEF Sentence, Begin
  <2> QED BY <1>1, <1>2, <1>3, <2>1, NmeaView
<1>5. Kept' = 0 /\ Pend' = <<>> /\ Todo' = y
  <2>1. Kept' = 0 /\ Pend' = <<>>
    BY <1>1 DEF Kept, Pend
  <2> QED BY <1>1, <1>3, <2>1 DEF Todo, Read
<1>6. NmeaIInv'
  <2>1. out' \in Bytes
    BY <1>4, ByteJoins, Zenon
  <2>2. NmeaState'
    BY <1>1, <2>1 DEF NmeaIInv, NmeaState, HasLine, NmeaArray
  <2>3. NmeaCalls(frames', k) /\ Kept' <= k
    BY <1>1, <1>2, <1>5 DEF NmeaIInv, NmeaCalls, InReach
  <2> QED BY <1>1, <2>2, <2>3, NmeaNext
<1>7. Line = p \o y /\ Line' = y
  <2>1. <<>> \o y = y
    BY EmptyJoins, Zenon
  <2> QED BY <1>3, <1>5, <2>1 DEF Line
<1>8. AllText' = AllText
  BY <1>4, <1>7, PassOn
<1>9. SameFuture
  <2>1. ASSUME NEW t \in Bytes PROVE Sentences[Line \o t] = Sentences[Line' \o t]
    <3>1. PICK u \in Seq(Byte) : LineKept(u)
      BY <1>1, LfKeepsLine DEF LineKept, Bytes
    <3>2. PICK c \in Bytes : c = <<CR>>
      BY Delimiters
    <3>3. u \in Bytes /\ NoCr(u) /\ u # <<>> /\ u[1] = Dollar /\ Len(u) <= NmeaCapacity - 2 /\ p = u \o c
      BY <1>3, <3>1, <3>2 DEF LineKept
    <3>4. PICK v \in Seq(Byte) : v = y \o t
      BY ByteJoins, Zenon DEF Bytes
    <3>5. v # <<>> /\ v[1] # LF
      <4>1. PICK r \in Bytes : y = Unread \o r
        BY <1>1, <1>3, TodoFront DEF TodoIs
      <4>2. PICK o \in Seq(Byte) : o = Unread /\ 1 \in 1..Len(o)
        BY <1>1, NmeaTop
      <4>3. PICK e \in Seq(Byte) : e = r \o t
        BY ByteJoins, Zenon DEF Bytes
      <4>4. v = o \o e
        <5>1. o \in Bytes
          BY DEF Bytes
        <5>2. (o \o r) \o t = o \o (r \o t)
          <6>1. Assoc(o, r, t)
            BY <5>1, Regroups, Zenon
          <6> QED BY <6>1 DEF Assoc
        <5> QED BY <3>4, <4>1, <4>2, <4>3, <5>2
      <4>5. Len(v) = Len(o) + Len(e) /\ \A i \in 1..Len(o) : v[i] = o[i]
        BY <4>4, JoinCut
      <4> QED BY <1>1, <4>2, <4>5
    <3>6. PICK w : w = Line \o t
      OBVIOUS
    <3>7. IsLine(w, u, v)
      <4>1. v \in Bytes
        BY DEF Bytes
      <4>2. ((u \o c) \o y) \o t = (u \o c) \o (y \o t)
        <5>1. u \o c \in Bytes
          BY <3>3, ByteJoins, Zenon
        <5>2. Assoc(u \o c, y, t)
          BY <5>1, Regroups, Zenon
        <5> QED BY <5>2 DEF Assoc
      <4>3. (u \o c) \o v = u \o (c \o v)
        <5>1. Assoc(u, c, v)
          BY <3>3, <4>1, Regroups, Zenon
        <5> QED BY <5>1 DEF Assoc
      <4>4. w = u \o (c \o v)
        BY <1>7, <3>3, <3>4, <3>6, <4>2, <4>3
      <4> QED BY <3>2, <4>4 DEF IsLine
    <3>8. LineSays(w, u, v)
      BY <3>3, <3>5, <3>7, SentencesLine
    <3>9. Sentences[w] = Sentences[v]
      BY <3>3, <3>5, <3>8 DEF LineSays
    <3> QED BY <1>7, <3>4, <3>6, <3>9
  <2> QED BY <2>1 DEF SameFuture
<1> QED BY <1>1, <1>6, <1>8, <1>9 DEF Moved

\* Four parts, however they are grouped.
Grouped(a, b, c, d) ==
  /\ (a \o (b \o c)) \o d = (a \o b) \o (c \o d)
  /\ (a \o b) \o (c \o d) = a \o ((b \o c) \o d)
  /\ ((a \o b) \o c) \o d = a \o (b \o (c \o d))

LEMMA FourParts == \A a, b, c, d \in Bytes : Grouped(a, b, c, d)
<1> TAKE a, b, c, d \in Bytes
<1>1. PICK e, f, g \in Bytes : e = a \o b /\ f = b \o c /\ g = c \o d
  BY ByteJoins, Zenon
<1>2. (a \o b) \o c = a \o (b \o c) /\ (b \o c) \o d = b \o (c \o d)
  <2>1. Assoc(a, b, c) /\ Assoc(b, c, d)
    BY Regroups, Zenon
  <2> QED BY <2>1 DEF Assoc
<1>3. (e \o c) \o d = e \o (c \o d) /\ (a \o f) \o d = a \o (f \o d)
  <2>1. Assoc(e, c, d) /\ Assoc(a, f, d)
    BY Regroups, Zenon
  <2> QED BY <2>1 DEF Assoc
<1>4. (a \o b) \o g = a \o (b \o g)
  <2>1. Assoc(a, b, g)
    BY Regroups, Zenon
  <2> QED BY <2>1 DEF Assoc
<1> QED BY <1>1, <1>2, <1>3, <1>4 DEF Grouped

\* The sentence u ends with the line feed that the innermost call reads; z is behind it.
EndedWith(u, z, s) ==
  /\ LineKept(u) /\ z \in Bytes /\ Todo = <<LF>> \o z
  /\ s \in Bytes /\ Len(s) = Len(u) + 2 /\ s = Pend \o <<LF>> /\ s = u \o <<CR, LF>>
  /\ s = Begin(packet', packet_len + 1)
  /\ packet' \in NmeaArray /\ packet'[0] = Dollar
  /\ \A i \in Nat : packet_len < i /\ i < NmeaCapacity => packet'[i] = packet[i]
  /\ Kept' = 0 /\ Pend' = <<>>
  /\ packet_len \in Nat /\ packet_len + 1 <= NmeaCapacity /\ NmeaCalls(frames, packet_len)
  /\ packet_len' \in 0..NmeaCapacity

\* That is what the end of a sentence means.
LEMMA EndedFacts ==
  ASSUME NmeaIInv, Ended
  PROVE  \E u, z : EndedWith(u, z, Sentence(packet_len + 1))
<1>1. /\ frames # <<>> /\ state = "LF" /\ Unread[1] = LF /\ state' = "BEFORE"
      /\ packet' = [packet EXCEPT ![packet_len] = LF] /\ packet_len' = packet_len + 1
      /\ UNCHANGED <<input, fed>>
  BY DEF Ended, Running
<1>2. PICK k \in Nat : k = packet_len /\ Kept = k /\ k < NmeaCapacity /\ NmeaCapacity \in Nat
  BY <1>1, NmeaKept DEF NmeaIInv
<1>3. k + 1 <= NmeaCapacity /\ k <= NmeaCapacity /\ k + 1 \in Nat /\ k - 1 \in 1..(NmeaCapacity - 2)
  <2>1. packet_len - 1 \in 1..(NmeaCapacity - 2)
    BY <1>1 DEF NmeaIInv, NmeaState, HasLine
  <2> QED BY <1>2, <2>1
<1>4. PICK u \in Bytes : LineKept(u)
  BY <1>1, LfKeepsLine DEF LineKept
<1>5. PICK x \in Byte : x = LF
  BY NmeaAssumption
<1>6. PICK z \in Bytes : Todo = <<LF>> \o z
  <2>1. PICK r \in Bytes : Todo = Unread \o r
    BY <1>1, TodoFront DEF TodoIs
  <2>2. PICK o \in Seq(Byte) : o = Unread /\ o # <<>> /\ o[1] = x
    BY <1>1, <1>5, NmeaTop
  <2>3. PICK e \in Seq(Byte) : e = Tail(o) /\ o = <<x>> \o e
    BY <2>2, HeadAndTail
  <2>4. PICK b, f \in Bytes : b = <<x>> /\ f = e
    BY <1>5, Delimiters DEF Bytes
  <2>5. (b \o f) \o r = b \o (f \o r) /\ f \o r \in Bytes
    <3>1. Assoc(b, f, r) /\ f \o r \in Bytes
      BY ByteJoins, Regroups, Zenon
    <3> QED BY <3>1 DEF Assoc
  <2> QED BY <1>5, <2>1, <2>2, <2>3, <2>4, <2>5
<1>7. packet \in [0..(NmeaCapacity - 1) -> Byte] /\ k \in 0..(NmeaCapacity - 1)
  BY <1>2 DEF NmeaIInv, NmeaState, NmeaArray
<1>8. PICK b : b = [packet EXCEPT ![k] = x]
  OBVIOUS
<1>9. b \in NmeaArray /\ b[k] = x /\ \A i \in 0..(NmeaCapacity - 1) : i # k => b[i] = packet[i]
  BY <1>7, <1>8 DEF NmeaArray
<1>10. packet' = b
  BY <1>1, <1>2, <1>5, <1>8
<1>11. ASSUME NEW i \in Nat, k < i, i < NmeaCapacity PROVE packet'[i] = packet[i]
  <2>1. i \in 0..(NmeaCapacity - 1) /\ i # k
    BY <1>2, <1>11
  <2> QED BY <1>9, <1>10, <2>1
<1>12. b[0] = Dollar
  <2>1. 0 \in 0..(NmeaCapacity - 1) /\ 0 # k
    BY <1>2, <1>3
  <2>2. HasLine(packet, k - 1)
    BY <1>1, <1>2 DEF NmeaIInv, NmeaState
  <2> QED BY <1>9, <2>1, <2>2 DEF HasLine
<1>13. PICK s \in Seq(Byte) : s = Begin(b, k + 1) /\ Len(s) = k + 1
  BY <1>3, <1>9, BeginBytes
<1>14. s = Sentence(packet_len + 1)
  <2>1. ASSUME NEW i \in 1..(k + 1)
        PROVE  b[i - 1] = IF i > k THEN LF ELSE packet[i - 1]
    <3>1. CASE i > k
      <4>1. i - 1 = k
        BY <3>1
      <4> QED BY <1>5, <1>9, <3>1, <4>1
    <3>2. CASE ~(i > k)
      <4>1. i - 1 \in 0..(NmeaCapacity - 1) /\ i - 1 # k
        BY <1>2, <3>2
      <4> QED BY <1>9, <3>2, <4>1
    <3> QED BY <3>1, <3>2
  <2>2. [i \in 1..(k + 1) |-> b[i - 1]] = [i \in 1..(k + 1) |-> IF i > k THEN LF ELSE packet[i - 1]]
    BY <2>1
  <2> QED BY <1>2, <1>13, <2>2 DEF Begin, Sentence
<1>15. s = Pend \o <<LF>>
  <2>1. LastOf(b, k)
    BY <1>3, <1>9, BeginParts
  <2>2. Begin(b, k) = Pend
    <3>1. Pend = Begin(packet, k)
      BY <1>2, NmeaView
    <3>2. ASSUME NEW i \in 1..k PROVE b[i - 1] = packet[i - 1]
      <4>1. i - 1 \in 0..(NmeaCapacity - 1) /\ i - 1 # k
        BY <1>2
      <4> QED BY <1>9, <4>1
    <3> QED BY <3>1, <3>2 DEF Begin
  <2> QED BY <1>5, <1>9, <1>13, <2>1, <2>2 DEF LastOf
<1>16. s = u \o <<CR, LF>>
  <2>1. PICK c, l \in Bytes : c = <<CR>> /\ l = <<LF>> /\ c \o l = <<CR, LF>>
    BY Delimiters
  <2>2. (u \o c) \o l = u \o (c \o l)
    <3>1. Assoc(u, c, l)
      BY Regroups, Zenon
    <3> QED BY <3>1 DEF Assoc
  <2>3. Pend = u \o c
    BY <1>4, <2>1 DEF LineKept
  <2> QED BY <1>15, <2>1, <2>2, <2>3
<1>17. Len(s) = Len(u) + 2
  BY <1>2, <1>3, <1>4, <1>13 DEF LineKept
<1>18. Kept' = 0 /\ Pend' = <<>>
  BY <1>1 DEF Kept, Pend
<1>19. packet_len' \in 0..NmeaCapacity /\ NmeaCalls(frames, packet_len)
  BY <1>1, <1>2, <1>3 DEF NmeaIInv
<1>20. EndedWith(u, z, s)
  <2>1. s \in Bytes /\ s = Begin(packet', packet_len + 1)
    BY <1>2, <1>10, <1>13 DEF Bytes
  <2>2. packet' \in NmeaArray /\ packet'[0] = Dollar
    BY <1>9, <1>10, <1>12
  <2>3. packet_len \in Nat /\ packet_len + 1 <= NmeaCapacity
    BY <1>2, <1>3
  <2>4. \A i \in Nat : packet_len < i /\ i < NmeaCapacity => packet'[i] = packet[i]
    BY <1>2, <1>11
  <2> QED BY <1>4, <1>6, <1>15, <1>16, <1>17, <1>18, <1>19, <2>1, <2>2, <2>3, <2>4 DEF EndedWith
<1> QED BY <1>14, <1>20

\* With t following on the stream, w is all that is left, v is behind the line feed, and
\* p has the line feed in front.
FollowedBy(z, t, v, p, w) == v = z \o t /\ p = <<LF>> \o v /\ w = Line \o t

\* What the line then says of the sentences.
LEMMA EndedLine ==
  ASSUME NmeaIInv, NEW u, NEW z, NEW s, EndedWith(u, z, s), NEW t \in Bytes,
         NEW v, NEW p, NEW w, FollowedBy(z, t, v, p, w)
  PROVE  /\ v \in Seq(Byte) /\ p \in Seq(Byte) /\ p # <<>> /\ p[1] = LF /\ Tail(p) = v
         /\ Sentences[p] = Sentences[v]
         /\ IsLine(w, u, p) /\ LineSays(w, u, p)
<1> USE DEF FollowedBy
<1>1. u \in Bytes /\ z \in Bytes /\ NoCr(u) /\ u # <<>>
  BY DEF EndedWith, LineKept
<1>2. v \in Bytes
  BY <1>1, ByteJoins, Zenon
<1>3. v \in Seq(Byte)
  BY <1>2 DEF Bytes
<1>4. /\ p \in Seq(Byte) /\ p # <<>> /\ p[1] = LF /\ Tail(p) = v
      /\ Sentences[p] = Sentences[v]
  BY <1>3, LfInFront
<1>5. PICK c, l \in Bytes : c = <<CR>> /\ l = <<LF>>
  BY Delimiters
<1>6. PICK y \in Bytes : y = l \o z
  BY <1>1, ByteJoins, Zenon
<1>7. w = Line \o t
  OBVIOUS
<1>8. w = u \o (c \o p)
  <2>1. Line = (u \o c) \o y
    BY <1>5, <1>6 DEF Line, EndedWith, LineKept
  <2>2. u \o c \in Bytes
    BY <1>1, ByteJoins, Zenon
  <2>3. ((u \o c) \o y) \o t = (u \o c) \o (y \o t)
    <3>1. Assoc(u \o c, y, t)
      BY <2>2, Regroups, Zenon
    <3> QED BY <3>1 DEF Assoc
  <2>4. y \o t = l \o v
    <3>1. (l \o z) \o t = l \o (z \o t)
      <4>1. Assoc(l, z, t)
        BY <1>1, Regroups, Zenon
      <4> QED BY <4>1 DEF Assoc
    <3> QED BY <1>6, <3>1
  <2>5. y \o t = p
    BY <1>5, <2>4
  <2>6. p \in Bytes
    BY <1>4 DEF Bytes
  <2>7. (u \o c) \o p = u \o (c \o p)
    <3>1. Assoc(u, c, p)
      BY <1>1, <2>6, Regroups, Zenon
    <3> QED BY <3>1 DEF Assoc
  <2> QED BY <1>7, <2>1, <2>3, <2>5, <2>7
<1>9. IsLine(w, u, p)
  BY <1>5, <1>8 DEF IsLine
<1>10. LineSays(w, u, p)
  <2>1. u \in Seq(Byte)
    BY <1>1 DEF Bytes
  <2> QED BY <1>1, <1>4, <1>9, <2>1, SentencesLine
<1> QED BY <1>3, <1>4, <1>7, <1>9, <1>10

\* A good sentence, or one too short to be told: it goes to next.
LEMMA NmeaGoodStep ==
  ASSUME NmeaIInv, NmeaGood
  PROVE  NmeaIInv' /\ Moved
<1>1. PICK s : s = Sentence(packet_len + 1)
  OBVIOUS
<1>2. /\ Ended /\ (s \in Good \/ Len(s) < NmeaTail) /\ out' = out \o s
      /\ packets' = Append(packets, s) /\ frames' = frames
  BY <1>1 DEF NmeaGood
<1>3. /\ frames # <<>> /\ state' = "BEFORE" /\ packet_len' = packet_len + 1
      /\ input' = input /\ fed' = fed
  BY <1>2 DEF Ended, Running
<1>4. PICK u, z : EndedWith(u, z, s)
  BY <1>1, <1>2, EndedFacts
<1>5. /\ u \in Bytes /\ z \in Bytes /\ s \in Bytes /\ out \in Bytes /\ Kept' = 0 /\ Pend' = <<>>
      /\ packet_len \in Nat /\ NmeaCalls(frames, packet_len)
  BY <1>4 DEF EndedWith, LineKept, NmeaIInv, NmeaState
<1>6. PICK l, y \in Bytes : l = <<LF>> /\ y = l \o z /\ Todo = y
  <2>1. PICK l \in Bytes : l = <<LF>>
    BY Delimiters
  <2>2. PICK y \in Bytes : y = l \o z
    BY <1>5, ByteJoins, Zenon
  <2> QED BY <1>4, <2>1, <2>2 DEF EndedWith
<1>7. Todo' = y
  <2>1. Todo' = TextOf(frames, packet')
    BY <1>2, <1>3 DEF Todo, TextOf, CallText, ByteOf, Read
  <2>2. TextOf(frames, packet') = TextOf(frames, packet)
    <3>1. PICK b : b = packet'
      OBVIOUS
    <3>2. \A i \in Nat : packet_len < i /\ i < NmeaCapacity => b[i] = packet[i]
      BY <1>4, <3>1 DEF EndedWith
    <3>3. TextOf(frames, b) = TextOf(frames, packet)
      BY <1>5, <3>2, OverwriteText
    <3> QED BY <3>1, <3>3
  <2> QED BY <1>6, <2>1, <2>2, NmeaView
<1>8. NmeaIInv'
  <2>1. out' \in Bytes
    BY <1>2, <1>5, ByteJoins, Zenon
  <2>2. packets' \in Seq(Bytes)
    <3>1. packets \in Seq(Bytes)
      BY DEF NmeaIInv, NmeaState
    <3> QED BY <1>2, <1>5, <3>1, AppendProperties
  <2>3. packet' \in NmeaArray /\ packet_len' \in 0..NmeaCapacity
    BY <1>4 DEF EndedWith
  <2>4. NmeaState'
    BY <1>3, <2>1, <2>2, <2>3 DEF NmeaIInv, NmeaState, HasLine, NmeaArray
  <2>5. NmeaCalls(frames', packet_len) /\ Kept' <= packet_len
    <3>1. NmeaCalls(frames', packet_len)
      BY <1>2, <1>3, <1>5 DEF NmeaCalls, InReach
    <3> QED BY <1>5, <3>1
  <2> QED BY <1>3, <1>5, <2>4, <2>5, NmeaNext
<1>9. PICK p \in Bytes : p = Pend
  BY NmeaView
<1>10. Line = p \o y /\ Line' = y /\ s = p \o l
  <2>1. <<>> \o y = y
    BY EmptyJoins, Zenon
  <2>2. s = p \o l
    BY <1>4, <1>6, <1>9 DEF EndedWith
  <2> QED BY <1>5, <1>6, <1>7, <1>9, <2>1, <2>2 DEF Line
<1>11. LfDoubled
  <2>1. PICK o, a \in Bytes : o = out /\ a = o \o p
    <3>1. PICK o \in Bytes : o = out
      BY <1>5
    <3>2. o \o p \in Bytes
      BY ByteJoins, Zenon
    <3> QED BY <3>1, <3>2
  <2>2. AllText = a \o y
    <3>1. o \o (p \o y) = (o \o p) \o y
      <4>1. Assoc(o, p, y)
        BY Regroups, Zenon
      <4> QED BY <4>1 DEF Assoc
    <3> QED BY <1>10, <2>1, <3>1 DEF AllText
  <2>3. AllText' = a \o (l \o y)
    <3>1. Grouped(o, p, l, y)
      BY FourParts, Zenon
    <3>2. AllText' = (o \o (p \o l)) \o y
      BY <1>2, <1>10, <2>1 DEF AllText
    <3> QED BY <2>1, <3>1, <3>2 DEF Grouped
  <2> QED BY <1>5, <1>6, <2>2, <2>3 DEF LfDoubled
<1>12. Takes(s)
  <2>1. ASSUME NEW t \in Bytes
        PROVE  /\ s \in Good => Sentences[Line \o t] = <<s>> \o Sentences[Line' \o t]
               /\ Len(s) < NmeaTail => Sentences[Line \o t] = Sentences[Line' \o t]
    <3>1. PICK v, q, w : FollowedBy(z, t, v, q, w)
      BY DEF FollowedBy
    <3>2. v = z \o t /\ q = <<LF>> \o v /\ w = Line \o t
      BY <3>1 DEF FollowedBy
    <3>3. /\ v \in Seq(Byte) /\ q \in Seq(Byte) /\ q # <<>> /\ q[1] = LF /\ Tail(q) = v
          /\ Sentences[q] = Sentences[v] /\ IsLine(w, u, q) /\ LineSays(w, u, q)
      BY <1>4, <3>1, EndedLine
    <3>4. Line' \o t = q
      <4>1. (l \o z) \o t = l \o (z \o t)
        <5>1. Assoc(l, z, t)
          BY <1>5, Regroups, Zenon
        <5> QED BY <5>1 DEF Assoc
      <4> QED BY <1>6, <1>10, <3>2, <4>1
    <3>5. /\ u \in Seq(Byte) /\ NoCr(u) /\ u[1] = Dollar /\ Len(u) <= NmeaCapacity - 2
          /\ s = u \o <<CR, LF>> /\ Len(s) = Len(u) + 2
      BY <1>4 DEF EndedWith, LineKept, Bytes
    <3>6. ASSUME s \in Good PROVE Sentences[w] = <<s>> \o Sentences[v]
      BY <3>3, <3>5, <3>6 DEF LineSays
    <3>7. ASSUME Len(s) < NmeaTail PROVE Sentences[w] = Sentences[v]
      <4>1. Len(u) + 2 < NmeaTail
        BY <3>5, <3>7
      <4>2. v \in Seq(Byte) /\ q = <<LF>> \o v
        BY <3>2, <3>3
      <4>3. u \in Seq(Byte) /\ NoCr(u)
        BY <3>5
      <4>4. IsLine(w, u, q)
        BY <3>3
      <4> QED BY <4>1, <4>2, <4>3, <4>4, ShortLine
    <3> QED BY <3>2, <3>3, <3>4, <3>6, <3>7
  <2>2. CASE s \in Good
    BY <1>2, <1>5, <2>1, <2>2 DEF Takes
  <2>3. CASE s \notin Good
    <3>1. Len(s) < NmeaTail
      BY <1>2, <2>3
    <3>2. SameFuture
      BY <2>1, <3>1 DEF SameFuture
    <3> QED BY <1>2, <1>5, <2>3, <3>1, <3>2 DEF Takes
  <2> QED BY <2>2, <2>3
<1> QED BY <1>3, <1>8, <1>11, <1>12 DEF Moved

\* A bad one: its start byte is passed on, the others are looked at again.
LEMMA NmeaBadStep ==
  ASSUME NmeaIInv, NmeaBad
  PROVE  NmeaIInv' /\ Moved
<1>1. PICK s : s = Sentence(packet_len + 1)
  OBVIOUS
<1>2. /\ Ended /\ s \notin Good /\ out' = out \o SubSeq(s, 1, 1)
      /\ frames' = Nested(1, packet_len + 1 - 1, frames) /\ packets' = packets
  BY <1>1 DEF NmeaBad, Rejected
<1>3. /\ frames # <<>> /\ state' = "BEFORE" /\ packet_len' = packet_len + 1
      /\ input' = input /\ fed' = fed
  BY <1>2 DEF Ended, Running
<1>4. PICK u, z : EndedWith(u, z, s)
  BY <1>1, <1>2, EndedFacts
<1>5. /\ u \in Bytes /\ z \in Bytes /\ s \in Bytes /\ out \in Bytes /\ Kept' = 0 /\ Pend' = <<>>
      /\ input \in Seq(Byte)
  BY <1>4 DEF EndedWith, LineKept, NmeaIInv, NmeaState
<1>6. PICK n \in Nat : n = packet_len /\ NmeaCalls(frames, n) /\ n + 1 <= NmeaCapacity
  BY <1>4 DEF EndedWith
<1>7. PICK b \in NmeaArray : /\ b = packet' /\ b[0] = Dollar /\ s = Begin(b, n + 1)
                             /\ \A i \in Nat : n < i /\ i < NmeaCapacity => b[i] = packet[i]
  BY <1>4, <1>6 DEF EndedWith
<1>8. PICK g : g = Nested(1, n, frames) /\ frames' = g
  <2>1. packet_len + 1 - 1 = n
    BY <1>6
  <2> QED BY <1>2, <2>1
<1>9. PICK q : q = [k \in 1..n |-> b[k]]
  OBVIOUS
<1>10. NmeaCalls(g, 0) /\ ReadsFirst(g, frames, b, q)
  BY <1>5, <1>6, <1>8, <1>9, NestedText
<1>11. q \in Bytes /\ Len(q) = n /\ s = <<Dollar>> \o q
  <2>1. BehindFirst(b, n, q)
    BY <1>6, <1>9, BeginParts
  <2> QED BY <1>7, <2>1 DEF BehindFirst
<1>12. PICK l, c, d, y \in Bytes : /\ l = <<LF>> /\ c = <<CR>> /\ d = <<Dollar>> /\ c \o l = <<CR, LF>>
                                   /\ y = l \o z /\ Todo = y
  <2>1. PICK l, c, d \in Bytes : l = <<LF>> /\ c = <<CR>> /\ d = <<Dollar>> /\ c \o l = <<CR, LF>>
    BY Delimiters
  <2>2. PICK y \in Bytes : y = l \o z
    BY <1>5, ByteJoins, Zenon
  <2> QED BY <1>4, <2>1, <2>2 DEF EndedWith
<1>13. Todo' = q \o y
  <2>1. Todo' = TextOf(g, b)
    BY <1>3, <1>7, <1>8 DEF Todo, TextOf, CallText, ByteOf, Read
  <2>2. TextOf(frames, b) = TextOf(frames, packet)
    BY <1>6, <1>7, OverwriteText
  <2>3. y = TextOf(frames, packet)
    BY <1>12, NmeaView
  <2> QED BY <1>10, <2>1, <2>2, <2>3 DEF ReadsFirst
<1>14. SubSeq(s, 1, 1) = d
  <2>1. PICK x \in Byte : x = Dollar
    BY NmeaAssumption
  <2>2. d \in Seq(Byte) /\ Len(d) = 1 /\ q \in Seq(Byte) /\ s = d \o q
    BY <1>11, <1>12, <2>1 DEF Bytes
  <2>3. SubSeq(s, 1, Len(d)) = d
    BY <2>2, JoinCut
  <2> QED BY <2>2, <2>3
<1>15. NmeaIInv'
  <2>1. out' \in Bytes
    BY <1>2, <1>5, <1>14, ByteJoins, Zenon
  <2>2. packet' \in NmeaArray /\ packet_len' \in 0..NmeaCapacity
    BY <1>4 DEF EndedWith
  <2>3. NmeaState'
    BY <1>2, <1>3, <2>1, <2>2 DEF NmeaIInv, NmeaState, HasLine, NmeaArray
  <2>4. NmeaCalls(frames', 0) /\ Kept' <= 0
    BY <1>5, <1>8, <1>10
  <2> QED BY <1>3, <2>3, <2>4, NmeaNext
<1>16. PICK p \in Bytes : p = Pend
  BY NmeaView
<1>17. q \o y \in Bytes /\ Line = p \o y /\ Line' = q \o y /\ s = p \o l
  <2>1. q \o y \in Bytes
    BY <1>11, ByteJoins, Zenon
  <2>2. <<>> \o (q \o y) = q \o y
    BY <2>1, EmptyJoins, Zenon
  <2>3. s = p \o l
    BY <1>4, <1>12, <1>16 DEF EndedWith
  <2> QED BY <1>5, <1>12, <1>13, <1>16, <2>1, <2>2, <2>3 DEF Line
<1>18. LfDoubled
  <2>1. PICK o, a \in Bytes : o = out /\ a = o \o p
    <3>1. PICK o \in Bytes : o = out
      BY <1>5
    <3>2. o \o p \in Bytes
      BY ByteJoins, Zenon
    <3> QED BY <3>1, <3>2
  <2>2. AllText = a \o y
    <3>1. o \o (p \o y) = (o \o p) \o y
      <4>1. Assoc(o, p, y)
        BY Regroups, Zenon
      <4> QED BY <4>1 DEF Assoc
    <3> QED BY <1>17, <2>1, <3>1 DEF AllText
  <2>3. AllText' = a \o (l \o y)
    <3>1. q \in Bytes
      BY <1>11
    <3>2. Grouped(o, d, q, y)
      BY <3>1, FourParts, Zenon
    <3>3. Grouped(o, p, l, y)
      BY FourParts, Zenon
    <3>4. d \o q = p \o l
      BY <1>11, <1>12, <1>17
    <3>5. AllText' = (o \o d) \o (q \o y)
      BY <1>2, <1>14, <1>17, <2>1 DEF AllText
    <3> QED BY <2>1, <3>2, <3>3, <3>4, <3>5 DEF Grouped
  <2> QED BY <1>5, <1>12, <2>2, <2>3 DEF LfDoubled
<1>19. PICK m : m = Tail(u)
  OBVIOUS
<1>20. m \in Bytes /\ NoCr(m) /\ q = (m \o c) \o l
  <2>1. u \in Seq(Byte) /\ NoCr(u) /\ u # <<>> /\ u[1] = Dollar
    BY <1>4 DEF EndedWith, LineKept, Bytes
  <2>2. m \in Seq(Byte) /\ NoCr(m)
    BY <1>19, <2>1, NoCrTail
  <2>3. u = d \o m
    BY <1>12, <1>19, <2>1, HeadAndTail
  <2>4. m \in Bytes
    BY <2>2 DEF Bytes
  <2>5. PICK f \in Bytes : f = (m \o c) \o l
    <3>1. m \o c \in Bytes
      BY <2>4, ByteJoins, Zenon
    <3> QED BY <3>1, ByteJoins, Zenon
  <2>6. s = d \o f
    <3>1. s = u \o (c \o l)
      BY <1>4, <1>12 DEF EndedWith
    <3>2. Grouped(d, m, c, l)
      BY <2>4, FourParts, Zenon
    <3> QED BY <2>3, <2>5, <3>1, <3>2 DEF Grouped
  <2>7. f = q
    <3>1. PICK x \in Byte : x = Dollar
      BY NmeaAssumption
    <3>2. f \in Seq(Byte) /\ s = <<x>> \o f
      BY <1>12, <2>6, <3>1 DEF Bytes
    <3>3. Tail(s) = f
      BY <3>2, ByteInFront
    <3>4. q \in Seq(Byte) /\ s = <<x>> \o q
      BY <1>11, <3>1 DEF Bytes
    <3>5. Tail(s) = q
      BY <3>4, ByteInFront
    <3> QED BY <3>3, <3>5
  <2> QED BY <2>2, <2>4, <2>5, <2>7
<1>21. SameFuture
  <2>1. ASSUME NEW t \in Bytes PROVE Sentences[Line \o t] = Sentences[Line' \o t]
    <3>1. PICK v, e, w : FollowedBy(z, t, v, e, w)
      BY DEF FollowedBy
    <3>2. v = z \o t /\ e = <<LF>> \o v /\ w = Line \o t
      BY <3>1 DEF FollowedBy
    <3>3. /\ v \in Seq(Byte) /\ e \in Seq(Byte) /\ e # <<>> /\ e[1] = LF /\ Tail(e) = v
          /\ Sentences[e] = Sentences[v] /\ IsLine(w, u, e) /\ LineSays(w, u, e)
      BY <1>4, <3>1, EndedLine
    <3>4. PICK f : f = <<LF>> \o e
      OBVIOUS
    <3>5. /\ u \in Seq(Byte) /\ NoCr(u) /\ u # <<>> /\ u[1] = Dollar /\ Len(u) <= NmeaCapacity - 2
          /\ s = u \o <<CR, LF>>
      BY <1>4 DEF EndedWith, LineKept, Bytes
    <3>6. Sentences[w] = Sentences[Tail(w)]
      BY <1>2, <3>3, <3>5 DEF LineSays
    <3>7. IsLine(Tail(w), m, e)
      <4>1. LineFacts(w, u, e)
        BY <3>3, <3>5, LineIs
      <4> QED BY <1>19, <3>5, <4>1 DEF LineFacts
    <3>8. PICK r : r = Line' \o t
      OBVIOUS
    <3>9. IsLine(r, m, f)
      <4>1. e \in Bytes /\ l \o e \in Bytes /\ v \in Bytes
        <5>1. e \in Bytes /\ v \in Bytes
          BY <3>3 DEF Bytes
        <5> QED BY <5>1, ByteJoins, Zenon
      <4>2. y \o t = e
        <5>1. (l \o z) \o t = l \o (z \o t)
          <6>1. z \in Bytes
            BY <1>5
          <6>2. Assoc(l, z, t)
            BY <6>1, Regroups, Zenon
          <6> QED BY <6>2 DEF Assoc
        <5>2. y \o t = l \o v
          BY <1>12, <3>2, <5>1
        <5> QED BY <1>12, <3>2, <5>2
      <4>3. (q \o y) \o t = q \o (y \o t)
        <5>1. Assoc(q, y, t)
          BY <1>11, Regroups, Zenon
        <5> QED BY <5>1 DEF Assoc
      <4>4. m \in Bytes
        BY <1>20
      <4>5. Grouped(m, c, l, e)
        BY <4>1, <4>4, FourParts, Zenon
      <4>6. r = m \o (c \o (l \o e))
        BY <1>17, <1>20, <3>8, <4>2, <4>3, <4>5 DEF Grouped
      <4> QED BY <1>12, <3>4, <4>6 DEF IsLine
    <3>10. SameLines(m, e, f)
      <4>1. m \in Seq(Byte) /\ NoCr(m)
        BY <1>20 DEF Bytes
      <4> QED BY <3>2, <3>3, <3>4, <4>1, LfTwice
    <3>11. Sentences[Tail(w)] = Sentences[r]
      BY <3>7, <3>9, <3>10 DEF SameLines
    <3> QED BY <3>2, <3>6, <3>8, <3>11
  <2> QED BY <2>1 DEF SameFuture
<1> QED BY <1>2, <1>3, <1>15, <1>18, <1>21 DEF Moved

\* Another chunk of the stream is behind all that is left.
Fed(c) ==
  /\ c \in Bytes /\ fed' = fed \o c /\ Line' = Line \o c
  /\ out' = out /\ packets' = packets

\* A write appends a chunk.
LEMMA NmeaFeedStep ==
  ASSUME NmeaIInv, Feed
  PROVE  NmeaIInv' /\ \E c : Fed(c)
<1>1. frames = <<>> /\ UNCHANGED <<state, packet, packet_len, out, packets>>
  BY DEF Feed
<1>2. PICK n \in 1..(MaxFed - Len(fed)) : \E c \in [1..n -> Byte] :
        /\ input' = c /\ fed' = fed \o c
        /\ frames' = <<[src |-> "input", ptr |-> 0, len |-> n]>>
  BY DEF Feed
<1>3. PICK c \in [1..n -> Byte] :
        /\ input' = c /\ fed' = fed \o c
        /\ frames' = <<[src |-> "input", ptr |-> 0, len |-> n]>>
  BY <1>2
<1>4. fed \in Bytes /\ packet \in NmeaArray /\ input \in Seq(Byte)
  BY DEF NmeaIInv, NmeaState
<1>5. n \in Nat /\ n > 0
  OBVIOUS
<1>6. c \in Seq(Byte) /\ Len(c) = n /\ c \in Bytes
  BY <1>3, <1>5 DEF Bytes
<1>7. PICK x : x = [src |-> "input", ptr |-> 0, len |-> n]
  OBVIOUS
<1>8. x \in Frame /\ x.src = "input" /\ x.ptr = 0 /\ x.len = n
  BY <1>5, <1>7 DEF Frame
<1>9. PICK g : g = <<x>> /\ frames' = g
  BY <1>3, <1>7
<1>10. g \in Seq(Frame) /\ Len(g) = 1 /\ g[1] = x /\ g # <<>> /\ Tail(g) = <<>>
  BY <1>8, <1>9
<1>11. Kept' = Kept /\ Kept \in Nat
  <2>1. Kept' = Kept
    BY <1>1 DEF Kept
  <2> QED BY <2>1, NmeaKept DEF NmeaIInv
<1>12. NmeaCalls(frames, Kept)'
  <2>1. ASSUME NEW i \in 1..Len(g) PROVE InReach(g[i], Kept)'
    <3>1. i = 1 /\ g[i] = x
      BY <1>10
    <3>2. 0 + n <= Len(input')
      BY <1>3, <1>5, <1>6
    <3> QED BY <1>5, <1>8, <3>1, <3>2 DEF InReach
  <2>2. ASSUME NEW i \in 1..Len(g), NEW j \in 1..Len(g) PROVE ~(i < j)
    BY <1>10
  <2> QED BY <1>9, <1>10, <2>1, <2>2 DEF NmeaCalls
<1>13. NmeaIInv'
  <2>1. fed' \in Bytes
    BY <1>3, <1>4, <1>6, ByteJoins, Zenon
  <2>2. NmeaState'
    BY <1>1, <1>3, <1>6, <2>1 DEF NmeaIInv, NmeaState, HasLine, NmeaArray
  <2> QED BY <1>12, <2>2 DEF NmeaIInv
<1>14. Todo = <<>>
  BY <1>1, <1>4, <1>11, NmeaView, TextParts DEF NmeaIInv
<1>15. Todo' = c
  <2>1. Todo' = FlattenSeq([i \in 1..Len(g) |-> Read(g[i].src, g[i].ptr, g[i].len)'])
    BY <1>9 DEF Todo
  <2>2. Read(x.src, x.ptr, x.len)' = c
    <3>1. ASSUME NEW i \in 1..n PROVE input'[0 + i] = c[i]
      BY <1>3
    <3>2. [i \in 1..n |-> input'[0 + i]] = c
      BY <1>3, <3>1
    <3> QED BY <1>8, <3>2 DEF Read
  <2>3. PICK s : s = [i \in 1..Len(g) |-> Read(g[i].src, g[i].ptr, g[i].len)']
    OBVIOUS
  <2>4. s = <<c>>
    <3>1. s \in [1..1 -> {c}]
      BY <1>10, <2>2, <2>3
    <3> QED BY <3>1
  <2>5. PICK b : b = <<c>>
    OBVIOUS
  <2>6. b = b \o <<>> /\ <<>> \in Seq(Bytes)
    <3>1. b \in Seq(Bytes)
      BY <1>6, <2>5
    <3> QED BY <3>1, ConcatEmptySeq
  <2>7. FlattenSeq(<<>>) = <<>>
    <3>1. Len(<<>>) = 0
      OBVIOUS
    <3> QED BY <3>1 DEF FlattenSeq
  <2>8. FlattenSeq(b) = c \o FlattenSeq(<<>>)
    BY <1>6, <2>5, <2>6, FlattenFront
  <2>9. c \o <<>> = c
    BY <1>6, EmptyJoins, Zenon
  <2> QED BY <2>1, <2>3, <2>4, <2>5, <2>7, <2>8, <2>9
<1>16. Line' = Line \o c
  <2>1. PICK p \in Bytes : p = Pend
    BY NmeaView
  <2>2. Pend' = p
    BY <1>1, <1>11, <2>1 DEF Pend
  <2>3. p \o <<>> = p
    BY EmptyJoins, Zenon
  <2> QED BY <1>14, <1>15, <2>1, <2>2, <2>3 DEF Line
<1> QED BY <1>1, <1>3, <1>6, <1>13, <1>16 DEF Fed

\* Every iteration of the loop of write.
LEMMA NmeaStepKeeps ==
  ASSUME NmeaIInv, NmeaStep
  PROVE  NmeaIInv' /\ Moved
BY NmeaNoStartStep, NmeaStartStep, NmeaMoreStep, NmeaCrStep, NmeaTooLongStep, NmeaGoodStep,
   NmeaBadStep, NmeaNoLfStep DEF NmeaStep

-----------------------------------------------------------------------------
(* NMEA: what is passed on, and the sentences. *)

\* OnlyLineFeedsDoubled, as a relation of two texts.
OtherThanLf == Byte \ {LF}
SameText(a, b) == Among(a, OtherThanLf) = Among(b, OtherThanLf) /\ Len(a) >= Len(b)
TextInv == SameText(AllText, fed)

\* What is kept of a joined sequence is kept of its parts.
Sorted(a, b) ==
  /\ Among(a, OtherThanLf) \in Bytes /\ Among(b, OtherThanLf) \in Bytes
  /\ Among(a \o b, OtherThanLf) = Among(a, OtherThanLf) \o Among(b, OtherThanLf)
  /\ Len(a \o b) = Len(a) + Len(b) /\ a \o b \in Bytes

LEMMA SortBytes == \A a, b \in Bytes : Sorted(a, b)
<1>1. ASSUME NEW a \in Seq(Byte), NEW b \in Seq(Byte) PROVE Sorted(a, b)
  <2>1. /\ Among(a, OtherThanLf) \in Seq(Byte) /\ Among(b, OtherThanLf) \in Seq(Byte)
        /\ Among(a \o b, OtherThanLf) = Among(a, OtherThanLf) \o Among(b, OtherThanLf)
    <3>1. AmongBoth(Byte, OtherThanLf, a, b) /\ AmongBoth(Byte, OtherThanLf, b, a)
      BY AmongJoin, Zenon
    <3> QED BY <3>1 DEF AmongBoth
  <2>2. Len(a \o b) = Len(a) + Len(b) /\ a \o b \in Seq(Byte)
    BY ConcatProperties
  <2> QED BY <2>1, <2>2 DEF Sorted, Bytes
<1> QED BY <1>1 DEF Bytes

\* A line feed more or less makes no other text.
LEMMA TextStays ==
  ASSUME NmeaIInv, NmeaIInv', TextInv, fed' = fed, AllText' = AllText \/ LfDoubled
  PROVE  TextInv'
<1>1. CASE AllText' = AllText
  BY <1>1 DEF TextInv, SameText
<1>2. CASE LfDoubled
  <2>1. PICK a, z \in Bytes : /\ AllText = a \o (<<LF>> \o z)
                              /\ AllText' = a \o (<<LF>> \o (<<LF>> \o z))
    BY <1>2 DEF LfDoubled
  <2>2. PICK l \in Bytes : l = <<LF>> /\ Len(l) = 1
    BY Delimiters
  <2>3. Among(l, OtherThanLf) = <<>>
    <3>1. PICK x \in Byte : x = LF
      BY NmeaAssumption
    <3>2. Among(<<x>>, OtherThanLf) = IF x \in OtherThanLf THEN <<x>> ELSE <<>>
      BY AmongFew
    <3> QED BY <2>2, <3>1, <3>2 DEF OtherThanLf
  <2>4. PICK y, w \in Bytes : y = l \o z /\ w = l \o y
    BY ByteJoins, Zenon
  <2>5. AllText = a \o y /\ AllText' = a \o w
    BY <2>1, <2>2, <2>4
  <2>6. Sorted(l, z) /\ Sorted(l, y) /\ Sorted(a, y) /\ Sorted(a, w)
    BY SortBytes, Zenon
  <2>7. Among(y, OtherThanLf) \in Bytes /\ Among(w, OtherThanLf) = Among(y, OtherThanLf)
    <3>1. PICK q \in Bytes : q = Among(y, OtherThanLf)
      BY <2>6 DEF Sorted
    <3>2. Among(w, OtherThanLf) = <<>> \o q
      BY <2>3, <2>4, <2>6, <3>1 DEF Sorted
    <3>3. <<>> \o q = q
      BY EmptyJoins, Zenon
    <3> QED BY <3>1, <3>2, <3>3
  <2>8. Among(a \o w, OtherThanLf) = Among(a \o y, OtherThanLf)
    BY <2>6, <2>7 DEF Sorted
  <2>9. Len(a \o w) = Len(a \o y) + 1
    <3>1. PICK i, j \in Nat : i = Len(a) /\ j = Len(y)
      BY DEF Bytes
    <3>2. Len(a \o y) = i + j /\ Len(w) = 1 + j /\ Len(a \o w) = i + Len(w)
      BY <2>2, <2>4, <2>6, <3>1 DEF Sorted
    <3> QED BY <3>2
  <2>10. Len(a \o y) \in Nat /\ Len(fed) \in Nat
    <3>1. a \o y \in Seq(Byte) /\ fed \in Seq(Byte)
      BY <2>6 DEF Sorted, Bytes, NmeaIInv, NmeaState
    <3> QED BY <3>1
  <2> QED BY <2>5, <2>8, <2>9, <2>10 DEF TextInv, SameText
<1> QED BY <1>1, <1>2

\* A chunk more is one more on both sides.
LEMMA TextFed ==
  ASSUME NmeaIInv, TextInv, NEW c, Fed(c)
  PROVE  TextInv'
<1>1. PICK o, e, f, d \in Bytes : o = out /\ e = Line /\ f = fed /\ d = c
  BY NmeaView DEF NmeaIInv, NmeaState, Fed
<1>2. PICK a \in Bytes : a = o \o e
  BY ByteJoins, Zenon
<1>3. AllText = a /\ AllText' = a \o d /\ fed' = f \o d
  <2>1. (o \o e) \o d = o \o (e \o d)
    <3>1. Assoc(o, e, d)
      BY Regroups, Zenon
    <3> QED BY <3>1 DEF Assoc
  <2> QED BY <1>1, <1>2, <2>1 DEF AllText, Fed
<1>4. Sorted(a, d) /\ Sorted(f, d)
  BY SortBytes, Zenon
<1>5. PICK i, j, k \in Nat : i = Len(a) /\ j = Len(d) /\ k = Len(f)
  BY DEF Bytes
<1>6. Among(a, OtherThanLf) = Among(f, OtherThanLf) /\ i >= k
  BY <1>1, <1>3, <1>5 DEF TextInv, SameText
<1>7. Among(a \o d, OtherThanLf) = Among(f \o d, OtherThanLf)
  BY <1>4, <1>6 DEF Sorted
<1>8. Len(a \o d) = i + j /\ Len(f \o d) = k + j
  BY <1>4, <1>5 DEF Sorted
<1>9. Len(a \o d) >= Len(f \o d)
  BY <1>6, <1>8
<1> QED BY <1>3, <1>7, <1>9 DEF TextInv, SameText

\* The sentences found, and those of what is left and of what follows on the stream, are
\* those of the stream.
SentencesFor(t) == Among(packets, Good) \o Sentences[Line \o t] = Sentences[fed \o t]
SentInv ==
  /\ \A t \in Bytes : SentencesFor(t)
  /\ \A i \in DOMAIN packets : packets[i] \in Good \/ Len(packets[i]) < NmeaTail

LEMMA LineBytes == NmeaIInv => Line \in Bytes
BY NmeaView

\* No step finds a sentence that is none of the stream, or misses one.
LEMMA SentencesStay ==
  ASSUME NmeaIInv, NmeaIInv', SentInv, Moved
  PROVE  SentInv'
<1>1. fed' = fed /\ packets \in Seq(Bytes)
  BY DEF Moved, NmeaIInv, NmeaState
<1>2. CASE packets' = packets /\ SameFuture
  <2>1. ASSUME NEW t \in Bytes PROVE SentencesFor(t)'
    <3>1. SentencesFor(t) /\ Sentences[Line \o t] = Sentences[Line' \o t]
      BY <1>2 DEF SentInv, SameFuture
    <3> QED BY <1>1, <1>2, <3>1 DEF SentencesFor
  <2> QED BY <1>2, <2>1 DEF SentInv
<1>3. ASSUME NEW s, Takes(s) PROVE SentInv'
  <2>1. s \in Bytes /\ packets' = Append(packets, s) /\ (s \in Good \/ Len(s) < NmeaTail)
    BY <1>3 DEF Takes
  <2>2. ASSUME NEW i \in DOMAIN packets'
        PROVE  packets'[i] \in Good \/ Len(packets'[i]) < NmeaTail
    <3>1. /\ DOMAIN packets' = 1..(Len(packets) + 1)
          /\ i \in 1..Len(packets) => packets'[i] = packets[i]
          /\ packets'[Len(packets) + 1] = s
      BY <1>1, <2>1, AppendProperties
    <3>2. CASE i \in 1..Len(packets)
      BY <1>1, <3>1, <3>2 DEF SentInv
    <3>3. CASE i \notin 1..Len(packets)
      <4>1. i = Len(packets) + 1
        BY <1>1, <2>2, <3>1, <3>3
      <4> QED BY <2>1, <3>1, <4>1
    <3> QED BY <3>2, <3>3
  <2>3. PICK x : x = <<s>>
    OBVIOUS
  <2>4. x \in Seq(Bytes) /\ AmongBoth(Bytes, Good, packets, x)
    <3>1. x \in Seq(Bytes)
      BY <2>1, <2>3
    <3> QED BY <1>1, <3>1, AmongJoin, Zenon
  <2>5. PICK P \in Seq(Bytes) : P = Among(packets, Good)
    BY <2>4 DEF AmongBoth
  <2>6. Among(packets', Good) = P \o Among(x, Good)
    <3>1. packets' = packets \o x
      BY <1>1, <2>1, <2>3, AppendIsConcat
    <3>2. Among(packets \o x, Good) = Among(packets, Good) \o Among(x, Good)
      BY <2>4 DEF AmongBoth
    <3> QED BY <2>5, <3>1, <3>2
  <2>7. Among(x, Good) = IF s \in Good THEN <<s>> ELSE <<>>
    BY <2>1, <2>3, AmongFew
  <2>8. ASSUME NEW t \in Bytes PROVE SentencesFor(t)'
    <3>1. SentencesFor(t)
      BY DEF SentInv
    <3>2. CASE s \in Good
      <4>1. Sentences[Line \o t] = <<s>> \o Sentences[Line' \o t]
        BY <1>3, <3>2 DEF Takes
      <4>2. PICK F \in Seq(Bytes) : F = Sentences[Line' \o t]
        <5>1. Line' \in Bytes
          <6>1. (NmeaIInv => Line \in Bytes)'
            BY LineBytes, PTL
          <6> QED BY <6>1
        <5>2. Line' \o t \in Bytes
          BY <5>1, ByteJoins, Zenon
        <5> QED BY <5>2, SentencesAre DEF Bytes
      <4>3. (P \o x) \o F = P \o (x \o F)
        BY <2>4, ConcatAssociative
      <4>4. Among(packets', Good) = P \o x
        BY <2>3, <2>6, <2>7, <3>2
      <4> QED BY <1>1, <2>3, <2>5, <3>1, <4>1, <4>2, <4>3, <4>4 DEF SentencesFor
    <3>3. CASE s \notin Good
      <4>1. Sentences[Line \o t] = Sentences[Line' \o t]
        BY <1>3, <3>3 DEF Takes, SameFuture
      <4>2. Among(packets', Good) = P
        <5>1. P \o <<>> = P
          BY ConcatEmptySeq
        <5> QED BY <2>6, <2>7, <3>3, <5>1
      <4> QED BY <1>1, <2>5, <3>1, <4>1, <4>2 DEF SentencesFor
    <3> QED BY <3>2, <3>3
  <2> QED BY <2>2, <2>8 DEF SentInv
<1> QED BY <1>2, <1>3 DEF Moved

\* A chunk is some of what follows on the stream.
LEMMA SentencesFed ==
  ASSUME NmeaIInv, SentInv, NEW c, Fed(c)
  PROVE  SentInv'
<1>1. ASSUME NEW t \in Bytes PROVE SentencesFor(t)'
  <2>1. PICK e, f, d, u \in Bytes : e = Line /\ f = fed /\ d = c /\ u = d \o t
    <3>1. PICK e, f, d \in Bytes : e = Line /\ f = fed /\ d = c
      BY NmeaView DEF NmeaIInv, NmeaState, Fed
    <3>2. d \o t \in Bytes
      BY ByteJoins, Zenon
    <3> QED BY <3>1, <3>2
  <2>2. (e \o d) \o t = e \o (d \o t) /\ (f \o d) \o t = f \o (d \o t)
    <3>1. Assoc(e, d, t) /\ Assoc(f, d, t)
      BY Regroups, Zenon
    <3> QED BY <3>1 DEF Assoc
  <2>3. SentencesFor(u)
    BY DEF SentInv
  <2> QED BY <2>1, <2>2, <2>3 DEF SentencesFor, Fed
<1> QED BY <1>1 DEF SentInv, Fed

\* Between two writes the bytes that are kept are no sentence yet.
LEMMA NoSentenceYet ==
  ASSUME NmeaIInv
  PROVE  Sentences[Pend] = <<>>
<1>1. PICK w \in Seq(Byte) : w = Pend /\ w = Begin(packet, Kept) /\ Len(w) = Kept
  BY NmeaView DEF Bytes
<1>2. CASE state = "BEFORE"
  <2>1. w = <<>>
    BY <1>1, <1>2, NmeaKept DEF NmeaIInv
  <2>2. Sentences[w] = SentenceBody(w, Sentences)
    BY SentencesAre
  <2> QED BY <1>1, <2>1, <2>2 DEF SentenceBody
<1>3. CASE state = "CR"
  <2>1. PICK n \in Nat : n = Kept /\ HasLine(packet, n) /\ n \in 1..(NmeaCapacity - 2)
    BY <1>3, NmeaKept DEF NmeaIInv, NmeaState, HasLine
  <2>2. \A i \in 1..n : w[i] = packet[i - 1] /\ i - 1 \in 0..(n - 1)
    BY <1>1, <2>1 DEF Begin
  <2>3. IsPayload(w, n)
    <3>1. \A i \in 1..n : w[i] # CR
      BY <2>1, <2>2 DEF HasLine
    <3> QED BY <1>1, <2>1, <3>1 DEF IsPayload
  <2>4. w # <<>> /\ w[1] = Dollar
    <3>1. 1 \in 1..n /\ 1 - 1 = 0
      BY <2>1
    <3> QED BY <1>1, <2>1, <2>2, <3>1 DEF HasLine
  <2>5. n <= NmeaCapacity - 2 /\ Len(w) < n + 2
    BY <1>1, <2>1, NmeaAssumption
  <2> QED BY <1>1, <2>3, <2>4, <2>5, SentencesStop
<1>4. CASE state = "LF"
  <2>1. PICK u \in Seq(Byte) : LineKept(u)
    BY <1>4, LfKeepsLine DEF LineKept, Bytes
  <2>2. PICK c \in Seq(Byte) : c = <<CR>>
    BY Delimiters DEF Bytes
  <2>3. c \o <<>> = c /\ <<>> \in Seq(Byte)
    BY ConcatEmptySeq
  <2>4. IsLine(w, u, <<>>)
    BY <1>1, <2>1, <2>2, <2>3 DEF LineKept, IsLine
  <2>5. NoCr(u) /\ u # <<>> /\ u[1] = Dollar /\ Len(u) <= NmeaCapacity - 2
    BY <2>1 DEF LineKept
  <2>6. LineFacts(w, u, <<>>)
    BY <2>3, <2>4, <2>5, LineIs
  <2>7. PICK n \in Nat : n = Len(u)
    OBVIOUS
  <2>8. IsPayload(w, n) /\ Len(w) = n + 1 /\ w # <<>> /\ w[1] = Dollar
    BY <2>5, <2>6, <2>7 DEF LineFacts
  <2>9. n <= NmeaCapacity - 2 /\ Len(w) < n + 2
    BY <2>5, <2>7, <2>8
  <2> QED BY <1>1, <2>8, <2>9, SentencesStop
<1> QED BY <1>2, <1>3, <1>4 DEF NmeaIInv, NmeaState

\* In the beginning there is nothing.
LEMMA NmeaBegins ==
  ASSUME NmeaInit
  PROVE  NmeaIInv /\ TextInv /\ SentInv
<1>1. /\ state = "BEFORE" /\ packet = [i \in 0..(NmeaCapacity - 1) |-> CHOOSE b \in Byte : TRUE]
      /\ packet_len = 0 /\ input = <<>> /\ frames = <<>>
      /\ fed = <<>> /\ out = <<>> /\ packets = <<>>
  BY DEF NmeaInit, InitWith
<1>2. Dollar \in Byte /\ NmeaCapacity \in Nat
  BY NmeaAssumption
<1>3. packet \in NmeaArray
  <2>1. PICK x : x = CHOOSE b \in Byte : TRUE
    OBVIOUS
  <2>2. x \in Byte
    BY <1>2, <2>1
  <2> QED BY <1>1, <2>1, <2>2 DEF NmeaArray
<1>4. <<>> \in Bytes /\ <<>> \in Seq(Bytes) /\ <<>> \in Seq(Frame) /\ Len(<<>>) = 0
  BY DEF Bytes
<1>5. NmeaIInv
  <2>1. NmeaState
    BY <1>1, <1>2, <1>3, <1>4 DEF NmeaState, Bytes
  <2>2. NmeaCalls(<<>>, Kept)
    BY <1>4 DEF NmeaCalls
  <2> QED BY <1>1, <2>1, <2>2 DEF NmeaIInv
<1>6. Kept = 0 /\ Pend = <<>>
  BY <1>1 DEF Kept, Pend
<1>7. Todo = <<>>
  BY <1>1, <1>2, <1>3, <1>5, NmeaView, NmeaKept, TextParts DEF NmeaIInv, NmeaState
<1>8. Line = <<>> /\ AllText = <<>>
  <2>1. <<>> \o <<>> = <<>>
    BY <1>4, EmptyJoins, Zenon
  <2> QED BY <1>1, <1>6, <1>7, <2>1 DEF Line, AllText
<1>9. TextInv
  <2>1. Len(<<>>) >= Len(<<>>)
    BY <1>4
  <2> QED BY <1>1, <1>8, <2>1 DEF TextInv, SameText
<1>10. SentInv
  <2>1. Among(packets, Good) = <<>>
    BY <1>1, AmongFew
  <2>2. ASSUME NEW t \in Bytes PROVE SentencesFor(t)
    <3>1. PICK F \in Seq(Seq(Byte)) : F = Sentences[t]
      BY SentencesAre DEF Bytes
    <3>2. <<>> \o F = F
      BY ConcatEmptySeq
    <3>3. <<>> \o t = t
      BY EmptyJoins, Zenon
    <3> QED BY <1>1, <1>8, <2>1, <3>1, <3>2, <3>3 DEF SentencesFor
  <2> QED BY <1>1, <2>2 DEF SentInv
<1> QED BY <1>5, <1>9, <1>10

\* The recognizer for NMEA keeps its array, its calls, the text that is left and the
\* sentences found as they have to be, whatever the stream and the size of the array.
THEOREM NmeaInvariance == NmeaSpec => [](NmeaIInv /\ TextInv /\ SentInv)
<1>1. NmeaInit => NmeaIInv /\ TextInv /\ SentInv
  BY NmeaBegins
<1>2. NmeaIInv /\ TextInv /\ SentInv /\ [Feed \/ NmeaStep]_vars
        => (NmeaIInv /\ TextInv /\ SentInv)'
  <2> SUFFICES ASSUME NmeaIInv, TextInv, SentInv, [Feed \/ NmeaStep]_vars
               PROVE  (NmeaIInv /\ TextInv /\ SentInv)'
    OBVIOUS
  <2>1. CASE Feed
    <3>1. NmeaIInv' /\ \E c : Fed(c)
      BY <2>1, NmeaFeedStep
    <3> QED BY <3>1, TextFed, SentencesFed
  <2>2. CASE NmeaStep
    <3>1. NmeaIInv' /\ Moved
      BY <2>2, NmeaStepKeeps
    <3>2. TextInv'
      BY <3>1, TextStays DEF Moved
    <3>3. SentInv'
      BY <3>1, SentencesStay
    <3> QED BY <3>1, <3>2, <3>3
  <2>3. CASE UNCHANGED vars
    <3>1. /\ state' = state /\ packet' = packet /\ packet_len' = packet_len /\ input' = input
          /\ frames' = frames /\ fed' = fed /\ out' = out /\ packets' = packets
      BY <2>3 DEF vars
    <3>2. Kept' = Kept /\ Todo' = Todo
      BY <3>1 DEF Kept, Todo, Read
    <3>3. Pend' = Pend
      BY <3>1, <3>2 DEF Pend
    <3>4. Line' = Line
      BY <3>2, <3>3 DEF Line
    <3>5. NmeaIInv'
      BY <3>1, <3>2 DEF NmeaIInv, NmeaState, HasLine, NmeaArray, NmeaCalls, InReach
    <3>6. AllText' = AllText /\ Moved
      BY <3>1, <3>4 DEF AllText, Moved, SameFuture
    <3>7. TextInv' /\ SentInv'
      BY <3>1, <3>5, <3>6, TextStays, SentencesStay
    <3> QED BY <3>5, <3>7
  <2> QED BY <2>1, <2>2, <2>3
<1> QED BY <1>1, <1>2, PTL DEF NmeaSpec

\* Its array and buffers hold bytes, and nothing runs over the end of the array, whatever
\* its size.
THEOREM NmeaTypeCorrect == NmeaSpec => []TypeOK
<1>1. NmeaIInv /\ TextInv /\ SentInv => TypeOK
  <2> SUFFICES ASSUME NmeaIInv PROVE TypeOK
    OBVIOUS
  <2>1. packet \in [0..(NmeaCapacity - 1) -> Byte] /\ packet_len \in 0..NmeaCapacity
    BY DEF NmeaIInv, NmeaState, NmeaArray
  <2>2. \A i \in DOMAIN packet : i \in Nat /\ packet[i] \in Byte
    BY <2>1
  <2>3. packet_len = 0 \/ packet_len - 1 \in DOMAIN packet
    BY <2>1, NmeaAssumption
  <2>4. frames \in Seq(Frame)
    BY DEF NmeaIInv, NmeaCalls
  <2> QED BY <2>2, <2>3, <2>4 DEF NmeaIInv, NmeaState, Bytes, TypeOK, States
<1> QED BY <1>1, NmeaInvariance, PTL

\* Nothing of the stream is lost or reordered, and nothing but line feeds is doubled,
\* although the code looks at the bytes of bad sentences again in the array it writes to.
THEOREM NmeaDoublesLineFeedsOnly == NmeaSpec => []OnlyLineFeedsDoubled
<1>1. NmeaIInv /\ TextInv /\ SentInv => OnlyLineFeedsDoubled
  <2> SUFFICES ASSUME NmeaIInv, TextInv PROVE OnlyLineFeedsDoubled
    OBVIOUS
  <2>1. out \o Pend \o Todo = AllText
    <3>1. PICK o, p, y \in Bytes : o = out /\ p = Pend /\ y = Todo
      BY NmeaView
    <3>2. (o \o p) \o y = o \o (p \o y)
      <4>1. Assoc(o, p, y)
        BY Regroups, Zenon
      <4> QED BY <4>1 DEF Assoc
    <3> QED BY <3>1, <3>2 DEF AllText, Line
  <2> QED BY <2>1 DEF TextInv, SameText, OtherThanLf, OnlyLineFeedsDoubled
<1> QED BY <1>1, NmeaInvariance, PTL

\* The good sentences passed on are those that the stream contains, however it is cut into
\* writes.
THEOREM SentencesAreFound == NmeaSpec => []FindsTheSentences
<1>1. NmeaIInv /\ TextInv /\ SentInv => FindsTheSentences
  <2> SUFFICES ASSUME NmeaIInv, SentInv, frames = <<>>
               PROVE  /\ Among(packets, Good) = Sentences[fed]
                      /\ \A i \in DOMAIN packets : packets[i] \in Good \/ Len(packets[i]) < NmeaTail
    BY DEF FindsTheSentences
  <2>1. PICK e \in Bytes : e = <<>>
    <3>1. <<>> \in Bytes
      BY DEF Bytes
    <3> QED BY <3>1
  <2>2. SentencesFor(e)
    BY DEF SentInv
  <2>3. Todo = <<>>
    <3>1. packet \in NmeaArray /\ input \in Seq(Byte) /\ Kept \in Nat /\ NmeaCalls(frames, Kept)
      BY NmeaKept DEF NmeaIInv, NmeaState
    <3>2. TextOf(frames, packet) = <<>>
      BY <3>1, TextParts
    <3> QED BY <3>2, NmeaView
  <2>4. PICK p, f \in Bytes : p = Pend /\ f = fed
    BY NmeaView DEF NmeaIInv, NmeaState
  <2>5. p \o <<>> = p /\ f \o <<>> = f
    BY EmptyJoins, Zenon
  <2>6. Line = p /\ Line \o e = p /\ fed \o e = f
    BY <2>1, <2>3, <2>4, <2>5 DEF Line
  <2>7. Sentences[p] = <<>>
    BY <2>4, NoSentenceYet
  <2>8. PICK P \in Seq(Bytes) : P = Among(packets, Good)
    <3>1. packets \in Seq(Bytes) /\ <<>> \in Seq(Bytes)
      BY DEF NmeaIInv, NmeaState
    <3>2. AmongBoth(Bytes, Good, packets, <<>>)
      BY <3>1, AmongJoin, Zenon
    <3> QED BY <3>2 DEF AmongBoth
  <2>9. P \o <<>> = P
    BY ConcatEmptySeq
  <2>10. Among(packets, Good) = Sentences[fed]
    BY <2>2, <2>4, <2>6, <2>7, <2>8, <2>9 DEF SentencesFor
  <2> QED BY <2>10 DEF SentInv
<1> QED BY <1>1, NmeaInvariance, PTL
=============================================================================
