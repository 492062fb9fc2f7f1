---------------------------- MODULE Recognizer ----------------------------
(***************************************************************************)
(* What the packet recognizers of src/src/filters have in common.  Each is *)
(* a write(buf, len) that assembles a packet in an array of its own.  A    *)
(* bad packet is looked at again by a nested call of write that reads from *)
(* the very array it assembles packets in; the array and the stack of      *)
(* those calls are modelled as they are, so that overwriting unread bytes  *)
(* would show.  One action of a recognizer is one iteration of the loop of *)
(* the innermost call.                                                     *)
(***************************************************************************)
EXTENDS Integers, SequencesExt

CONSTANTS
  Byte,      \* the values of a byte
  Good,      \* packets for which valid_checksum() holds
  MaxFed     \* bound: length of the whole stream

VARIABLES
  state,       \* the state of the automaton
  packet,      \* the array, indexed from 0
  packet_len,  \* bytes of the packet in it (stale in BEFORE, LEN and PREAMBLE)
  input,       \* the buffer of the outermost write
  frames,      \* active calls of write, innermost first: source, ptr, len
  fed, out, packets   \* history: bytes written, bytes passed on, packets passed to next

vars == <<state, packet, packet_len, input, frames, fed, out, packets>>

States == {"BEFORE", "LEN", "PREAMBLE", "HEADER", "LOAD", "CR", "LF"}
Frame == [src : {"input", "packet"}, ptr : Nat, len : Nat]

\* The array and the buffers hold bytes; nothing runs over the end of the array.
TypeOK ==
  /\ state \in States
  /\ \A i \in DOMAIN packet : i \in Nat /\ packet[i] \in Byte
  /\ packet_len = 0 \/ packet_len - 1 \in DOMAIN packet
  /\ input \in Seq(Byte)
  /\ frames \in Seq(Frame)
  /\ fed \in Seq(Byte) /\ out \in Seq(Byte) /\ packets \in Seq(Seq(Byte))

\* A recognizer with an array of this size; what is in it does not matter.
InitWith(capacity) ==
  /\ state = "BEFORE"
  /\ packet = [i \in 0..(capacity - 1) |-> CHOOSE b \in Byte : TRUE]
  /\ packet_len = 0
  /\ input = <<>> /\ frames = <<>>
  /\ fed = <<>> /\ out = <<>> /\ packets = <<>>

\* The first n bytes of the array.
Header(n) == [i \in 0..(n - 1) |-> packet[i]]

\* The source calls write with a buffer.
Feed ==
  /\ frames = <<>>
  /\ \E n \in 1..(MaxFed - Len(fed)) : \E chunk \in [1..n -> Byte] :
       /\ input' = chunk
       /\ fed' = fed \o chunk
       /\ frames' = <<[src |-> "input", ptr |-> 0, len |-> n]>>
  /\ UNCHANGED <<state, packet, packet_len, out, packets>>

-----------------------------------------------------------------------------
(* The innermost call of write. *)

\* The n bytes at position p of a source.
Read(src, p, n) ==
  [i \in 1..n |-> IF src = "input" THEN input[p + i] ELSE packet[p + i - 1]]

Top == frames[1]
Unread == Read(Top.src, Top.ptr, Top.len)
Running(s) == frames # <<>> /\ state = s

\* ptr += n, len -= n, and the call returns when nothing is left.
Consume(n) ==
  IF Top.len = n THEN Tail(frames)
  ELSE <<[Top EXCEPT !.ptr = @ + n, !.len = @ - n]>> \o Tail(frames)

\* A nested write of n bytes of the array from position p on, before the
\* call that makes it goes on as rest says.
Nested(p, n, rest) ==
  (IF n = 0 THEN <<>> ELSE <<[src |-> "packet", ptr |-> p, len |-> n]>>) \o rest

\* memchr found no start byte: everything goes to rest.
NoStart(first) ==
  /\ Running("BEFORE")
  /\ \A i \in 1..Top.len : Unread[i] # first
  /\ out' = out \o Unread
  /\ frames' = Consume(Top.len)
  /\ UNCHANGED <<state, packet, packet_len, input, fed, packets>>

\* The start byte was found after l other bytes, which go to rest; n bytes are
\* consumed with it.
Found(first, l, n, next, len) ==
  /\ Running("BEFORE")
  /\ Unread[l + 1] = first
  /\ \A i \in 1..l : Unread[i] # first
  /\ out' = out \o SubSeq(Unread, 1, l)
  /\ frames' = Consume(l + n)
  /\ packet' = [packet EXCEPT ![0] = first]
  /\ packet_len' = len
  /\ state' = next
  /\ UNCHANGED <<input, fed, packets>>

Start(first, next, len) ==
  Running("BEFORE") /\ \E l \in 0..(Top.len - 1) : Found(first, l, 1, next, len)

\* min(size - packet_len, len), and the array after the memmove of so many bytes.
CopyLen(size) == IF Top.len < size - packet_len THEN Top.len ELSE size - packet_len
Copied(n) ==
  [i \in DOMAIN packet |->
     IF packet_len <= i /\ i < packet_len + n THEN Unread[i - packet_len + 1] ELSE packet[i]]

\* Bytes are added to the packet until it has the given size.
Copy(size, next) ==
  /\ packet' = Copied(CopyLen(size))
  /\ packet_len' = packet_len + CopyLen(size)
  /\ frames' = Consume(CopyLen(size))
  /\ state' = IF packet_len' = size THEN next ELSE state
  /\ UNCHANGED <<input, fed, out, packets>>

-----------------------------------------------------------------------------
(* The LOAD state of the binary protocols, for packets of the given size. *)

Complete(size) == Running("LOAD") /\ Top.len >= size - packet_len
Whole(size) == [i \in 1..size |-> Copied(size - packet_len)[i - 1]]

LoadMore(size) ==
  /\ Running("LOAD") /\ Top.len < size - packet_len
  /\ Copy(size, "LOAD")

LoadGood(size) ==
  /\ Complete(size) /\ Whole(size) \in Good
  /\ packet' = Copied(size - packet_len)
  /\ packet_len' = size
  /\ state' = "BEFORE"
  /\ frames' = Consume(size - packet_len)
  /\ out' = out \o Whole(size)
  /\ packets' = Append(packets, Whole(size))
  /\ UNCHANGED <<input, fed>>

\* A bad checksum: d bytes of the packet go to rest, and n bytes of the array from
\* position p on are written again.
LoadBad(size, d, p, n) ==
  /\ Complete(size) /\ Whole(size) \notin Good
  /\ packet' = Copied(size - packet_len)
  /\ packet_len' = size
  /\ state' = "BEFORE"
  /\ frames' = Nested(p, n, Consume(size - packet_len))
  /\ out' = out \o SubSeq(Whole(size), 1, d)
  /\ UNCHANGED <<input, fed, packets>>

-----------------------------------------------------------------------------
(* Properties. *)

\* The bytes of the packet array that are in use.
Kept ==
  CASE state = "BEFORE"              -> 0
    [] state \in {"LEN", "PREAMBLE"} -> 1
    [] OTHER                         -> packet_len

\* Kept bytes, and the unread bytes of all calls.
Pend == [i \in 1..Kept |-> packet[i - 1]]
Todo == FlattenSeq([i \in 1..Len(frames) |-> Read(frames[i].src, frames[i].ptr, frames[i].len)])

\* A nested call reads the array ahead of where packets are assembled in it, and
\* an inner call reads before an outer one: nothing unread is overwritten.
ReadsAhead ==
  /\ \A i \in 1..Len(frames) :
       frames[i].src = "packet" =>
         /\ Kept < frames[i].ptr
         /\ \A j \in 0..(frames[i].len - 1) : frames[i].ptr + j \in DOMAIN packet
  /\ \A i, j \in 1..Len(frames) :
       i < j /\ frames[j].src = "packet" =>
         frames[i].src = "packet" /\ frames[i].ptr + frames[i].len <= frames[j].ptr

\* Every call of write returns: re-scanning rejected bytes always ends.
WriteReturns == []<>(frames = <<>>)
=============================================================================
