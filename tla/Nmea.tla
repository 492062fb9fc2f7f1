-------------------------------- MODULE Nmea --------------------------------
(***************************************************************************)
(* The NMEA recognizer, NMEA::write (src/src/filters/nmea.h).  A sentence  *)
(* begins with '$' and ends with a carriage return and a line feed; it has *)
(* no length field, so a start byte may be given up because the array is   *)
(* too small, too.                                                         *)
(***************************************************************************)
EXTENDS Recognizer

CONSTANTS
  Dollar, CR, LF,   \* '$', 0x0D, 0x0A
  NmeaCapacity,     \* size of the array, 1024
  NmeaTail          \* bytes valid_checksum looks back from the end, 5

ASSUME NmeaAssumption ==
  /\ {Dollar, CR, LF} \subseteq Byte /\ Dollar # CR /\ Dollar # LF /\ CR # LF
  /\ NmeaCapacity \in Nat /\ NmeaCapacity > 2
  /\ NmeaTail \in Nat
  /\ \A s \in Good : Len(s) >= NmeaTail

NmeaNoStart == NoStart(Dollar)
NmeaStart == Start(Dollar, "CR", 1)

\* l bytes of the buffer come before the first carriage return, if there is one.
Before(l) ==
  /\ l \in 0..Top.len
  /\ \A i \in 1..l : Unread[i] # CR
  /\ l < Top.len => Unread[l + 1] = CR

\* Mutant of TooLong: room for one byte only.
MutTooLongOne(l) == l > 0 /\ packet_len + l > NmeaCapacity - 1

\* Room for two more bytes is kept; the check is skipped when there is nothing to add.
TooLong(l) == l > 0 /\ packet_len + l > NmeaCapacity - 2

NmeaMore ==
  /\ Running("CR") /\ Before(Top.len) /\ ~TooLong(Top.len)
  /\ packet' = Copied(Top.len)
  /\ packet_len' = packet_len + Top.len
  /\ frames' = Consume(Top.len)
  /\ UNCHANGED <<state, input, fed, out, packets>>

NmeaCr ==
  /\ Running("CR")
  /\ \E l \in 0..(Top.len - 1) :
       /\ Before(l) /\ ~TooLong(l)
       /\ packet' = [Copied(l) EXCEPT ![packet_len + l] = CR]
       /\ packet_len' = packet_len + l + 1
       /\ frames' = Consume(l + 1)
  /\ state' = "LF"
  /\ UNCHANGED <<input, fed, out, packets>>

\* The start byte goes to rest, the kept bytes behind it are written again; the
\* buffer is not consumed.
NmeaTooLong ==
  /\ Running("CR")
  /\ \E l \in 1..Top.len : Before(l) /\ TooLong(l)
  /\ out' = Append(out, packet[0])
  /\ state' = "BEFORE"
  /\ frames' = Nested(1, packet_len - 1, frames)
  /\ UNCHANGED <<packet, packet_len, input, fed, packets>>

Sentence(n) == [i \in 1..n |-> IF i > packet_len THEN LF ELSE packet[i - 1]]

\* The line feed is put into the packet, but stays in the buffer as well.
Ended ==
  /\ Running("LF") /\ Unread[1] = LF
  /\ packet' = [packet EXCEPT ![packet_len] = LF]
  /\ packet_len' = packet_len + 1
  /\ state' = "BEFORE"
  /\ UNCHANGED <<input, fed>>

\* valid_checksum reads in front of the array when the sentence is too short, and
\* what it finds there decides.
NmeaGood ==
  LET s == Sentence(packet_len + 1) IN
  /\ Ended
  /\ s \in Good \/ Len(s) < NmeaTail
  /\ out' = out \o s
  /\ packets' = Append(packets, s)
  /\ UNCHANGED frames

\* A bad sentence: d bytes of it go to rest, those from position p on are written again.
Rejected(d, p) ==
  LET s == Sentence(packet_len + 1) IN
  /\ Ended
  /\ s \notin Good
  /\ out' = out \o SubSeq(s, 1, d)
  /\ frames' = Nested(p, packet_len + 1 - p, frames)
  /\ UNCHANGED packets

\* Mutant of NmeaBad: all of the sentence goes to rest.
MutNmeaBadWhole == Rejected(packet_len + 1, packet_len + 1)

NmeaBad == Rejected(1, 1)

\* Mutant of NmeaNoLf: the bytes before it are forgotten.
MutNmeaNoLfDrops ==
  /\ Running("LF") /\ Unread[1] # LF
  /\ state' = "BEFORE"
  /\ UNCHANGED <<packet, packet_len, input, frames, fed, out, packets>>

\* Another byte follows the carriage return: everything before it goes to rest.
NmeaNoLf ==
  /\ Running("LF") /\ Unread[1] # LF
  /\ out' = out \o Sentence(packet_len)
  /\ state' = "BEFORE"
  /\ UNCHANGED <<packet, packet_len, input, frames, fed, packets>>

NmeaStep ==
  \/ NmeaNoStart \/ NmeaStart \/ NmeaMore \/ NmeaCr \/ NmeaTooLong
  \/ NmeaGood \/ NmeaBad \/ NmeaNoLf

NmeaInit == InitWith(NmeaCapacity)
NmeaSpec == NmeaInit /\ [][Feed \/ NmeaStep]_vars /\ WF_vars(NmeaStep)
-----------------------------------------------------------------------------
(* Properties. *)

\* What of a sequence is in S.
Among(s, S) ==
  LET Of[i \in 0..Len(s)] ==
        IF i = 0 THEN <<>> ELSE IF s[i] \in S THEN Append(Of[i - 1], s[i]) ELSE Of[i - 1]
  IN Of[Len(s)]

\* Bytes passed on, kept and not looked at yet are those of the stream, in its order,
\* but for line feeds, which the code passes on more than once.
OnlyLineFeedsDoubled ==
  LET all == out \o Pend \o Todo IN
  /\ Among(all, Byte \ {LF}) = Among(fed, Byte \ {LF})
  /\ Len(all) >= Len(fed)

\* How many bytes come before the first carriage return, or in all.
Payload(s) ==
  CHOOSE n \in 0..Len(s) : (\A i \in 1..n : s[i] # CR) /\ (n < Len(s) => s[n + 1] = CR)

\* The sentences a stream contains, said of the whole stream: at each '$' either a good
\* one starts, and the search goes on behind it; or the bytes up to a carriage return
\* without a line feed are skipped; or the '$'.  An incomplete one ends the search.
Sentences ==
  LET Of[s \in Seq(Byte)] ==
        IF s = <<>> THEN <<>>
        ELSE LET n == Payload(s)
                 x == SubSeq(s, 1, n + 2)
             IN IF s[1] # Dollar \/ n > NmeaCapacity - 2 THEN Of[Tail(s)]
                ELSE IF Len(s) < n + 2 THEN <<>>
                ELSE IF s[n + 2] # LF THEN Of[SubSeq(s, n + 2, Len(s))]
                ELSE IF x \in Good THEN <<x>> \o Of[SubSeq(s, n + 3, Len(s))]
                ELSE Of[Tail(s)]
  IN Of

\* However the stream is cut into writes, and although the code looks at line feeds
\* twice, the good sentences passed on are those of the stream; others are too short to
\* have a checksum.
FindsTheSentences ==
  frames = <<>> =>
    /\ Among(packets, Good) = Sentences[fed]
    /\ \A i \in DOMAIN packets : packets[i] \in Good \/ Len(packets[i]) < NmeaTail

=============================================================================
