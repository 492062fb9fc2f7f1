---- MODULE MCNmea ----
(* The NMEA recognizer on short streams of four bytes: '$', CR, LF and any other.  The
   array has six bytes; a sentence ends with '*' (the other byte), one checksum byte,
   CR and LF.                                                                        *)
EXTENDS Nmea

MCByte == 0..3
Other == 3

\* The checksum of a sentence is '$' or the other byte, by the length of its payload.
MCGood ==
  {s \in UNION {[1..n -> MCByte] : n \in 5..6} :
     /\ s[1] = Dollar
     /\ \A i \in 1..(Len(s) - 2) : s[i] # CR
     /\ s[Len(s) - 3] = Other
     /\ s[Len(s) - 2] = IF Len(s) = 5 THEN Other ELSE Dollar
     /\ s[Len(s) - 1] = CR /\ s[Len(s)] = LF}
====
