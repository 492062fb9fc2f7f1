--------------------------- MODULE ClientContract ---------------------------
(***************************************************************************)
(* What an endpoint promises the owner of its clients (the table and the   *)
(* classes of src/src/inc/endpoints.h): a client is announced once by      *)
(* on_connect, its data come through on_read while it is open, on_close is *)
(* called at most once, and a client that was destroyed or told is never   *)
(* called again.  Several clients may move in one step of the loop.        *)
(***************************************************************************)
EXTENDS Integers

CONSTANT Client

VARIABLES
  life,   \* "new", "open" after on_connect, "shut" after on_close, "dead" once destroyed
  told,   \* how often on_close was called
  got     \* clients that data were delivered to

vars == <<life, told, got>>

Init ==
  /\ life = [c \in Client |-> "new"]
  /\ told = [c \in Client |-> 0]
  /\ got = {}

Stays(c) == life'[c] = life[c] /\ told'[c] = told[c]
Connects(c) == life[c] = "new" /\ life'[c] = "open" /\ told'[c] = told[c]
IsTold(c) == life[c] = "open" /\ life'[c] \in {"shut", "dead"} /\ told'[c] = told[c] + 1
IsDestroyed(c) == life[c] \in {"new", "open", "shut"} /\ life'[c] = "dead" /\ told'[c] = told[c]

\* Data are delivered to open clients only.
Reads == got \subseteq got' /\ \A c \in got' \ got : life[c] = "open"

Next ==
  /\ \A c \in Client : Stays(c) \/ Connects(c) \/ IsTold(c) \/ IsDestroyed(c)
  /\ Reads

Spec == Init /\ [][Next]_vars
=============================================================================
