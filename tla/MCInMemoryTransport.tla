------------------------- MODULE MCInMemoryTransport -------------------------
(* Instances of InMemoryTransport for TLC: one thread publishes to a channel *)
(* of its own, before and after it publishes to one which another thread may *)
(* open at the same time, so either channel may come first in the table. A   *)
(* polling subscription matches both channels, a callback one only "own".    *)
EXTENDS InMemoryTransport, TLC

CONSTANTS m1, m2, m3, m4, both, own, p1, p2, poll, back

MCMessages == {m1, m2, m3, m4}
MCNames == {both, own}
MCChannelOf == [m \in MCMessages |-> IF m \in {m1, m4} THEN both ELSE own]
MCProgram == [p \in {p1, p2} |-> IF p = p1 THEN <<m2, m1, m3>> ELSE <<m4>>]
MCPattern == [s \in {poll, back} |-> IF s = poll THEN {both, own} ELSE {own}]
================================================================================
