----------------------------- MODULE MCReceive -----------------------------
(* A small instance of Receive for TLC. *)
EXTENDS Receive

CONSTANTS s1, s2

Cut(a, b) == [k \in 0 .. 2 |-> CASE k = 0 -> 0 [] k = 1 -> a [] k = 2 -> a + b]

\* s1: a bare header before a packet that exceeds the buffer of five cells, or
\* one that does not align with it before one that fills it.  s2: two bare
\* headers, or a packet that says less than a header before one that says 0.
MCCuts == [s \in {s1, s2} |->
  IF s = s1 THEN {Cut(2, 6), Cut(3, 5)} ELSE {Cut(2, 2), Cut(1, 0)}]
=============================================================================
