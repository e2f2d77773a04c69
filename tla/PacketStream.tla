---------------------------- MODULE PacketStream ----------------------------
(***************************************************************************)
(* What the receive path promises: however the network cuts the stream of  *)
(* a peer into pieces, OnRecvPacket is called for its packets one after    *)
(* the other, each exactly once, from its first byte to its last, and not  *)
(* before the last one has arrived.                                        *)
(*                                                                         *)
(* The sizes are what the peer's headers say, which nobody checks.  A size *)
(* below that of a header makes the next packet begin inside the header.   *)
(* After a packet of size 0 comes none: its call is repeated for ever, and *)
(* the repetitions are not told apart here.                                *)
(***************************************************************************)
EXTENDS Integers, Sequences

CONSTANTS Sessions,
          HEADER, \* sizeof(PacketHeader)
          COUNT   \* the packets of a peer

VARIABLES
  cut,      \* packet k of session s is the bytes cut[s][k-1] + 1 .. cut[s][k]
  received, \* per session: the bytes that have arrived
  given     \* per session: first byte and size of each call of OnRecvPacket

vars == <<cut, received, given>>

Size(s, k) == cut[s][k] - cut[s][k - 1]

\* A peer sends its packets, and the header of the last one whatever that says.
Sends(s, n) == n <= cut[s][COUNT] \/ n <= cut[s][COUNT - 1] + HEADER

\* Packet k is there, with the header that says how long it is.
Whole(s, k) ==
  /\ k = 1 \/ Size(s, k - 1) # 0
  /\ cut[s][k] <= received[s] /\ cut[s][k - 1] + HEADER <= received[s]

Init == /\ received = [s \in Sessions |-> 0]
        /\ given = [s \in Sessions |-> <<>>]

Arrive(s) ==
  /\ \E n \in received[s] + 1 .. cut[s][COUNT] + HEADER :
       /\ Sends(s, n)
       /\ received' = [received EXCEPT ![s] = n]
  /\ UNCHANGED <<cut, given>>

OnRecvPacket(s) ==
  LET k == Len(given[s]) + 1 IN
    /\ k <= COUNT /\ Whole(s, k)
    /\ given' = [given EXCEPT ![s] = Append(@, <<cut[s][k - 1] + 1, Size(s, k)>>)]
    /\ UNCHANGED <<cut, received>>

Next == \E s \in Sessions : Arrive(s) \/ OnRecvPacket(s)

Spec == Init /\ [][Next]_vars

-----------------------------------------------------------------------------
\* The same promise, said of states: the k-th call of OnRecvPacket is for packet k of
\* the stream, all of which has arrived, and there is none after a packet of size 0.
Promise ==
  \A s \in Sessions :
    /\ Len(given[s]) <= COUNT
    /\ \A k \in 1..Len(given[s]) :
         given[s][k] = <<cut[s][k - 1] + 1, Size(s, k)>> /\ Whole(s, k)
=============================================================================
