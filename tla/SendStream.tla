----------------------------- MODULE SendStream -----------------------------
(***************************************************************************)
(* What the send path of a session promises its callers: the packets of    *)
(* one thread are transmitted in the order in which it sent them, none     *)
(* twice, and none is left out before one that is transmitted, except in a *)
(* batch that RIO has refused.  Between threads there is no order.         *)
(***************************************************************************)
EXTENDS Naturals, Sequences

CONSTANTS Threads, Packets,
          BULK      \* the packets of a batch

VARIABLES
  sent,     \* per thread: what it has sent, in order
  wire,     \* what has been transmitted, in order
  refused   \* the packets of refused batches

vars == <<sent, wire, refused>>

Elements(s) == {s[i] : i \in 1..Len(s)}

Init == sent = [t \in Threads |-> <<>>] /\ wire = <<>> /\ refused = {}

\* A packet is sent once.
Send(t, p) ==
  /\ \A u \in Threads : p \notin Elements(sent[u])
  /\ sent' = [sent EXCEPT ![t] = Append(@, p)]
  /\ UNCHANGED <<wire, refused>>

\* The packets that come before the n-th of a batch.
Before(batch, n) == Elements(wire) \cup refused \cup {batch[m] : m \in 1..n - 1}

\* Each packet of the batch is the next one of its thread.
InTurn(batch) ==
  \A n \in 1..Len(batch) :
    /\ batch[n] \notin Before(batch, n)
    /\ \E t \in Threads : \E i \in 1..Len(sent[t]) :
         /\ batch[n] = sent[t][i]
         /\ \A j \in 1..i - 1 : sent[t][j] \in Before(batch, n)

Batches == UNION {[1..n -> Packets] : n \in 0..BULK}

Transmit(batch) ==
  /\ InTurn(batch)
  /\ wire' = wire \o batch
  /\ UNCHANGED <<sent, refused>>

Refuse(batch) ==
  /\ InTurn(batch)
  /\ refused' = refused \cup Elements(batch)
  /\ UNCHANGED <<sent, wire>>

Next ==
  \/ \E t \in Threads, p \in Packets : Send(t, p)
  \/ \E batch \in Batches : Transmit(batch) \/ Refuse(batch)

Spec == Init /\ [][Next]_vars

-----------------------------------------------------------------------------
\* The same promise, said of states: what has left was sent, is transmitted or
\* refused but not both, and all its thread sent before it has left; nothing is
\* transmitted twice, and what is transmitted of one thread is in the order in
\* which the thread sent it.
Promise ==
  LET left == Elements(wire) \cup refused IN
    /\ \A e \in left : \E t \in Threads : e \in Elements(sent[t])
    /\ Elements(wire) \cap refused = {}
    /\ \A m, n \in 1..Len(wire) : wire[m] = wire[n] => m = n
    /\ \A t \in Threads : \A k \in 1..Len(sent[t]) : sent[t][k] \in left =>
         \A i \in 1..k - 1 :
           /\ sent[t][i] \in left
           /\ \A m, n \in 1..Len(wire) :
                wire[m] = sent[t][i] /\ wire[n] = sent[t][k] => m < n
=============================================================================
