--------------------------- MODULE MCPacketBuffers ---------------------------
(***************************************************************************)
(* The instance of PacketBuffers that TLC checks.                          *)
(***************************************************************************)
EXTENDS PacketBuffers, TLC

\* Chunks and packets are told apart by nothing but identity; threads neither.
Symmetric ==
  Permutations(Threads) \cup Permutations(Chunks) \cup Permutations(Packets)
=============================================================================
