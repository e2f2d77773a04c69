CONSTANTS
  Threads = {t1, t2}
  None = None
  Chunks = {c1, c2, c3}
  Packets = {p1, p2, p3}
  CHUNK = 3
  SIZES = {1, 2, 4}
SYMMETRY Symmetric
SPECIFICATION Spec
\* The program ends when a packet is refused.
CHECK_DEADLOCK FALSE
INVARIANTS
  PacketsDisjoint
  ChunkInOnePlace
  PacketInOnePlace
  RefusedWithReason
