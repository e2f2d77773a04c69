\* Two sessions, two workers; a packet may be a bare header, fill the buffer or
\* exceed it.
CONSTANTS
  s1 = s1
  s2 = s2
  Sessions = {s1, s2}
  Workers = {w1, w2}
  None = None
  Capacity = 5
  HEADER = 2
  BATCH = 2
  COUNT = 2
  Cuts <- MCCuts
SPECIFICATION FairSpec
CHECK_DEADLOCK FALSE
INVARIANTS
  OneReceive
  CompletionsAnnounced
  StreamKept
  RoomForPacket
PROPERTIES
  ImplementsPacketStream
  EveryPacketHandled
  ZeroBytesCloses
