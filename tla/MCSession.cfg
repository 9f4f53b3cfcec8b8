SPECIFICATION Spec
CONSTANTS
  Sessions = {s1, s2}
  Workers = {w1, w2}
  GameThread = game
  AcceptThread = accept
  NoSession = NoSession
  MaxPackets = 1
  MaxSends = 2
SYMMETRY Symmetry
INVARIANTS
  TypeOK
  PendingIOCounts
  KernelSafe
  OneReceiver
  DisconnectOnce
  GameThreadSafe
  NoDoubleFree
  JobOrder
PROPERTY ImplementsLife
