SPECIFICATION FairStopSpec
CONSTANTS
  Sessions = {s1}
  Workers = {w1}
  GameThread = game
  AcceptThread = accept
  NoSession = NoSession
  MaxPackets = 1
  MaxSends = 2
  Handlers = {h1}
  Main = main
  NoThread = NoThread
INVARIANTS
  StopTypeOK
  RegistrySafe
  KernelSafe
  PacketsFindPlayer
  DisconnectOnceStopping
PROPERTIES
  BroadcastCloses
  ImplementsLife
  ThreadsEnd
