SPECIFICATION ExitSpec
CONSTANTS
  Sessions = {s1}
  Workers = {w1}
  GameThread = game
  AcceptThread = accept
  NoSession = NoSession
  MaxPackets = 1
  MaxSends = 2
  Handlers = {h1}
  Main = main
  NoThread = NoThread
CHECK_DEADLOCK FALSE
INVARIANT EndsInOrder
