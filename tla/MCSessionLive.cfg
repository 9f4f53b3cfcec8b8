SPECIFICATION FairSpec
CONSTANTS
  Sessions = {s1}
  Workers = {w1, w2, w3}
  GameThread = game
  AcceptThread = accept
  NoSession = NoSession
  MaxPackets = 2
  MaxSends = 2
PROPERTY ClosedIsFreed
