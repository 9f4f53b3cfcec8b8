SPECIFICATION ReuseSpec
CONSTANTS
  Sessions = {s1}
  Workers = {w1, w2}
  GameThread = game
  AcceptThread = accept
  NoSession = NoSession
  MaxPackets = 1
  MaxSends = 1
  MaxReuses = 1
SYMMETRY Symmetry
PROPERTY NeverDeletesConnected
