SPECIFICATION FairSpec
CONSTANTS
  Nicknames = {9, 4093}
  Texts = {1, 4092, 4093}
  PeerNames = {1, 4083, 4084}
  Crowds = {1, 17}
  MaxChats = 2
  MaxNews = 2
INVARIANTS
  TypeOK
  ChatsAreShown
  PacketsAreAccepted
  OneLineLate
PROPERTY ClientEnds
