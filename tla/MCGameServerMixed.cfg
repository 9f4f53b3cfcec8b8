SPECIFICATION Spec
CONSTANTS
  Sessions = {s1, s2, s3}
  RoomIds = {0, 101}
  NameLengths = {8, 2036}
  NoRoom = NoRoom
  GAME_ROOM_CAPACITY = 2
  FirstGameRoomId = 100
  RoomIdModulus = 65536
  MaxGameRooms = 2
  MixesRooms = TRUE
SYMMETRY Symmetry
CHECK_DEADLOCK FALSE
INVARIANTS
  TypeOK
  MembershipAgrees
  StateAgrees
  StartFollowsRoomState
  SpawnsApart
PROPERTIES
  AutoJoinSucceeds
  ChatRoomStays
