SPECIFICATION NumbersSpec
CONSTANTS
  Sessions = {s1, s2, s3}
  RoomIds = {0, 101}
  NameLengths = {8, 2036}
  NoRoom = NoRoom
  FreedRoom = FreedRoom
  GAME_ROOM_CAPACITY = 2
  FirstGameRoomId = 100
  RoomIdModulus = 65536
  MaxGameRooms = 2
  MixesRooms = FALSE
SYMMETRY Symmetry
CHECK_DEADLOCK FALSE
PROPERTY NumbersAreNew
