-------------------------------- MODULE Wire --------------------------------
(***************************************************************************)
(* The sizes of the messages a client in a room is sent (Room.cpp,         *)
(* Player.cpp, GameServer.cpp's Writer, Session::SendPacket) and what the  *)
(* console client makes of them (client.cpp).  Names and texts are their   *)
(* lengths in bytes; a packet is its id, its size field and, for SC_CHAT,  *)
(* the lengths written in its body.  What a function sends is a sequence,  *)
(* empty if it drops the message.                                          *)
(***************************************************************************)
EXTENDS Integers, SequencesExt

HEADER_SIZE     == 4
MAX_PACKET_SIZE == 4096

U16(n) == n % 65536

ValidSize(size) == HEADER_SIZE <= size /\ size <= MAX_PACKET_SIZE

-----------------------------------------------------------------------------
(* The server.                                                             *)

\* Fault: the size is not tested.
SendPacketAnySize(id, dataSize, content) ==
  <<[id |-> id, size |-> U16(HEADER_SIZE + dataSize), content |-> content]>>

\* Session::SendPacket, whose dataSize is a uint16_t.
SendPacket(id, dataSize, content) ==
  IF ValidSize(HEADER_SIZE + dataSize)
    THEN <<[id |-> id, size |-> HEADER_SIZE + dataSize, content |-> content]>>
    ELSE <<>>

\* The sender's id and the two lengths of an SC_CHAT body, and the name.
Overhead(name) == 4 + 2 + name + 2

\* Player::SendChat
SendChat(name, msg) ==
  IF Overhead(name) + msg + HEADER_SIZE > MAX_PACKET_SIZE
    THEN <<>>
    ELSE SendPacket("SC_CHAT", U16(Overhead(name) + msg),
                    [name |-> U16(name), msg |-> U16(msg)])

\* Fault: the packet's header is not reckoned with.
MaxMsgLenOfBody(name) == MAX_PACKET_SIZE - Overhead(name)

MaxMsgLen(name) == MAX_PACKET_SIZE - HEADER_SIZE - Overhead(name)

Clipped(name, msg) == IF msg > MaxMsgLen(name) THEN MaxMsgLen(name) ELSE msg

\* Room::BroadcastChat, to one of its targets.
BroadcastChat(name, msg) ==
  IF HEADER_SIZE + Overhead(name) >= MAX_PACKET_SIZE
    THEN <<>>
    ELSE SendChat(name, Clipped(name, msg))

\* The bytes that SendRoomState writes, by the names in the room.
RoomStateSize(names) == FoldSeq(LAMBDA name, n : n + 4 + 1 + 2 + name, 4 + 1 + 2, names)

\* SendRoomState: Writer::Size is a uint16_t.
SendRoomState(names) == SendPacket("SC_ROOM_STATE", U16(RoomStateSize(names)), <<>>)

-----------------------------------------------------------------------------
(* The console client.                                                     *)

\* Fault: a body of any size goes out.
AnyLength(bodyLen) == bodyLen >= 0

\* SendPacket of client.cpp: does a body of that many bytes go out?
ClientSends(bodyLen) == ValidSize(HEADER_SIZE + bodyLen)

\* ParseServerChat, on a body of that size with these lengths in it.
ParseServerChat(size, content) ==
  /\ size >= 8
  /\ 6 + content.name + 2 <= size
  /\ 8 + content.name + content.msg <= size

=============================================================================
