------------------------------- MODULE Client -------------------------------
(***************************************************************************)
(* The console client (client.cpp) at its connection to the server: main   *)
(* logs in, enters a room, and sends what the user types; recvThread shows *)
(* the chats of the others, and ends when the server says so or is gone.   *)
(* They share the flag running and the socket.                             *)
(*                                                                         *)
(* The server is modelled as far as this client sees it: it handles the    *)
(* client's packets in order, passes on the chats of peers in its room, may*)
(* send room states of a game others wait for in it, and may shut down or  *)
(* lose the connection at any time.  The client's packets that are still   *)
(* on their way are lost then, and so may be what it has not read.         *)
(***************************************************************************)
EXTENDS Wire

CONSTANTS
  Nicknames,    \* lengths of the names users choose
  Texts,        \* lengths of the texts they type
  PeerNames,    \* lengths of the names of others in the room
  Crowds,       \* how many players a room may list
  MaxChats,     \* bound: chats the user types
  MaxNews       \* bound: room states and chats for this client

ASSUME ClientAssumption ==
  /\ Nicknames \cup Texts \cup PeerNames \subseteq Nat \ {0}
  /\ Crowds \subseteq Nat \ {0}
  /\ MaxChats \in Nat
  /\ MaxNews \in Nat

VARIABLES
  running,
  sockOpen,
  pcMain, pcRecv,
  packet,        \* the packet recvThread is reading or handling
  shown,         \* the chats it has shown
  chats,         \* the chats main has sent
  late,          \* those of them sent with running already false
  \* the connection
  connected,     \* neither the server nor the network has ended it
  outbound,      \* packets on their way to the server
  inbound,       \* packets on their way to the client
  \* the server
  stopping,      \* IsShuttingDown
  state,         \* the FSM state of this client's player
  said,          \* the chats of peers in this client's room that leave room
                 \* for a byte of text: the history that ChatsAreShown is about
  news           \* room states and chats sent to this client

clientVars == <<running, sockOpen, pcMain, pcRecv, packet, shown, chats, late>>
netVars    == <<connected, outbound, inbound>>
serverVars == <<stopping, state, said, news>>
vars       == <<clientVars, netVars, serverVars>>

NoPacket == [id |-> "none", size |-> 0, content |-> <<>>]

Init ==
  /\ running = TRUE
  /\ sockOpen = TRUE
  /\ pcMain = "login"
  /\ pcRecv = "loop"
  /\ packet = NoPacket
  /\ shown = <<>>
  /\ chats = 0
  /\ late = 0
  /\ connected = TRUE
  /\ outbound = <<>>
  /\ inbound = <<>>
  /\ stopping = FALSE
  /\ state = "None"
  /\ said = <<>>
  /\ news = 0

-----------------------------------------------------------------------------
(* main, from the start of recvThread on.                                  *)

\* SendAll returned true: on a dead connection the packet is lost.
Sent(id, bodyLen) ==
  /\ ClientSends(bodyLen)
  /\ outbound' = IF connected
                   THEN Append(outbound, [id |-> id, size |-> HEADER_SIZE + bodyLen])
                   ELSE outbound

\* The packet is too long, or send failed.
NotSent(bodyLen) ==
  /\ ~ClientSends(bodyLen) \/ ~connected
  /\ outbound' = outbound

\* One of the two packets that main starts with, and what follows it.
Greet(at, id, bodyLen, next) ==
  /\ pcMain = at
  /\ \/ Sent(id, bodyLen) /\ pcMain' = next /\ running' = running
     \/ NotSent(bodyLen) /\ pcMain' = "loop" /\ running' = FALSE
  /\ UNCHANGED <<sockOpen, pcRecv, packet, shown, chats, late, connected, inbound,
                 serverVars>>

SendLogin     == \E name \in Nicknames : Greet("login", "CS_LOGIN", name, "enter")
SendEnterRoom == Greet("enter", "CS_ENTER_ROOM", 4, "loop")

\* Fault: the flag is not looked at.
GoesOnForEver == TRUE

GoesOn == running

\* while (running)
MainLoop ==
  /\ pcMain = "loop"
  /\ pcMain' = IF GoesOn THEN "line" ELSE "stop"
  /\ UNCHANGED <<running, sockOpen, pcRecv, packet, shown, chats, late, netVars,
                 serverVars>>

\* getline returned an empty line or a command, but for /quit.
ReadCommand ==
  /\ pcMain = "line"
  /\ pcMain' = "loop"
  /\ UNCHANGED <<running, sockOpen, pcRecv, packet, shown, chats, late, netVars,
                 serverVars>>

\* The user's line is a chat.
ReadChat ==
  /\ pcMain = "line"
  /\ chats < MaxChats
  /\ \E len \in Texts :
       \/ /\ Sent("CS_CHAT", len)
          /\ chats' = chats + 1
          /\ late' = IF running THEN late ELSE late + 1
          /\ pcMain' = "loop"
       \/ /\ NotSent(len)
          /\ pcMain' = "stop"
          /\ UNCHANGED <<chats, late>>
  /\ UNCHANGED <<running, sockOpen, pcRecv, packet, shown, connected, inbound,
                 serverVars>>

\* /quit, or the end of the input.
ReadQuit ==
  /\ pcMain = "line"
  /\ pcMain' = "stop"
  /\ UNCHANGED <<running, sockOpen, pcRecv, packet, shown, chats, late, netVars,
                 serverVars>>

StopRunning ==
  /\ pcMain = "stop"
  /\ running' = FALSE
  /\ pcMain' = "close"
  /\ UNCHANGED <<sockOpen, pcRecv, packet, shown, chats, late, netVars, serverVars>>

\* Fault: the socket is closed after the join.
StillOpen == sockOpen

OpenAfterClose == FALSE

\* shutdown(sock, SD_BOTH), closesocket(sock): what is still on its way does
\* not matter any more.
CloseSocket ==
  /\ pcMain = "close"
  /\ sockOpen' = OpenAfterClose
  /\ IF sockOpen' THEN UNCHANGED netVars
       ELSE connected' = FALSE /\ outbound' = <<>> /\ inbound' = <<>>
  /\ pcMain' = "join"
  /\ UNCHANGED <<running, pcRecv, packet, shown, chats, late, serverVars>>

Join ==
  /\ pcMain = "join"
  /\ pcRecv = "done"
  /\ pcMain' = "done"
  /\ UNCHANGED <<running, sockOpen, pcRecv, packet, shown, chats, late, netVars,
                 serverVars>>

Main ==
  \/ SendLogin \/ SendEnterRoom
  \/ MainLoop \/ ReadCommand \/ ReadChat \/ ReadQuit
  \/ StopRunning \/ CloseSocket \/ Join

-----------------------------------------------------------------------------
(* RecvThread.                                                             *)

\* while (running)
RecvLoop ==
  /\ pcRecv = "loop"
  /\ pcRecv' = IF running THEN "header" ELSE "done"
  /\ packet' = NoPacket
  /\ UNCHANGED <<running, sockOpen, pcMain, shown, chats, late, netVars, serverVars>>

\* RecvAll of the header; a size out of bounds ends the thread.
RecvHeader ==
  /\ pcRecv = "header"
  /\ sockOpen
  /\ inbound # <<>>
  /\ packet' = Head(inbound)
  /\ inbound' = Tail(inbound)
  /\ IF ValidSize(packet'.size)
       THEN pcRecv' = "body" /\ running' = running
       ELSE pcRecv' = "done" /\ running' = FALSE
  /\ UNCHANGED <<sockOpen, pcMain, shown, chats, late, connected, outbound, serverVars>>

\* RecvAll of the body, if there is one; it comes in pieces of any size.
RecvBody ==
  /\ pcRecv = "body"
  /\ sockOpen \/ packet.size = HEADER_SIZE
  /\ pcRecv' = "handle"
  /\ UNCHANGED <<running, sockOpen, pcMain, packet, shown, chats, late, netVars,
                 serverVars>>

\* recv returned an error or the end of the stream.
RecvFail ==
  /\ \/ pcRecv = "header" /\ (~sockOpen \/ (~connected /\ inbound = <<>>))
     \/ pcRecv = "body" /\ packet.size > HEADER_SIZE /\ (~sockOpen \/ ~connected)
  /\ running' = FALSE
  /\ pcRecv' = "done"
  /\ UNCHANGED <<sockOpen, pcMain, packet, shown, chats, late, netVars, serverVars>>

ShowChat ==
  /\ pcRecv = "handle"
  /\ packet.id = "SC_CHAT"
  /\ shown' = IF ParseServerChat(packet.size - HEADER_SIZE, packet.content)
                THEN Append(shown, packet.content)
                ELSE shown
  /\ pcRecv' = "loop"
  /\ UNCHANGED <<running, sockOpen, pcMain, packet, chats, late, netVars, serverVars>>

\* SC_SHUTDOWN or SC_KICK.
ObeyServer ==
  /\ pcRecv = "handle"
  /\ packet.id \in {"SC_SHUTDOWN", "SC_KICK"}
  /\ running' = FALSE
  /\ pcRecv' = "done"
  /\ UNCHANGED <<sockOpen, pcMain, packet, shown, chats, late, netVars, serverVars>>

\* A packet a console client does not know.
SkipPacket ==
  /\ pcRecv = "handle"
  /\ packet.id = "SC_ROOM_STATE"
  /\ pcRecv' = "loop"
  /\ UNCHANGED <<running, sockOpen, pcMain, packet, shown, chats, late, netVars,
                 serverVars>>

Receive ==
  RecvLoop \/ RecvHeader \/ RecvBody \/ RecvFail \/ ShowChat \/ ObeyServer \/ SkipPacket

-----------------------------------------------------------------------------
(* The server, as far as this client sees it.                              *)

\* The FSM states that handle these packets (FSM.cpp), and those that follow.
Handles(id) ==
  CASE id = "CS_LOGIN"      -> "None"
    [] id = "CS_ENTER_ROOM" -> "LoggedIn"
    [] id = "CS_CHAT"       -> "InRoom"

After(id) == IF id = "CS_LOGIN" THEN "LoggedIn" ELSE "InRoom"

Accepted(p) == ValidSize(p.size) /\ state = Handles(p.id)

\* The client's next packet: its job is handled, or it comes to a server that
\* is shutting down.
HandlePacket ==
  /\ connected
  /\ outbound # <<>>
  /\ outbound' = Tail(outbound)
  /\ \/ state' = IF Accepted(Head(outbound)) THEN After(Head(outbound).id) ELSE state
     \/ stopping /\ state' = state
  /\ UNCHANGED <<clientVars, connected, inbound, stopping, said, news>>

\* The game thread sends packets to the client.
News(packets) ==
  /\ connected
  /\ news < MaxNews
  /\ news' = news + 1
  /\ inbound' = inbound \o packets
  /\ UNCHANGED <<clientVars, connected, outbound, stopping, state>>

\* At least a byte of text goes into a packet with the name.
HasRoomForText(name) == HEADER_SIZE + 4 + 2 + name + 2 + 1 <= MAX_PACKET_SIZE

\* A peer chats in the room.
PeerChats ==
  /\ state = "InRoom"
  /\ \E name \in PeerNames, msg \in Texts :
       /\ ClientSends(name) /\ ClientSends(msg)
       /\ News(BroadcastChat(name, msg))
       /\ said' = IF HasRoomForText(name)
                    THEN Append(said, [name |-> name, msg |-> msg])
                    ELSE said

\* A peer that joined the room for a game is ready: SC_ROOM_STATE to all.
PeerReady ==
  /\ state = "InRoom"
  /\ \E name \in PeerNames, n \in Crowds :
       /\ ClientSends(name)
       /\ News(SendRoomState([i \in 1 .. n |-> name]))
       /\ said' = said

\* SC_SHUTDOWN; the game thread may be past its test of IsShuttingDown and
\* send one message more, which counts in said if it is a chat.
Shutdown ==
  /\ connected
  /\ ~stopping
  /\ stopping' = TRUE
  /\ inbound' = inbound \o SendPacket("SC_SHUTDOWN", 0, <<>>)
  /\ UNCHANGED <<clientVars, connected, outbound, state, said, news>>

\* The server closes the connection, or it breaks.
Disconnect ==
  /\ connected
  /\ connected' = FALSE
  /\ outbound' = <<>>
  /\ \E n \in 0 .. Len(inbound) : inbound' = SubSeq(inbound, 1, n)
  /\ UNCHANGED <<clientVars, serverVars>>

Server == HandlePacket \/ PeerChats \/ PeerReady \/ Shutdown \/ Disconnect

-----------------------------------------------------------------------------
Finished == pcMain = "done" /\ UNCHANGED vars

Next == Main \/ Receive \/ Server \/ Finished

Spec == Init /\ [][Next]_vars

\* The system runs both threads, and what arrived is handed to recv; the user
\* keeps typing lines, for getline cannot be interrupted.
FairSpec == Spec /\ WF_vars(Main) /\ WF_vars(Receive)

-----------------------------------------------------------------------------
(* Properties.                                                             *)

\* What Header::size can hold.
Sizes == 0 .. 65535

\* The flags, labels and counters keep their types, and so do the sizes of what is
\* sent: the server sends no packet of a size that the client takes for an error.
TypeOK ==
  /\ running \in BOOLEAN
  /\ sockOpen \in BOOLEAN
  /\ pcMain \in {"login", "enter", "loop", "line", "stop", "close", "join", "done"}
  /\ pcRecv \in {"loop", "header", "body", "handle", "done"}
  /\ chats \in 0 .. MaxChats
  /\ late \in 0 .. chats
  /\ connected \in BOOLEAN
  /\ \A i \in DOMAIN outbound : outbound[i].size \in Sizes
  /\ \A i \in DOMAIN inbound : ValidSize(inbound[i].size)
  /\ stopping \in BOOLEAN
  /\ state \in {"None", "LoggedIn", "InRoom"}
  /\ news \in 0 .. MaxNews

\* The longest part of a text that goes into a packet with the name.
Fitting(name, msg) ==
  CHOOSE n \in 0 .. msg :
    /\ HEADER_SIZE + 4 + 2 + name + 2 + n <= MAX_PACKET_SIZE
    /\ n < msg => HEADER_SIZE + 4 + 2 + name + 2 + n = MAX_PACKET_SIZE

\* What should be shown of the chats said in the room.
ToShow ==
  [i \in DOMAIN said |->
     [name |-> said[i].name, msg |-> Fitting(said[i].name, said[i].msg)]]

\* The server cuts and the client parses a chat by rules of their own: however
\* long names and texts are, the client shows the others' chats in order, none
\* left out and none garbled, each as long as a packet can be.
ChatsAreShown == IsPrefix(shown, ToShow)

\* The client neither waits for an answer to its login and room request, nor
\* knows the server's tables: yet the server, until it stops, accepts each packet
\* by its size and in its turn.
PacketsAreAccepted ==
  connected /\ ~stopping /\ outbound # <<>> => Accepted(Head(outbound))

\* After the server ended the chat, at most the line that the user was typing
\* is still sent.
OneLineLate == late <= 1

\* When the connection ends, the server stops, or main does, both threads end,
\* without waiting for each other for ever.
ClientEnds ==
  ~connected \/ pcMain = "stop" \/ packet.id = "SC_SHUTDOWN"
    ~> pcMain = "done" /\ pcRecv = "done"

=============================================================================
