---------------------------- MODULE ClientProofs ----------------------------
(***************************************************************************)
(* Proofs about Wire and Client: what a chat is on the wire, for names and *)
(* texts of every length, and that the console client shows the chats of   *)
(* its room, is understood by the server and stops in time, however many   *)
(* chats are sent and wherever the connection ends.                        *)
(***************************************************************************)
EXTENDS Client, SequenceTheorems, TLAPS

-----------------------------------------------------------------------------
(* A chat on the wire.                                                     *)

\* The two limits of the code agree: a chat whose name leaves room for a text is
\* never dropped by SendChat or SendPacket, its lengths are not cut to 16 bits,
\* and the text that is sent fills the packet if it is not whole.
LEMMA ClippedFits ==
  ASSUME NEW name \in Nat, NEW msg \in Nat,
         HEADER_SIZE + Overhead(name) < MAX_PACKET_SIZE
  PROVE  /\ Clipped(name, msg) \in 0 .. msg
         /\ ValidSize(HEADER_SIZE + Overhead(name) + Clipped(name, msg))
         /\ Clipped(name, msg) < msg =>
              HEADER_SIZE + Overhead(name) + Clipped(name, msg) = MAX_PACKET_SIZE
BY DEF Clipped, MaxMsgLen, Overhead, ValidSize, HEADER_SIZE, MAX_PACKET_SIZE

\* A number below 2^16 keeps its value as a uint16_t.
LEMMA U16IsIdentity == ASSUME NEW n \in Nat, n < 65536 PROVE U16(n) = n
BY DEF U16

\* Room::BroadcastChat sends the chat in one packet of a valid size, with its
\* true lengths, that the console client's ParseServerChat accepts.
THEOREM ChatIsWhole ==
  ASSUME NEW name \in Nat, NEW msg \in Nat,
         HEADER_SIZE + Overhead(name) < MAX_PACKET_SIZE
  PROVE  \E chat :
           /\ BroadcastChat(name, msg) = <<chat>>
           /\ chat.id = "SC_CHAT" /\ ValidSize(chat.size)
           /\ chat.content = [name |-> name, msg |-> Clipped(name, msg)]
           /\ ParseServerChat(chat.size - HEADER_SIZE, chat.content)
<1> DEFINE text    == Clipped(name, msg)
           body    == Overhead(name) + text
           content == [name |-> name, msg |-> text]
           chat    == [id |-> "SC_CHAT", size |-> HEADER_SIZE + body, content |-> content]
<1>1. /\ text \in Nat
      /\ Overhead(name) = name + 8
      /\ body = name + 8 + text
      /\ HEADER_SIZE + body <= MAX_PACKET_SIZE
  BY ClippedFits DEF ValidSize, Overhead, HEADER_SIZE, MAX_PACKET_SIZE
<1>2. U16(body) = body /\ U16(name) = name /\ U16(text) = text
  <2>1. body \in Nat /\ body < 65536 /\ name < 65536 /\ text < 65536
    BY <1>1 DEF HEADER_SIZE, MAX_PACKET_SIZE
  <2> HIDE DEF body, text
  <2>2. U16(body) = body
    BY <2>1, U16IsIdentity
  <2>3. U16(name) = name /\ U16(text) = text
    BY <1>1, <2>1, U16IsIdentity
  <2> QED BY <2>2, <2>3
<1>3. SendChat(name, text) = SendPacket("SC_CHAT", body, content)
  <2>1. ~(Overhead(name) + text + HEADER_SIZE > MAX_PACKET_SIZE)
    BY <1>1 DEF HEADER_SIZE, MAX_PACKET_SIZE
  <2> QED BY <1>2, <2>1 DEF SendChat
<1>4. ValidSize(HEADER_SIZE + body)
  BY <1>1 DEF ValidSize, HEADER_SIZE, MAX_PACKET_SIZE
<1>5. SendPacket("SC_CHAT", body, content) = <<chat>>
  BY <1>4 DEF SendPacket
<1>6. BroadcastChat(name, msg) = <<chat>>
  <2>1. ~(HEADER_SIZE + Overhead(name) >= MAX_PACKET_SIZE)
    BY <1>1 DEF HEADER_SIZE, MAX_PACKET_SIZE
  <2> QED BY <1>3, <1>5, <2>1 DEF BroadcastChat
<1>7. ParseServerChat(chat.size - HEADER_SIZE, chat.content)
  BY <1>1 DEF ParseServerChat, HEADER_SIZE, MAX_PACKET_SIZE
<1> QED
  BY <1>4, <1>6, <1>7

-----------------------------------------------------------------------------
(* The invariant: main and the server it talks to.                         *)

Contents == [name : Nat, msg : Nat]

MainLabels == {"login", "enter", "loop", "line", "stop", "close", "join", "done"}
RecvLabels == {"loop", "header", "body", "handle", "done"}
ClientIds  == {"CS_LOGIN", "CS_ENTER_ROOM", "CS_CHAT"}
Requests   == [id : ClientIds, size : Nat]

\* The types of what main shares with the server.
MainTypes ==
  /\ running \in BOOLEAN /\ sockOpen \in BOOLEAN /\ connected \in BOOLEAN /\ stopping \in BOOLEAN
  /\ pcMain \in MainLabels
  /\ state \in {"None", "LoggedIn", "InRoom"}
  /\ chats \in 0 .. MaxChats /\ late \in Nat
  /\ outbound \in Seq(Requests)
  /\ \A i \in 1 .. Len(outbound) : ValidSize(outbound[i].size)

\* A chat that is sent late is the last one: main leaves its loop.
LateIsLast ==
  /\ late <= chats
  /\ late = 0 \/ (late = 1 /\ ~running /\ pcMain \in {"loop", "stop", "close", "join", "done"})

\* The state that the server's FSM is in once it has handled what is outbound.
Ahead == IF outbound = <<>> THEN state ELSE After(outbound[Len(outbound)].id)

\* Every packet on its way finds the FSM in its state, and so will the next.
InStep ==
  /\ outbound # <<>> => state = Handles(outbound[1].id)
  /\ \A i \in 1 .. Len(outbound) - 1 : After(outbound[i].id) = Handles(outbound[i + 1].id)
  /\ pcMain = "login" => Ahead = "None"
  /\ pcMain = "enter" => Ahead = "LoggedIn"
  /\ pcMain = "line" \/ (pcMain = "loop" /\ running) => Ahead = "InRoom"

MainInv == MainTypes /\ LateIsLast /\ (connected /\ ~stopping => InStep)

\* The FSM's table.
LEMMA Table ==
  /\ Handles("CS_LOGIN") = "None" /\ After("CS_LOGIN") = "LoggedIn"
  /\ Handles("CS_ENTER_ROOM") = "LoggedIn" /\ After("CS_ENTER_ROOM") = "InRoom"
  /\ Handles("CS_CHAT") = "InRoom" /\ After("CS_CHAT") = "InRoom"
BY DEF Handles, After

\* A packet for the state that the FSM will be in goes behind the others.
LEMMA SentInStep ==
  ASSUME MainTypes, NEW id \in ClientIds, NEW bodyLen \in Nat, Sent(id, bodyLen)
  PROVE  /\ outbound' \in Seq(Requests)
         /\ \A i \in 1 .. Len(outbound') : ValidSize(outbound'[i].size)
         /\ connected =>
              IF outbound' = <<>> THEN FALSE ELSE After(outbound'[Len(outbound')].id) = After(id)
         /\ connected /\ InStep /\ Ahead = Handles(id) =>
              /\ outbound' # <<>> => state = Handles(outbound'[1].id)
              /\ \A i \in 1 .. Len(outbound') - 1 :
                   After(outbound'[i].id) = Handles(outbound'[i + 1].id)
<1> DEFINE p == [id |-> id, size |-> HEADER_SIZE + bodyLen]
           n == Len(outbound)
<1>1. CASE ~connected
  BY <1>1 DEF Sent, MainTypes
<1>2. CASE connected
  <2>1. outbound' = Append(outbound, p) /\ p.id = id /\ p.size = HEADER_SIZE + bodyLen
    BY <1>2 DEF Sent
  <2>2. p \in Requests /\ ValidSize(p.size)
    BY DEF Requests, HEADER_SIZE, Sent, ClientSends
  <2> HIDE DEF p
  <2>3. outbound \in Seq(Requests) /\ n \in Nat
    BY LenProperties DEF MainTypes
  <2>4. /\ outbound' \in Seq(Requests) /\ Len(outbound') = n + 1
        /\ outbound'[n + 1] = p /\ \A i \in 1 .. n : outbound'[i] = outbound[i]
    BY <2>1, <2>2, <2>3, AppendProperties
  <2>5. outbound = <<>> <=> n = 0
    BY <2>3, EmptySeq
  <2>6. outbound' # <<>>
    BY <2>3, <2>4, EmptySeq
  <2> HIDE DEF n
  <2>7. \A i \in 1 .. Len(outbound') : ValidSize(outbound'[i].size)
    BY <2>2, <2>3, <2>4 DEF MainTypes, n
  <2>8. After(outbound'[Len(outbound')].id) = After(id)
    BY <2>1, <2>4
  <2>9. ASSUME InStep, Ahead = Handles(id)
        PROVE  /\ state = Handles(outbound'[1].id)
               /\ \A i \in 1 .. Len(outbound') - 1 :
                    After(outbound'[i].id) = Handles(outbound'[i + 1].id)
    <3>1. state = Handles(outbound'[1].id)
      BY <2>1, <2>3, <2>4, <2>5, <2>9 DEF InStep, Ahead
    <3>2. ASSUME NEW i \in 1 .. n
          PROVE  After(outbound'[i].id) = Handles(outbound'[i + 1].id)
      <4>1. CASE i = n
        BY <2>1, <2>3, <2>4, <2>5, <2>9, <4>1 DEF Ahead, n
      <4>2. CASE i # n
        <5>1. i \in 1 .. n - 1 /\ i + 1 \in 1 .. n
          BY <2>3, <4>2
        <5>2. QED
          BY <2>4, <2>9, <5>1 DEF InStep, n
      <4>3. QED
        BY <4>1, <4>2
    <3>3. Len(outbound') - 1 = n
      BY <2>3, <2>4
    <3>4. QED
      BY <3>1, <3>2, <3>3
  <2>10. QED
    BY <2>4, <2>6, <2>7, <2>8, <2>9
<1>3. QED
  BY <1>1, <1>2 DEF MainTypes

\* The two packets that main starts with.
LEMMA GreetStep ==
  ASSUME MainInv, NEW bodyLen \in Nat,
         \/ Greet("login", "CS_LOGIN", bodyLen, "enter")
         \/ Greet("enter", "CS_ENTER_ROOM", bodyLen, "loop")
  PROVE  MainInv'
<1>1. PICK at, id, next :
         /\ Greet(at, id, bodyLen, next)
         /\ \/ at = "login" /\ id = "CS_LOGIN" /\ next = "enter"
            \/ at = "enter" /\ id = "CS_ENTER_ROOM" /\ next = "loop"
  OBVIOUS
<1>2. /\ MainTypes /\ late = 0 /\ id \in ClientIds /\ pcMain = at
      /\ UNCHANGED <<sockOpen, chats, late, connected, stopping, state>>
  BY <1>1 DEF MainInv, LateIsLast, Greet, serverVars, ClientIds
<1>3. CASE Sent(id, bodyLen) /\ pcMain' = next /\ running' = running
  <2>1. MainTypes'
    BY <1>1, <1>2, <1>3, SentInStep DEF MainTypes, MainLabels
  <2>2. LateIsLast'
    BY <1>2 DEF LateIsLast, MainTypes
  <2>3. ASSUME connected, ~stopping
        PROVE  InStep'
    <3>1. InStep /\ Ahead = Handles(id)
      BY <1>1, <1>2, <2>3, Table DEF MainInv, InStep
    <3>2. /\ outbound' # <<>> => state' = Handles(outbound'[1].id)
          /\ \A i \in 1 .. Len(outbound') - 1 :
               After(outbound'[i].id) = Handles(outbound'[i + 1].id)
          /\ Ahead' = After(id)
      BY <1>2, <1>3, <2>3, <3>1, SentInStep DEF Ahead
    <3>3. QED
      BY <1>1, <1>3, <3>2, Table DEF InStep
  <2>4. QED
    BY <1>2, <2>1, <2>2, <2>3 DEF MainInv
<1>4. CASE NotSent(bodyLen) /\ pcMain' = "loop" /\ running' = FALSE
  <2>1. outbound' = outbound
    BY <1>4 DEF NotSent
  <2>2. Ahead' = Ahead
    BY <1>2, <2>1 DEF Ahead
  <2>3. QED
    BY <1>2, <1>4, <2>1, <2>2 DEF MainInv, MainTypes, MainLabels, LateIsLast, InStep
<1>5. QED
  BY <1>1, <1>3, <1>4 DEF Greet

\* A chat is sent while main is at its line.
LEMMA ReadChatStep == ASSUME MainInv, ReadChat PROVE MainInv'
<1>1. PICK len \in Texts :
        \/ /\ Sent("CS_CHAT", len)
           /\ chats' = chats + 1
           /\ late' = IF running THEN late ELSE late + 1
           /\ pcMain' = "loop"
        \/ /\ NotSent(len)
           /\ pcMain' = "stop"
           /\ UNCHANGED <<chats, late>>
  BY DEF ReadChat
<1>2. len \in Nat /\ MaxChats \in Nat
  BY ClientAssumption
<1>3. /\ MainTypes /\ pcMain = "line" /\ chats < MaxChats /\ late = 0
      /\ UNCHANGED <<running, sockOpen, connected, stopping, state>>
  BY DEF ReadChat, MainInv, LateIsLast, serverVars
<1>4. CASE /\ Sent("CS_CHAT", len)
           /\ chats' = chats + 1
           /\ late' = IF running THEN late ELSE late + 1
           /\ pcMain' = "loop"
  <2>1. "CS_CHAT" \in ClientIds
    BY DEF ClientIds
  <2>2. MainTypes'
    <3>1. chats' \in 0 .. MaxChats /\ late' \in Nat
      BY <1>2, <1>3, <1>4 DEF MainTypes
    <3>2. QED
      BY <1>2, <1>3, <1>4, <2>1, <3>1, SentInStep DEF MainTypes, MainLabels
  <2>3. LateIsLast'
    BY <1>3, <1>4 DEF LateIsLast, MainTypes
  <2>4. ASSUME connected, ~stopping
        PROVE  InStep'
    <3>1. InStep /\ Ahead = Handles("CS_CHAT")
      BY <1>3, <2>4, Table DEF MainInv, InStep
    <3>2. /\ outbound' # <<>> => state' = Handles(outbound'[1].id)
          /\ \A i \in 1 .. Len(outbound') - 1 :
               After(outbound'[i].id) = Handles(outbound'[i + 1].id)
          /\ Ahead' = After("CS_CHAT")
      BY <1>2, <1>3, <1>4, <2>1, <2>4, <3>1, SentInStep DEF Ahead
    <3>3. QED
      BY <1>4, <3>2, Table DEF InStep
  <2>5. QED
    BY <1>3, <2>2, <2>3, <2>4 DEF MainInv
<1>5. CASE NotSent(len) /\ pcMain' = "stop" /\ UNCHANGED <<chats, late>>
  <2>1. outbound' = outbound
    BY <1>5 DEF NotSent
  <2>2. Ahead' = Ahead
    BY <1>3, <2>1 DEF Ahead
  <2>3. QED
    BY <1>3, <1>5, <2>1, <2>2 DEF MainInv, MainTypes, MainLabels, LateIsLast, InStep
<1>6. QED
  BY <1>1, <1>4, <1>5

\* The rest of main.
LEMMA MainStep == ASSUME MainInv, Main PROVE MainInv'
<1>1. CASE SendLogin \/ SendEnterRoom
  <2>1. \A name \in Nicknames : name \in Nat
    BY ClientAssumption
  <2>2. QED
    BY <1>1, <2>1, GreetStep DEF SendLogin, SendEnterRoom
<1>2. CASE MainLoop \/ ReadCommand \/ ReadQuit \/ StopRunning \/ Join
  <2>1. UNCHANGED <<sockOpen, chats, late, connected, outbound, stopping, state>>
    BY <1>2 DEF MainLoop, ReadCommand, ReadQuit, StopRunning, Join, netVars, serverVars
  <2>2. Ahead' = Ahead
    BY <2>1 DEF Ahead
  <2>3. MainTypes'
    BY <1>2, <2>1 DEF MainInv, MainTypes, MainLabels, MainLoop, ReadCommand, ReadQuit, StopRunning, Join
  <2>4. LateIsLast'
    BY <1>2, <2>1 DEF MainInv, MainTypes, LateIsLast, MainLoop, GoesOn, ReadCommand, ReadQuit, StopRunning, Join
  <2>5. ASSUME connected, ~stopping
        PROVE  InStep'
    BY <1>2, <2>1, <2>2, <2>5 DEF MainInv, MainTypes, InStep, MainLoop, GoesOn, ReadCommand, ReadQuit, StopRunning, Join
  <2>6. QED
    BY <2>1, <2>3, <2>4, <2>5 DEF MainInv
<1>3. CASE ReadChat
  BY <1>3, ReadChatStep
<1>4. CASE CloseSocket
  <2>1. /\ sockOpen' = FALSE /\ connected' = FALSE /\ outbound' = <<>> /\ pcMain' = "join"
        /\ UNCHANGED <<running, chats, late, stopping, state>> /\ pcMain = "close"
    BY <1>4 DEF CloseSocket, OpenAfterClose, serverVars
  <2>2. MainTypes'
    <3>1. Len(outbound') = 0 /\ outbound' \in Seq(Requests)
      BY <2>1, EmptySeq
    <3>2. \A i \in 1 .. Len(outbound') : ValidSize(outbound'[i].size)
      BY <3>1
    <3>3. QED
      BY <2>1, <3>1, <3>2 DEF MainInv, MainTypes, MainLabels
  <2>3. QED
    BY <2>1, <2>2 DEF MainInv, LateIsLast
<1>5. QED
  BY <1>1, <1>2, <1>3, <1>4 DEF Main

\* recvThread touches main by its flag only.
LEMMA ReceiveKeepsMain == ASSUME MainInv, Receive PROVE MainInv'
<1>1. /\ UNCHANGED <<sockOpen, pcMain, chats, late, connected, outbound, stopping, state>>
      /\ running' = running \/ running' = FALSE
  BY DEF Receive, RecvLoop, RecvHeader, RecvBody, RecvFail, ShowChat, ObeyServer, SkipPacket,
         netVars, serverVars
<1>2. Ahead' = Ahead
  BY <1>1 DEF Ahead
<1>3. MainTypes' /\ LateIsLast'
  <2>1. running' \in BOOLEAN
    BY <1>1 DEF MainInv, MainTypes
  <2>2. MainTypes'
    BY <1>1, <2>1 DEF MainInv, MainTypes
  <2>3. QED
    BY <1>1, <2>2 DEF MainInv, LateIsLast
<1>4. ASSUME InStep
      PROVE  InStep'
  BY <1>1, <1>2, <1>4 DEF InStep
<1>5. QED
  BY <1>1, <1>3, <1>4 DEF MainInv

\* The server handles the first packet, in its state if it does not stop.
LEMMA HandlePacketStep == ASSUME MainInv, HandlePacket PROVE MainInv'
<1> DEFINE n == Len(outbound)
<1>1. /\ MainTypes /\ LateIsLast /\ connected /\ outbound # <<>>
      /\ outbound' = Tail(outbound)
      /\ UNCHANGED <<running, sockOpen, pcMain, chats, late, connected, stopping>>
  BY DEF MainInv, HandlePacket, clientVars
<1>2. outbound \in Seq(Requests) /\ n \in Nat /\ n > 0
  BY <1>1, LenProperties, EmptySeq DEF MainTypes
<1>3. /\ outbound' \in Seq(Requests) /\ Len(outbound') = n - 1
      /\ \A i \in 1 .. n - 1 : outbound'[i] = outbound[i + 1]
      /\ Head(outbound) = outbound[1]
  BY <1>1, <1>2, HeadTailProperties
<1>4. outbound' = <<>> <=> n = 1
  BY <1>2, <1>3, EmptySeq
<1>5. outbound[1] \in Requests /\ outbound[1].id \in ClientIds
  <2>1. outbound[1] \in Requests
    BY <1>2, ElementOfSeq
  <2>2. QED
    BY <2>1 DEF Requests
<1> HIDE DEF n
<1>6. MainTypes'
  <2>1. state' \in {"None", "LoggedIn", "InRoom"}
    BY <1>1 DEF HandlePacket, After, MainTypes
  <2>2. \A i \in 1 .. Len(outbound') : ValidSize(outbound'[i].size)
    BY <1>1, <1>2, <1>3 DEF MainTypes, n
  <2>3. QED
    BY <1>1, <1>3, <2>1, <2>2 DEF MainTypes
<1>7. ASSUME ~stopping
      PROVE  InStep'
  <2>1. InStep
    BY <1>1, <1>7 DEF MainInv
  <2>2. state = Handles(outbound[1].id) /\ ValidSize(outbound[1].size)
    BY <1>1, <1>2, <2>1 DEF InStep, MainTypes, n
  <2>3. state' = After(outbound[1].id)
    BY <1>3, <1>7, <2>2 DEF HandlePacket, Accepted
  <2>4. Ahead' = Ahead
    BY <1>1, <1>2, <1>3, <1>4, <2>3 DEF Ahead, n
  <2>5. outbound' # <<>> => state' = Handles(outbound'[1].id)
    BY <1>2, <1>3, <1>4, <2>1, <2>3 DEF InStep, n
  <2>6. ASSUME NEW i \in 1 .. Len(outbound') - 1
        PROVE  After(outbound'[i].id) = Handles(outbound'[i + 1].id)
    <3>1. i + 1 \in 1 .. n - 1 /\ i \in 1 .. n - 1
      BY <1>2, <1>3
    <3>2. QED
      BY <1>2, <1>3, <2>1, <3>1 DEF InStep, n
  <2>7. QED
    BY <1>1, <2>1, <2>4, <2>5, <2>6 DEF InStep
<1>8. QED
  BY <1>1, <1>6, <1>7 DEF MainInv, LateIsLast

\* What else the server does leaves main's packets alone, or loses them all.
LEMMA ServerKeepsMain == ASSUME MainInv, Server PROVE MainInv'
<1>1. CASE HandlePacket
  BY <1>1, HandlePacketStep
<1>2. CASE PeerChats \/ PeerReady \/ Shutdown
  <2>1. /\ UNCHANGED <<running, sockOpen, pcMain, chats, late, connected, outbound, state>>
        /\ stopping' = stopping \/ stopping' = TRUE
    BY <1>2 DEF PeerChats, PeerReady, News, Shutdown, clientVars
  <2>2. Ahead' = Ahead
    BY <2>1 DEF Ahead
  <2>3. QED
    BY <2>1, <2>2 DEF MainInv, MainTypes, LateIsLast, InStep
<1>3. CASE Disconnect
  <2>1. /\ UNCHANGED <<running, sockOpen, pcMain, chats, late, stopping, state>>
        /\ connected' = FALSE /\ outbound' = <<>>
    BY <1>3 DEF Disconnect, clientVars, serverVars
  <2>2. MainTypes'
    <3>1. Len(outbound') = 0 /\ outbound' \in Seq(Requests)
      BY <2>1, EmptySeq
    <3>2. \A i \in 1 .. Len(outbound') : ValidSize(outbound'[i].size)
      BY <3>1
    <3>3. QED
      BY <2>1, <3>1, <3>2 DEF MainInv, MainTypes
  <2>3. QED
    BY <2>1, <2>2 DEF MainInv, LateIsLast
<1>4. QED
  BY <1>1, <1>2, <1>3 DEF Server

\* The rooms are not entered yet, nothing is sent.
LEMMA MainInit == Init => MainInv
<1> SUFFICES ASSUME Init
             PROVE  MainInv
  OBVIOUS
<1>1. MainTypes
  <2>1. Len(outbound) = 0 /\ outbound \in Seq(Requests) /\ MaxChats \in Nat
    BY EmptySeq, ClientAssumption DEF Init
  <2>2. \A i \in 1 .. Len(outbound) : ValidSize(outbound[i].size)
    BY <2>1
  <2>3. running \in BOOLEAN /\ sockOpen \in BOOLEAN /\ connected \in BOOLEAN /\ stopping \in BOOLEAN
    BY DEF Init
  <2>4. pcMain \in MainLabels /\ state \in {"None", "LoggedIn", "InRoom"}
    BY DEF Init, MainLabels
  <2>5. chats \in 0 .. MaxChats /\ late \in Nat
    BY <2>1 DEF Init
  <2>6. QED
    BY <2>1, <2>2, <2>3, <2>4, <2>5 DEF MainTypes
<1>2. LateIsLast /\ InStep
  BY EmptySeq DEF Init, LateIsLast, InStep, Ahead
<1>3. QED
  BY <1>1, <1>2 DEF MainInv

\* MainInv is an inductive invariant.
LEMMA MainInductive == MainInv /\ [Next]_vars => MainInv'
<1> SUFFICES ASSUME MainInv, [Next]_vars
             PROVE  MainInv'
  OBVIOUS
<1>1. CASE Main
  BY <1>1, MainStep
<1>2. CASE Receive
  BY <1>2, ReceiveKeepsMain
<1>3. CASE Server
  BY <1>3, ServerKeepsMain
<1>4. CASE Finished \/ UNCHANGED vars
  <2>1. UNCHANGED vars
    BY <1>4 DEF Finished
  <2>2. UNCHANGED <<running, sockOpen, pcMain, chats, late, connected, outbound, stopping, state>>
    BY <2>1 DEF vars, clientVars, netVars, serverVars
  <2>3. Ahead' = Ahead
    BY <2>2 DEF Ahead
  <2>4. QED
    BY <2>2, <2>3 DEF MainInv, MainTypes, LateIsLast, InStep
<1>5. QED
  BY <1>1, <1>2, <1>3, <1>4 DEF Next

-----------------------------------------------------------------------------
(* The invariant: the chats on their way to recvThread.                    *)

ServerIds == {"SC_CHAT", "SC_ROOM_STATE", "SC_SHUTDOWN"}

\* The k-th chat of a room, in a packet that the client's parser accepts.
ChatAt(room, m, k) ==
  /\ k \in 1 .. Len(room)
  /\ m.content = room[k]
  /\ ParseServerChat(m.size - HEADER_SIZE, m.content)

\* recvThread has a chat in hand that it has not shown.
InHand == IF pcRecv \in {"body", "handle"} /\ packet.id = "SC_CHAT" THEN 1 ELSE 0

\* h counts the chats in the packets q up to each of them, from a number on, and
\* each is the chat of its number.
CountsChats(h, q, room, from) ==
  /\ h[0] = from
  /\ \A i \in 1 .. Len(q) :
       IF q[i].id = "SC_CHAT"
         THEN h[i] = h[i - 1] + 1 /\ ChatAt(room, q[i], h[i])
         ELSE h[i] = h[i - 1]

\* As long as recvThread reads, it is missing no chat of the room: they are
\* shown, in hand, or inbound.
NoneMissing ==
  /\ InHand = 1 => ChatAt(ToShow, packet, Len(shown) + 1)
  /\ \E h \in [0 .. Len(inbound) -> Nat] :
       /\ CountsChats(h, inbound, ToShow, Len(shown) + InHand)
       /\ connected => h[Len(inbound)] = Len(ToShow)

\* What is shown are the first chats of the room.
ShownSoFar ==
  /\ Len(shown) <= Len(ToShow)
  /\ \A k \in 1 .. Len(shown) : shown[k] = ToShow[k]

RecvTypes ==
  /\ pcRecv \in RecvLabels
  /\ news \in 0 .. MaxNews
  /\ \E M : inbound \in Seq(M)
  /\ \A i \in 1 .. Len(inbound) : ValidSize(inbound[i].size) /\ inbound[i].id \in ServerIds
  /\ pcRecv \in {"body", "handle"} => packet.id \in ServerIds
  /\ shown \in Seq(Contents) /\ said \in Seq(Contents)
  /\ \A k \in 1 .. Len(said) : HasRoomForText(said[k].name)

RecvInv == RecvTypes /\ ShownSoFar /\ (pcRecv # "done" => NoneMissing)

\* The server cuts a text to what a packet has room for.
LEMMA CutFits ==
  ASSUME NEW name \in Nat, NEW msg \in Nat, HasRoomForText(name)
  PROVE  /\ HEADER_SIZE + Overhead(name) < MAX_PACKET_SIZE
         /\ Fitting(name, msg) = Clipped(name, msg)
<1> DEFINE total(n) == HEADER_SIZE + 4 + 2 + name + 2 + n
           Fits(n) == total(n) <= MAX_PACKET_SIZE /\ (n < msg => total(n) = MAX_PACKET_SIZE)
           c == Clipped(name, msg)
<1>1. HEADER_SIZE + Overhead(name) < MAX_PACKET_SIZE
  BY DEF HasRoomForText, Overhead, HEADER_SIZE, MAX_PACKET_SIZE
<1>2. c \in 0 .. msg /\ Fits(c)
  <2>1. /\ c \in 0 .. msg /\ HEADER_SIZE + Overhead(name) + c <= MAX_PACKET_SIZE
        /\ c < msg => HEADER_SIZE + Overhead(name) + c = MAX_PACKET_SIZE
    BY <1>1, ClippedFits DEF ValidSize
  <2> HIDE DEF c
  <2>2. QED
    BY <2>1 DEF Overhead, HEADER_SIZE, MAX_PACKET_SIZE
<1>3. \A n \in 0 .. msg : Fits(n) => n = c
  BY <1>2 DEF HEADER_SIZE, MAX_PACKET_SIZE
<1>4. Fitting(name, msg) = CHOOSE n \in 0 .. msg : Fits(n)
  BY DEF Fitting
<1> HIDE DEF Fits, c
<1>5. (CHOOSE n \in 0 .. msg : Fits(n)) = c
  BY <1>2, <1>3
<1>6. QED
  BY <1>1, <1>4, <1>5 DEF c

\* The chats of a room as they should be shown.
Shows(room) ==
  [i \in DOMAIN room |-> [name |-> room[i].name, msg |-> Fitting(room[i].name, room[i].msg)]]

\* They are those that the server sends.
LEMMA ShowsIs ==
  ASSUME NEW room \in Seq(Contents), \A k \in 1 .. Len(room) : HasRoomForText(room[k].name)
  PROVE  /\ Shows(room) \in Seq(Contents) /\ Len(Shows(room)) = Len(room)
         /\ \A k \in 1 .. Len(room) :
              Shows(room)[k] = [name |-> room[k].name, msg |-> Clipped(room[k].name, room[k].msg)]
<1>1. DOMAIN room = 1 .. Len(room) /\ Len(room) \in Nat
  BY LenProperties
<1>2. ASSUME NEW k \in 1 .. Len(room)
      PROVE  /\ Shows(room)[k] = [name |-> room[k].name, msg |-> Clipped(room[k].name, room[k].msg)]
             /\ Shows(room)[k] \in Contents
  <2>1. room[k] \in Contents
    BY ElementOfSeq
  <2>2. room[k].name \in Nat /\ room[k].msg \in Nat /\ HasRoomForText(room[k].name)
    BY <2>1 DEF Contents
  <2>3. Fitting(room[k].name, room[k].msg) = Clipped(room[k].name, room[k].msg)
    BY <2>2, CutFits
  <2>4. Clipped(room[k].name, room[k].msg) \in Nat
    <3>1. HEADER_SIZE + Overhead(room[k].name) < MAX_PACKET_SIZE
      BY <2>2, CutFits
    <3>2. Clipped(room[k].name, room[k].msg) \in 0 .. room[k].msg
      BY <2>2, <3>1, ClippedFits
    <3>3. QED
      BY <2>2, <3>2
  <2>5. Shows(room)[k] = [name |-> room[k].name, msg |-> Fitting(room[k].name, room[k].msg)]
    BY <1>1 DEF Shows
  <2>6. QED
    BY <2>2, <2>3, <2>4, <2>5 DEF Contents
<1>3. Shows(room) = [k \in 1 .. Len(room) |-> Shows(room)[k]]
  BY <1>1 DEF Shows
<1>4. Shows(room) \in Seq(Contents)
  BY <1>1, <1>2, <1>3, IsASeq
<1>5. Len(Shows(room)) = Len(room)
  BY <1>1, <1>3, <1>4, LenProperties
<1>6. QED
  BY <1>2, <1>4, <1>5

\* What recvThread and the chats are made of stays, or the connection ends and
\* nothing is left to read.
LEMMA RecvKept ==
  ASSUME RecvInv,
         UNCHANGED <<pcRecv, packet, shown, said, news>>,
         \/ UNCHANGED <<inbound, connected>>
         \/ inbound' = <<>> /\ connected' = FALSE
  PROVE  RecvInv'
<1>1. ToShow' = ToShow /\ InHand' = InHand
  BY DEF ToShow, InHand
<1>2. ShownSoFar'
  BY <1>1 DEF RecvInv, ShownSoFar
<1>3. CASE UNCHANGED <<inbound, connected>>
  <2>1. RecvTypes'
    BY <1>3 DEF RecvInv, RecvTypes
  <2>2. QED
    BY <1>1, <1>2, <1>3, <2>1 DEF RecvInv, NoneMissing
<1>4. CASE inbound' = <<>> /\ connected' = FALSE
  <2>1. inbound' \in Seq(Contents) /\ Len(inbound') = 0
    BY <1>4, EmptySeq
  <2>2. RecvTypes'
    <3>1. \A i \in 1 .. Len(inbound') : FALSE
      BY <2>1
    <3>2. QED
      BY <2>1, <3>1 DEF RecvInv, RecvTypes
  <2>3. \E h \in [0 .. Len(inbound') -> Nat] : CountsChats(h, inbound', ToShow, Len(shown) + InHand)
    <3> DEFINE from == Len(shown) + InHand
               h == [i \in 0 .. 0 |-> from]
    <3>1. from \in Nat
      BY LenProperties DEF RecvInv, RecvTypes, InHand
    <3> HIDE DEF from
    <3>2. h \in [0 .. Len(inbound') -> Nat] /\ h[0] = from
      BY <2>1, <3>1
    <3> HIDE DEF h
    <3>3. CountsChats(h, inbound', ToShow, from)
      BY <2>1, <3>2 DEF CountsChats
    <3>4. QED
      BY <3>2, <3>3 DEF from
  <2>4. QED
    BY <1>1, <1>2, <1>4, <2>2, <2>3 DEF RecvInv, NoneMissing
<1>5. QED
  BY <1>3, <1>4

\* A room has more chats: those that it had keep their numbers.
LEMMA MoreChats ==
  ASSUME NEW room, NEW more, Len(room) \in Nat, Len(more) \in Nat, Len(room) <= Len(more),
         \A k \in 1 .. Len(room) : more[k] = room[k]
  PROVE  /\ \A m, k : ChatAt(room, m, k) => ChatAt(more, m, k)
         /\ \A h, q, from : CountsChats(h, q, room, from) => CountsChats(h, q, more, from)
<1>1. \A m, k : ChatAt(room, m, k) => ChatAt(more, m, k)
  BY DEF ChatAt
<1>2. QED
  BY <1>1 DEF CountsChats

\* r is q with a packet behind it that, if it is a chat of the room, is the one
\* after those that h counts.
OneMore(q, r, room, h) ==
  /\ Len(q) \in Nat /\ h \in [0 .. Len(q) -> Nat]
  /\ Len(r) = Len(q) + 1
  /\ \A i \in 1 .. Len(q) : r[i] = q[i]
  /\ r[Len(q) + 1].id = "SC_CHAT" => ChatAt(room, r[Len(q) + 1], h[Len(q)] + 1)

\* The packets of r can be counted up to c.
CountedTo(r, room, from, c) ==
  \E g \in [0 .. Len(r) -> Nat] : CountsChats(g, r, room, from) /\ g[Len(r)] = c

\* The count goes on.
LEMMA CountOneMore ==
  ASSUME NEW q, NEW r, NEW room, NEW from, NEW h,
         CountsChats(h, q, room, from),
         OneMore(q, r, room, h)
  PROVE  /\ r[Len(r)].id = "SC_CHAT" => CountedTo(r, room, from, h[Len(q)] + 1)
         /\ r[Len(r)].id # "SC_CHAT" => CountedTo(r, room, from, h[Len(q)])
<1> DEFINE n == Len(q)
           m == r[n + 1]
           last == IF m.id = "SC_CHAT" THEN h[n] + 1 ELSE h[n]
           g == [i \in 0 .. n + 1 |-> IF i <= n THEN h[i] ELSE last]
<1>1. /\ n \in Nat /\ Len(r) = n + 1 /\ h[n] \in Nat /\ last \in Nat
      /\ h \in [0 .. n -> Nat] /\ \A i \in 1 .. n : r[i] = q[i]
      /\ m.id = "SC_CHAT" => ChatAt(room, m, h[n] + 1)
  BY DEF OneMore
<1>2. g \in [0 .. n + 1 -> Nat] /\ (\A i \in 0 .. n : g[i] = h[i]) /\ g[n + 1] = last
  BY <1>1
<1> HIDE DEF g
<1>3. g[0] = from
  BY <1>1, <1>2 DEF CountsChats
<1>4. ASSUME NEW i \in 1 .. n + 1
      PROVE  IF r[i].id = "SC_CHAT"
               THEN g[i] = g[i - 1] + 1 /\ ChatAt(room, r[i], g[i])
               ELSE g[i] = g[i - 1]
  <2>1. CASE i <= n
    <3>1. i \in 1 .. n /\ i \in 0 .. n /\ i - 1 \in 0 .. n
      BY <1>1, <2>1
    <3>2. g[i] = h[i] /\ g[i - 1] = h[i - 1] /\ r[i] = q[i]
      BY <1>1, <1>2, <3>1
    <3>3. QED
      BY <3>1, <3>2 DEF CountsChats
  <2>2. CASE i = n + 1
    <3>1. i - 1 = n /\ n \in 0 .. n
      BY <1>1, <2>2
    <3>2. g[i - 1] = h[n] /\ g[i] = last /\ r[i] = m
      BY <1>2, <2>2, <3>1
    <3>3. QED
      BY <1>1, <3>2
  <2>3. QED
    BY <1>1, <2>1, <2>2
<1>5. CountsChats(g, r, room, from)
  BY <1>1, <1>3, <1>4 DEF CountsChats
<1>6. CountedTo(r, room, from, last)
  BY <1>1, <1>2, <1>5 DEF CountedTo
<1>7. QED
  BY <1>1, <1>6

\* A packet for the client goes behind the others; a chat of the room is the
\* next one.
LEMMA PacketArrives ==
  ASSUME RecvInv, connected, NEW m,
         inbound' = Append(inbound, m),
         ValidSize(m.size), m.id \in ServerIds,
         UNCHANGED <<pcRecv, packet, shown, connected>>,
         news' \in 0 .. MaxNews,
         IF m.id = "SC_CHAT"
           THEN \E c \in Contents :
                  /\ said' = Append(said, c) /\ HasRoomForText(c.name)
                  /\ m.content = [name |-> c.name, msg |-> Clipped(c.name, c.msg)]
                  /\ ParseServerChat(m.size - HEADER_SIZE, m.content)
           ELSE said' = said
  PROVE  RecvInv'
<1> DEFINE n == Len(inbound)
           one == IF m.id = "SC_CHAT" THEN 1 ELSE 0
           room == ToShow
           more == ToShow'
<1>1. PICK M : inbound \in Seq(M)
  BY DEF RecvInv, RecvTypes
<1>2. /\ n \in Nat /\ inbound' \in Seq(M \cup {m}) /\ Len(inbound') = n + 1
      /\ inbound'[n + 1] = m /\ \A i \in 1 .. n : inbound'[i] = inbound[i]
  <2>1. inbound \in Seq(M \cup {m}) /\ m \in M \cup {m} /\ n \in Nat
    BY <1>1, LenProperties
  <2>2. QED
    BY <2>1, AppendProperties
<1>3. /\ said \in Seq(Contents) /\ Len(said) \in Nat /\ Len(shown) \in Nat
      /\ \A k \in 1 .. Len(said) : HasRoomForText(said[k].name)
  BY LenProperties DEF RecvInv, RecvTypes
<1>4. /\ said' \in Seq(Contents) /\ Len(said') = Len(said) + one
      /\ \A k \in 1 .. Len(said) : said'[k] = said[k]
      /\ \A k \in 1 .. Len(said') : HasRoomForText(said'[k].name)
  <2>1. CASE m.id = "SC_CHAT"
    <3>1. PICK c \in Contents : said' = Append(said, c) /\ HasRoomForText(c.name)
      BY <2>1
    <3>2. QED
      BY <1>3, <2>1, <3>1, AppendProperties
  <2>2. CASE m.id # "SC_CHAT"
    BY <1>3, <2>2
  <2>3. QED
    BY <2>1, <2>2
<1>5. /\ Len(room) = Len(said)
      /\ \A k \in 1 .. Len(said) :
           room[k] = [name |-> said[k].name, msg |-> Clipped(said[k].name, said[k].msg)]
  <2>1. room = Shows(said)
    BY DEF ToShow, Shows
  <2>2. QED
    BY <1>3, <2>1, ShowsIs
<1>6. /\ Len(more) = Len(said')
      /\ \A k \in 1 .. Len(said') :
           more[k] = [name |-> said'[k].name, msg |-> Clipped(said'[k].name, said'[k].msg)]
  <2>1. more = Shows(said')
    BY DEF ToShow, Shows
  <2>2. QED
    BY <1>4, <2>1, ShowsIs
<1> HIDE DEF n, one, room, more
<1>7. /\ Len(more) = Len(room) + one /\ Len(room) \in Nat /\ Len(more) \in Nat
      /\ \A k \in 1 .. Len(room) : more[k] = room[k]
  <2>1. Len(said) \in Nat /\ Len(said') = Len(said) + one /\ one \in Nat
    BY <1>3, <1>4 DEF one
  <2>2. \A k \in 1 .. Len(said) : k \in 1 .. Len(said') /\ said'[k] = said[k]
    BY <1>4, <2>1
  <2>3. QED
    BY <1>5, <1>6, <2>1, <2>2
<1>8. /\ \A p, k : ChatAt(room, p, k) => ChatAt(more, p, k)
      /\ \A h, q, from : CountsChats(h, q, room, from) => CountsChats(h, q, more, from)
  <2>1. Len(room) <= Len(more)
    BY <1>7 DEF one
  <2>2. QED
    BY <1>7, <2>1, MoreChats
<1>9. RecvTypes'
  <2>1. \A i \in 1 .. Len(inbound') : ValidSize(inbound'[i].size) /\ inbound'[i].id \in ServerIds
    BY <1>2 DEF RecvInv, RecvTypes, n
  <2>2. \E S : inbound' \in Seq(S)
    BY <1>2
  <2>3. QED
    BY <1>4, <2>1, <2>2 DEF RecvInv, RecvTypes
<1>10. ShownSoFar'
  <2>1. Len(shown) <= Len(room) /\ \A k \in 1 .. Len(shown) : shown[k] = room[k]
    BY DEF RecvInv, ShownSoFar, room
  <2>2. Len(shown) <= Len(more) /\ \A k \in 1 .. Len(shown) : k \in 1 .. Len(room)
    BY <1>3, <1>7, <2>1 DEF one
  <2>3. QED
    BY <1>7, <2>1, <2>2 DEF ShownSoFar, more
<1>11. ASSUME pcRecv # "done"
       PROVE  NoneMissing'
  <2> DEFINE from == Len(shown) + InHand
  <2>1. PICK h \in [0 .. n -> Nat] : CountsChats(h, inbound, room, from) /\ h[n] = Len(room)
    BY <1>11 DEF RecvInv, NoneMissing, n, room
  <2>2. InHand' = InHand /\ (InHand = 1 => ChatAt(room, packet, Len(shown) + 1))
    BY <1>11 DEF RecvInv, NoneMissing, InHand, room
  <2> HIDE DEF from
  <2>3. m.id = "SC_CHAT" => ChatAt(more, m, h[n] + 1)
    <3> SUFFICES ASSUME m.id = "SC_CHAT"
                 PROVE  ChatAt(more, m, h[n] + 1)
      OBVIOUS
    <3>1. PICK c \in Contents :
            /\ said' = Append(said, c)
            /\ m.content = [name |-> c.name, msg |-> Clipped(c.name, c.msg)]
            /\ ParseServerChat(m.size - HEADER_SIZE, m.content)
      OBVIOUS
    <3> DEFINE k == Len(said) + 1
    <3>2. said'[k] = c /\ Len(said') = k /\ k \in 1 .. Len(said') /\ h[n] + 1 = k
      BY <1>3, <1>5, <2>1, <3>1, AppendProperties
    <3> HIDE DEF k
    <3>3. more[k] = m.content /\ k \in 1 .. Len(more)
      BY <1>6, <3>1, <3>2
    <3>4. QED
      BY <3>1, <3>2, <3>3 DEF ChatAt
  <2>4. \E g \in [0 .. Len(inbound') -> Nat] :
          /\ CountsChats(g, inbound', more, from)
          /\ g[Len(inbound')] = Len(more)
    <3> DEFINE q == inbound
               r == inbound'
    <3>1. /\ Len(q) \in Nat /\ h \in [0 .. Len(q) -> Nat] /\ CountsChats(h, q, more, from)
          /\ Len(r) = Len(q) + 1 /\ r[Len(q) + 1] = m /\ r[Len(r)] = m
          /\ \A i \in 1 .. Len(q) : r[i] = q[i]
          /\ r[Len(q) + 1].id = "SC_CHAT" => ChatAt(more, r[Len(q) + 1], h[Len(q)] + 1)
      BY <1>2, <1>8, <2>1, <2>3 DEF n
    <3>2. (IF m.id = "SC_CHAT" THEN h[Len(q)] + 1 ELSE h[Len(q)]) = Len(more)
      BY <1>7, <2>1 DEF n, one
    <3> HIDE DEF q, r
    <3>3. /\ r[Len(r)].id = "SC_CHAT" => CountedTo(r, more, from, h[Len(q)] + 1)
          /\ r[Len(r)].id # "SC_CHAT" => CountedTo(r, more, from, h[Len(q)])
      <4>1. CountsChats(h, q, more, from) /\ OneMore(q, r, more, h)
        BY <3>1 DEF OneMore
      <4>2. QED
        BY <4>1, CountOneMore
    <3>4. CountedTo(r, more, from, Len(more))
      BY <3>1, <3>2, <3>3
    <3>5. QED
      BY <3>4 DEF r, CountedTo
  <2>5. QED
    BY <1>8, <2>2, <2>4 DEF NoneMissing, from, more
<1>12. QED
  BY <1>9, <1>10, <1>11 DEF RecvInv

\* What a send adds to the connection: a packet, or nothing.
LEMMA SendsOne ==
  ASSUME NEW M, NEW q \in Seq(M), NEW m
  PROVE  q \o <<m>> = Append(q, m) /\ q \o <<>> = q
<1>1. q \in Seq(M \cup {m}) /\ m \in M \cup {m}
  OBVIOUS
<1>2. QED
  BY <1>1, AppendIsConcat, ConcatEmptySeq

\* The server's steps.
LEMMA ServerStep == ASSUME RecvInv, Server PROVE RecvInv'
<1>1. PICK M : inbound \in Seq(M)
  BY DEF RecvInv, RecvTypes
<1>2. CASE HandlePacket
  <2>1. UNCHANGED <<pcRecv, packet, shown, said, news, inbound, connected>>
    BY <1>2 DEF HandlePacket, clientVars
  <2>2. QED
    BY <2>1, RecvKept
<1>3. CASE PeerChats
  <2>1. PICK name \in PeerNames, msg \in Texts :
          /\ News(BroadcastChat(name, msg))
          /\ said' = IF HasRoomForText(name) THEN Append(said, [name |-> name, msg |-> msg]) ELSE said
    BY <1>3 DEF PeerChats
  <2>2. name \in Nat /\ msg \in Nat /\ [name |-> name, msg |-> msg] \in Contents
    BY ClientAssumption DEF Contents
  <2>3. /\ UNCHANGED <<pcRecv, packet, shown, connected>> /\ connected
        /\ news' \in 0 .. MaxNews /\ inbound' = inbound \o BroadcastChat(name, msg)
    BY <2>1, ClientAssumption DEF News, clientVars, RecvInv, RecvTypes
  <2>4. CASE HasRoomForText(name)
    <3>1. HEADER_SIZE + Overhead(name) < MAX_PACKET_SIZE
      BY <2>2, <2>4, CutFits
    <3>2. PICK p :
            /\ BroadcastChat(name, msg) = <<p>>
            /\ p.id = "SC_CHAT" /\ ValidSize(p.size)
            /\ p.content = [name |-> name, msg |-> Clipped(name, msg)]
            /\ ParseServerChat(p.size - HEADER_SIZE, p.content)
      BY <2>2, <3>1, ChatIsWhole
    <3>3. inbound' = Append(inbound, p)
      BY <1>1, <2>3, <3>2, SendsOne
    <3>4. \E c \in Contents :
            /\ said' = Append(said, c) /\ HasRoomForText(c.name)
            /\ p.content = [name |-> c.name, msg |-> Clipped(c.name, c.msg)]
            /\ ParseServerChat(p.size - HEADER_SIZE, p.content)
      <4> DEFINE c == [name |-> name, msg |-> msg]
      <4>1. c.name = name /\ c.msg = msg /\ c \in Contents /\ said' = Append(said, c)
        BY <2>1, <2>2, <2>4
      <4> HIDE DEF c
      <4>2. QED
        BY <2>4, <3>2, <4>1
    <3>5. p.id \in ServerIds
      BY <3>2 DEF ServerIds
    <3>6. QED
      BY <2>3, <3>2, <3>3, <3>4, <3>5, PacketArrives
  <2>5. CASE ~HasRoomForText(name)
    <3>1. BroadcastChat(name, msg) = <<>>
      BY <2>2, <2>5 DEF BroadcastChat, HasRoomForText, Overhead, HEADER_SIZE, MAX_PACKET_SIZE
    <3>2. inbound' = inbound /\ said' = said
      BY <1>1, <2>1, <2>3, <2>5, <3>1, SendsOne
    <3>3. RecvTypes' /\ ToShow' = ToShow /\ InHand' = InHand
      BY <2>3, <3>2 DEF RecvInv, RecvTypes, ToShow, InHand
    <3>4. QED
      BY <2>3, <3>2, <3>3 DEF RecvInv, ShownSoFar, NoneMissing
  <2>6. QED
    BY <2>4, <2>5
<1>4. ASSUME NEW id \in ServerIds \ {"SC_CHAT"}, NEW size, NEW content, connected,
             inbound' = inbound \o SendPacket(id, size, content),
             UNCHANGED <<pcRecv, packet, shown, connected, said>>, news' \in 0 .. MaxNews
      PROVE  RecvInv'
  <2> DEFINE m == [id |-> id, size |-> HEADER_SIZE + size, content |-> content]
  <2>1. CASE ValidSize(HEADER_SIZE + size)
    <3>1. SendPacket(id, size, content) = <<m>> /\ m.id = id /\ ValidSize(m.size)
      BY <2>1 DEF SendPacket
    <3> HIDE DEF m
    <3>2. inbound' = Append(inbound, m)
      BY <1>1, <1>4, <3>1, SendsOne
    <3>3. m.id \in ServerIds /\ m.id # "SC_CHAT" /\ said' = said
      BY <1>4, <3>1
    <3>4. QED
      BY <1>4, <3>1, <3>2, <3>3, PacketArrives
  <2>2. CASE ~ValidSize(HEADER_SIZE + size)
    <3>1. SendPacket(id, size, content) = <<>>
      BY <2>2 DEF SendPacket
    <3>2. inbound' = inbound
      BY <1>1, <1>4, <3>1, SendsOne
    <3>3. RecvTypes' /\ ToShow' = ToShow /\ InHand' = InHand
      BY <1>4, <3>2 DEF RecvInv, RecvTypes, ToShow, InHand
    <3>4. QED
      BY <1>4, <3>2, <3>3 DEF RecvInv, ShownSoFar, NoneMissing
  <2>3. QED
    BY <2>1, <2>2
<1>5. CASE PeerReady
  <2>1. PICK name \in PeerNames, n \in Crowds :
          News(SendRoomState([i \in 1 .. n |-> name])) /\ said' = said
    BY <1>5 DEF PeerReady
  <2> DEFINE names == [i \in 1 .. n |-> name]
             bytes == U16(RoomStateSize(names))
  <2>2. SendRoomState(names) = SendPacket("SC_ROOM_STATE", bytes, <<>>)
    BY DEF SendRoomState
  <2>6. News(SendRoomState(names)) /\ said' = said
    BY <2>1
  <2> HIDE DEF names, bytes
  <2>3. /\ UNCHANGED <<pcRecv, packet, shown, connected, said>> /\ connected
        /\ news' \in 0 .. MaxNews /\ inbound' = inbound \o SendPacket("SC_ROOM_STATE", bytes, <<>>)
    BY <2>2, <2>6, ClientAssumption DEF News, clientVars, RecvInv, RecvTypes
  <2>4. "SC_ROOM_STATE" \in ServerIds \ {"SC_CHAT"}
    BY DEF ServerIds
  <2>5. QED
    BY <1>4, <2>3, <2>4
<1>6. CASE Shutdown
  <2>1. /\ UNCHANGED <<pcRecv, packet, shown, connected, said, news>> /\ connected
        /\ inbound' = inbound \o SendPacket("SC_SHUTDOWN", 0, <<>>)
    BY <1>6 DEF Shutdown, clientVars
  <2>2. "SC_SHUTDOWN" \in ServerIds \ {"SC_CHAT"} /\ news' \in 0 .. MaxNews
    BY <2>1 DEF ServerIds, RecvInv, RecvTypes
  <2>3. QED
    BY <1>4, <2>1, <2>2
<1>7. CASE Disconnect
  <2>1. PICK n \in 0 .. Len(inbound) : inbound' = SubSeq(inbound, 1, n)
    BY <1>7 DEF Disconnect
  <2>2. UNCHANGED <<pcRecv, packet, shown, said, news>> /\ ~connected'
    BY <1>7 DEF Disconnect, clientVars, serverVars
  <2>3. Len(inbound) \in Nat /\ \A i \in 1 .. n : inbound[i] \in M
    BY <1>1, LenProperties, ElementOfSeq
  <2>4. /\ inbound' \in Seq(M) /\ Len(inbound') = n
        /\ \A i \in 1 .. n : inbound'[i] = inbound[i]
    BY <2>1, <2>3, SubSeqProperties
  <2>5. RecvTypes' /\ ToShow' = ToShow /\ InHand' = InHand
    <3>1. \A i \in 1 .. n : i \in 1 .. Len(inbound)
      BY <2>3
    <3>2. QED
      BY <2>2, <2>4, <3>1 DEF RecvInv, RecvTypes, ToShow, InHand
  <2>6. ShownSoFar'
    BY <2>2, <2>5 DEF RecvInv, ShownSoFar
  <2>7. ASSUME pcRecv # "done"
        PROVE  NoneMissing'
    <3> DEFINE from == Len(shown) + InHand
    <3>1. PICK h \in [0 .. Len(inbound) -> Nat] : CountsChats(h, inbound, ToShow, from)
      BY <2>7 DEF RecvInv, NoneMissing
    <3> HIDE DEF from
    <3> DEFINE g == [i \in 0 .. n |-> h[i]]
    <3>2. g \in [0 .. n -> Nat] /\ \A i \in 0 .. n : g[i] = h[i]
      BY <2>3
    <3> HIDE DEF g
    <3>3. CountsChats(g, inbound', ToShow, from)
      <4>1. g[0] = from
        BY <2>3, <3>1, <3>2 DEF CountsChats
      <4>2. ASSUME NEW i \in 1 .. n
            PROVE  IF inbound'[i].id = "SC_CHAT"
                     THEN g[i] = g[i - 1] + 1 /\ ChatAt(ToShow, inbound'[i], g[i])
                     ELSE g[i] = g[i - 1]
        <5>1. i \in 1 .. Len(inbound) /\ i \in 0 .. n /\ i - 1 \in 0 .. n
          BY <2>3
        <5>2. g[i] = h[i] /\ g[i - 1] = h[i - 1] /\ inbound'[i] = inbound[i]
          BY <2>4, <3>2, <5>1
        <5>3. QED
          BY <3>1, <5>1, <5>2 DEF CountsChats
      <4>3. QED
        BY <2>4, <4>1, <4>2 DEF CountsChats
    <3>4. QED
      BY <2>2, <2>4, <2>5, <2>7, <3>2, <3>3 DEF RecvInv, NoneMissing, from
  <2>8. QED
    BY <2>2, <2>5, <2>6, <2>7 DEF RecvInv
<1>8. QED
  BY <1>2, <1>3, <1>5, <1>6, <1>7 DEF Server

\* recvThread takes the next packet off.
LEMMA RecvHeaderStep == ASSUME RecvInv, RecvHeader PROVE RecvInv'
<1> DEFINE n == Len(inbound)
           from == Len(shown) + InHand
<1>1. PICK M : inbound \in Seq(M)
  BY DEF RecvInv, RecvTypes
<1>2. /\ pcRecv = "header" /\ inbound # <<>>
      /\ packet' = Head(inbound) /\ inbound' = Tail(inbound)
      /\ UNCHANGED <<shown, said, news, connected>>
  BY DEF RecvHeader, serverVars
<1>3. n \in Nat /\ n > 0 /\ 1 \in 1 .. n
  BY <1>1, <1>2, EmptySeq
<1>4. /\ inbound' \in Seq(M) /\ Len(inbound') = n - 1 /\ packet' = inbound[1]
      /\ \A i \in 1 .. n - 1 : inbound'[i] = inbound[i + 1]
  BY <1>1, <1>2, HeadTailProperties
<1>5. ValidSize(packet'.size) /\ packet'.id \in ServerIds /\ pcRecv' = "body"
  <2>1. ValidSize(packet'.size) /\ packet'.id \in ServerIds
    BY <1>3, <1>4 DEF RecvInv, RecvTypes
  <2>2. QED
    BY <2>1 DEF RecvHeader
<1> HIDE DEF n
<1>6. RecvTypes'
  <2>1. ASSUME NEW i \in 1 .. n - 1
        PROVE  ValidSize(inbound'[i].size) /\ inbound'[i].id \in ServerIds
    <3>1. i + 1 \in 1 .. n
      BY <1>3
    <3>2. QED
      BY <1>4, <3>1 DEF RecvInv, RecvTypes, n
  <2>2. QED
    BY <1>2, <1>4, <1>5, <2>1 DEF RecvInv, RecvTypes, RecvLabels
<1>7. ToShow' = ToShow
  BY <1>2 DEF ToShow
<1>8. ShownSoFar'
  BY <1>2, <1>7 DEF RecvInv, ShownSoFar
<1>9. NoneMissing'
  <2>1. InHand = 0 /\ Len(shown) \in Nat
    BY <1>2, LenProperties DEF InHand, RecvInv, RecvTypes
  <2>2. InHand' = IF inbound[1].id = "SC_CHAT" THEN 1 ELSE 0
    BY <1>4, <1>5 DEF InHand
  <2>3. PICK h \in [0 .. n -> Nat] :
          /\ CountsChats(h, inbound, ToShow, from)
          /\ connected => h[n] = Len(ToShow)
    BY <1>2 DEF RecvInv, NoneMissing, n
  <2>4. h[0] = Len(shown)
    BY <2>1, <2>3 DEF CountsChats
  <2>5. /\ h[1] = Len(shown) + InHand'
        /\ InHand' = 1 => ChatAt(ToShow, packet', Len(shown) + 1)
    <3>1. IF inbound[1].id = "SC_CHAT"
            THEN h[1] = h[1 - 1] + 1 /\ ChatAt(ToShow, inbound[1], h[1])
            ELSE h[1] = h[1 - 1]
      BY <1>3, <2>3 DEF CountsChats, n
    <3>2. 1 - 1 = 0
      OBVIOUS
    <3>3. QED
      BY <1>4, <2>1, <2>2, <2>4, <3>1, <3>2
  <2> DEFINE g == [i \in 0 .. n - 1 |-> h[i + 1]]
  <2>6. g \in [0 .. n - 1 -> Nat] /\ \A i \in 0 .. n - 1 : g[i] = h[i + 1]
    BY <1>3
  <2> HIDE DEF g
  <2>7. CountsChats(g, inbound', ToShow, Len(shown) + InHand')
    <3>1. g[0] = Len(shown) + InHand'
      BY <1>3, <2>5, <2>6
    <3>2. ASSUME NEW i \in 1 .. n - 1
          PROVE  IF inbound'[i].id = "SC_CHAT"
                   THEN g[i] = g[i - 1] + 1 /\ ChatAt(ToShow, inbound'[i], g[i])
                   ELSE g[i] = g[i - 1]
      <4>1. i + 1 \in 1 .. n /\ i \in 0 .. n - 1 /\ i - 1 \in 0 .. n - 1 /\ (i + 1) - 1 = i /\ (i - 1) + 1 = i
        BY <1>3
      <4>2. g[i] = h[i + 1] /\ g[i - 1] = h[i] /\ inbound'[i] = inbound[i + 1]
        BY <1>4, <2>6, <4>1
      <4>3. IF inbound[i + 1].id = "SC_CHAT"
              THEN h[i + 1] = h[i] + 1 /\ ChatAt(ToShow, inbound[i + 1], h[i + 1])
              ELSE h[i + 1] = h[i]
        <5>1. \A j \in 1 .. n :
                IF inbound[j].id = "SC_CHAT"
                  THEN h[j] = h[j - 1] + 1 /\ ChatAt(ToShow, inbound[j], h[j])
                  ELSE h[j] = h[j - 1]
          BY <2>3 DEF CountsChats, n
        <5>2. QED
          BY <4>1, <5>1
      <4>4. QED
        BY <4>2, <4>3
    <3>3. QED
      BY <1>4, <3>1, <3>2 DEF CountsChats
  <2>8. connected => g[Len(inbound')] = Len(ToShow)
    <3>1. n - 1 \in 0 .. n - 1 /\ (n - 1) + 1 = n
      BY <1>3
    <3>2. QED
      BY <1>4, <2>3, <2>6, <3>1
  <2>9. QED
    BY <1>2, <1>4, <1>7, <2>5, <2>6, <2>7, <2>8 DEF NoneMissing
<1>10. QED
  BY <1>6, <1>8, <1>9 DEF RecvInv

\* The chat in hand is the next one, and it is whole.
LEMMA ShowChatStep == ASSUME RecvInv, ShowChat PROVE RecvInv'
<1>1. /\ pcRecv = "handle" /\ packet.id = "SC_CHAT" /\ pcRecv' = "loop"
      /\ UNCHANGED <<packet, inbound, connected, said, news>>
  BY DEF ShowChat, netVars, serverVars
<1>2. InHand = 1 /\ InHand' = 0 /\ ToShow' = ToShow
  BY <1>1 DEF InHand, ToShow
<1>3. ChatAt(ToShow, packet, Len(shown) + 1)
  BY <1>1, <1>2 DEF RecvInv, NoneMissing
<1>4. shown' = Append(shown, packet.content)
  BY <1>3 DEF ChatAt, ShowChat
<1>5. /\ shown \in Seq(Contents) /\ Len(shown) \in Nat
      /\ ToShow \in Seq(Contents)
  <2>1. ToShow = Shows(said)
    BY DEF ToShow, Shows
  <2>2. QED
    BY <2>1, ShowsIs, LenProperties DEF RecvInv, RecvTypes
<1>6. packet.content \in Contents
  <2>1. Len(shown) + 1 \in 1 .. Len(ToShow) /\ packet.content = ToShow[Len(shown) + 1]
    BY <1>3 DEF ChatAt
  <2>2. QED
    BY <1>5, <2>1, ElementOfSeq
<1>7. /\ shown' \in Seq(Contents) /\ Len(shown') = Len(shown) + 1
      /\ shown'[Len(shown) + 1] = packet.content
      /\ \A k \in 1 .. Len(shown) : shown'[k] = shown[k]
  BY <1>4, <1>5, <1>6, AppendProperties
<1>8. RecvTypes'
  BY <1>1, <1>7 DEF RecvInv, RecvTypes, RecvLabels
<1>9. ShownSoFar'
  <2>1. Len(shown') <= Len(ToShow)
    BY <1>3, <1>7 DEF ChatAt
  <2>2. ASSUME NEW k \in 1 .. Len(shown')
        PROVE  shown'[k] = ToShow[k]
    <3>1. CASE k = Len(shown) + 1
      BY <1>3, <1>7, <3>1 DEF ChatAt
    <3>2. CASE k # Len(shown) + 1
      <4>1. k \in 1 .. Len(shown)
        BY <1>5, <1>7, <3>2
      <4>2. QED
        BY <1>7, <4>1 DEF RecvInv, ShownSoFar
    <3>3. QED
      BY <3>1, <3>2
  <2>3. QED
    BY <1>2, <2>1, <2>2 DEF ShownSoFar
<1>10. NoneMissing'
  <2>1. Len(shown') + InHand' = Len(shown) + InHand
    BY <1>2, <1>5, <1>7
  <2>2. QED
    BY <1>1, <1>2, <2>1 DEF RecvInv, NoneMissing
<1>11. QED
  BY <1>8, <1>9, <1>10 DEF RecvInv

\* recvThread's steps.
LEMMA ReceiveStep == ASSUME RecvInv, Receive PROVE RecvInv'
<1>1. CASE RecvLoop \/ RecvBody \/ RecvFail \/ ObeyServer \/ SkipPacket
  <2>1. UNCHANGED <<shown, said, news, inbound, connected>>
    BY <1>1 DEF RecvLoop, RecvBody, RecvFail, ObeyServer, SkipPacket, netVars, serverVars
  <2>2. ToShow' = ToShow
    BY <2>1 DEF ToShow
  <2>3. pcRecv' \in RecvLabels /\ (pcRecv' \in {"body", "handle"} => packet'.id \in ServerIds)
    BY <1>1 DEF RecvInv, RecvTypes, RecvLabels, RecvLoop, RecvBody, RecvFail, ObeyServer, SkipPacket
  <2>4. RecvTypes' /\ ShownSoFar'
    BY <2>1, <2>2, <2>3 DEF RecvInv, RecvTypes, ShownSoFar
  <2>5. ASSUME pcRecv' # "done"
        PROVE  NoneMissing'
    <3>1. /\ pcRecv # "done" /\ InHand' = InHand
          /\ InHand = 1 => packet' = packet
      BY <1>1, <2>5 DEF RecvLoop, RecvBody, RecvFail, ObeyServer, SkipPacket, InHand
    <3>2. QED
      BY <2>1, <2>2, <3>1 DEF RecvInv, NoneMissing
  <2>6. QED
    BY <2>4, <2>5 DEF RecvInv
<1>2. QED
  BY <1>1, RecvHeaderStep, ShowChatStep DEF Receive

\* main's steps.
LEMMA MainLeavesRecv == ASSUME RecvInv, Main PROVE RecvInv'
<1>1. /\ UNCHANGED <<pcRecv, packet, shown, said, news>>
      /\ \/ UNCHANGED <<inbound, connected>>
         \/ inbound' = <<>> /\ connected' = FALSE
  BY DEF Main, SendLogin, SendEnterRoom, Greet, MainLoop, ReadCommand, ReadChat, ReadQuit,
         StopRunning, CloseSocket, OpenAfterClose, Join, netVars, serverVars
<1>2. QED
  BY <1>1, RecvKept

\* No chat is said or sent yet.
LEMMA RecvInit == Init => RecvInv
<1> SUFFICES ASSUME Init
             PROVE  RecvInv
  OBVIOUS
<1>1. /\ inbound \in Seq(Contents) /\ shown \in Seq(Contents) /\ said \in Seq(Contents)
      /\ Len(inbound) = 0 /\ Len(shown) = 0 /\ Len(said) = 0
      /\ pcRecv = "loop" /\ news = 0 /\ MaxNews \in Nat
  BY EmptySeq, ClientAssumption DEF Init
<1>2. RecvTypes
  BY <1>1 DEF RecvTypes, RecvLabels
<1>3. Len(ToShow) = 0
  <2>1. ToShow = Shows(said)
    BY DEF ToShow, Shows
  <2>2. \A k \in 1 .. Len(said) : HasRoomForText(said[k].name)
    BY <1>1
  <2>3. Len(Shows(said)) = Len(said)
    BY <1>1, <2>2, ShowsIs
  <2>4. QED
    BY <1>1, <2>1, <2>3
<1>4. ShownSoFar
  BY <1>1, <1>3 DEF ShownSoFar
<1>5. NoneMissing
  <2>1. InHand = 0
    BY <1>1 DEF InHand
  <2> DEFINE h == [i \in 0 .. 0 |-> 0]
  <2>2. h \in [0 .. 0 -> Nat] /\ h[0] = 0
    OBVIOUS
  <2> HIDE DEF h
  <2>3. CountsChats(h, inbound, ToShow, Len(shown) + InHand)
    BY <1>1, <2>1, <2>2 DEF CountsChats
  <2>4. QED
    BY <1>1, <1>3, <2>1, <2>2, <2>3 DEF NoneMissing
<1>6. QED
  BY <1>2, <1>4, <1>5 DEF RecvInv

\* The two parts together are an inductive invariant.
THEOREM ClientInvariant == Spec => [](MainInv /\ RecvInv)
<1>1. Init => MainInv /\ RecvInv
  BY MainInit, RecvInit
<1>2. RecvInv /\ [Next]_vars => RecvInv'
  <2> SUFFICES ASSUME RecvInv, [Next]_vars
               PROVE  RecvInv'
    OBVIOUS
  <2>1. CASE Finished \/ UNCHANGED vars
    <3>1. UNCHANGED vars
      BY <2>1 DEF Finished
    <3>2. UNCHANGED <<pcRecv, packet, shown, said, news, inbound, connected>>
      BY <3>1 DEF vars, clientVars, netVars, serverVars
    <3>3. QED
      BY <3>2, RecvKept
  <2>2. QED
    BY <2>1, MainLeavesRecv, ReceiveStep, ServerStep DEF Next
<1>3. QED
  BY <1>1, <1>2, MainInductive, PTL DEF Spec

-----------------------------------------------------------------------------
(* What follows.                                                           *)

\* Flags, labels and counters keep their types; what the server sends the client,
\* it does not take for an error.
THEOREM ClientTypeCorrect == Spec => []TypeOK
<1>1. MainInv /\ RecvInv => TypeOK
  <2> SUFFICES ASSUME MainInv, RecvInv
               PROVE  TypeOK
    OBVIOUS
  <2>1. late \in 0 .. chats
    BY DEF MainInv, MainTypes, LateIsLast
  <2>2. \A n \in Nat : ValidSize(n) => n \in Sizes
    <3> DEFINE top == 65535
    <3>1. Sizes = 0 .. top
      BY DEF Sizes
    <3>2. top \in Nat /\ \A n \in Nat : ValidSize(n) => n <= top
      BY DEF ValidSize, HEADER_SIZE, MAX_PACKET_SIZE
    <3> HIDE DEF top
    <3>3. QED
      BY <3>1, <3>2
  <2>3. ASSUME NEW i \in DOMAIN outbound
        PROVE  outbound[i].size \in Sizes
    <3>1. i \in 1 .. Len(outbound) /\ outbound[i] \in Requests
      BY <2>3, LenProperties, ElementOfSeq DEF MainInv, MainTypes
    <3>2. outbound[i].size \in Nat /\ ValidSize(outbound[i].size)
      BY <3>1 DEF MainInv, MainTypes, Requests
    <3>3. QED
      BY <2>2, <3>2
  <2>4. ASSUME NEW i \in DOMAIN inbound
        PROVE  ValidSize(inbound[i].size)
    <3>1. PICK M : inbound \in Seq(M)
      BY DEF RecvInv, RecvTypes
    <3>2. i \in 1 .. Len(inbound)
      BY <2>4, <3>1, LenProperties
    <3>3. QED
      BY <3>2 DEF RecvInv, RecvTypes
  <2>5. running \in BOOLEAN /\ sockOpen \in BOOLEAN /\ connected \in BOOLEAN /\ stopping \in BOOLEAN
    BY DEF MainInv, MainTypes
  <2>6. /\ pcMain \in {"login", "enter", "loop", "line", "stop", "close", "join", "done"}
        /\ state \in {"None", "LoggedIn", "InRoom"} /\ chats \in 0 .. MaxChats
    BY DEF MainInv, MainTypes, MainLabels
  <2>7. pcRecv \in {"loop", "header", "body", "handle", "done"} /\ news \in 0 .. MaxNews
    BY DEF RecvInv, RecvTypes, RecvLabels
  <2>8. QED
    BY <2>1, <2>3, <2>4, <2>5, <2>6, <2>7, Zenon DEF TypeOK
<1>2. QED
  BY <1>1, ClientInvariant, PTL

\* Whatever names and texts are chosen, and wherever the connection ends, what the
\* client shows are the room's first chats, in order and each as long as can be.
THEOREM ChatsShownInOrder == Spec => []ChatsAreShown
<1>1. RecvInv => ChatsAreShown
  <2> SUFFICES ASSUME RecvInv
               PROVE  ChatsAreShown
    OBVIOUS
  <2>1. shown \in Seq(Contents) /\ Len(shown) \in Nat
    BY LenProperties DEF RecvInv, RecvTypes
  <2>2. Len(shown) <= Len(ToShow) /\ \A k \in 1 .. Len(shown) : shown[k] = ToShow[k]
    BY DEF RecvInv, ShownSoFar
  <2>3. \A k \in 1 .. Len(shown) : shown[k] \in Contents /\ ToShow[k] \in Contents
    BY <2>1, <2>2, ElementOfSeq
  <2> DEFINE s == SubSeq(shown, 1, Len(shown))
             t == SubSeq(ToShow, 1, Len(shown))
  <2>4. s \in Seq(Contents) /\ Len(s) = Len(shown) /\ \A k \in 1 .. Len(shown) : s[k] = shown[k]
    BY <2>1, <2>3, SubSeqProperties
  <2>5. t \in Seq(Contents) /\ Len(t) = Len(shown) /\ \A k \in 1 .. Len(shown) : t[k] = ToShow[k]
    BY <2>1, <2>3, SubSeqProperties
  <2> HIDE DEF s, t
  <2>6. s = t
    BY <2>2, <2>4, <2>5, SeqEqual
  <2>7. QED
    BY <2>2, <2>6 DEF ChatsAreShown, IsPrefix, s, t
<1>2. QED
  BY <1>1, ClientInvariant, PTL

\* Every packet of the client reaches the FSM in the state it is made for, though
\* the client never waits for an answer.
THEOREM PacketsAccepted == Spec => []PacketsAreAccepted
<1>1. MainInv => PacketsAreAccepted
  <2> SUFFICES ASSUME MainInv, connected, ~stopping, outbound # <<>>
               PROVE  Accepted(Head(outbound))
    BY DEF PacketsAreAccepted
  <2>1. Head(outbound) = outbound[1] /\ 1 \in 1 .. Len(outbound)
    BY EmptySeq, HeadTailProperties DEF MainInv, MainTypes
  <2>2. QED
    BY <2>1 DEF MainInv, MainTypes, InStep, Accepted
<1>2. QED
  BY <1>1, ClientInvariant, PTL

\* At most one chat is sent after running was cleared, however long the user types.
THEOREM OneLateLine == Spec => []OneLineLate
<1>1. MainInv => OneLineLate
  BY DEF MainInv, LateIsLast, OneLineLate
<1>2. QED
  BY <1>1, ClientInvariant, PTL

=============================================================================
