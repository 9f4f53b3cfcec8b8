------------------------------ MODULE Framing ------------------------------
(***************************************************************************)
(* From the bytes of a TCP stream back to packets: the receive completions *)
(* of one session copy what arrived into its RingBuffer, and the loop of   *)
(* OnRecvComplete cuts it into packets by the size field of each header.   *)
(* One receive is outstanding at a time (Session, OneReceiver), so nothing *)
(* interferes with the loop; that others may close the session, which ends *)
(* the receiving, is left to Session.                                      *)
(*                                                                         *)
(* A byte is a record of the packet it belongs to, its place in it, and    *)
(* the size the packet's header states: a packet is what it should be if   *)
(* its bytes are those of one packet, in order.                            *)
(***************************************************************************)
EXTENDS Naturals, Sequences, SequencesExt

CONSTANTS
  HeaderSize,        \* sizeof(PacketHeader), 4
  MAX_PACKET_SIZE,   \* 4096
  BUFFER_SIZE,       \* 4096, the receive buffer
  RING_SIZE,         \* 8192
  Sizes,             \* the size fields clients write, good and bad
  MaxPackets         \* bound: packets of the connection

ASSUME FramingAssumption ==
  /\ HeaderSize \in Nat \ {0}
  /\ MAX_PACKET_SIZE \in Nat /\ MAX_PACKET_SIZE >= HeaderSize
  /\ BUFFER_SIZE \in Nat \ {0}
  /\ RING_SIZE \in Nat /\ RING_SIZE >= MAX_PACKET_SIZE - 1 + BUFFER_SIZE
  /\ Sizes \subseteq Nat
  /\ MaxPackets \in Nat

VARIABLES
  sizes,         \* the size fields of the packets the client sent
  wire,          \* bytes sent and not received
  buffer, readPos, writePos, storedBytes,    \* recvRing
  parsed,        \* the packets handed to ProcessPacket
  phase          \* "waiting" for a receive, "parsing", or "closed"

ringVars == <<buffer, readPos, writePos, storedBytes>>
vars == <<sizes, wire, ringVars, parsed, phase>>

Positions == 0 .. RING_SIZE - 1
NoByte == [packet |-> 0, place |-> 0, size |-> 0]

\* IsValid, and the check of the parse loop.
ValidSize(z) == z >= HeaderSize /\ z <= MAX_PACKET_SIZE

\* The i-th packet: its header, at least, and its body if the size says so.
PacketBytes(i, z) ==
  [place \in 1 .. (IF ValidSize(z) THEN z ELSE HeaderSize) |->
     [packet |-> i, place |-> place, size |-> z]]

Init ==
  /\ sizes = <<>>
  /\ wire = <<>>
  /\ buffer = [p \in Positions |-> NoByte]
  /\ readPos = 0
  /\ writePos = 0
  /\ storedBytes = 0
  /\ parsed = <<>>
  /\ phase = "waiting"

-----------------------------------------------------------------------------
(* RingBuffer.                                                             *)

Lesser(m, n) == IF m <= n THEN m ELSE n

\* Fault: what does not fit before the end of the buffer is dropped.
WrittenOnce(src) ==
  [p \in Positions |->
     IF p >= writePos /\ p < writePos + Len(src) THEN src[p - writePos + 1] ELSE buffer[p]]

\* Write: up to the end of the buffer, and the rest from its start.
Written(src) ==
  LET first == Lesser(Len(src), RING_SIZE - writePos) IN
    [p \in Positions |->
       CASE p >= writePos /\ p < writePos + first -> src[p - writePos + 1]
         [] p < Len(src) - first                  -> src[first + p + 1]
         [] OTHER                                 -> buffer[p]]

\* Peek, n bytes at position p.
Peek(p, n) ==
  LET first == Lesser(n, RING_SIZE - p) IN
    [i \in 1 .. n |-> IF i <= first THEN buffer[p + i - 1] ELSE buffer[i - first - 1]]

Has(n) == storedBytes >= n

\* Fault: a write that just fits is refused.
HasSpareRoom(n) == n < RING_SIZE - storedBytes

\* The check at the start of Write.
HasRoom(n) == n <= RING_SIZE - storedBytes

\* Fault: the position runs past the end of the buffer by one.
PlusNoWrap(p, n) == IF p + n > RING_SIZE THEN p + n - RING_SIZE ELSE p + n

Plus(p, n) == (p + n) % RING_SIZE

-----------------------------------------------------------------------------
\* The client writes a packet.
Send(z) ==
  /\ Len(sizes) < MaxPackets
  /\ sizes' = Append(sizes, z)
  /\ wire' = wire \o PacketBytes(Len(sizes) + 1, z)
  /\ UNCHANGED <<ringVars, parsed, phase>>

\* A receive completes with the next n bytes; the ring has room, or not.
Receive(n) ==
  /\ phase = "waiting"
  /\ n <= Len(wire)
  /\ wire' = SubSeq(wire, n + 1, Len(wire))
  /\ IF HasRoom(n)
       THEN /\ phase' = "parsing"
            /\ buffer' = Written(SubSeq(wire, 1, n))
            /\ writePos' = Plus(writePos, n)
            /\ storedBytes' = storedBytes + n
            /\ readPos' = readPos
       ELSE phase' = "closed" /\ UNCHANGED ringVars
  /\ UNCHANGED <<sizes, parsed>>

\* The size field of the header at readPos.
StatedSize == Peek(readPos, HeaderSize)[1].size

\* Faults: the loop does not wait for the body, or waits for a byte more.
HeaderIsEnough == Has(HeaderSize)
MoreThanComplete == Has(HeaderSize) /\ Has(StatedSize + 1)

PacketComplete == Has(HeaderSize) /\ Has(StatedSize)

\* A whole packet: header and body are taken out and processed.
ParsePacket ==
  /\ phase = "parsing"
  /\ PacketComplete
  /\ ValidSize(StatedSize)
  /\ LET body == Plus(readPos, HeaderSize)
         rest == StatedSize - HeaderSize
     IN  /\ parsed' = Append(parsed, Peek(readPos, HeaderSize) \o Peek(body, rest))
         /\ readPos' = Plus(body, rest)
         /\ storedBytes' = storedBytes - StatedSize
  /\ UNCHANGED <<sizes, wire, buffer, writePos, phase>>

\* A size out of bounds: RequestClose.
ParseFail ==
  /\ phase = "parsing"
  /\ Has(HeaderSize)
  /\ ~ValidSize(StatedSize)
  /\ phase' = "closed"
  /\ UNCHANGED <<sizes, wire, ringVars, parsed>>

\* No complete packet is left: PostRecv.
ParseDone ==
  /\ phase = "parsing"
  /\ ~PacketComplete
  /\ Has(HeaderSize) => ValidSize(StatedSize)
  /\ phase' = "waiting"
  /\ UNCHANGED <<sizes, wire, ringVars, parsed>>

Next ==
  \/ \E z \in Sizes : Send(z)
  \/ \E n \in 1 .. BUFFER_SIZE : Receive(n)
  \/ ParsePacket
  \/ ParseFail
  \/ ParseDone

Spec == Init /\ [][Next]_vars

\* TCP delivers what was sent, in pieces of any size; the worker runs.
Fairness ==
  /\ WF_vars(\E n \in 1 .. BUFFER_SIZE : Receive(n))
  /\ WF_vars(ParsePacket \/ ParseFail \/ ParseDone)

FairSpec == Spec /\ Fairness

-----------------------------------------------------------------------------
(* Properties.                                                             *)

TypeOK ==
  /\ sizes \in Seq(Sizes)
  /\ readPos \in Positions /\ writePos \in Positions
  /\ storedBytes \in 0 .. RING_SIZE
  /\ writePos = Plus(readPos, storedBytes)
  /\ phase \in {"waiting", "parsing", "closed"}

SentPackets == [i \in DOMAIN sizes |-> PacketBytes(i, sizes[i])]

\* No byte is lost, repeated or reordered on its way through the ring buffer:
\* parsed, stored and travelling bytes together are the bytes sent.
StreamIntact ==
  FlattenSeq(parsed) \o Peek(readPos, storedBytes) \o wire = FlattenSeq(SentPackets)

\* What ProcessPacket is given are the client's packets, whole and in order.
PacketsIntact ==
  \A i \in DOMAIN parsed : i \in DOMAIN sizes /\ parsed[i] = SentPackets[i]

\* The ring is large enough: the overflow branch of OnRecvComplete is never
\* taken, a connection is closed only for a size field out of bounds.
ClosedForCause ==
  phase = "closed" => \E i \in DOMAIN sizes : ~ValidSize(sizes[i])

\* Every packet before the first bad one is processed in the end, however the
\* stream was cut into receives.
AllParsed ==
  \A i \in 1 .. MaxPackets :
    (Len(sizes) >= i /\ \A j \in 1 .. i : ValidSize(sizes[j])) ~> Len(parsed) >= i

=============================================================================
