------------------------------ MODULE Framing -------------------------------
(***************************************************************************)
(* One direction of a NETConnect TCP connection: Send writes an 18 byte    *)
(* header and a body, ReceivePacket takes a header off the socket as soon  *)
(* as 18 bytes are there, and then whatever one Receive yields of the body.*)
(* Bytes are positions in the stream; what a header read at a position     *)
(* says follows from the packets sent.                                     *)
(***************************************************************************)
EXTENDS Integers, Sequences

CONSTANTS HeaderSize,     \* PacketHeader.HeaderSize
          Sizes,          \* the body lengths sent
          Garbage,        \* ByteLength of 18 bytes that are no header
          MaxPackets,     \* bound: packets sent
          WholePacketsArrive \* TCP delivers a packet in one piece

ASSUME SizesAssumption == HeaderSize \in Nat \ {0} /\ Sizes \subseteq Nat \ {0}
ASSUME GarbageAssumption == Garbage \subseteq Int
ASSUME MaxPacketsAssumption == MaxPackets \in Nat
ASSUME WholePacketsArriveAssumption == WholePacketsArrive \in BOOLEAN

VARIABLES
    sent,      \* the packets: position of the header, length of the body
    written,   \* bytes sent
    closed,    \* the sender has closed its end
    arrived,   \* bytes TCP has delivered
    read,      \* bytes taken off the socket
    pc,        \* ReceivePacket: "header", "body", or "failed" (an exception)
    Header,    \* the packet whose body is being received
    delivered  \* the packets returned: position of the header, bytes received

vars == <<sent, written, closed, arrived, read, pc, Header, delivered>>

Packets == [at : Nat, size : Nat]

NoHeader == [at |-> 0, size |-> 0]

Init ==
    /\ sent = << >> /\ written = 0 /\ closed = FALSE
    /\ arrived = 0 /\ read = 0
    /\ pc = "header" /\ Header = NoHeader
    /\ delivered = << >>

-----------------------------------------------------------------------------
(* The sender and TCP.                                                     *)

\* Socket.Send of header and body in one buffer; it returns when the system
\* has taken all of it.
Send(n) ==
    /\ ~closed
    /\ Len(sent) < MaxPackets
    /\ sent' = Append(sent, [at |-> written, size |-> n])
    /\ written' = written + HeaderSize + n
    /\ UNCHANGED <<closed, arrived, read, pc, Header, delivered>>

Close ==
    /\ ~closed
    /\ closed' = TRUE
    /\ UNCHANGED <<sent, written, arrived, read, pc, Header, delivered>>

\* Segments arrive: any part of what was sent, or none but whole packets.
Arrive(n) ==
    /\ n > arrived
    /\ WholePacketsArrive => n = written \/ \E i \in DOMAIN sent : sent[i].at = n
    /\ arrived' = n
    /\ UNCHANGED <<sent, written, closed, read, pc, Header, delivered>>

-----------------------------------------------------------------------------
(* ReceivePacket.                                                          *)

Available == arrived - read

\* The end of the stream follows its last byte.
IsGracefulShutdown == closed /\ arrived = written /\ Available = 0

\* ByteLength of the 18 bytes at a position.
ByteLengths(pos) ==
    IF \E i \in DOMAIN sent : sent[i].at = pos
    THEN {sent[i].size : i \in {j \in DOMAIN sent : sent[j].at = pos}}
    ELSE Garbage

\* Faulty variant: peeks, as the comment says, and leaves the header there.
HasValidHeader_Peeks ==
    /\ pc = "header"
    /\ Available >= HeaderSize
    /\ \E n \in ByteLengths(read) :
        /\ pc' = IF n < 0 THEN "failed" ELSE "body"
        /\ Header' = [at |-> read, size |-> n]
    /\ UNCHANGED <<sent, written, closed, arrived, read, delivered>>

\* Faulty variant: 18 bytes are not enough, the next header must be there too.
HasValidHeader_Greater ==
    /\ pc = "header"
    /\ Available >= 2 * HeaderSize
    /\ \E n \in ByteLengths(read) :
        /\ pc' = IF n < 0 THEN "failed" ELSE "body"
        /\ Header' = [at |-> read, size |-> n]
    /\ read' = read + HeaderSize
    /\ UNCHANGED <<sent, written, closed, arrived, delivered>>

\* HasValidHeader takes the header off the socket, whether or not the body is
\* there, and the buffer is allocated: a negative length throws.
HasValidHeader ==
    /\ pc = "header"
    /\ Available >= HeaderSize
    /\ \E n \in ByteLengths(read) :
        /\ pc' = IF n < 0 THEN "failed" ELSE "body"
        /\ Header' = [at |-> read, size |-> n]
    /\ read' = read + HeaderSize
    /\ UNCHANGED <<sent, written, closed, arrived, delivered>>

\* Socket.Receive: blocks until there is anything, or the stream has ended,
\* and returns what is there, up to n bytes.
BytesRead(n) == IF Available < n THEN Available ELSE n

\* One Receive; bytesRead is compared with nothing but 0, and the packet is
\* handed on with the rest of its buffer zero.
ReceiveBody ==
    /\ pc = "body"
    /\ Available > 0 \/ IsGracefulShutdown
    /\ read' = read + BytesRead(Header.size)
    /\ delivered' = Append(delivered, [Header EXCEPT !.size = BytesRead(@)])
    /\ Header' = NoHeader
    /\ pc' = "header"
    /\ UNCHANGED <<sent, written, closed, arrived>>

-----------------------------------------------------------------------------
Next ==
    \/ \E n \in Sizes : Send(n)
    \/ Close
    \/ \E n \in 1..written : Arrive(n)
    \/ HasValidHeader
    \/ ReceiveBody

Spec == Init /\ [][Next]_vars

\* TCP delivers what was sent, and the loop keeps calling ReceivePacket.
Fairness ==
    /\ WF_vars(\E n \in 1..written : Arrive(n))
    /\ WF_vars(HasValidHeader)
    /\ WF_vars(ReceiveBody)

FairSpec == Spec /\ Fairness

-----------------------------------------------------------------------------
(* Properties.                                                             *)

\* Every variable keeps its type.
TypeOK ==
    /\ sent \in Seq(Packets) /\ delivered \in Seq(Packets)
    /\ written \in Nat /\ arrived \in 0..written /\ read \in 0..arrived
    /\ closed \in BOOLEAN
    /\ pc \in {"header", "body", "failed"}
    /\ Header \in IF pc = "failed" THEN [at : Nat, size : Int] ELSE Packets

\* SocketExtensions.cs:270 "Peak at our data, get the length of our header and
\* data": what ReceivePacket returns are the packets of Send, whole and in order.
PacketsWhole ==
    /\ Len(delivered) <= Len(sent)
    /\ \A i \in DOMAIN delivered : delivered[i] = sent[i]

\* Header and body stay in step until a Receive yields less than the body:
\* the first packet that is not what was sent is one that was cut short.
ShortReadComesFirst ==
    \A i \in DOMAIN delivered :
        (\A j \in 1..(i - 1) : j \in DOMAIN sent /\ delivered[j] = sent[j]) =>
            /\ i \in DOMAIN sent
            /\ delivered[i].at = sent[i].at
            /\ delivered[i].size <= sent[i].size

\* The length that becomes the size of the buffer is never negative.
NeverFails == pc # "failed"

\* The byte stream implements the channel the main loops rely on.
Channel == INSTANCE PacketChannel WITH received <- delivered
ImplementsChannel == Channel!Spec

\* SocketExtensions.cs:148 "Gets Packet and Header, and handles
\* timeouts/shutdowns": once the sender has closed, the receiver sees the end.
CloseNoticed == closed ~> IsGracefulShutdown
=============================================================================
