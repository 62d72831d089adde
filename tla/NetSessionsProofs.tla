-------------------------- MODULE NetSessionsProofs -------------------------
(***************************************************************************)
(* Theorems about NetSessions, for every set of clients and of keys: type  *)
(* correctness, the agreement of keys, and the implementation of           *)
(* KeyAgreement.                                                           *)
(***************************************************************************)
EXTENDS NetSessions, TLAPS, SequenceTheorems

\* What is on its way to the server says about its sender's key.
ToServer(c, p) ==
    /\ p.enc = "ChaCha" => p.under = cliKey[c] /\ cliKey[c] # NoKey
    /\ p.action = "ACK" => p.data = cliKey[c] /\ cliKey[c] # NoKey
    /\ p.action = "Ready" => srvKey[c] # NoKey
    /\ p.data # NoKey => p.enc # "NONE"

\* What is on its way to the client says about the key stored for it.
ToClient(c, p) ==
    /\ p.enc = "ChaCha" => p.under = srvKey[c] /\ srvKey[c] # NoKey
    /\ p.action \in {"ACK", "Ready"} => srvKey[c] # NoKey
    /\ p.data # NoKey => p.enc # "NONE"

\* How far each side's own variables say the handshake has come.
Progress(c) ==
    /\ srvKey[c] # NoKey => srvKey[c] = cliKey[c]
    /\ cliAuth[c] => srvKey[c] # NoKey
    /\ cliPc[c] = "new" => cliKey[c] = NoKey
    /\ cliPc[c] = "loop" /\ ~cliAuth[c] => cliKey[c] = NoKey
    /\ cliPc[c] \in {"syn", "auth"} => cliKey[c] # NoKey
    /\ cliPc[c] = "recv" => cliAuth[c]

Handshake ==
    \A c \in Clients : /\ Progress(c)
                       /\ \A p \in Packets(c2s[c]) : ToServer(c, p)
                       /\ \A p \in Packets(s2c[c]) : ToClient(c, p)

IInv == TypeOK /\ Handshake

-----------------------------------------------------------------------------
(* Queues.                                                                 *)

LEMMA PacketsAppend ==
  ASSUME NEW q \in Seq(Packet), NEW p \in Packet
  PROVE  /\ Append(q, p) \in Seq(Packet)
         /\ \A x \in Packets(Append(q, p)) : x \in Packets(q) \/ x = p
<1>1. Append(q, p) \in Seq(Packet)
  OBVIOUS
<1>2. DOMAIN q = 1..Len(q) /\ DOMAIN Append(q, p) = 1..(Len(q) + 1) /\ Len(q) \in Nat
  OBVIOUS
<1>3. ASSUME NEW i \in 1..(Len(q) + 1)
      PROVE  IF i = Len(q) + 1 THEN Append(q, p)[i] = p ELSE i \in 1..Len(q) /\ Append(q, p)[i] = q[i]
  BY <1>2
<1> QED
  BY <1>1, <1>2, <1>3 DEF Packets

LEMMA PacketsTail ==
  ASSUME NEW q \in Seq(Packet), q # << >>
  PROVE  /\ Tail(q) \in Seq(Packet)
         /\ Head(q) \in Packet
         /\ Head(q) \in Packets(q)
         /\ \A x \in Packets(Tail(q)) : x \in Packets(q)
<1>1. Len(q) \in Nat /\ Len(q) >= 1 /\ DOMAIN q = 1..Len(q) /\ Head(q) = q[1]
  OBVIOUS
<1>2. Tail(q) \in Seq(Packet) /\ DOMAIN Tail(q) = 1..(Len(q) - 1)
  BY <1>1
<1>3. ASSUME NEW i \in 1..(Len(q) - 1)
      PROVE  Tail(q)[i] = q[i + 1] /\ i + 1 \in 1..Len(q)
  BY <1>1, <1>2
<1>4. Head(q) \in Packet
  BY <1>1
<1> QED
  BY <1>1, <1>2, <1>3, <1>4 DEF Packets

\* Sending adds at most the packet sent, to one queue.
LEMMA SendToServerPackets ==
  ASSUME TypeOK, NEW c \in Clients, NEW p \in Packet, SendToServer(c, p)
  PROVE  /\ c2s' \in [Clients -> Seq(Packet)]
         /\ \A d \in Clients : \A x \in Packets(c2s'[d]) :
               x \in Packets(c2s[d]) \/ (d = c /\ x = p)
  BY PacketsAppend DEF TypeOK, SendToServer

LEMMA SendToClientPackets ==
  ASSUME TypeOK, NEW c \in Clients, NEW p \in Packet, SendToClient(c, p)
  PROVE  /\ s2c' \in [Clients -> Seq(Packet)]
         /\ \A d \in Clients : \A x \in Packets(s2c'[d]) :
               x \in Packets(s2c[d]) \/ (d = c /\ x = p)
  BY PacketsAppend DEF TypeOK, SendToClient

\* Receiving takes the first packet of one queue.
LEMMA ClientTakesPackets ==
  ASSUME TypeOK, NEW c \in Clients, NEW action, ClientTakes(c, action)
  PROVE  /\ s2c' \in [Clients -> Seq(Packet)]
         /\ Head(s2c[c]) \in Packet /\ Head(s2c[c]) \in Packets(s2c[c])
         /\ Head(s2c[c]).action = action
         /\ \A d \in Clients : \A x \in Packets(s2c'[d]) : x \in Packets(s2c[d])
  BY PacketsTail DEF TypeOK, ClientTakes, Arrived

LEMMA ServerTakesPackets ==
  ASSUME TypeOK, NEW c \in Clients, NEW action, ServerTakes(c, action)
  PROVE  /\ c2s' \in [Clients -> Seq(Packet)]
         /\ Head(c2s[c]) \in Packet /\ Head(c2s[c]) \in Packets(c2s[c])
         /\ Head(c2s[c]).action = action
         /\ \A d \in Clients : \A x \in Packets(c2s'[d]) : x \in Packets(c2s[d])
  BY PacketsTail DEF TypeOK, ServerTakes, Arrived

\* The packets the program builds are packets.
LEMMA BuiltPackets ==
  /\ \A a \in PacketActions : Plain(a) \in Packet
  /\ \A a \in PacketActions, k \in Keys \cup {NoKey} : Sealed(a, k) \in Packet
  /\ \A b \in BOOLEAN, k \in Keys \cup {NoKey} : KeyForServer(b, k) \in Packet
  /\ \A k \in Keys \cup {NoKey} : KeyEcho(k) \in Packet
  BY DEF Plain, Sealed, KeyForServer, KeyEcho, Packet, PacketActions

-----------------------------------------------------------------------------
(* Type correctness.                                                       *)

LEMMA EmptyQueues == << >> \in Seq(Packet) /\ << >> \in Seq(Clients) /\ Packets(<< >>) = {}
<1>1. DOMAIN << >> = {}
  OBVIOUS
<1> QED
  BY <1>1 DEF Packets

LEMMA InitType == Init => TypeOK
<1> SUFFICES ASSUME Init PROVE TypeOK
  OBVIOUS
<1>1. /\ backlog \in Seq(Clients)
      /\ c2s \in [Clients -> Seq(Packet)]
      /\ s2c \in [Clients -> Seq(Packet)]
  BY EmptyQueues DEF Init
<1>2. /\ srvPc \in {"accept", "loop", "auth", "recv", "dead"}
      /\ serving \in Clients \cup {NoClient}
      /\ IsAuthenticating \in BOOLEAN /\ IsAuthenticated \in BOOLEAN
      /\ handles \subseteq Clients /\ shared \subseteq Clients
  BY DEF Init
<1>3. /\ FirstBeat \in [Clients -> BOOLEAN]
      /\ cliAuth \in [Clients -> BOOLEAN]
      /\ cliRSA \in [Clients -> BOOLEAN]
      /\ srvKey \in [Clients -> Keys \cup {NoKey}]
      /\ cliKey \in [Clients -> Keys \cup {NoKey}]
  BY DEF Init
<1>4. /\ cliPc \in [Clients -> {"new", "loop", "syn", "auth", "recv", "closed"}]
      /\ joinPc \in [Clients -> {"idle", "connected", "sent"}]
  BY DEF Init
<1> QED
  BY <1>1, <1>2, <1>3, <1>4 DEF TypeOK

LEMMA TypeTryConnect == ASSUME TypeOK, NEW c \in Clients, TryConnect(c) PROVE TypeOK'
<1>1. backlog' \in Seq(Clients)
  BY DEF TypeOK, TryConnect
<1>2. /\ cliPc' \in [Clients -> {"new", "loop", "syn", "auth", "recv", "closed"}]
      /\ joinPc' \in [Clients -> {"idle", "connected", "sent"}]
  BY DEF TypeOK, TryConnect
<1> QED
  BY <1>1, <1>2 DEF TypeOK, TryConnect

LEMMA TypeSendPeerJoin == ASSUME TypeOK, NEW c \in Clients, SendPeerJoin(c) PROVE TypeOK'
<1>1. Sealed("PeerJoin", cliKey[c]) \in Packet
  BY BuiltPackets DEF TypeOK, PacketActions
<1>2. c2s' \in [Clients -> Seq(Packet)]
  BY <1>1, SendToServerPackets DEF SendPeerJoin
<1> QED
  BY <1>2 DEF TypeOK, SendPeerJoin, srvVars

LEMMA TypeClientTask == ASSUME TypeOK, NEW c \in Clients, ClientTask(c) PROVE TypeOK'
<1> USE DEF srvVars, cliVars
<1>0. /\ cliKey[c] \in Keys \cup {NoKey}
      /\ {"SYN", "Ready", "Ping", "Pong"} \subseteq PacketActions
  BY DEF TypeOK, PacketActions
<1>1. CASE ClientGenerateKey(c)
  BY <1>1 DEF TypeOK, ClientGenerateKey, Goto
<1>2. CASE ClientSendSYN(c)
  <2>1. c2s' \in [Clients -> Seq(Packet)]
    BY <1>0, <1>2, BuiltPackets, SendToServerPackets DEF ClientSendSYN
  <2> QED
    BY <1>2, <2>1 DEF TypeOK, ClientSendSYN, Goto
<1>3. CASE ClientAuthSYNAck(c)
  <2>1. s2c' \in [Clients -> Seq(Packet)]
    BY <1>3, ClientTakesPackets DEF ClientAuthSYNAck
  <2>2. cliRSA'[c] = TRUE /\ cliRSA' \in [Clients -> BOOLEAN]
    BY <1>3 DEF ClientAuthSYNAck, TypeOK
  <2>3. KeyForServer(cliRSA'[c], cliKey[c]) \in Packet
    BY <1>0, <2>2, BuiltPackets
  <2>4. c2s' \in [Clients -> Seq(Packet)]
    BY <1>3, <2>3, SendToServerPackets DEF ClientAuthSYNAck
  <2> QED
    BY <1>3, <2>1, <2>2, <2>4 DEF TypeOK, ClientAuthSYNAck
<1>4. CASE ClientAuthACK(c)
  <2>1. s2c' \in [Clients -> Seq(Packet)]
    BY <1>4, ClientTakesPackets DEF ClientAuthACK
  <2>2. SendToServer(c, Plain("Ready")) \/ UNCHANGED c2s
    BY <1>4 DEF ClientAuthACK
  <2>3. c2s' \in [Clients -> Seq(Packet)]
    BY <1>0, <2>2, BuiltPackets, SendToServerPackets DEF TypeOK
  <2> QED
    BY <1>4, <2>1, <2>3 DEF TypeOK, ClientAuthACK
<1>5. CASE ClientAuthReady(c)
  <2>1. s2c' \in [Clients -> Seq(Packet)]
    BY <1>5, ClientTakesPackets DEF ClientAuthReady
  <2> QED
    BY <1>5, <2>1 DEF TypeOK, ClientAuthReady, Goto
<1>6. CASE ClientAuthDrop(c)
  <2>1. s2c' \in [Clients -> Seq(Packet)]
    BY <1>6, ClientTakesPackets DEF ClientAuthDrop
  <2> QED
    BY <1>6, <2>1 DEF TypeOK, ClientAuthDrop
<1>7. CASE ClientPing(c)
  <2>1. c2s' \in [Clients -> Seq(Packet)]
    BY <1>0, <1>7, BuiltPackets, SendToServerPackets DEF ClientPing
  <2> QED
    BY <1>7, <2>1 DEF TypeOK, ClientPing, Goto
<1>8. CASE ClientNoPing(c)
  BY <1>8 DEF TypeOK, ClientNoPing, Goto
<1>9. CASE ClientReceivePing(c)
  <2>1. c2s' \in [Clients -> Seq(Packet)]
    BY <1>0, <1>9, BuiltPackets, SendToServerPackets DEF ClientReceivePing
  <2>2. s2c' \in [Clients -> Seq(Packet)]
    BY <1>9, ClientTakesPackets DEF ClientReceivePing
  <2> QED
    BY <1>9, <2>1, <2>2 DEF TypeOK, ClientReceivePing, Goto
<1>10. CASE ClientReceiveOther(c)
  <2>1. s2c' \in [Clients -> Seq(Packet)]
    BY <1>10, ClientTakesPackets DEF ClientReceiveOther, TypeOK
  <2> QED
    BY <1>10, <2>1 DEF TypeOK, ClientReceiveOther, Goto
<1> QED
  BY <1>1, <1>2, <1>3, <1>4, <1>5, <1>6, <1>7, <1>8, <1>9, <1>10 DEF ClientTask

LEMMA TypeClientClose == ASSUME TypeOK, NEW c \in Clients, ClientClose(c) PROVE TypeOK'
<1>1. c2s' \in [Clients -> Seq(Packet)] /\ s2c' \in [Clients -> Seq(Packet)]
  BY EmptyQueues DEF TypeOK, ClientClose
<1>2. cliPc' \in [Clients -> {"new", "loop", "syn", "auth", "recv", "closed"}]
  BY DEF TypeOK, ClientClose, Goto
<1> QED
  BY <1>1, <1>2 DEF TypeOK, ClientClose, srvVars

LEMMA TypeServerTask == ASSUME TypeOK, ServerTask PROVE TypeOK'
<1> USE DEF cliVars
<1>1. CASE ServerAccept
  <2>1. Head(backlog) \in Clients /\ Tail(backlog) \in Seq(Clients)
    BY <1>1 DEF TypeOK, ServerAccept
  <2> QED
    BY <1>1, <2>1 DEF TypeOK, ServerAccept
<1>2. ASSUME NEW c \in Clients,
             \/ ServerBeginAuth(c) \/ ServerNoPing(c) \/ ServerDropClient(c)
             \/ ServerReceiveThrows(c)
      PROVE  TypeOK'
  BY <1>2 DEF TypeOK, ServerBeginAuth, ServerNoPing, ServerDropClient, ServerReceiveThrows
<1>3. ASSUME NEW c \in Clients, ServerAuthSYN(c) PROVE TypeOK'
  <2>1. c2s' \in [Clients -> Seq(Packet)]
    BY <1>3, ServerTakesPackets DEF ServerAuthSYN
  <2>2. s2c' \in [Clients -> Seq(Packet)]
    BY <1>3, BuiltPackets, SendToClientPackets DEF ServerAuthSYN, PacketActions
  <2> QED
    BY <1>3, <2>1, <2>2 DEF TypeOK, ServerAuthSYN, srvVars
<1>4. ASSUME NEW c \in Clients, ServerAuthACK(c) PROVE TypeOK'
  <2>1. c2s' \in [Clients -> Seq(Packet)] /\ Head(c2s[c]) \in Packet
    BY <1>4, ServerTakesPackets DEF ServerAuthACK
  <2>2. Head(c2s[c]).data \in Keys \cup {NoKey}
    BY <2>1 DEF Packet
  <2>3. /\ srvKey' \in [Clients -> Keys \cup {NoKey}]
        /\ SendToClient(c, KeyEcho(Head(c2s[c]).data)) \/ UNCHANGED s2c
    BY <1>4, <2>2 DEF ServerAuthACK, TypeOK
  <2>4. s2c' \in [Clients -> Seq(Packet)]
    BY <2>2, <2>3, BuiltPackets, SendToClientPackets DEF TypeOK
  <2> QED
    BY <1>4, <2>1, <2>3, <2>4 DEF TypeOK, ServerAuthACK
<1>5. ASSUME NEW c \in Clients, ServerAuthReady(c) PROVE TypeOK'
  <2>1. c2s' \in [Clients -> Seq(Packet)]
    BY <1>5, ServerTakesPackets DEF ServerAuthReady
  <2>2. s2c' \in [Clients -> Seq(Packet)]
    BY <1>5, BuiltPackets, SendToClientPackets DEF ServerAuthReady, PacketActions
  <2> QED
    BY <1>5, <2>1, <2>2 DEF TypeOK, ServerAuthReady
<1>6. ASSUME NEW c \in Clients, ServerAuthDrop(c) PROVE TypeOK'
  <2>1. c2s' \in [Clients -> Seq(Packet)]
    BY <1>6, ServerTakesPackets DEF ServerAuthDrop
  <2> QED
    BY <1>6, <2>1 DEF TypeOK, ServerAuthDrop, srvVars
<1>7. ASSUME NEW c \in Clients, ServerPing(c) PROVE TypeOK'
  <2>1. s2c' \in [Clients -> Seq(Packet)]
    BY <1>7, BuiltPackets, SendToClientPackets DEF ServerPing, PacketActions, TypeOK
  <2> QED
    BY <1>7, <2>1 DEF TypeOK, ServerPing
<1>8. ASSUME NEW c \in Clients, ServerReceivePing(c) \/ ServerReceivePeerJoin(c) PROVE TypeOK'
  <2>1. c2s' \in [Clients -> Seq(Packet)]
    BY <1>8, ServerTakesPackets DEF ServerReceivePing, ServerReceivePeerJoin
  <2>2. s2c' \in [Clients -> Seq(Packet)]
    BY <1>8, BuiltPackets, SendToClientPackets
       DEF ServerReceivePing, ServerReceivePeerJoin, PacketActions, TypeOK
  <2> QED
    BY <1>8, <2>1, <2>2 DEF TypeOK, ServerReceivePing, ServerReceivePeerJoin
<1>9. ASSUME NEW c \in Clients, ServerReceiveOther(c) \/ ServerAddPeersThrows(c) PROVE TypeOK'
  <2>1. c2s' \in [Clients -> Seq(Packet)]
    BY <1>9, ServerTakesPackets DEF ServerReceiveOther, ServerAddPeersThrows, TypeOK
  <2> QED
    BY <1>9, <2>1 DEF TypeOK, ServerReceiveOther, ServerAddPeersThrows
<1> QED
  BY <1>1, <1>2, <1>3, <1>4, <1>5, <1>6, <1>7, <1>8, <1>9 DEF ServerTask

LEMMA TypeNext == TypeOK /\ [Next]_vars => TypeOK'
<1> SUFFICES ASSUME TypeOK, [Next]_vars PROVE TypeOK'
  OBVIOUS
<1>1. CASE Next
  BY <1>1, TypeServerTask, TypeTryConnect, TypeSendPeerJoin, TypeClientTask, TypeClientClose
     DEF Next
<1>2. CASE UNCHANGED vars
  BY <1>2 DEF TypeOK, vars, srvVars, cliVars
<1> QED
  BY <1>1, <1>2

\* Every variable of the server, its clients and their connections keeps its
\* type, for every set of clients and keys.
THEOREM TypeCorrect == Spec => []TypeOK
  BY InitType, TypeNext, PTL DEF Spec

-----------------------------------------------------------------------------
(* The handshake invariant.                                                *)

LEMMA InitHandshake == Init => Handshake
  BY EmptyQueues DEF Init, Handshake, Progress

\* A step that leaves the keys alone preserves the invariant when what it adds
\* to the queues fits them, and each client's progress still does.
LEMMA KeysKept ==
  ASSUME Handshake, srvKey' = srvKey, cliKey' = cliKey,
         \A d \in Clients : Progress(d)',
         \A d \in Clients : \A x \in Packets(c2s'[d]) : x \in Packets(c2s[d]) \/ ToServer(d, x),
         \A d \in Clients : \A x \in Packets(s2c'[d]) : x \in Packets(s2c[d]) \/ ToClient(d, x)
  PROVE  Handshake'
  BY DEF Handshake, ToServer, ToClient, Packets

\* A step that touches neither the queues nor what Progress speaks of.
LEMMA OwnServerSteps ==
  ASSUME Handshake, UNCHANGED <<cliPc, cliAuth, cliKey, srvKey, c2s, s2c>>
  PROVE  Handshake'
  BY DEF Handshake, Progress, ToServer, ToClient, Packets

\* What SendPacket builds fits the key it builds it with.
LEMMA SealedFits ==
  ASSUME NEW c \in Clients, NEW action \in {"Ping", "Pong", "PeerJoin"}
  PROVE  ToServer(c, Sealed(action, cliKey[c])) /\ ToClient(c, Sealed(action, srvKey[c]))
  BY DEF ToServer, ToClient, Sealed

LEMMA HandshakeMulticast ==
  ASSUME IInv, NEW c \in Clients, TryConnect(c) \/ SendPeerJoin(c)
  PROVE  Handshake'
<1> USE DEF IInv, srvVars
<1>1. CASE TryConnect(c)
  <2>1. \A d \in Clients : Progress(d)'
    BY <1>1 DEF TryConnect, Handshake, Progress, TypeOK
  <2> QED
    BY <1>1, <2>1, KeysKept DEF TryConnect
<1>2. CASE SendPeerJoin(c)
  <2>1. \A d \in Clients : Progress(d)'
    BY <1>2 DEF SendPeerJoin, Handshake, Progress
  <2>2. Sealed("PeerJoin", cliKey[c]) \in Packet /\ ToServer(c, Sealed("PeerJoin", cliKey[c]))
    BY BuiltPackets, SealedFits DEF TypeOK, PacketActions
  <2>3. \A d \in Clients : \A x \in Packets(c2s'[d]) : x \in Packets(c2s[d]) \/ ToServer(d, x)
    BY <1>2, <2>2, SendToServerPackets DEF SendPeerJoin
  <2> QED
    BY <1>2, <2>1, <2>3, KeysKept DEF SendPeerJoin
<1> QED
  BY <1>1, <1>2

LEMMA HandshakeClientTask ==
  ASSUME IInv, NEW c \in Clients, ClientTask(c)
  PROVE  Handshake'
<1> USE DEF IInv, srvVars, cliVars
<1>0. /\ cliKey[c] \in Keys \cup {NoKey}
      /\ {"SYN", "Ready", "Ping", "Pong"} \subseteq PacketActions
      /\ Progress(c)
  BY DEF TypeOK, PacketActions, Handshake
<1>1. CASE ClientGenerateKey(c)
  <2>1. cliKey[c] = NoKey /\ srvKey[c] = NoKey
    BY <1>0, <1>1 DEF ClientGenerateKey, Progress
  <2>2. PICK k \in Keys : cliKey' = [cliKey EXCEPT ![c] = k]
    BY <1>1 DEF ClientGenerateKey
  <2>3. k # NoKey
    BY <2>2, NoKeyAssumption
  <2>4. UNCHANGED <<srvKey, cliAuth, c2s, s2c>> /\ cliPc' = [cliPc EXCEPT ![c] = "syn"]
    BY <1>1 DEF ClientGenerateKey, Goto
  <2>5. \A d \in Clients : Progress(d)'
    BY <2>1, <2>2, <2>3, <2>4 DEF Progress, Handshake, TypeOK
  <2>6. \A d \in Clients : \A x \in Packets(c2s[d]) : ToServer(d, x)'
    <3> SUFFICES ASSUME NEW d \in Clients, NEW x \in Packets(c2s[d]) PROVE ToServer(d, x)'
      OBVIOUS
    <3>1. ToServer(d, x)
      BY DEF Handshake
    <3>2. d # c => cliKey'[d] = cliKey[d]
      BY <2>2 DEF TypeOK
    <3> QED
      BY <2>1, <2>4, <3>1, <3>2 DEF ToServer
  <2>7. \A d \in Clients : \A x \in Packets(s2c[d]) : ToClient(d, x)'
    BY <2>4 DEF Handshake, ToClient
  <2> QED
    BY <2>4, <2>5, <2>6, <2>7 DEF Handshake, Packets
<1>2. CASE ClientSendSYN(c)
  <2>1. \A d \in Clients : Progress(d)'
    BY <1>2 DEF ClientSendSYN, Goto, Handshake, Progress, TypeOK
  <2>2. Plain("SYN") \in Packet /\ ToServer(c, Plain("SYN"))
    BY <1>0, BuiltPackets DEF ToServer, Plain
  <2>3. \A d \in Clients : \A x \in Packets(c2s'[d]) : x \in Packets(c2s[d]) \/ ToServer(d, x)
    BY <1>2, <2>2, SendToServerPackets DEF ClientSendSYN
  <2> QED
    BY <1>2, <2>1, <2>3, KeysKept DEF ClientSendSYN
<1>3. CASE ClientAuthSYNAck(c)
  <2>1. \A d \in Clients : Progress(d)'
    BY <1>3 DEF ClientAuthSYNAck, Handshake, Progress
  <2>2. \A d \in Clients : \A x \in Packets(s2c'[d]) : x \in Packets(s2c[d])
    BY <1>3, ClientTakesPackets DEF ClientAuthSYNAck
  <2>3. cliRSA'[c] = TRUE /\ cliKey[c] # NoKey
    BY <1>0, <1>3 DEF ClientAuthSYNAck, TypeOK, Progress
  <2>4. KeyForServer(cliRSA'[c], cliKey[c]) \in Packet
    BY <1>0, <2>3, BuiltPackets
  <2>5. ToServer(c, KeyForServer(cliRSA'[c], cliKey[c]))
    BY <2>3 DEF ToServer, KeyForServer
  <2>6. \A d \in Clients : \A x \in Packets(c2s'[d]) : x \in Packets(c2s[d]) \/ ToServer(d, x)
    BY <1>3, <2>4, <2>5, SendToServerPackets DEF ClientAuthSYNAck
  <2> QED
    BY <1>3, <2>1, <2>2, <2>6, KeysKept DEF ClientAuthSYNAck
<1>4. CASE ClientAuthACK(c)
  <2>1. \A d \in Clients : Progress(d)'
    BY <1>4 DEF ClientAuthACK, Handshake, Progress
  <2>2. /\ \A d \in Clients : \A x \in Packets(s2c'[d]) : x \in Packets(s2c[d])
        /\ Head(s2c[c]) \in Packets(s2c[c]) /\ Head(s2c[c]).action = "ACK"
    BY <1>4, ClientTakesPackets DEF ClientAuthACK
  <2>3. srvKey[c] # NoKey
    BY <2>2 DEF Handshake, ToClient
  <2>4. Plain("Ready") \in Packet /\ ToServer(c, Plain("Ready"))
    BY <1>0, <2>3, BuiltPackets DEF ToServer, Plain
  <2>5. SendToServer(c, Plain("Ready")) \/ UNCHANGED c2s
    BY <1>4 DEF ClientAuthACK
  <2>6. \A d \in Clients : \A x \in Packets(c2s'[d]) : x \in Packets(c2s[d]) \/ ToServer(d, x)
    BY <2>4, <2>5, SendToServerPackets
  <2> QED
    BY <1>4, <2>1, <2>2, <2>6, KeysKept DEF ClientAuthACK
<1>5. CASE ClientAuthReady(c)
  <2>1. /\ \A d \in Clients : \A x \in Packets(s2c'[d]) : x \in Packets(s2c[d])
        /\ Head(s2c[c]) \in Packets(s2c[c]) /\ Head(s2c[c]).action = "Ready"
    BY <1>5, ClientTakesPackets DEF ClientAuthReady
  <2>2. srvKey[c] # NoKey
    BY <2>1 DEF Handshake, ToClient
  <2>3. \A d \in Clients : Progress(d)'
    BY <1>5, <2>2 DEF ClientAuthReady, Goto, Handshake, Progress, TypeOK
  <2> QED
    BY <1>5, <2>1, <2>3, KeysKept DEF ClientAuthReady
<1>6. CASE ClientAuthDrop(c)
  <2>1. \A d \in Clients : \A x \in Packets(s2c'[d]) : x \in Packets(s2c[d])
    BY <1>6, ClientTakesPackets DEF ClientAuthDrop
  <2>2. \A d \in Clients : Progress(d)'
    BY <1>6 DEF ClientAuthDrop, Handshake, Progress
  <2> QED
    BY <1>6, <2>1, <2>2, KeysKept DEF ClientAuthDrop
<1>7. CASE ClientPing(c) \/ ClientNoPing(c)
  <2>1. \A d \in Clients : Progress(d)'
    BY <1>7 DEF ClientPing, ClientNoPing, Goto, Handshake, Progress, TypeOK
  <2>2. Sealed("Ping", cliKey[c]) \in Packet /\ ToServer(c, Sealed("Ping", cliKey[c]))
    BY <1>0, BuiltPackets, SealedFits
  <2>3. SendToServer(c, Sealed("Ping", cliKey[c])) \/ UNCHANGED c2s
    BY <1>7 DEF ClientPing, ClientNoPing
  <2>4. \A d \in Clients : \A x \in Packets(c2s'[d]) : x \in Packets(c2s[d]) \/ ToServer(d, x)
    BY <2>2, <2>3, SendToServerPackets
  <2> QED
    BY <1>7, <2>1, <2>4, KeysKept DEF ClientPing, ClientNoPing
<1>8. CASE ClientReceivePing(c)
  <2>1. \A d \in Clients : Progress(d)'
    <3>1. cliAuth' = cliAuth /\ cliKey' = cliKey /\ srvKey' = srvKey
      BY <1>8 DEF ClientReceivePing
    <3> QED
      BY <1>8, <3>1 DEF ClientReceivePing, Goto, Handshake, Progress, TypeOK
  <2>2. Sealed("Pong", cliKey[c]) \in Packet /\ ToServer(c, Sealed("Pong", cliKey[c]))
    BY <1>0, BuiltPackets, SealedFits
  <2>3. \A d \in Clients : \A x \in Packets(c2s'[d]) : x \in Packets(c2s[d]) \/ ToServer(d, x)
    BY <1>8, <2>2, SendToServerPackets DEF ClientReceivePing
  <2>4. \A d \in Clients : \A x \in Packets(s2c'[d]) : x \in Packets(s2c[d])
    BY <1>8, ClientTakesPackets DEF ClientReceivePing
  <2> QED
    BY <1>8, <2>1, <2>3, <2>4, KeysKept DEF ClientReceivePing
<1>9. CASE ClientReceiveOther(c)
  <2>1. \A d \in Clients : Progress(d)'
    BY <1>9 DEF ClientReceiveOther, Goto, Handshake, Progress, TypeOK
  <2>2. \A d \in Clients : \A x \in Packets(s2c'[d]) : x \in Packets(s2c[d])
    BY <1>9, ClientTakesPackets DEF ClientReceiveOther
  <2> QED
    BY <1>9, <2>1, <2>2, KeysKept DEF ClientReceiveOther
<1> QED
  BY <1>1, <1>2, <1>3, <1>4, <1>5, <1>6, <1>7, <1>8, <1>9 DEF ClientTask

LEMMA HandshakeClientClose ==
  ASSUME IInv, NEW c \in Clients, ClientClose(c)
  PROVE  Handshake'
<1> USE DEF IInv, srvVars
<1>1. \A d \in Clients : Progress(d)'
  BY DEF ClientClose, Goto, Handshake, Progress, TypeOK
<1>2. \A d \in Clients : \A x \in Packets(c2s'[d]) : x \in Packets(c2s[d])
  BY EmptyQueues DEF ClientClose, TypeOK
<1>3. \A d \in Clients : \A x \in Packets(s2c'[d]) : x \in Packets(s2c[d])
  BY EmptyQueues DEF ClientClose, TypeOK
<1> QED
  BY <1>1, <1>2, <1>3, KeysKept DEF ClientClose

LEMMA HandshakeServerTask ==
  ASSUME IInv, ServerTask
  PROVE  Handshake'
<1> USE DEF IInv, srvVars, cliVars
<1>0. \A c \in Clients : srvKey[c] \in Keys \cup {NoKey}
  BY DEF TypeOK
<1>1. CASE ServerAccept
  BY <1>1, OwnServerSteps DEF ServerAccept
<1>2. ASSUME NEW c \in Clients,
             \/ ServerBeginAuth(c) \/ ServerNoPing(c) \/ ServerDropClient(c)
             \/ ServerReceiveThrows(c)
      PROVE  Handshake'
  BY <1>2, OwnServerSteps
     DEF ServerBeginAuth, ServerNoPing, ServerDropClient, ServerReceiveThrows
<1>3. ASSUME NEW c \in Clients, ServerAuthSYN(c) PROVE Handshake'
  <2>1. \A d \in Clients : \A x \in Packets(c2s'[d]) : x \in Packets(c2s[d])
    BY <1>3, ServerTakesPackets DEF ServerAuthSYN
  <2>2. Plain("SYNAck") \in Packet /\ ToClient(c, Plain("SYNAck"))
    BY BuiltPackets DEF ToClient, Plain, PacketActions
  <2>3. \A d \in Clients : \A x \in Packets(s2c'[d]) : x \in Packets(s2c[d]) \/ ToClient(d, x)
    BY <1>3, <2>2, SendToClientPackets DEF ServerAuthSYN
  <2>4. \A d \in Clients : Progress(d)'
    BY <1>3 DEF ServerAuthSYN, Handshake, Progress
  <2> QED
    BY <1>3, <2>1, <2>3, <2>4, KeysKept DEF ServerAuthSYN
<1>4. ASSUME NEW c \in Clients, ServerAuthACK(c) PROVE Handshake'
  <2>1. /\ \A d \in Clients : \A x \in Packets(c2s'[d]) : x \in Packets(c2s[d])
        /\ Head(c2s[c]) \in Packet
        /\ Head(c2s[c]) \in Packets(c2s[c]) /\ Head(c2s[c]).action = "ACK"
    BY <1>4, ServerTakesPackets DEF ServerAuthACK
  <2>2. PICK k \in Keys \cup {NoKey} : k = Head(c2s[c]).data /\ k = cliKey[c] /\ k # NoKey
    BY <2>1 DEF Handshake, ToServer, Packet
  <2>3. UNCHANGED <<cliPc, cliAuth, cliKey>>
    BY <1>4 DEF ServerAuthACK
  <2>4. CASE Head(c2s[c]).enc = "RSA"
    <3>1. srvKey' = [srvKey EXCEPT ![c] = k] /\ SendToClient(c, KeyEcho(k))
      BY <1>4, <2>2, <2>4 DEF ServerAuthACK
    <3>2. srvKey'[c] = k /\ \A d \in Clients : d # c => srvKey'[d] = srvKey[d]
      BY <3>1 DEF TypeOK
    <3>3. srvKey[c] # NoKey => srvKey[c] = k
      BY <2>2 DEF Handshake, Progress
    <3>4. KeyEcho(k) \in Packet
      BY BuiltPackets
    <3>5. \A d \in Clients : \A x \in Packets(s2c'[d]) :
             x \in Packets(s2c[d]) \/ (d = c /\ x = KeyEcho(k))
      BY <3>1, <3>4, SendToClientPackets
    <3>6. \A d \in Clients : Progress(d)'
      BY <2>2, <2>3, <3>2 DEF Handshake, Progress
    <3>7. \A d \in Clients : \A x \in Packets(c2s[d]) : ToServer(d, x)'
      BY <2>2, <2>3, <3>2 DEF Handshake, ToServer
    <3>8. ToClient(c, KeyEcho(k))'
      BY <2>2, <3>2 DEF ToClient, KeyEcho
    <3>9. \A d \in Clients : \A x \in Packets(s2c[d]) : ToClient(d, x)'
      BY <2>2, <3>2, <3>3 DEF Handshake, ToClient
    <3>10. \A d \in Clients : \A x \in Packets(s2c'[d]) : ToClient(d, x)'
      BY <3>5, <3>8, <3>9
    <3>11. \A d \in Clients : \A x \in Packets(c2s'[d]) : ToServer(d, x)'
      BY <2>1, <3>7
    <3> QED
      BY <3>6, <3>10, <3>11 DEF Handshake, Packets
  <2>5. CASE Head(c2s[c]).enc # "RSA"
    <3>1. UNCHANGED <<srvKey, s2c>>
      BY <1>4, <2>5 DEF ServerAuthACK
    <3>2. \A d \in Clients : Progress(d)'
      BY <2>3, <3>1 DEF Handshake, Progress
    <3> QED
      BY <2>1, <2>3, <3>1, <3>2, KeysKept
  <2> QED
    BY <2>4, <2>5
<1>5. ASSUME NEW c \in Clients, ServerAuthReady(c) PROVE Handshake'
  <2>1. /\ \A d \in Clients : \A x \in Packets(c2s'[d]) : x \in Packets(c2s[d])
        /\ Head(c2s[c]) \in Packets(c2s[c]) /\ Head(c2s[c]).action = "Ready"
    BY <1>5, ServerTakesPackets DEF ServerAuthReady
  <2>2. srvKey[c] # NoKey
    BY <2>1 DEF Handshake, ToServer
  <2>3. Plain("Ready") \in Packet /\ ToClient(c, Plain("Ready"))
    BY <2>2, BuiltPackets DEF ToClient, Plain, PacketActions
  <2>4. \A d \in Clients : \A x \in Packets(s2c'[d]) : x \in Packets(s2c[d]) \/ ToClient(d, x)
    BY <1>5, <2>3, SendToClientPackets DEF ServerAuthReady
  <2>5. \A d \in Clients : Progress(d)'
    BY <1>5 DEF ServerAuthReady, Handshake, Progress
  <2> QED
    BY <1>5, <2>1, <2>4, <2>5, KeysKept DEF ServerAuthReady
<1>6. ASSUME NEW c \in Clients,
             ServerAuthDrop(c) \/ ServerReceiveOther(c) \/ ServerAddPeersThrows(c)
      PROVE  Handshake'
  <2>1. \A d \in Clients : \A x \in Packets(c2s'[d]) : x \in Packets(c2s[d])
    BY <1>6, ServerTakesPackets DEF ServerAuthDrop, ServerReceiveOther, ServerAddPeersThrows
  <2>2. \A d \in Clients : Progress(d)'
    BY <1>6
       DEF ServerAuthDrop, ServerReceiveOther, ServerAddPeersThrows, Handshake, Progress
  <2> QED
    BY <1>6, <2>1, <2>2, KeysKept
       DEF ServerAuthDrop, ServerReceiveOther, ServerAddPeersThrows
<1>7. ASSUME NEW c \in Clients,
             ServerPing(c) \/ ServerReceivePing(c) \/ ServerReceivePeerJoin(c)
      PROVE  Handshake'
  <2>1. PICK action \in {"Ping", "Pong", "PeerJoin"} :
           SendToClient(c, Sealed(action, srvKey[c]))
    BY <1>7 DEF ServerPing, ServerReceivePing, ServerReceivePeerJoin
  <2>2. Sealed(action, srvKey[c]) \in Packet /\ ToClient(c, Sealed(action, srvKey[c]))
    BY <1>0, BuiltPackets, SealedFits DEF PacketActions
  <2>3. \A d \in Clients : \A x \in Packets(s2c'[d]) : x \in Packets(s2c[d]) \/ ToClient(d, x)
    BY <2>1, <2>2, SendToClientPackets
  <2>4. \A d \in Clients : \A x \in Packets(c2s'[d]) : x \in Packets(c2s[d])
    BY <1>7, ServerTakesPackets DEF ServerPing, ServerReceivePing, ServerReceivePeerJoin
  <2>5. UNCHANGED <<cliPc, cliAuth, cliKey, srvKey>>
    BY <1>7 DEF ServerPing, ServerReceivePing, ServerReceivePeerJoin
  <2>6. \A d \in Clients : Progress(d)'
    BY <2>5 DEF Handshake, Progress
  <2> QED
    BY <2>3, <2>4, <2>5, <2>6, KeysKept
<1> QED
  BY <1>1, <1>2, <1>3, <1>4, <1>5, <1>6, <1>7 DEF ServerTask

LEMMA NextIInv == IInv /\ [Next]_vars => IInv'
<1> SUFFICES ASSUME IInv, [Next]_vars PROVE IInv'
  OBVIOUS
<1>1. TypeOK'
  BY TypeNext DEF IInv
<1>2. Handshake'
  <2>1. CASE Next
    BY <2>1, HandshakeMulticast, HandshakeClientTask, HandshakeClientClose, HandshakeServerTask
       DEF Next
  <2>2. CASE UNCHANGED vars
    BY <2>2, OwnServerSteps DEF IInv, vars, srvVars, cliVars
  <2> QED
    BY <2>1, <2>2
<1> QED
  BY <1>1, <1>2 DEF IInv

\* The strengthened invariant holds in every reachable state.
THEOREM Invariance == Spec => []IInv
<1>1. Init => IInv
  BY InitType, InitHandshake DEF IInv
<1> QED
  BY <1>1, NextIInv, PTL DEF Spec

-----------------------------------------------------------------------------
(* What the handshake achieves.                                            *)

\* HandleAuthentication on both sides: whoever believes to be authenticated
\* shares its key with the server's handle of its own connection.
THEOREM KeyAgreementHolds == Spec => []KeysAgree
<1>1. IInv => KeysAgree
  BY DEF IInv, Handshake, Progress, KeysAgree
<1> QED
  BY Invariance, <1>1, PTL

\* SendEncryptedPacket's unencrypted fallback is never taken for the key.
THEOREM KeyStaysSecret == Spec => []KeyNeverInClear
<1>1. IInv => KeyNeverInClear
  BY DEF IInv, Handshake, ToServer, ToClient, KeyNeverInClear
<1> QED
  BY Invariance, <1>1, PTL

\* What SendPacket encrypts, its receiver can decrypt, whenever the multicast
\* thread's PeerJoin falls into the handshake.
THEOREM EverythingReadable == Spec => []EncryptedIsReadable
<1>1. IInv => EncryptedIsReadable
  BY DEF IInv, Handshake, Progress, ToServer, ToClient, EncryptedIsReadable, Readable
<1> QED
  BY Invariance, <1>1, PTL

-----------------------------------------------------------------------------
(* NetSessions implements KeyAgreement.                                    *)

\* The steps in which a client draws its key, the server stores it and the
\* client opens its connection; every other step is invisible above.
LEMMA OfferStep ==
  ASSUME IInv, NEW c \in Clients, ClientGenerateKey(c)
  PROVE  \E k \in Keys : KA!Offer(c, k)
<1>1. cliKey[c] = NoKey
  BY DEF IInv, Handshake, Progress, ClientGenerateKey
<1>2. UNCHANGED <<srvKey, cliAuth>>
  BY DEF ClientGenerateKey, srvVars
<1> QED
  BY <1>1, <1>2 DEF ClientGenerateKey, KA!Offer

LEMMA AcceptStep ==
  ASSUME IInv, NEW c \in Clients, ServerAuthACK(c)
  PROVE  KA!Accept(c) \/ UNCHANGED <<cliKey, srvKey, cliAuth>>
<1>0. UNCHANGED <<cliKey, cliAuth>>
  BY DEF ServerAuthACK, cliVars
<1>1. Head(c2s[c]) \in Packets(c2s[c]) /\ Head(c2s[c]).action = "ACK"
  BY ServerTakesPackets DEF ServerAuthACK, IInv
<1>2. Head(c2s[c]).data = cliKey[c] /\ cliKey[c] # NoKey
  BY <1>1 DEF IInv, Handshake, ToServer
<1>3. CASE Head(c2s[c]).enc # "RSA"
  BY <1>0, <1>3 DEF ServerAuthACK
<1>4. CASE Head(c2s[c]).enc = "RSA"
  <2>1. srvKey' = [srvKey EXCEPT ![c] = cliKey[c]]
    BY <1>2, <1>4 DEF ServerAuthACK
  <2>2. CASE srvKey[c] = NoKey
    BY <1>0, <1>2, <2>1, <2>2 DEF KA!Accept
  <2>3. CASE srvKey[c] # NoKey
    <3>1. srvKey[c] = cliKey[c]
      BY <2>3 DEF IInv, Handshake, Progress
    <3>2. srvKey' = srvKey
      BY <2>1, <3>1 DEF IInv, TypeOK
    <3> QED
      BY <1>0, <3>2
  <2> QED
    BY <2>2, <2>3
<1> QED
  BY <1>3, <1>4

LEMMA OpenStep ==
  ASSUME IInv, NEW c \in Clients, ClientAuthReady(c)
  PROVE  KA!Open(c)
<1>1. Head(s2c[c]) \in Packets(s2c[c]) /\ Head(s2c[c]).action = "Ready"
  BY ClientTakesPackets DEF ClientAuthReady, IInv
<1>2. srvKey[c] # NoKey
  BY <1>1 DEF IInv, Handshake, ToClient
<1>3. UNCHANGED <<cliKey, srvKey>> /\ cliAuth' = [cliAuth EXCEPT ![c] = TRUE]
  BY DEF ClientAuthReady, srvVars
<1>4. {d \in Clients : cliAuth'[d]} = {d \in Clients : cliAuth[d]} \cup {c}
  BY <1>3 DEF IInv, TypeOK
<1> QED
  BY <1>2, <1>3, <1>4 DEF KA!Open

LEMMA OtherServerSteps ==
  ASSUME ServerTask, \A c \in Clients : ~ServerAuthACK(c)
  PROVE  UNCHANGED <<cliKey, srvKey, cliAuth>>
  BY DEF ServerTask, ServerAccept, ServerBeginAuth, ServerAuthSYN, ServerAuthReady,
         ServerAuthDrop, ServerPing, ServerNoPing, ServerDropClient,
         ServerReceivePing, ServerReceivePeerJoin, ServerReceiveOther,
         ServerReceiveThrows, ServerAddPeersThrows, srvVars, cliVars

LEMMA OtherClientSteps ==
  ASSUME NEW c \in Clients,
         \/ TryConnect(c) \/ SendPeerJoin(c) \/ ClientClose(c)
         \/ ClientTask(c) /\ ~ClientGenerateKey(c) /\ ~ClientAuthReady(c)
  PROVE  UNCHANGED <<cliKey, srvKey, cliAuth>>
  BY DEF TryConnect, SendPeerJoin, ClientClose, ClientTask, ClientSendSYN,
         ClientAuthSYNAck, ClientAuthACK, ClientAuthDrop, ClientPing, ClientNoPing,
         ClientReceivePing, ClientReceiveOther, srvVars, cliVars

\* What one step of the code can do to the keys.
LEMMA KeySteps ==
  ASSUME IInv, [Next]_vars
  PROVE  \/ \E c \in Clients : \/ \E k \in Keys : KA!Offer(c, k)
                               \/ KA!Accept(c)
                               \/ KA!Open(c)
         \/ UNCHANGED <<cliKey, srvKey, cliAuth>>
<1>1. CASE UNCHANGED vars
  BY <1>1 DEF vars, srvVars, cliVars
<1>2. CASE ServerTask
  BY <1>2, AcceptStep, OtherServerSteps
<1>3. ASSUME NEW c \in Clients,
             TryConnect(c) \/ SendPeerJoin(c) \/ ClientTask(c) \/ ClientClose(c)
      PROVE  \/ \E k \in Keys : KA!Offer(c, k)
             \/ KA!Open(c)
             \/ UNCHANGED <<cliKey, srvKey, cliAuth>>
  BY <1>3, OfferStep, OpenStep, OtherClientSteps
<1> QED
  BY <1>1, <1>2, <1>3 DEF Next

\* The handshake of the two HandleAuthentication methods is a key agreement:
\* offered, then accepted as offered, then opened, each at most once.
THEOREM SessionsAgree == Spec => ImplementsKeyAgreement
<1>1. Init => KA!Init
  BY DEF Init, KA!Init
<1>2. IInv /\ [Next]_vars => [KA!Next]_(KA!vars)
  <2> SUFFICES ASSUME IInv, [Next]_vars PROVE [KA!Next]_(KA!vars)
    OBVIOUS
  <2>1. CASE UNCHANGED <<cliKey, srvKey, cliAuth>>
    BY <2>1 DEF KA!vars
  <2> QED
    BY KeySteps, <2>1 DEF KA!Next
<1> QED
  BY <1>1, <1>2, Invariance, PTL DEF Spec, ImplementsKeyAgreement, KA!Spec

\* GenerateChaChaKey and the stored KeyData: no later packet of the
\* connection replaces a key that one side already holds.
THEOREM NegotiatesOnce == Spec => KeysNeverChange
<1>1. IInv /\ [Next]_vars =>
        [\A c \in Clients : /\ srvKey[c] # NoKey => srvKey'[c] = srvKey[c]
                            /\ cliKey[c] # NoKey => cliKey'[c] = cliKey[c]]_vars
  <2> SUFFICES ASSUME IInv, [Next]_vars, NEW c \in Clients
               PROVE  /\ srvKey[c] # NoKey => srvKey'[c] = srvKey[c]
                      /\ cliKey[c] # NoKey => cliKey'[c] = cliKey[c]
    OBVIOUS
  <2>1. ASSUME NEW d \in Clients, NEW k \in Keys, KA!Offer(d, k)
        PROVE  cliKey[c] # NoKey => cliKey'[c] = cliKey[c]
    BY <2>1 DEF KA!Offer, IInv, TypeOK
  <2>2. ASSUME NEW d \in Clients, KA!Accept(d)
        PROVE  srvKey[c] # NoKey => srvKey'[c] = srvKey[c]
    BY <2>2 DEF KA!Accept, IInv, TypeOK
  <2> QED
    BY KeySteps, <2>1, <2>2 DEF KA!Offer, KA!Accept, KA!Open
<1> QED
  BY <1>1, Invariance, PTL DEF Spec, KeysNeverChange

\* HandleAuthentication of the server ends only for a client whose ACK it
\* has processed.
THEOREM ReadyFollowsACK == Spec => AuthenticatesWithKey
<1>1. IInv /\ [Next]_vars =>
        [~IsAuthenticated /\ IsAuthenticated' => srvKey[serving] # NoKey]_vars
  <2> SUFFICES ASSUME IInv, Next, ~IsAuthenticated, IsAuthenticated'
               PROVE  srvKey[serving] # NoKey
    BY DEF vars, srvVars
  <2>1. PICK c \in Clients : ServerAuthReady(c)
    BY DEF Next, ServerTask, ServerAccept, ServerBeginAuth, ServerAuthSYN, ServerAuthACK,
           ServerAuthDrop, ServerPing, ServerNoPing, ServerDropClient, ServerReceivePing,
           ServerReceivePeerJoin, ServerReceiveOther, ServerReceiveThrows,
           ServerAddPeersThrows, TryConnect, SendPeerJoin, ClientTask,
           ClientGenerateKey, ClientSendSYN, ClientAuthSYNAck, ClientAuthACK,
           ClientAuthReady, ClientAuthDrop, ClientPing, ClientNoPing,
           ClientReceivePing, ClientReceiveOther, ClientClose, srvVars, cliVars
  <2>2. Head(c2s[c]) \in Packets(c2s[c]) /\ Head(c2s[c]).action = "Ready" /\ serving = c
    BY <2>1, ServerTakesPackets DEF ServerAuthReady, ServerTakes, IInv
  <2> QED
    BY <2>2 DEF IInv, Handshake, ToServer
<1> QED
  BY <1>1, Invariance, PTL DEF Spec, AuthenticatesWithKey
=============================================================================
