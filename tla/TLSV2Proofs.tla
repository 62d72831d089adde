----------------------------- MODULE TLSV2Proofs ----------------------------
(***************************************************************************)
(* Theorems about TLSV2, for every set of connections and of keys: types,  *)
(* agreement and secrecy of the key, no connection left half open, and the *)
(* implementation of KeyAgreement.                                         *)
(***************************************************************************)
EXTENDS TLSV2, TLAPS, SequenceTheorems

\* Every packet of the handshake answers the one before.
OfHandshake(p) == p.action # "PeerJoin"

\* A queue holds one packet of the handshake at most.
Once(q) == \A i, j \in DOMAIN q : OfHandshake(q[i]) /\ OfHandshake(q[j]) => i = j

NoneOf(q) == \A p \in Packets(q) : ~OfHandshake(p)

\* What is on its way to the server says where both sides stand.
ToServer(c, p) ==
    /\ p.action # "SYN"
    /\ p.action = "SYNAck" => /\ p.enc = "NONE" /\ p.data = ClientRSA
                              /\ cliKey[c] = NoKey
    /\ p.action = "ACK" => /\ p.enc = "RSA" /\ p.under = ServerRSA
                           /\ p.data = cliKey[c] /\ cliKey[c] \in Keys
                           /\ srvKey[c] = NoKey
    /\ p.action = "PeerJoin" => p.data = NoKey

\* What is on its way to the client does so too.
ToClient(c, p) ==
    /\ p.action # "PeerJoin"
    /\ p.action = "SYN" => /\ p.enc = "NONE" /\ p.data = ServerRSA
                           /\ cliKey[c] = NoKey
    /\ p.action = "SYNAck" => /\ p.enc = "RSA" /\ p.under = ClientRSA
                              /\ p.data = NoKey /\ cliKey[c] = NoKey
    /\ p.action = "ACK" => /\ p.enc = "ChaCha" /\ srvKey[c] \in Keys
                           /\ p.under = srvKey[c] /\ p.data = srvKey[c]

\* The program counters and the keys.
Progress(c) ==
    /\ srvKey[c] # NoKey => srvKey[c] = cliKey[c]
    /\ cliAuth[c] => srvKey[c] # NoKey
    /\ srvPc[c] \in {"sleep", "authorized"} => srvKey[c] # NoKey
    /\ srvPc[c] \in {"syn", "wait"} => srvKey[c] = NoKey
    /\ cliRSA[c] \in {NoKey, ServerRSA}
    /\ cliKey[c] # NoKey => cliRSA[c] = ServerRSA
    /\ Closed(c) => s2c[c] = << >>
    /\ cliPc[c] = "send" => /\ cliKey[c] # NoKey /\ srvKey[c] = NoKey
                            /\ NoneOf(c2s[c]) /\ s2c[c] = << >>
    /\ srvPc[c] = "syn" => /\ cliKey[c] = NoKey
                           /\ NoneOf(c2s[c]) /\ s2c[c] = << >>

\* At most one packet of the handshake is in flight.
PingPong(c) ==
    /\ Once(c2s[c])
    /\ Len(s2c[c]) <= 1
    /\ s2c[c] # << >> => NoneOf(c2s[c])

\* NoHalfOpen for one connection.
Confirmed(c) ==
    srvPc[c] \in {"sleep", "authorized"} /\ ~Closed(c) /\ ~cliAuth[c] =>
        s2c[c] # << >> /\ Head(s2c[c]).action = "ACK"

Turns(c) ==
    /\ Progress(c) /\ PingPong(c) /\ Confirmed(c)
    /\ \A p \in Packets(c2s[c]) : ToServer(c, p)
    /\ \A p \in Packets(s2c[c]) : ToClient(c, p)

IInv == TypeOK /\ \A c \in Clients : Turns(c)

-----------------------------------------------------------------------------
(* Queues.                                                                 *)

LEMMA EmptyQueue ==
  /\ << >> \in Seq(Packet) /\ Packets(<< >>) = {} /\ Len(<< >>) = 0
  /\ Once(<< >>) /\ NoneOf(<< >>)
<1>1. DOMAIN << >> = {}
  OBVIOUS
<1> QED
  BY <1>1 DEF Packets, Once, NoneOf

LEMMA QueueAppend ==
  ASSUME NEW q \in Seq(Packet), NEW p \in Packet
  PROVE  /\ Append(q, p) \in Seq(Packet)
         /\ \A x \in Packets(Append(q, p)) : x \in Packets(q) \/ x = p
         /\ Once(q) /\ (NoneOf(q) \/ ~OfHandshake(p)) => Once(Append(q, p))
         /\ NoneOf(q) /\ ~OfHandshake(p) => NoneOf(Append(q, p))
<1> DEFINE r == Append(q, p)
<1>1. r \in Seq(Packet)
  OBVIOUS
<1>2. DOMAIN q = 1..Len(q) /\ DOMAIN r = 1..(Len(q) + 1) /\ Len(q) \in Nat
  OBVIOUS
<1>3. ASSUME NEW i \in DOMAIN r
      PROVE  \/ i = Len(q) + 1 /\ r[i] = p
             \/ i \in DOMAIN q /\ r[i] = q[i] /\ q[i] \in Packets(q)
  BY <1>2 DEF Packets
<1>4. \A x \in Packets(r) : x \in Packets(q) \/ x = p
  BY <1>3 DEF Packets
<1>5. ASSUME Once(q), NoneOf(q) \/ ~OfHandshake(p)
      PROVE  Once(r)
  <2> SUFFICES ASSUME NEW i \in DOMAIN r, NEW j \in DOMAIN r,
                      OfHandshake(r[i]), OfHandshake(r[j])
               PROVE  i = j
    BY DEF Once
  <2> HIDE DEF r
  <2> QED
    BY <1>3, <1>5 DEF Once, NoneOf
<1>6. NoneOf(q) /\ ~OfHandshake(p) => NoneOf(r)
  <2> HIDE DEF r
  <2> QED
    BY <1>4 DEF NoneOf
<1> QED
  BY <1>1, <1>4, <1>5, <1>6

LEMMA QueueTail ==
  ASSUME NEW q \in Seq(Packet), q # << >>
  PROVE  /\ Tail(q) \in Seq(Packet)
         /\ Head(q) \in Packet
         /\ Head(q) \in Packets(q)
         /\ \A x \in Packets(Tail(q)) : x \in Packets(q)
         /\ Once(q) => Once(Tail(q))
         /\ Once(q) /\ OfHandshake(Head(q)) => NoneOf(Tail(q))
         /\ NoneOf(q) => NoneOf(Tail(q))
         /\ Len(q) <= 1 => Tail(q) = << >> /\ \A x \in Packets(q) : x = Head(q)
<1> DEFINE t == Tail(q)
<1>1. Len(q) \in Nat /\ Len(q) >= 1 /\ DOMAIN q = 1..Len(q) /\ Head(q) = q[1]
  OBVIOUS
<1>2. t \in Seq(Packet) /\ DOMAIN t = 1..(Len(q) - 1) /\ Head(q) \in Packet
  BY <1>1
<1>3. ASSUME NEW i \in DOMAIN t
      PROVE  t[i] = q[i + 1] /\ i + 1 \in DOMAIN q /\ i + 1 # 1 /\ i \in Nat
  BY <1>1, <1>2
<1>4. Head(q) \in Packets(q)
  BY <1>1 DEF Packets
<1>5. \A x \in Packets(t) : x \in Packets(q)
  <2> HIDE DEF t
  <2> QED
    BY <1>3 DEF Packets
<1>6. ASSUME Once(q) PROVE Once(t)
  <2> SUFFICES ASSUME NEW i \in DOMAIN t, NEW j \in DOMAIN t,
                      OfHandshake(t[i]), OfHandshake(t[j])
               PROVE  i = j
    BY DEF Once
  <2>1. i + 1 = j + 1
    BY <1>3, <1>6 DEF Once
  <2> QED
    BY <1>3, <2>1
<1>7. ASSUME Once(q), OfHandshake(Head(q)) PROVE NoneOf(t)
  <2> SUFFICES ASSUME NEW i \in DOMAIN t, OfHandshake(t[i]) PROVE FALSE
    BY DEF NoneOf, Packets
  <2>1. 1 \in DOMAIN q /\ OfHandshake(q[1])
    BY <1>1, <1>7
  <2> QED
    BY <1>3, <1>7, <2>1 DEF Once
<1>8. NoneOf(q) => NoneOf(t)
  BY <1>5 DEF NoneOf
<1>9. ASSUME Len(q) <= 1 PROVE t = << >> /\ \A x \in Packets(q) : x = Head(q)
  <2>1. Len(q) = 1
    BY <1>1, <1>9
  <2>2. t = << >>
    BY <1>2, <2>1
  <2>3. \A x \in Packets(q) : x = Head(q)
    BY <1>1, <2>1 DEF Packets
  <2> QED
    BY <2>2, <2>3
<1> QED
  BY <1>2, <1>4, <1>5, <1>6, <1>7, <1>8, <1>9

-----------------------------------------------------------------------------
(* Type correctness.                                                       *)

LEMMA BuiltPackets ==
  /\ \A a \in {"SYN", "SYNAck", "ACK", "PeerJoin"}, k \in AnyKey, x \in AnyKey :
        Default(a, k, x) \in Packet
  /\ \A a \in {"SYN", "SYNAck", "ACK", "PeerJoin"}, e \in {"RSA", "ChaCha"},
        k \in AnyKey, x \in AnyKey : Encrypted(a, e, k, x) \in Packet
  BY DEF Default, Encrypted, Packet

\* What an action does to the queues keeps their type.
LEMMA QueueTypes ==
  ASSUME TypeOK, NEW c \in Clients
  PROVE  /\ \A p \in Packet : SendToServer(c, p) => c2s' \in [Clients -> Seq(Packet)]
         /\ \A p \in Packet : SendToClient(c, p) => s2c' \in [Clients -> Seq(Packet)]
         /\ \A p \in Packet, pc \in {"wait", "sleep"} : ServerReplies(c, p, pc) =>
              /\ s2c' \in [Clients -> Seq(Packet)]
              /\ srvPc' \in [Clients -> {"syn", "wait", "sleep", "authorized", "threw"}]
         /\ \A a : ServerTakes(c, a) => /\ c2s' \in [Clients -> Seq(Packet)]
                                        /\ Head(c2s[c]) \in Packet
         /\ \A a : ClientTakes(c, a) => /\ s2c' \in [Clients -> Seq(Packet)]
                                        /\ Head(s2c[c]) \in Packet
<1>1. \A p \in Packet : SendToServer(c, p) => c2s' \in [Clients -> Seq(Packet)]
  BY QueueAppend DEF TypeOK, SendToServer
<1>2. \A p \in Packet : SendToClient(c, p) => s2c' \in [Clients -> Seq(Packet)]
  BY QueueAppend DEF TypeOK, SendToClient
<1>3. \A p \in Packet, pc \in {"wait", "sleep"} : ServerReplies(c, p, pc) =>
         /\ s2c' \in [Clients -> Seq(Packet)]
         /\ srvPc' \in [Clients -> {"syn", "wait", "sleep", "authorized", "threw"}]
  BY <1>2 DEF TypeOK, ServerReplies
<1>4. \A a : ServerTakes(c, a) => /\ c2s' \in [Clients -> Seq(Packet)]
                                  /\ Head(c2s[c]) \in Packet
  BY QueueTail DEF TypeOK, ServerTakes
<1>5. \A a : ClientTakes(c, a) => /\ s2c' \in [Clients -> Seq(Packet)]
                                  /\ Head(s2c[c]) \in Packet
  BY QueueTail DEF TypeOK, ClientTakes
<1> QED
  BY <1>1, <1>2, <1>3, <1>4, <1>5

LEMMA TypeInit == Init => TypeOK
  BY EmptyQueue DEF Init, TypeOK

LEMMA TypeNext == TypeOK /\ [Next]_vars => TypeOK'
<1> SUFFICES ASSUME TypeOK, [Next]_vars PROVE TypeOK'
  OBVIOUS
<1> USE DEF srvVars, cliVars
<1>0. RSAKeys \subseteq AnyKey /\ Keys \subseteq AnyKey /\ NoKey \in AnyKey
      /\ ServerRSA \in AnyKey /\ ClientRSA \in AnyKey
  BY DEF AnyKey, RSAKeys
<1>1. CASE UNCHANGED vars
  BY <1>1 DEF vars, TypeOK
<1>2. ASSUME NEW c \in Clients, ServerSYN(c) PROVE TypeOK'
  <2>1. srvKey[c] \in AnyKey
    BY <1>0 DEF TypeOK
  <2>2. s2c' \in [Clients -> Seq(Packet)]
    BY <1>0, <1>2, <2>1, QueueTypes, BuiltPackets DEF ServerSYN
  <2> QED
    BY <1>2, <2>2 DEF ServerSYN, TypeOK
<1>3. ASSUME NEW c \in Clients, ServerSYNAck(c) PROVE TypeOK'
  <2>1. c2s' \in [Clients -> Seq(Packet)]
    BY <1>3, QueueTypes DEF ServerSYNAck
  <2>2. CASE UNCHANGED <<srvPc, srvRSA, s2c>>
    BY <1>3, <2>1, <2>2 DEF ServerSYNAck, TypeOK
  <2>3. ASSUME Head(c2s[c]).data \in RSAKeys,
               srvRSA' = [srvRSA EXCEPT ![c] = Head(c2s[c]).data],
               ServerReplies(c, Encrypted("SYNAck", "RSA", Head(c2s[c]).data, NoKey), "wait")
        PROVE  TypeOK'
    <3>1. Encrypted("SYNAck", "RSA", Head(c2s[c]).data, NoKey) \in Packet
      BY <1>0, <2>3, BuiltPackets
    <3>2. /\ s2c' \in [Clients -> Seq(Packet)]
          /\ srvPc' \in [Clients -> {"syn", "wait", "sleep", "authorized", "threw"}]
      BY <2>3, <3>1, QueueTypes
    <3> QED
      BY <1>3, <2>1, <2>3, <3>2 DEF ServerSYNAck, TypeOK
  <2> QED
    BY <1>3, <2>2, <2>3 DEF ServerSYNAck
<1>4. ASSUME NEW c \in Clients, ServerACK(c) PROVE TypeOK'
  <2>1. c2s' \in [Clients -> Seq(Packet)]
    BY <1>4, QueueTypes DEF ServerACK
  <2>2. CASE UNCHANGED <<srvPc, srvKey, s2c>>
    BY <1>4, <2>1, <2>2 DEF ServerACK, TypeOK
  <2>3. ASSUME Head(c2s[c]).data \in Keys,
               srvKey' = [srvKey EXCEPT ![c] = Head(c2s[c]).data],
               ServerReplies(c, Encrypted("ACK", "ChaCha", Head(c2s[c]).data, Head(c2s[c]).data), "sleep")
        PROVE  TypeOK'
    <3>1. Encrypted("ACK", "ChaCha", Head(c2s[c]).data, Head(c2s[c]).data) \in Packet
      BY <1>0, <2>3, BuiltPackets
    <3>2. /\ s2c' \in [Clients -> Seq(Packet)]
          /\ srvPc' \in [Clients -> {"syn", "wait", "sleep", "authorized", "threw"}]
      BY <2>3, <3>1, QueueTypes
    <3> QED
      BY <1>4, <2>1, <2>3, <3>2 DEF ServerACK, TypeOK
  <2> QED
    BY <1>4, <2>2, <2>3 DEF ServerACK
<1>5. ASSUME NEW c \in Clients, ServerAuthorized(c) PROVE TypeOK'
  BY <1>5 DEF ServerAuthorized, TypeOK
<1>6. ASSUME NEW c \in Clients, ServerDrop(c) PROVE TypeOK'
  <2>1. c2s' \in [Clients -> Seq(Packet)]
    BY <1>6, QueueTypes DEF ServerDrop
  <2> QED
    BY <1>6, <2>1 DEF ServerDrop, TypeOK
<1>7. ASSUME NEW c \in Clients, ClientSYN(c) PROVE TypeOK'
  <2>1. s2c' \in [Clients -> Seq(Packet)] /\ cliKey[c] \in AnyKey
    BY <1>0, <1>7, QueueTypes DEF ClientSYN, TypeOK
  <2>2. Default("SYNAck", cliKey[c], ClientRSA) \in Packet
    BY <1>0, <2>1, BuiltPackets
  <2>3. /\ c2s' \in [Clients -> Seq(Packet)]
        /\ cliRSA' \in [Clients -> RSAKeys \cup {NoKey}]
    BY <1>7, <2>2, QueueTypes DEF ClientSYN, TypeOK
  <2> QED
    BY <1>7, <2>1, <2>3 DEF ClientSYN, TypeOK
<1>8. ASSUME NEW c \in Clients, ClientSYNAck(c) PROVE TypeOK'
  <2>1. s2c' \in [Clients -> Seq(Packet)]
    BY <1>8, QueueTypes DEF ClientSYNAck
  <2>2. /\ cliKey' \in [Clients -> Keys \cup {NoKey}]
        /\ cliPc' \in [Clients -> {"turn", "send", "closed"}]
    BY <1>8 DEF ClientSYNAck, TypeOK
  <2> QED
    BY <1>8, <2>1, <2>2 DEF ClientSYNAck, TypeOK
<1>9. ASSUME NEW c \in Clients, ClientSendACK(c) PROVE TypeOK'
  <2>1. cliKey[c] \in AnyKey /\ cliRSA[c] \in AnyKey
    BY <1>0 DEF TypeOK
  <2>2. Encrypted("ACK", "RSA", cliRSA[c], cliKey[c]) \in Packet
    BY <2>1, BuiltPackets
  <2>3. c2s' \in [Clients -> Seq(Packet)]
    BY <1>9, <2>2, QueueTypes DEF ClientSendACK, TypeOK
  <2> QED
    BY <1>9, <2>3 DEF ClientSendACK, TypeOK
<1>10. ASSUME NEW c \in Clients, ClientACK(c) PROVE TypeOK'
  <2>1. s2c' \in [Clients -> Seq(Packet)]
    BY <1>10, QueueTypes DEF ClientACK
  <2> QED
    BY <1>10, <2>1 DEF ClientACK, TypeOK
<1>11. ASSUME NEW c \in Clients, SendPeerJoin(c) PROVE TypeOK'
  <2>1. cliKey[c] \in AnyKey
    BY <1>0 DEF TypeOK
  <2>2. Default("PeerJoin", cliKey[c], NoKey) \in Packet
    BY <1>0, <2>1, BuiltPackets
  <2>3. c2s' \in [Clients -> Seq(Packet)]
    BY <1>11, <2>2, QueueTypes DEF SendPeerJoin
  <2> QED
    BY <1>11, <2>3 DEF SendPeerJoin, TypeOK
<1>12. ASSUME NEW c \in Clients, ClientClose(c) PROVE TypeOK'
  BY <1>12, EmptyQueue DEF ClientClose, TypeOK
<1> QED
  BY <1>1, <1>2, <1>3, <1>4, <1>5, <1>6, <1>7, <1>8, <1>9, <1>10, <1>11, <1>12
     DEF Next, ServerTurn, ClientTurn

THEOREM TypeCorrect == Spec => []TypeOK
<1>1. Init => TypeOK
  BY TypeInit
<1>2. TypeOK /\ [Next]_vars => TypeOK'
  BY TypeNext
<1> QED
  BY <1>1, <1>2, PTL DEF Spec

-----------------------------------------------------------------------------
(* The inductive invariant.                                                *)

\* An action of one connection leaves the others as they are.
Untouched(d) ==
    /\ srvPc'[d] = srvPc[d] /\ srvKey'[d] = srvKey[d]
    /\ cliPc'[d] = cliPc[d] /\ cliAuth'[d] = cliAuth[d]
    /\ cliRSA'[d] = cliRSA[d] /\ cliKey'[d] = cliKey[d]
    /\ c2s'[d] = c2s[d] /\ s2c'[d] = s2c[d]

LEMMA Frame == ASSUME NEW d, Turns(d), Untouched(d) PROVE Turns(d)'
<1>1. Progress(d)'
  BY DEF Turns, Progress, Untouched, Closed
<1>2. PingPong(d)' /\ Confirmed(d)'
  BY DEF Turns, PingPong, Confirmed, Untouched, Closed
<1>3. (\A p \in Packets(c2s[d]) : ToServer(d, p))'
  BY DEF Turns, ToServer, Untouched
<1>4. (\A p \in Packets(s2c[d]) : ToClient(d, p))'
  BY DEF Turns, ToClient, Untouched
<1> QED
  BY <1>1, <1>2, <1>3, <1>4 DEF Turns

LEMMA OthersUntouched ==
  ASSUME TypeOK, NEW c \in Clients, NEW d \in Clients, d # c,
         ServerTurn(c) \/ ClientTurn(c) \/ SendPeerJoin(c) \/ ClientClose(c)
  PROVE  Untouched(d)
<1> USE DEF TypeOK, Untouched, srvVars, cliVars, SendToServer, SendToClient
<1>1. CASE ServerSYN(c)
  BY <1>1 DEF ServerSYN
<1>2. CASE ServerSYNAck(c)
  BY <1>2 DEF ServerSYNAck, ServerTakes, ServerReplies
<1>3. CASE ServerACK(c)
  BY <1>3 DEF ServerACK, ServerTakes, ServerReplies
<1>4. CASE ServerAuthorized(c)
  BY <1>4 DEF ServerAuthorized
<1>5. CASE ServerDrop(c)
  BY <1>5 DEF ServerDrop, ServerTakes
<1>6. CASE ClientSYN(c)
  BY <1>6 DEF ClientSYN, ClientTakes
<1>7. CASE ClientSYNAck(c)
  BY <1>7 DEF ClientSYNAck, ClientTakes
<1>8. CASE ClientSendACK(c)
  BY <1>8 DEF ClientSendACK
<1>9. CASE ClientACK(c)
  BY <1>9 DEF ClientACK, ClientTakes
<1>10. CASE SendPeerJoin(c)
  BY <1>10 DEF SendPeerJoin
<1>11. CASE ClientClose(c)
  BY <1>11 DEF ClientClose
<1> QED
  BY <1>1, <1>2, <1>3, <1>4, <1>5, <1>6, <1>7, <1>8, <1>9, <1>10, <1>11
     DEF ServerTurn, ClientTurn

\* A packet sent on an empty queue is alone there.
LEMMA OneInFlight ==
  ASSUME NEW p \in Packet
  PROVE  /\ Len(Append(<< >>, p)) = 1 /\ Append(<< >>, p) # << >>
         /\ Head(Append(<< >>, p)) = p
         /\ Packets(Append(<< >>, p)) = {p}
<1> DEFINE r == Append(<< >>, p)
<1>1. << >> \in Seq(Packet) /\ Len(<< >>) = 0
  BY EmptyQueue
<1>2. Len(r) = 1 /\ r \in Seq(Packet) /\ DOMAIN r = 1..1 /\ r[1] = p
  BY <1>1
<1>3. r # << >>
  BY <1>1, <1>2
<1>4. Head(r) = p
  BY <1>2
<1>5. Packets(r) = {p}
  BY <1>2 DEF Packets
<1> QED
  BY <1>2, <1>3, <1>4, <1>5

LEMMA TurnsServerSYN ==
  ASSUME IInv, NEW c \in Clients, ServerSYN(c) PROVE Turns(c)'
<1> USE DEF IInv
<1> DEFINE p == Default("SYN", srvKey[c], ServerRSA)
<1>1. /\ srvPc[c] = "syn" /\ srvPc' = [srvPc EXCEPT ![c] = "wait"]
      /\ UNCHANGED <<srvRSA, srvKey, cliPc, cliAuth, cliRSA, cliKey, c2s>>
      /\ Turns(c) /\ TypeOK
  BY DEF ServerSYN, cliVars
<1>2. /\ srvPc'[c] = "wait" /\ srvKey[c] = NoKey /\ cliKey[c] = NoKey
      /\ NoneOf(c2s[c]) /\ s2c[c] = << >>
  BY <1>1 DEF Turns, Progress, TypeOK
<1>3. p \in Packet /\ p.action = "SYN" /\ p.enc = "NONE" /\ p.data = ServerRSA
  BY <1>2 DEF Default, Packet, AnyKey, RSAKeys
<1>4. s2c'[c] = IF Closed(c) THEN << >> ELSE Append(<< >>, p)
  BY <1>1, <1>2 DEF ServerSYN, SendToClient, TypeOK
<1> HIDE DEF p
<1>5. /\ Packets(s2c'[c]) \subseteq {p} /\ Len(s2c'[c]) <= 1
      /\ Closed(c) => s2c'[c] = << >>
  BY <1>3, <1>4, EmptyQueue, OneInFlight
<1>6. \A x \in Packets(s2c'[c]) : ToClient(c, x)'
  BY <1>1, <1>2, <1>3, <1>5 DEF ToClient
<1>7. \A x \in Packets(c2s'[c]) : ToServer(c, x)'
  BY <1>1 DEF ToServer, Turns
<1>8. Progress(c)'
  BY <1>1, <1>2, <1>5 DEF Turns, Progress, Closed
<1>9. PingPong(c)' /\ Confirmed(c)'
  BY <1>1, <1>2, <1>5 DEF Turns, PingPong, Confirmed
<1> QED
  BY <1>6, <1>7, <1>8, <1>9 DEF Turns

\* What the server knows when it takes a packet of the handshake.
LEMMA ServerTaking ==
  ASSUME IInv, NEW c \in Clients, NEW a \in {"SYNAck", "ACK"},
         srvPc[c] = "wait", ServerTakes(c, a)
  PROVE  /\ Head(c2s[c]) \in Packet /\ ToServer(c, Head(c2s[c]))
         /\ Head(c2s[c]).action = a
         /\ NoneOf(c2s'[c]) /\ Once(c2s'[c]) /\ s2c[c] = << >>
         /\ \A x \in Packets(c2s'[c]) : x \in Packets(c2s[c]) /\ x.action = "PeerJoin"
         /\ srvKey[c] = NoKey
         /\ cliPc[c] # "send" /\ ~cliAuth[c]
<1>1. c2s[c] \in Seq(Packet) /\ c2s[c] # << >> /\ c2s'[c] = Tail(c2s[c])
  BY DEF IInv, TypeOK, ServerTakes
<1>2. /\ Head(c2s[c]) \in Packet /\ Head(c2s[c]) \in Packets(c2s[c])
      /\ OfHandshake(Head(c2s[c])) /\ Head(c2s[c]).action = a
  BY <1>1, QueueTail DEF ServerTakes, OfHandshake
<1>3. ~NoneOf(c2s[c]) /\ Once(c2s[c]) /\ Turns(c)
  BY <1>2 DEF NoneOf, IInv, Turns, PingPong
<1>4. NoneOf(c2s'[c]) /\ Once(c2s'[c])
  BY <1>1, <1>2, <1>3, QueueTail
<1>5. \A x \in Packets(c2s'[c]) : x \in Packets(c2s[c])
  BY <1>1, QueueTail
<1>6. s2c[c] = << >> /\ srvKey[c] = NoKey /\ cliPc[c] # "send" /\ ~cliAuth[c]
  BY <1>3 DEF Turns, PingPong, Progress
<1>7. ToServer(c, Head(c2s[c]))
  BY <1>2, <1>3 DEF Turns
<1> QED
  BY <1>2, <1>4, <1>5, <1>6, <1>7 DEF NoneOf, OfHandshake

LEMMA TurnsServerSYNAck ==
  ASSUME IInv, NEW c \in Clients, ServerSYNAck(c) PROVE Turns(c)'
<1> DEFINE p == Encrypted("SYNAck", "RSA", ClientRSA, NoKey)
<1>1. /\ srvPc[c] = "wait" /\ ServerTakes(c, "SYNAck")
      /\ UNCHANGED <<srvKey, cliPc, cliAuth, cliRSA, cliKey>>
      /\ Turns(c) /\ TypeOK
  BY DEF ServerSYNAck, cliVars, IInv
<1>2. /\ ToServer(c, Head(c2s[c])) /\ Head(c2s[c]).action = "SYNAck"
      /\ NoneOf(c2s'[c]) /\ Once(c2s'[c]) /\ s2c[c] = << >>
      /\ \A x \in Packets(c2s'[c]) : x \in Packets(c2s[c]) /\ x.action = "PeerJoin"
      /\ srvKey[c] = NoKey /\ cliPc[c] # "send" /\ ~cliAuth[c]
  BY <1>1, ServerTaking
<1>3. /\ cliKey[c] = NoKey /\ Head(c2s[c]).enc = "NONE" /\ Head(c2s[c]).data = ClientRSA
  BY <1>2 DEF ToServer
<1>4. ServerReplies(c, p, "wait")
  BY <1>3 DEF ServerSYNAck, RSAKeys
<1>5. p \in Packet /\ p.action = "SYNAck" /\ p.enc = "RSA" /\ p.under = ClientRSA
      /\ p.data = NoKey
  BY DEF Encrypted, Packet, AnyKey, RSAKeys
<1> HIDE DEF p
<1>6. /\ srvPc'[c] \in {"wait", "threw"}
      /\ s2c'[c] \in {<< >>, Append(<< >>, p)}
      /\ Closed(c) => s2c'[c] = << >>
  BY <1>1, <1>2, <1>4 DEF ServerReplies, SendToClient, TypeOK
<1>7. Packets(s2c'[c]) \subseteq {p} /\ Len(s2c'[c]) <= 1
  <2>1. CASE s2c'[c] = << >>
    BY <2>1, EmptyQueue
  <2>2. CASE s2c'[c] = Append(<< >>, p)
    BY <1>5, <2>2, OneInFlight
  <2> QED
    BY <1>6, <2>1, <2>2
<1>8. \A x \in Packets(s2c'[c]) : ToClient(c, x)'
  BY <1>1, <1>3, <1>5, <1>7 DEF ToClient
<1>9. \A x \in Packets(c2s'[c]) : ToServer(c, x)'
  BY <1>1, <1>2 DEF ToServer, Turns
<1>10. Progress(c)'
  BY <1>1, <1>2, <1>6 DEF Turns, Progress, Closed
<1>11. PingPong(c)' /\ Confirmed(c)'
  BY <1>2, <1>6, <1>7 DEF PingPong, Confirmed
<1> QED
  BY <1>8, <1>9, <1>10, <1>11 DEF Turns

LEMMA TurnsServerACK ==
  ASSUME IInv, NEW c \in Clients, ServerACK(c) PROVE Turns(c)'
<1> DEFINE k == cliKey[c]
           p == Encrypted("ACK", "ChaCha", k, k)
<1>1. /\ srvPc[c] = "wait" /\ ServerTakes(c, "ACK")
      /\ UNCHANGED <<cliPc, cliAuth, cliRSA, cliKey>>
      /\ Turns(c) /\ TypeOK
  BY DEF ServerACK, cliVars, IInv
<1>2. /\ ToServer(c, Head(c2s[c])) /\ Head(c2s[c]).action = "ACK"
      /\ NoneOf(c2s'[c]) /\ Once(c2s'[c]) /\ s2c[c] = << >>
      /\ \A x \in Packets(c2s'[c]) : x \in Packets(c2s[c]) /\ x.action = "PeerJoin"
      /\ srvKey[c] = NoKey /\ cliPc[c] # "send" /\ ~cliAuth[c]
  BY <1>1, ServerTaking
<1>3. /\ k \in Keys /\ k # NoKey /\ Head(c2s[c]).enc = "RSA"
      /\ Head(c2s[c]).under = ServerRSA /\ Head(c2s[c]).data = k
  BY <1>2, NoKeyAssumption DEF ToServer
<1>4. ServerReplies(c, p, "sleep") /\ srvKey'[c] = k
  BY <1>1, <1>3 DEF ServerACK, TypeOK
<1>5. p \in Packet /\ p.action = "ACK" /\ p.enc = "ChaCha" /\ p.under = k /\ p.data = k
  BY <1>3 DEF Encrypted, Packet, AnyKey
<1> HIDE DEF p
<1>6. /\ srvPc'[c] \in {"sleep", "threw"}
      /\ s2c'[c] = IF Closed(c) THEN << >> ELSE Append(<< >>, p)
  <2>1. p.under # NoKey
    BY <1>3, <1>5
  <2> QED
    BY <1>1, <1>2, <1>4, <2>1 DEF ServerReplies, SendToClient, TypeOK
<1>7. /\ Packets(s2c'[c]) \subseteq {p} /\ Len(s2c'[c]) <= 1
      /\ ~Closed(c) => s2c'[c] # << >> /\ Head(s2c'[c]) = p
  BY <1>5, <1>6, EmptyQueue, OneInFlight
<1>8. \A x \in Packets(s2c'[c]) : ToClient(c, x)'
  BY <1>3, <1>4, <1>5, <1>7 DEF ToClient
<1>9. \A x \in Packets(c2s'[c]) : ToServer(c, x)'
  BY <1>1, <1>2 DEF ToServer, Turns
<1>10. Progress(c)'
  BY <1>1, <1>2, <1>3, <1>4, <1>6 DEF Turns, Progress, Closed
<1>11. PingPong(c)' /\ Confirmed(c)'
  BY <1>1, <1>2, <1>5, <1>6, <1>7 DEF PingPong, Confirmed, Closed
<1> QED
  BY <1>8, <1>9, <1>10, <1>11 DEF Turns

LEMMA TurnsServerAuthorized ==
  ASSUME IInv, NEW c \in Clients, ServerAuthorized(c) PROVE Turns(c)'
<1>1. /\ srvPc[c] = "sleep" /\ srvPc'[c] = "authorized" /\ Turns(c)
      /\ UNCHANGED <<srvKey, cliPc, cliAuth, cliRSA, cliKey, c2s, s2c>>
  BY DEF ServerAuthorized, cliVars, IInv, TypeOK
<1>2. Progress(c)' /\ PingPong(c)' /\ Confirmed(c)'
  BY <1>1 DEF Turns, Progress, PingPong, Confirmed, Closed
<1> QED
  BY <1>1, <1>2 DEF Turns, ToServer, ToClient

LEMMA TurnsServerDrop ==
  ASSUME IInv, NEW c \in Clients, ServerDrop(c) PROVE Turns(c)'
<1>1. /\ UNCHANGED <<srvPc, srvKey, cliPc, cliAuth, cliRSA, cliKey, s2c>>
      /\ c2s[c] \in Seq(Packet) /\ c2s[c] # << >> /\ c2s'[c] = Tail(c2s[c])
      /\ Turns(c)
  BY DEF ServerDrop, ServerTakes, srvVars, cliVars, IInv, TypeOK
<1>2. /\ \A x \in Packets(c2s'[c]) : x \in Packets(c2s[c])
      /\ Once(c2s[c]) => Once(c2s'[c])
      /\ NoneOf(c2s[c]) => NoneOf(c2s'[c])
  BY <1>1, QueueTail
<1>3. Progress(c)' /\ PingPong(c)' /\ Confirmed(c)'
  BY <1>1, <1>2 DEF Turns, Progress, PingPong, Confirmed, Closed
<1> QED
  BY <1>1, <1>2, <1>3 DEF Turns, ToServer, ToClient

\* What the client knows when it takes a packet.
LEMMA ClientTaking ==
  ASSUME IInv, NEW c \in Clients, NEW a \in {"SYN", "SYNAck", "ACK"}, ClientTakes(c, a)
  PROVE  /\ Head(s2c[c]) \in Packet /\ ToClient(c, Head(s2c[c]))
         /\ Head(s2c[c]).action = a /\ s2c[c] # << >>
         /\ s2c'[c] = << >> /\ Packets(s2c'[c]) = {} /\ Len(s2c'[c]) = 0
         /\ NoneOf(c2s[c]) /\ c2s[c] \in Seq(Packet)
         /\ \A x \in Packets(c2s[c]) : x.action = "PeerJoin"
         /\ ~Closed(c) /\ srvPc[c] # "syn"
<1>1. /\ s2c[c] \in Seq(Packet) /\ s2c[c] # << >> /\ s2c'[c] = Tail(s2c[c])
      /\ Turns(c) /\ c2s[c] \in Seq(Packet)
  BY DEF IInv, TypeOK, ClientTakes
<1>2. Len(s2c[c]) <= 1 /\ NoneOf(c2s[c])
  BY <1>1 DEF Turns, PingPong
<1>3. /\ Head(s2c[c]) \in Packet /\ Head(s2c[c]) \in Packets(s2c[c])
      /\ s2c'[c] = << >>
  BY <1>1, <1>2, QueueTail
<1>4. ToClient(c, Head(s2c[c])) /\ ~Closed(c) /\ srvPc[c] # "syn"
  BY <1>1, <1>3 DEF Turns, Progress
<1>5. \A x \in Packets(c2s[c]) : x.action = "PeerJoin"
  BY <1>2 DEF NoneOf, OfHandshake
<1> QED
  BY <1>1, <1>2, <1>3, <1>4, <1>5, EmptyQueue DEF ClientTakes

LEMMA TurnsClientSYN ==
  ASSUME IInv, NEW c \in Clients, ClientSYN(c) PROVE Turns(c)'
<1> DEFINE p == Default("SYNAck", NoKey, ClientRSA)
<1>1. /\ ClientTakes(c, "SYN") /\ cliPc[c] = "turn" /\ ~cliAuth[c]
      /\ UNCHANGED <<srvPc, srvKey, cliPc, cliAuth, cliKey>>
      /\ Turns(c) /\ TypeOK
  BY DEF ClientSYN, MyTurn, srvVars, IInv
<1>2. /\ ToClient(c, Head(s2c[c])) /\ Head(s2c[c]).action = "SYN" /\ s2c[c] # << >>
      /\ s2c'[c] = << >> /\ Packets(s2c'[c]) = {} /\ Len(s2c'[c]) = 0
      /\ NoneOf(c2s[c]) /\ c2s[c] \in Seq(Packet)
      /\ ~Closed(c) /\ srvPc[c] # "syn"
  BY <1>1, ClientTaking
<1>3. /\ cliKey[c] = NoKey /\ Head(s2c[c]).enc = "NONE" /\ Head(s2c[c]).data = ServerRSA
  BY <1>2 DEF ToClient
<1>4. SendToServer(c, p) /\ cliRSA'[c] = ServerRSA
  BY <1>1, <1>3 DEF ClientSYN, RSAKeys, TypeOK
<1>5. p \in Packet /\ p.action = "SYNAck" /\ p.enc = "NONE" /\ p.data = ClientRSA
  BY DEF Default, Packet, AnyKey, RSAKeys
<1> HIDE DEF p
<1>6. c2s'[c] = Append(c2s[c], p)
  BY <1>1, <1>4 DEF SendToServer, TypeOK
<1>7. /\ \A x \in Packets(c2s'[c]) : x \in Packets(c2s[c]) \/ x = p
      /\ Once(c2s'[c])
  <2>1. Once(c2s[c])
    BY <1>1 DEF Turns, PingPong
  <2> QED
    BY <1>2, <1>5, <1>6, <2>1, QueueAppend
<1>8. \A x \in Packets(c2s'[c]) : ToServer(c, x)'
  BY <1>1, <1>3, <1>5, <1>7 DEF ToServer, Turns
<1>9. srvKey[c] = NoKey /\ srvPc[c] \notin {"sleep", "authorized"}
  BY <1>1, <1>3 DEF Turns, Progress
<1>10. Progress(c)'
  BY <1>1, <1>2, <1>3, <1>4, <1>9 DEF Turns, Progress, Closed
<1>11. PingPong(c)' /\ Confirmed(c)'
  BY <1>1, <1>2, <1>7, <1>9 DEF PingPong, Confirmed
<1> QED
  BY <1>2, <1>8, <1>10, <1>11 DEF Turns

LEMMA TurnsClientSYNAck ==
  ASSUME IInv, NEW c \in Clients, ClientSYNAck(c) PROVE Turns(c)'
<1>1. /\ ClientTakes(c, "SYNAck") /\ cliPc[c] = "turn" /\ ~cliAuth[c]
      /\ UNCHANGED <<srvPc, srvKey, cliAuth, cliRSA, c2s>>
      /\ Turns(c) /\ TypeOK
  BY DEF ClientSYNAck, MyTurn, srvVars, IInv
<1>2. /\ ToClient(c, Head(s2c[c])) /\ Head(s2c[c]).action = "SYNAck" /\ s2c[c] # << >>
      /\ s2c'[c] = << >> /\ Packets(s2c'[c]) = {} /\ Len(s2c'[c]) = 0
      /\ NoneOf(c2s[c])
      /\ \A x \in Packets(c2s[c]) : x.action = "PeerJoin"
      /\ ~Closed(c) /\ srvPc[c] # "syn"
  BY <1>1, ClientTaking
<1>3. cliKey[c] = NoKey /\ srvKey[c] = NoKey /\ srvPc[c] \notin {"sleep", "authorized"}
  BY <1>1, <1>2 DEF ToClient, Turns, Progress
<1>4. \/ cliKey'[c] \in Keys /\ cliPc'[c] = "send" /\ cliRSA[c] # NoKey
      \/ cliKey'[c] = NoKey /\ cliPc'[c] = "turn"
  BY <1>1, <1>3 DEF ClientSYNAck, TypeOK
<1>5. \A x \in Packets(c2s'[c]) : ToServer(c, x)'
  BY <1>1, <1>2 DEF ToServer, Turns
<1>6. Progress(c)'
  BY <1>1, <1>2, <1>3, <1>4, NoKeyAssumption DEF Turns, Progress, Closed
<1>7. PingPong(c)' /\ Confirmed(c)'
  BY <1>1, <1>2, <1>3 DEF Turns, PingPong, Confirmed
<1> QED
  BY <1>2, <1>5, <1>6, <1>7 DEF Turns

LEMMA TurnsClientSendACK ==
  ASSUME IInv, NEW c \in Clients, ClientSendACK(c) PROVE Turns(c)'
<1> DEFINE p == Encrypted("ACK", "RSA", ServerRSA, cliKey[c])
<1>1. /\ cliPc[c] = "send" /\ cliPc'[c] = "turn"
      /\ UNCHANGED <<srvPc, srvKey, cliAuth, cliRSA, cliKey, s2c>>
      /\ Turns(c) /\ TypeOK
  BY DEF ClientSendACK, srvVars, IInv, TypeOK
<1>2. /\ cliKey[c] # NoKey /\ cliKey[c] \in Keys /\ srvKey[c] = NoKey
      /\ NoneOf(c2s[c]) /\ Once(c2s[c]) /\ s2c[c] = << >> /\ c2s[c] \in Seq(Packet)
      /\ cliRSA[c] = ServerRSA /\ srvPc[c] \notin {"syn", "sleep", "authorized"}
      /\ ~cliAuth[c]
  BY <1>1 DEF Turns, Progress, PingPong, TypeOK
<1>3. ServerRSA # NoKey
  BY NoKeyAssumption DEF RSAKeys
<1>4. c2s'[c] = Append(c2s[c], p)
  BY <1>1, <1>2, <1>3 DEF ClientSendACK, SendToServer, TypeOK
<1>5. /\ p \in Packet /\ p.action = "ACK" /\ p.enc = "RSA" /\ p.under = ServerRSA
      /\ p.data = cliKey[c]
  BY <1>2 DEF Encrypted, Packet, AnyKey, RSAKeys
<1> HIDE DEF p
<1>6. /\ \A x \in Packets(c2s'[c]) : x \in Packets(c2s[c]) \/ x = p
      /\ Once(c2s'[c])
  BY <1>2, <1>4, <1>5, QueueAppend
<1>7. \A x \in Packets(c2s'[c]) : ToServer(c, x)'
  BY <1>1, <1>2, <1>5, <1>6 DEF ToServer, Turns
<1>8. Progress(c)'
  BY <1>1, <1>2 DEF Turns, Progress, Closed
<1>9. PingPong(c)' /\ Confirmed(c)'
  BY <1>1, <1>2, <1>6 DEF Turns, PingPong, Confirmed
<1> QED
  BY <1>1, <1>7, <1>8, <1>9 DEF Turns, ToClient

LEMMA TurnsClientACK ==
  ASSUME IInv, NEW c \in Clients, ClientACK(c) PROVE Turns(c)'
<1>1. /\ ClientTakes(c, "ACK") /\ cliPc[c] = "turn"
      /\ UNCHANGED <<srvPc, srvKey, cliPc, cliRSA, cliKey, c2s>>
      /\ Turns(c) /\ TypeOK
  BY DEF ClientACK, MyTurn, srvVars, IInv
<1>2. /\ ToClient(c, Head(s2c[c])) /\ Head(s2c[c]).action = "ACK" /\ s2c[c] # << >>
      /\ s2c'[c] = << >> /\ Packets(s2c'[c]) = {} /\ Len(s2c'[c]) = 0
      /\ ~Closed(c) /\ srvPc[c] # "syn"
  BY <1>1, ClientTaking
<1>3. srvKey[c] \in Keys /\ srvKey[c] # NoKey
  BY <1>2, NoKeyAssumption DEF ToClient
<1>4. srvKey[c] = cliKey[c] /\ cliAuth'[c]
  BY <1>1, <1>2, <1>3 DEF ToClient, Turns, Progress, ClientACK, TypeOK
<1>5. Progress(c)'
  BY <1>1, <1>2, <1>3, <1>4 DEF Turns, Progress, Closed
<1>6. PingPong(c)' /\ Confirmed(c)'
  BY <1>1, <1>2, <1>4 DEF Turns, PingPong, Confirmed
<1> QED
  BY <1>1, <1>2, <1>5, <1>6 DEF Turns, ToServer

LEMMA TurnsSendPeerJoin ==
  ASSUME IInv, NEW c \in Clients, SendPeerJoin(c) PROVE Turns(c)'
<1> DEFINE p == Default("PeerJoin", cliKey[c], NoKey)
<1>1. /\ UNCHANGED <<srvPc, srvKey, cliPc, cliAuth, cliRSA, cliKey, s2c>>
      /\ Turns(c) /\ TypeOK /\ SendToServer(c, p)
  BY DEF SendPeerJoin, srvVars, IInv
<1>2. p \in Packet /\ p.action = "PeerJoin" /\ p.data = NoKey
  BY <1>1 DEF Default, Packet, AnyKey, TypeOK
<1> HIDE DEF p
<1>3. c2s'[c] = Append(c2s[c], p) /\ c2s[c] \in Seq(Packet)
  BY <1>1 DEF SendToServer, TypeOK
<1>4. /\ \A x \in Packets(c2s'[c]) : x \in Packets(c2s[c]) \/ x = p
      /\ Once(c2s[c]) => Once(c2s'[c])
      /\ NoneOf(c2s[c]) => NoneOf(c2s'[c])
  BY <1>2, <1>3, QueueAppend DEF OfHandshake
<1>5. \A x \in Packets(c2s'[c]) : ToServer(c, x)'
  BY <1>1, <1>2, <1>4 DEF ToServer, Turns
<1>6. Progress(c)' /\ PingPong(c)' /\ Confirmed(c)'
  BY <1>1, <1>4 DEF Turns, Progress, PingPong, Confirmed, Closed
<1> QED
  BY <1>1, <1>5, <1>6 DEF Turns, ToClient

LEMMA TurnsClientClose ==
  ASSUME IInv, NEW c \in Clients, ClientClose(c) PROVE Turns(c)'
<1>1. /\ cliPc'[c] = "closed" /\ c2s'[c] \in {c2s[c], << >>} /\ s2c'[c] = << >>
      /\ UNCHANGED <<srvPc, srvKey, cliAuth, cliRSA, cliKey>> /\ Turns(c)
  BY DEF ClientClose, srvVars, IInv, TypeOK
<1>2. /\ Packets(s2c'[c]) = {} /\ Len(s2c'[c]) = 0
      /\ Packets(c2s'[c]) \subseteq Packets(c2s[c])
      /\ Once(c2s[c]) => Once(c2s'[c])
      /\ NoneOf(c2s[c]) => NoneOf(c2s'[c])
  BY <1>1, EmptyQueue
<1>3. Progress(c)' /\ PingPong(c)' /\ Confirmed(c)'
  BY <1>1, <1>2 DEF Turns, Progress, PingPong, Confirmed, Closed
<1> QED
  BY <1>1, <1>2, <1>3 DEF Turns, ToServer

-----------------------------------------------------------------------------
(* Theorems.                                                               *)

LEMMA TurnsInit == Init => \A c \in Clients : Turns(c)
<1> SUFFICES ASSUME Init, NEW c \in Clients PROVE Turns(c)
  OBVIOUS
<1>1. /\ srvPc[c] = "syn" /\ srvKey[c] = NoKey /\ cliPc[c] = "turn" /\ ~cliAuth[c]
      /\ cliRSA[c] = NoKey /\ cliKey[c] = NoKey
      /\ c2s[c] = << >> /\ s2c[c] = << >>
  BY DEF Init
<1>2. Progress(c) /\ PingPong(c) /\ Confirmed(c)
  BY <1>1, EmptyQueue DEF Progress, PingPong, Confirmed, Closed
<1> QED
  BY <1>1, <1>2, EmptyQueue DEF Turns

LEMMA TurnsStep ==
  ASSUME IInv, NEW c \in Clients,
         ServerTurn(c) \/ ClientTurn(c) \/ SendPeerJoin(c) \/ ClientClose(c)
  PROVE  \A d \in Clients : Turns(d)'
<1>1. Turns(c)'
  BY TurnsServerSYN, TurnsServerSYNAck, TurnsServerACK, TurnsServerAuthorized,
     TurnsServerDrop, TurnsClientSYN, TurnsClientSYNAck, TurnsClientSendACK,
     TurnsClientACK, TurnsSendPeerJoin, TurnsClientClose
     DEF ServerTurn, ClientTurn
<1>2. ASSUME NEW d \in Clients, d # c PROVE Turns(d)'
  <2>1. Untouched(d)
    BY <1>2, OthersUntouched DEF IInv
  <2> QED
    BY <2>1, Frame DEF IInv
<1> QED
  BY <1>1, <1>2

\* The inductive invariant: at most one packet of the handshake is in flight,
\* and it says where the two turns of TLSV2 stand.
THEOREM Invariance == Spec => []IInv
<1>1. Init => IInv
  BY TypeInit, TurnsInit DEF IInv
<1>2. IInv /\ [Next]_vars => IInv'
  <2> SUFFICES ASSUME IInv, [Next]_vars PROVE IInv'
    OBVIOUS
  <2>1. TypeOK'
    BY TypeNext DEF IInv
  <2>2. CASE UNCHANGED vars
    <3> SUFFICES ASSUME NEW d \in Clients PROVE Turns(d)'
      BY <2>1 DEF IInv
    <3>1. Untouched(d)
      BY <2>2 DEF vars, srvVars, cliVars, Untouched
    <3> QED
      BY <3>1, Frame DEF IInv
  <2>3. CASE Next
    BY <2>1, <2>3, TurnsStep DEF Next, IInv
  <2> QED
    BY <2>2, <2>3
<1> QED
  BY <1>1, <1>2, PTL DEF Spec

\* When the client's TLSV2 returns true, both sides hold the same key.
THEOREM KeyAgreementHolds == Spec => []KeysAgree
<1>1. IInv => KeysAgree
  BY DEF IInv, Turns, Progress, KeysAgree
<1> QED
  BY <1>1, Invariance, PTL

\* TryEncryptSend never seals the ChaCha key with a key other than the
\* server's RSA key or the ChaCha key itself.
THEOREM KeyStaysSecret == Spec => []SecretSealed
<1>1. IInv => SecretSealed
  <2> SUFFICES ASSUME IInv, NEW c \in Clients,
                      NEW p \in Packets(c2s[c]) \cup Packets(s2c[c]), p.data \in Keys
               PROVE  \/ p.enc = "RSA" /\ p.under = ServerRSA
                      \/ p.enc = "ChaCha" /\ p.under = p.data
    BY DEF SecretSealed
  <2>1. ServerRSA \notin Keys /\ ClientRSA \notin Keys /\ NoKey \notin Keys
    BY NoKeyAssumption, RSAAssumption DEF RSAKeys
  <2>2. c2s[c] \in Seq(Packet) /\ s2c[c] \in Seq(Packet)
    BY DEF IInv, TypeOK
  <2>3. p \in Packet
    BY <2>2 DEF Packets
  <2>4. p.action \in {"SYN", "SYNAck", "ACK", "PeerJoin"}
    BY <2>3 DEF Packet
  <2>5. CASE p \in Packets(c2s[c])
    <3>1. ToServer(c, p)
      BY <2>5 DEF IInv, Turns
    <3> QED
      BY <2>1, <2>4, <3>1 DEF ToServer
  <2>6. CASE p \in Packets(s2c[c])
    <3>1. ToClient(c, p)
      BY <2>6 DEF IInv, Turns
    <3> QED
      BY <2>1, <2>4, <3>1 DEF ToClient
  <2> QED
    BY <2>5, <2>6
<1> QED
  BY <1>1, Invariance, PTL

\* A server whose TLSV2 has confirmed the key never waits for a live client
\* that has no confirmation to come.
THEOREM NeverHalfOpen == Spec => []NoHalfOpen
<1>1. IInv => NoHalfOpen
  <2> SUFFICES ASSUME IInv, NEW c \in Clients, srvPc[c] \in {"sleep", "authorized"},
                      ~Closed(c), ~cliAuth[c]
               PROVE  \E p \in Packets(s2c[c]) : /\ p.action = "ACK" /\ p.enc = "ChaCha"
                                                 /\ p.under = cliKey[c] /\ p.data = cliKey[c]
    BY DEF NoHalfOpen
  <2>1. s2c[c] # << >> /\ Head(s2c[c]).action = "ACK" /\ s2c[c] \in Seq(Packet)
    BY DEF IInv, Turns, Confirmed, TypeOK
  <2>2. Head(s2c[c]) \in Packets(s2c[c])
    BY <2>1, QueueTail
  <2>3. ToClient(c, Head(s2c[c]))
    BY <2>2 DEF IInv, Turns
  <2>4. srvKey[c] = cliKey[c]
    BY DEF IInv, Turns, Progress
  <2> QED
    BY <2>1, <2>2, <2>3, <2>4 DEF ToClient
<1> QED
  BY <1>1, Invariance, PTL

-----------------------------------------------------------------------------
(* Implementation of KeyAgreement.                                         *)

LEMMA OfferStep ==
  ASSUME IInv, NEW c \in Clients, ClientSYNAck(c)
  PROVE  \/ \E k \in Keys : KA!Offer(c, k)
         \/ UNCHANGED <<cliKey, srvKey, cliAuth>>
<1>1. ToClient(c, Head(s2c[c])) /\ Head(s2c[c]).action = "SYNAck"
  BY ClientTaking DEF ClientSYNAck
<1>2. cliKey[c] = NoKey
  BY <1>1 DEF ToClient
<1>3. UNCHANGED <<srvKey, cliAuth>>
  BY DEF ClientSYNAck, srvVars
<1> QED
  BY <1>2, <1>3 DEF ClientSYNAck, KA!Offer

LEMMA AcceptStep ==
  ASSUME IInv, NEW c \in Clients, ServerACK(c)
  PROVE  KA!Accept(c) \/ UNCHANGED <<cliKey, srvKey, cliAuth>>
<1>1. srvPc[c] = "wait" /\ ServerTakes(c, "ACK") /\ UNCHANGED <<cliKey, cliAuth>>
  BY DEF ServerACK, cliVars
<1>2. ToServer(c, Head(c2s[c])) /\ Head(c2s[c]).action = "ACK"
  BY <1>1, ServerTaking
<1>3. Head(c2s[c]).data = cliKey[c] /\ cliKey[c] # NoKey /\ srvKey[c] = NoKey
  BY <1>2, NoKeyAssumption DEF ToServer
<1> QED
  BY <1>1, <1>3 DEF ServerACK, KA!Accept

LEMMA OpenStep ==
  ASSUME IInv, NEW c \in Clients, ClientACK(c)
  PROVE  KA!Open(c) \/ UNCHANGED <<cliKey, srvKey, cliAuth>>
<1>1. UNCHANGED <<cliKey, srvKey>>
  BY DEF ClientACK, srvVars
<1>2. ToClient(c, Head(s2c[c])) /\ Head(s2c[c]).action = "ACK"
  BY ClientTaking DEF ClientACK
<1>3. srvKey[c] # NoKey
  BY <1>2, NoKeyAssumption DEF ToClient
<1>4. CASE UNCHANGED cliAuth
  BY <1>1, <1>4
<1>5. CASE cliAuth' = [cliAuth EXCEPT ![c] = TRUE]
  <2>1. {d \in Clients : cliAuth'[d]} = {d \in Clients : cliAuth[d]} \cup {c}
    BY <1>5 DEF IInv, TypeOK
  <2> QED
    BY <1>1, <1>3, <2>1 DEF KA!Open
<1> QED
  BY <1>4, <1>5 DEF ClientACK

LEMMA OtherSteps ==
  ASSUME NEW c \in Clients,
         \/ ServerSYN(c) \/ ServerSYNAck(c) \/ ServerAuthorized(c) \/ ServerDrop(c)
         \/ ClientSYN(c) \/ ClientSendACK(c) \/ SendPeerJoin(c) \/ ClientClose(c)
  PROVE  UNCHANGED <<cliKey, srvKey, cliAuth>>
  BY DEF ServerSYN, ServerSYNAck, ServerAuthorized, ServerDrop, ClientSYN, ClientSendACK,
         SendPeerJoin, ClientClose, srvVars, cliVars

\* The turns of TLSV2 are a key agreement: the client draws one key, the
\* server stores that key, and the client opens only then.
THEOREM TurnsAgree == Spec => ImplementsKeyAgreement
<1>1. Init => KA!Init
  BY DEF Init, KA!Init
<1>2. IInv /\ [Next]_vars => [KA!Next]_(KA!vars)
  <2> SUFFICES ASSUME IInv, [Next]_vars PROVE [KA!Next]_(KA!vars)
    OBVIOUS
  <2>1. CASE UNCHANGED <<cliKey, srvKey, cliAuth>>
    BY <2>1 DEF KA!vars
  <2>2. CASE UNCHANGED vars
    BY <2>1, <2>2 DEF vars, srvVars, cliVars
  <2>3. ASSUME NEW c \in Clients,
               ServerTurn(c) \/ ClientTurn(c) \/ SendPeerJoin(c) \/ ClientClose(c)
        PROVE  \/ \E k \in Keys : KA!Offer(c, k)
               \/ KA!Accept(c) \/ KA!Open(c)
               \/ UNCHANGED <<cliKey, srvKey, cliAuth>>
    BY <2>3, OfferStep, AcceptStep, OpenStep, OtherSteps DEF ServerTurn, ClientTurn
  <2> QED
    BY <2>1, <2>2, <2>3 DEF Next, KA!Next
<1> QED
  BY <1>1, <1>2, Invariance, PTL DEF Spec, ImplementsKeyAgreement, KA!Spec
=============================================================================
