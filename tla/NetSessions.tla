---------------------------- MODULE NetSessions -----------------------------
(***************************************************************************)
(* One NETConnect server (BaseTCPServer) and the clients (BaseTCPClient)   *)
(* that other peers open towards it.                                       *)
(*                                                                         *)
(* The server side is ONE thread: the accept loop invokes                  *)
(* HandleClientConnected synchronously, which loops until its client is    *)
(* found disconnected.  A client is two threads: the task of               *)
(* HandleConnected, and the multicast thread that called TryConnect and    *)
(* goes on to send PeerJoin.  A TCP connection is a pair of FIFO queues of *)
(* whole packets (the module Framing is about the bytes underneath).       *)
(***************************************************************************)
EXTENDS Sequences, Naturals

CONSTANTS Clients,  \* the connections to this server, one per peer
          NoClient, \* "the accept loop is not inside a handler"
          Keys,     \* ChaCha keys
          NoKey,    \* SecurityKey.ChaChaKey before it is set (null)
          MaxQueue  \* bound: a ping is sent only while the queue is shorter

ASSUME NoClientAssumption == NoClient \notin Clients
ASSUME NoKeyAssumption == NoKey \notin Keys
ASSUME MaxQueueAssumption == MaxQueue \in Nat

VARIABLES
    backlog,          \* connections waiting in the listen queue
    serving,          \* the client HandleClientConnected is running for
    srvPc,            \* where the accept thread is, "dead" once its task ended
    IsAuthenticating, \* BaseTCPServer.IsAuthenticating: one for ALL clients
    IsAuthenticated,  \* BaseTCPServer.IsAuthenticated: one for ALL clients
    handles,          \* BaseTCPServer.Clients: the handles ever registered
    FirstBeat,        \* HeartBeat.FirstBeat of the server's handle of c
    srvKey,           \* ChaChaKey in the server's PacketHelper of c
    shared,           \* clients whose PeerJoin reached Peer.AddPeers
    cliPc,            \* where the task of client c is
    cliAuth,          \* BaseTCPClient.IsAuthenticated
    cliKey,           \* ChaChaKey in the client's PacketHelper
    cliRSA,           \* the client's PacketHelper holds the server's RSA key
    joinPc,           \* the multicast thread of c's process
    c2s, s2c          \* packets in flight

srvVars == <<backlog, serving, srvPc, IsAuthenticating, IsAuthenticated,
             handles, FirstBeat, srvKey, shared>>
cliVars == <<cliPc, cliAuth, cliKey, cliRSA, joinPc>>
vars == <<srvVars, cliVars, c2s, s2c>>

-----------------------------------------------------------------------------
(* Packets.  under is the ChaCha key the body is encrypted with; data is   *)
(* the KeyData of a PacketAuthentication body, when that is the secret     *)
(* ChaCha key, and NoKey for every other body.                             *)

PacketActions == {"SYN", "SYNAck", "ACK", "Ready", "Ping", "Pong", "PeerJoin"}

Packet == [action : PacketActions, enc : {"NONE", "RSA", "ChaCha"},
           under : Keys \cup {NoKey}, data : Keys \cup {NoKey}]

\* IsEncryptionEnabled = false: Connection.Send(Data, Type).
Plain(action) ==
    [action |-> action, enc |-> "NONE", under |-> NoKey, data |-> NoKey]

\* SendPacket with the default settings: ChaCha once the PacketHelper has a
\* key, and unencrypted before that.
Sealed(action, key) ==
    [action |-> action, enc |-> IF key = NoKey THEN "NONE" ELSE "ChaCha",
     under |-> key, data |-> NoKey]

\* SendEncryptedPacket(..., RSA, ACK, false): without the remote RSA key the
\* body goes out unencrypted.
KeyForServer(hasRSA, key) ==
    [action |-> "ACK", enc |-> IF hasRSA THEN "RSA" ELSE "NONE",
     under |-> NoKey, data |-> key]

\* The server's answer, the key it has just stored under that key.
KeyEcho(key) ==
    [action |-> "ACK", enc |-> "ChaCha", under |-> key, data |-> key]

\* The main loops hand a packet on when it is not encrypted, or when
\* TryDecrypt succeeds with the PacketHelper's key.
Readable(p, key) ==
    \/ p.enc = "NONE"
    \/ p.enc = "ChaCha" /\ key # NoKey /\ p.under = key

Closed(c) == cliPc[c] = "closed"

\* What is sent to a peer that has gone away is lost.
SendToClient(c, p) ==
    s2c' = IF Closed(c) THEN s2c ELSE [s2c EXCEPT ![c] = Append(@, p)]

SendToServer(c, p) == c2s' = [c2s EXCEPT ![c] = Append(@, p)]

Arrived(q, c) == q[c] # << >>

-----------------------------------------------------------------------------
Init ==
    /\ backlog = << >>
    /\ serving = NoClient
    /\ srvPc = "accept"
    /\ IsAuthenticating = FALSE
    /\ IsAuthenticated = FALSE
    /\ handles = {}
    /\ FirstBeat = [c \in Clients |-> TRUE]
    /\ srvKey = [c \in Clients |-> NoKey]
    /\ shared = {}
    /\ cliPc = [c \in Clients |-> "new"]
    /\ cliAuth = [c \in Clients |-> FALSE]
    /\ cliKey = [c \in Clients |-> NoKey]
    /\ cliRSA = [c \in Clients |-> FALSE]
    /\ joinPc = [c \in Clients |-> "idle"]
    /\ c2s = [c \in Clients |-> << >>]
    /\ s2c = [c \in Clients |-> << >>]

-----------------------------------------------------------------------------
(* The multicast thread of the connecting peer.                            *)

\* TryConnect: Connect, then OnConnected starts the client's task and returns
\* at once, before any authentication.
TryConnect(c) ==
    /\ cliPc[c] = "new"
    /\ cliPc' = [cliPc EXCEPT ![c] = "loop"]
    /\ joinPc' = [joinPc EXCEPT ![c] = "connected"]
    /\ backlog' = Append(backlog, c)
    /\ UNCHANGED <<serving, srvPc, IsAuthenticating, IsAuthenticated, handles,
                   FirstBeat, srvKey, shared, cliAuth, cliKey, cliRSA, c2s, s2c>>

\* HandleOnMulticastMessage after TryConnect: the peer list goes out with
\* whatever key the PacketHelper holds at that moment.
SendPeerJoin(c) ==
    /\ joinPc[c] = "connected"
    /\ ~Closed(c)
    /\ joinPc' = [joinPc EXCEPT ![c] = "sent"]
    /\ SendToServer(c, Sealed("PeerJoin", cliKey[c]))
    /\ UNCHANGED <<srvVars, cliPc, cliAuth, cliKey, cliRSA, s2c>>

-----------------------------------------------------------------------------
(* The client's task: HandleConnected and HandleAuthentication.            *)

Goto(c, pc) == cliPc' = [cliPc EXCEPT ![c] = pc]

\* Faulty variant: every client starts from the same built-in key.
ClientGenerateKey_Fixed(c) ==
    /\ cliPc[c] = "loop"
    /\ ~cliAuth[c]
    /\ cliKey' = [cliKey EXCEPT ![c] = CHOOSE k \in Keys : TRUE]
    /\ Goto(c, "syn")
    /\ UNCHANGED <<srvVars, cliAuth, cliRSA, joinPc, c2s, s2c>>

\* The first half of HandleAuthentication; the multicast thread may send
\* between the new key and the SYN.
ClientGenerateKey(c) ==
    /\ cliPc[c] = "loop"
    /\ ~cliAuth[c]
    /\ \E k \in Keys :
        /\ \A d \in Clients : cliKey[d] # k
        /\ cliKey' = [cliKey EXCEPT ![c] = k]
    /\ Goto(c, "syn")
    /\ UNCHANGED <<srvVars, cliAuth, cliRSA, joinPc, c2s, s2c>>

ClientSendSYN(c) ==
    /\ cliPc[c] = "syn"
    /\ Goto(c, "auth")
    /\ SendToServer(c, Plain("SYN"))
    /\ UNCHANGED <<srvVars, cliAuth, cliKey, cliRSA, joinPc, s2c>>

\* ReceivePacket takes one packet of the connection.
ClientTakes(c, action) ==
    /\ Arrived(s2c, c)
    /\ Head(s2c[c]).action = action
    /\ s2c' = [s2c EXCEPT ![c] = Tail(@)]

\* Faulty variant: the key is sent before SetRemoteRSAKey.
ClientAuthSYNAck_TooEarly(c) ==
    /\ cliPc[c] = "auth"
    /\ ClientTakes(c, "SYNAck")
    /\ SendToServer(c, KeyForServer(cliRSA[c], cliKey[c]))
    /\ cliRSA' = [cliRSA EXCEPT ![c] = TRUE]
    /\ UNCHANGED <<srvVars, cliPc, cliAuth, cliKey, joinPc>>

ClientAuthSYNAck(c) ==
    /\ cliPc[c] = "auth"
    /\ ClientTakes(c, "SYNAck")
    /\ cliRSA' = [cliRSA EXCEPT ![c] = TRUE]
    /\ SendToServer(c, KeyForServer(cliRSA'[c], cliKey[c]))
    /\ UNCHANGED <<srvVars, cliPc, cliAuth, cliKey, joinPc>>

\* Answered only when the echo decrypts and carries the client's own key.
ClientAuthACK(c) ==
    /\ cliPc[c] = "auth"
    /\ ClientTakes(c, "ACK")
    /\ LET p == Head(s2c[c]) IN
       IF p.enc = "ChaCha" /\ p.under = cliKey[c] /\ p.data = cliKey[c]
       THEN SendToServer(c, Plain("Ready"))
       ELSE UNCHANGED c2s
    /\ UNCHANGED <<srvVars, cliVars>>

ClientAuthReady(c) ==
    /\ cliPc[c] = "auth"
    /\ ClientTakes(c, "Ready")
    /\ cliAuth' = [cliAuth EXCEPT ![c] = TRUE]
    /\ Goto(c, "loop")
    /\ UNCHANGED <<srvVars, cliKey, cliRSA, joinPc, c2s>>

\* Any other packet is read and dropped by the switch.
ClientAuthDrop(c) ==
    /\ cliPc[c] = "auth"
    /\ \E action \in PacketActions \ {"SYNAck", "ACK", "Ready"} : ClientTakes(c, action)
    /\ UNCHANGED <<srvVars, cliVars, c2s>>

\* TrySendHeartBeat of an authenticated client: ping when one is due.  The
\* result never cancels the client: the code tests sent /\ disconnected.
ClientPing(c) ==
    /\ cliPc[c] = "loop"
    /\ cliAuth[c]
    /\ Len(c2s[c]) < MaxQueue
    /\ SendToServer(c, Sealed("Ping", cliKey[c]))
    /\ Goto(c, "recv")
    /\ UNCHANGED <<srvVars, cliAuth, cliKey, cliRSA, joinPc, s2c>>

ClientNoPing(c) ==
    /\ cliPc[c] = "loop"
    /\ cliAuth[c]
    /\ Goto(c, "recv")
    /\ UNCHANGED <<srvVars, cliAuth, cliKey, cliRSA, joinPc, c2s, s2c>>

\* ReceivePacket and dispatch: HandleAction answers a ping, and nothing else.
ClientReceivePing(c) ==
    /\ cliPc[c] = "recv"
    /\ ClientTakes(c, "Ping")
    /\ Readable(Head(s2c[c]), cliKey[c])
    /\ SendToServer(c, Sealed("Pong", cliKey[c]))
    /\ Goto(c, "loop")
    /\ UNCHANGED <<srvVars, cliAuth, cliKey, cliRSA, joinPc>>

ClientReceiveOther(c) ==
    /\ cliPc[c] = "recv"
    /\ Goto(c, "loop")
    /\ \/ /\ ~Arrived(s2c, c)
          /\ UNCHANGED s2c
       \/ \E action \in PacketActions :
            /\ ClientTakes(c, action)
            /\ action = "Ping" => ~Readable(Head(s2c[c]), cliKey[c])
    /\ UNCHANGED <<srvVars, cliAuth, cliKey, cliRSA, joinPc, c2s>>

\* The peer's process ends, at any moment: what it sent may still arrive or
\* be lost with the connection.  From then on its side may also answer with a
\* reset, which nothing but a Receive under way tells from the close.
ClientClose(c) ==
    /\ cliPc[c] \notin {"new", "closed"}
    /\ Goto(c, "closed")
    /\ \/ UNCHANGED c2s
       \/ c2s' = [c2s EXCEPT ![c] = << >>]
    /\ s2c' = [s2c EXCEPT ![c] = << >>]
    /\ UNCHANGED <<srvVars, cliAuth, cliKey, cliRSA, joinPc>>

ClientTask(c) ==
    \/ ClientGenerateKey(c) \/ ClientSendSYN(c)
    \/ ClientAuthSYNAck(c) \/ ClientAuthACK(c) \/ ClientAuthReady(c)
    \/ ClientAuthDrop(c)
    \/ ClientPing(c) \/ ClientNoPing(c)
    \/ ClientReceivePing(c) \/ ClientReceiveOther(c)

-----------------------------------------------------------------------------
(* The server's accept thread.                                             *)

\* Accept, and HandleClientConnected up to its loop: a new PacketHelper and
\* HeartBeat, and the handle appended to Clients.
ServerAccept ==
    /\ srvPc = "accept"
    /\ backlog # << >>
    /\ serving' = Head(backlog)
    /\ backlog' = Tail(backlog)
    /\ handles' = handles \cup {Head(backlog)}
    /\ srvPc' = "loop"
    /\ UNCHANGED <<IsAuthenticating, IsAuthenticated, FirstBeat, srvKey, shared,
                   cliVars, c2s, s2c>>

ServerBeginAuth(c) ==
    /\ srvPc = "loop"
    /\ serving = c
    /\ ~IsAuthenticating
    /\ ~IsAuthenticated
    /\ IsAuthenticating' = TRUE
    /\ srvPc' = "auth"
    /\ UNCHANGED <<backlog, serving, IsAuthenticated, handles, FirstBeat, srvKey,
                   shared, cliVars, c2s, s2c>>

ServerTakes(c, action) ==
    /\ serving = c
    /\ Arrived(c2s, c)
    /\ Head(c2s[c]).action = action
    /\ c2s' = [c2s EXCEPT ![c] = Tail(@)]

ServerAuthSYN(c) ==
    /\ srvPc = "auth"
    /\ ServerTakes(c, "SYN")
    /\ SendToClient(c, Plain("SYNAck"))
    /\ UNCHANGED <<srvVars, cliVars>>

\* The RSA body decrypts into the client's key, which is stored and echoed.
ServerAuthACK(c) ==
    /\ srvPc = "auth"
    /\ ServerTakes(c, "ACK")
    /\ LET p == Head(c2s[c]) IN
       IF p.enc = "RSA"
       THEN /\ srvKey' = [srvKey EXCEPT ![c] = p.data]
            /\ SendToClient(c, KeyEcho(p.data))
       ELSE UNCHANGED <<srvKey, s2c>>
    /\ UNCHANGED <<backlog, serving, srvPc, IsAuthenticating, IsAuthenticated,
                   handles, FirstBeat, shared, cliVars>>

\* Faulty variant: the server does not confirm with a Ready of its own.
ServerAuthReady_Silent(c) ==
    /\ srvPc = "auth"
    /\ ServerTakes(c, "Ready")
    /\ IsAuthenticated' = TRUE
    /\ IsAuthenticating' = FALSE
    /\ srvPc' = "loop"
    /\ UNCHANGED <<backlog, serving, handles, FirstBeat, srvKey, shared, cliVars, s2c>>

\* The flags are the server's, not the connection's, and nothing resets them.
ServerAuthReady(c) ==
    /\ srvPc = "auth"
    /\ ServerTakes(c, "Ready")
    /\ SendToClient(c, Plain("Ready"))
    /\ IsAuthenticated' = TRUE
    /\ IsAuthenticating' = FALSE
    /\ srvPc' = "loop"
    /\ UNCHANGED <<backlog, serving, handles, FirstBeat, srvKey, shared, cliVars>>

\* Any other packet, the peer list included, is read and dropped.
ServerAuthDrop(c) ==
    /\ srvPc = "auth"
    /\ \E action \in PacketActions \ {"SYN", "ACK", "Ready"} : ServerTakes(c, action)
    /\ UNCHANGED <<srvVars, cliVars, s2c>>

\* Faulty variant: one PacketHelper for the whole server, like the flags.
ServerPing_SharedKey(c) ==
    /\ srvPc = "loop"
    /\ serving = c
    /\ IsAuthenticated
    /\ Len(s2c[c]) < MaxQueue
    /\ FirstBeat' = [FirstBeat EXCEPT ![c] = FALSE]
    /\ \E d \in handles : SendToClient(c, Sealed("Ping", srvKey[d]))
    /\ srvPc' = "recv"
    /\ UNCHANGED <<backlog, serving, IsAuthenticating, IsAuthenticated, handles,
                   srvKey, shared, cliVars, c2s>>

\* TrySendHeartBeat when a beat is due: FirstBeat is cleared and the ping goes out.
ServerPing(c) ==
    /\ srvPc = "loop"
    /\ serving = c
    /\ ~IsAuthenticating
    /\ IsAuthenticated
    /\ Len(s2c[c]) < MaxQueue
    /\ FirstBeat' = [FirstBeat EXCEPT ![c] = FALSE]
    /\ SendToClient(c, Sealed("Ping", srvKey[c]))
    /\ srvPc' = "recv"
    /\ UNCHANGED <<backlog, serving, IsAuthenticating, IsAuthenticated, handles,
                   srvKey, shared, cliVars, c2s>>

\* No beat is due, and no disconnection is reported.
ServerNoPing(c) ==
    /\ srvPc = "loop"
    /\ serving = c
    /\ ~IsAuthenticating
    /\ IsAuthenticated
    /\ ~(Closed(c) /\ c2s[c] = << >> /\ ~FirstBeat[c])
    /\ srvPc' = "recv"
    /\ UNCHANGED <<backlog, serving, IsAuthenticating, IsAuthenticated, handles,
                   FirstBeat, srvKey, shared, cliVars, c2s, s2c>>

\* Faulty variant: the client's test, which no heartbeat result satisfies.
ServerDropClient_Never(c) == FALSE /\ ServerNoPing(c)

\* The heartbeat reports a disconnected peer: a ping that cannot be sent, or,
\* after the first beat, a connection shut down with nothing left to read.
\* The handler returns to the accept loop.  The handle stays in Clients:
\* FindPeerById(ClientHandle.Id) finds no peer, the Id was never set.
ServerDropClient(c) ==
    /\ srvPc = "loop"
    /\ serving = c
    /\ ~IsAuthenticating
    /\ IsAuthenticated
    /\ Closed(c)
    /\ \/ FirstBeat' = [FirstBeat EXCEPT ![c] = FALSE]
       \/ /\ c2s[c] = << >>
          /\ ~FirstBeat[c]
          /\ UNCHANGED FirstBeat
    /\ serving' = NoClient
    /\ srvPc' = "accept"
    /\ UNCHANGED <<backlog, IsAuthenticating, IsAuthenticated, handles, srvKey,
                   shared, cliVars, c2s, s2c>>

ServerReceivePing(c) ==
    /\ srvPc = "recv"
    /\ ServerTakes(c, "Ping")
    /\ Readable(Head(c2s[c]), srvKey[c])
    /\ SendToClient(c, Sealed("Pong", srvKey[c]))
    /\ srvPc' = "loop"
    /\ UNCHANGED <<backlog, serving, IsAuthenticating, IsAuthenticated, handles,
                   FirstBeat, srvKey, shared, cliVars>>

\* HandleAction hands the list to AddPeers, which answers with its own.
ServerReceivePeerJoin(c) ==
    /\ srvPc = "recv"
    /\ ServerTakes(c, "PeerJoin")
    /\ Readable(Head(c2s[c]), srvKey[c])
    /\ shared' = shared \cup {c}
    /\ SendToClient(c, Sealed("PeerJoin", srvKey[c]))
    /\ srvPc' = "loop"
    /\ UNCHANGED <<backlog, serving, IsAuthenticating, IsAuthenticated, handles,
                   FirstBeat, srvKey, cliVars>>

ServerReceiveOther(c) ==
    /\ srvPc = "recv"
    /\ serving = c
    /\ srvPc' = "loop"
    /\ \/ /\ ~Arrived(c2s, c)
          /\ UNCHANGED c2s
       \/ \E action \in PacketActions :
            /\ ServerTakes(c, action)
            /\ action \in {"Ping", "PeerJoin"} => ~Readable(Head(c2s[c]), srvKey[c])
    /\ UNCHANGED <<backlog, serving, IsAuthenticating, IsAuthenticated, handles,
                   FirstBeat, srvKey, shared, cliVars, s2c>>

\* ReceivePacket on a connection its peer has reset after Available was read:
\* neither Receive is inside a try, so the exception leaves the handler and ends
\* the task of the accept loop, from inside HandleAuthentication as well.
ServerReceiveThrows(c) ==
    /\ srvPc \in {"auth", "recv"}
    /\ serving = c
    /\ Closed(c)
    /\ Arrived(c2s, c)
    /\ srvPc' = "dead"
    /\ UNCHANGED <<backlog, serving, IsAuthenticating, IsAuthenticated, handles,
                   FirstBeat, srvKey, shared, cliVars, c2s, s2c>>

\* Another thread adds to ConnectedPeers while AddPeers copies it (Discovery
\* has the two of them): InvalidOperationException, before the answer, and
\* nothing on the way up to the accept loop's task catches it.
ServerAddPeersThrows(c) ==
    /\ srvPc = "recv"
    /\ ServerTakes(c, "PeerJoin")
    /\ Readable(Head(c2s[c]), srvKey[c])
    /\ srvPc' = "dead"
    /\ UNCHANGED <<backlog, serving, IsAuthenticating, IsAuthenticated, handles,
                   FirstBeat, srvKey, shared, cliVars, s2c>>

ServerTask ==
    \/ ServerAccept
    \/ \E c \in Clients :
        \/ ServerBeginAuth(c) \/ ServerAuthSYN(c) \/ ServerAuthACK(c)
        \/ ServerAuthReady(c) \/ ServerAuthDrop(c)
        \/ ServerPing(c) \/ ServerNoPing(c) \/ ServerDropClient(c)
        \/ ServerReceivePing(c) \/ ServerReceivePeerJoin(c) \/ ServerReceiveOther(c)
        \/ ServerReceiveThrows(c) \/ ServerAddPeersThrows(c)

-----------------------------------------------------------------------------
Next ==
    \/ ServerTask
    \/ \E c \in Clients : \/ TryConnect(c) \/ SendPeerJoin(c)
                          \/ ClientTask(c) \/ ClientClose(c)

Spec == Init /\ [][Next]_vars

\* Every thread keeps running.  The clock does too, so on a loop that turns
\* every 5 ms a ping falls due again and again, and in between, for the 10 s of
\* PulseCooldown, the loop turns without one (strong fairness of both).
\* Nothing makes a peer connect or close.
Fairness ==
    /\ WF_vars(ServerTask)
    /\ \A c \in Clients : /\ WF_vars(ClientTask(c))
                          /\ WF_vars(SendPeerJoin(c))
                          /\ SF_vars(ServerPing(c))
                          /\ SF_vars(ServerNoPing(c) \/ ServerDropClient(c))

FairSpec == Spec /\ Fairness

-----------------------------------------------------------------------------
(* Properties.                                                             *)

\* Every variable keeps its type.
TypeOK ==
    /\ backlog \in Seq(Clients)
    /\ serving \in Clients \cup {NoClient}
    /\ srvPc \in {"accept", "loop", "auth", "recv", "dead"}
    /\ IsAuthenticating \in BOOLEAN
    /\ IsAuthenticated \in BOOLEAN
    /\ handles \subseteq Clients
    /\ FirstBeat \in [Clients -> BOOLEAN]
    /\ srvKey \in [Clients -> Keys \cup {NoKey}]
    /\ shared \subseteq Clients
    /\ cliPc \in [Clients -> {"new", "loop", "syn", "auth", "recv", "closed"}]
    /\ cliAuth \in [Clients -> BOOLEAN]
    /\ cliKey \in [Clients -> Keys \cup {NoKey}]
    /\ cliRSA \in [Clients -> BOOLEAN]
    /\ joinPc \in [Clients -> {"idle", "connected", "sent"}]
    /\ c2s \in [Clients -> Seq(Packet)]
    /\ s2c \in [Clients -> Seq(Packet)]

Packets(q) == {q[i] : i \in DOMAIN q}

\* A client that considers itself authenticated shares its ChaCha key with
\* the server's handle of that very connection (the two HandleAuthentication).
KeysAgree ==
    \A c \in Clients : cliAuth[c] => srvKey[c] # NoKey /\ srvKey[c] = cliKey[c]

\* The ChaCha key never travels unencrypted, although SendEncryptedPacket
\* falls back to an unencrypted Send when the PacketHelper has no key yet.
KeyNeverInClear ==
    \A c \in Clients : \A p \in Packets(c2s[c]) \cup Packets(s2c[c]) :
        p.data # NoKey => p.enc # "NONE"

\* The auto-encryption of SendPacket never produces a packet its receiver
\* cannot decrypt: a client can read all that is on its way to it, and the
\* server all that is on its way from an authenticated client, the PeerJoin
\* the multicast thread sends in the middle of the handshake included.
EncryptedIsReadable ==
    \A c \in Clients :
        /\ \A p \in Packets(s2c[c]) : p.enc = "ChaCha" => Readable(p, cliKey[c])
        /\ cliAuth[c] =>
             \A p \in Packets(c2s[c]) : p.enc = "ChaCha" => Readable(p, srvKey[c])

\* A key, once a side holds it, is never replaced: a connection negotiates once.
KeysNeverChange ==
    [][\A c \in Clients : /\ srvKey[c] # NoKey => srvKey'[c] = srvKey[c]
                          /\ cliKey[c] # NoKey => cliKey'[c] = cliKey[c]]_vars

\* The server leaves HandleAuthentication only for a client whose key it
\* stored before: Ready never overtakes ACK.
AuthenticatesWithKey ==
    [][~IsAuthenticated /\ IsAuthenticated' => srvKey[serving] # NoKey]_vars

\* The handshake of the code implements the abstract key agreement.
KA == INSTANCE KeyAgreement WITH offered <- cliKey, accepted <- srvKey,
                                 open <- {c \in Clients : cliAuth[c]}
ImplementsKeyAgreement == KA!Spec

\* The client the server authenticates gets through its handshake, whatever
\* other packets race with it, unless its process ends.
ServedClientAuthenticates ==
    \A c \in Clients : serving = c /\ ~IsAuthenticated ~> cliAuth[c] \/ Closed(c)

\* The accept thread does not turn on the connection of a peer that has gone
\* away: the main loop's heartbeat takes it back to Accept, or, where the code
\* lets an exception of Receive or AddPeers through, its task has ended.
ServerLeavesClosedClient ==
    \A c \in Clients :
        serving = c /\ IsAuthenticated /\ Closed(c) ~> serving # c \/ srvPc = "dead"

\* README.md:66 "establish secure connections automatically": a
\* client the server handles ends up authenticated, unless it goes away or an
\* exception has ended the accept loop.
HandledClientAuthenticates ==
    \A c \in Clients : c \in handles ~> cliAuth[c] \/ Closed(c) \/ srvPc = "dead"

=============================================================================
