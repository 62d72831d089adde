-------------------------------- MODULE TLSV2 -------------------------------
(***************************************************************************)
(* The second handshake of NETConnect: BaseTCPServer.TLSV2 and             *)
(* BaseTCPClient.TLSV2.  Each is one turn: it takes at most one packet and *)
(* returns how far the connection has come, and its caller calls it again  *)
(* until it is authorized.  Here the server speaks first, both sides show  *)
(* an RSA key, and the server proves with a test message that it can       *)
(* encrypt for the client before the client hands over its ChaCha key.     *)
(* Nothing is shared between connections but the supply of keys.           *)
(***************************************************************************)
EXTENDS Sequences, Naturals

CONSTANTS Clients,   \* the connections
          Keys,      \* ChaCha keys
          NoKey,     \* a key of SecurityKey before it is set (null)
          ServerRSA, \* the RSA pair the server's PacketHelper is created with
          ClientRSA  \* the RSA pair the client creates on the SYN

RSAKeys == {ServerRSA, ClientRSA}

ASSUME NoKeyAssumption == NoKey \notin Keys \cup RSAKeys
ASSUME RSAAssumption == ServerRSA # ClientRSA /\ RSAKeys \cap Keys = {}

VARIABLES
    srvPc,  \* "syn": HasSentSYN is false; "wait": it is true; "sleep": in
            \* Thread.Sleep; "authorized": IsAuthorized; "threw": a send failed
    srvRSA, \* RemoteRSAPubKey of the server's PacketHelper
    srvKey, \* its ChaChaKey
    cliPc,  \* "turn": in TLSV2; "send": between drawing the key and sending
            \* it; "closed"
    cliAuth, \* the IsAuthorized of the client's caller
    cliRSA, \* RemoteRSAPubKey of the client's PacketHelper
    cliKey, \* its ChaChaKey
    joined, \* clients whose multicast thread has sent its PeerJoin
    c2s, s2c

srvVars == <<srvPc, srvRSA, srvKey>>
cliVars == <<cliPc, cliAuth, cliRSA, cliKey, joined>>
vars == <<srvVars, cliVars, c2s, s2c>>

-----------------------------------------------------------------------------
(* Packets: under is the key the body is encrypted with, data the KeyData  *)
(* of its PacketAuthentication, NoKey for the test message and PeerJoin.   *)

AnyKey == Keys \cup RSAKeys \cup {NoKey}

Packet == [action : {"SYN", "SYNAck", "ACK", "PeerJoin"},
           enc : {"NONE", "RSA", "ChaCha"}, under : AnyKey, data : AnyKey]

\* SendUTF8Packet with the default settings: ChaCha once there is a key.
Default(action, key, data) ==
    [action |-> action, enc |-> IF key = NoKey THEN "NONE" ELSE "ChaCha",
     under |-> key, data |-> data]

\* PacketEncrypted.EncryptUT8Bytes, as TryEncryptSend sends it.
Encrypted(action, enc, key, data) ==
    [action |-> action, enc |-> enc, under |-> key, data |-> data]

Closed(c) == cliPc[c] = "closed"

SendToServer(c, p) == c2s' = [c2s EXCEPT ![c] = Append(@, p)]

SendToClient(c, p) ==
    s2c' = IF Closed(c) THEN s2c ELSE [s2c EXCEPT ![c] = Append(@, p)]

\* TryEncryptSend of the server: EncryptUT8Bytes yields nothing without a key,
\* and Socket.Send may throw once the client is gone, out of TLSV2.
ServerReplies(c, p, pc) ==
    \/ /\ srvPc' = [srvPc EXCEPT ![c] = pc]
       /\ IF p.under = NoKey THEN UNCHANGED s2c ELSE SendToClient(c, p)
    \/ /\ Closed(c)
       /\ srvPc' = [srvPc EXCEPT ![c] = "threw"]
       /\ UNCHANGED s2c

ServerTakes(c, action) ==
    /\ c2s[c] # << >>
    /\ Head(c2s[c]).action = action
    /\ c2s' = [c2s EXCEPT ![c] = Tail(@)]

ClientTakes(c, action) ==
    /\ s2c[c] # << >>
    /\ Head(s2c[c]).action = action
    /\ s2c' = [s2c EXCEPT ![c] = Tail(@)]

-----------------------------------------------------------------------------
Init ==
    /\ srvPc = [c \in Clients |-> "syn"]
    /\ srvRSA = [c \in Clients |-> NoKey]
    /\ srvKey = [c \in Clients |-> NoKey]
    /\ cliPc = [c \in Clients |-> "turn"]
    /\ cliAuth = [c \in Clients |-> FALSE]
    /\ cliRSA = [c \in Clients |-> NoKey]
    /\ cliKey = [c \in Clients |-> NoKey]
    /\ joined = {}
    /\ c2s = [c \in Clients |-> << >>]
    /\ s2c = [c \in Clients |-> << >>]

-----------------------------------------------------------------------------
(* The server's turn.                                                      *)

\* Faulty variant: HasSentSYN is not kept from one turn to the next.
ServerSYN_Again(c) ==
    /\ srvPc[c] \in {"syn", "wait"}
    /\ srvPc' = [srvPc EXCEPT ![c] = "wait"]
    /\ SendToClient(c, Default("SYN", srvKey[c], ServerRSA))
    /\ UNCHANGED <<srvRSA, srvKey, cliVars, c2s>>

\* The first turn.  SendPacket swallows a failing send, HasSentSYN is set.
ServerSYN(c) ==
    /\ srvPc[c] = "syn"
    /\ srvPc' = [srvPc EXCEPT ![c] = "wait"]
    /\ SendToClient(c, Default("SYN", srvKey[c], ServerRSA))
    /\ UNCHANGED <<srvRSA, srvKey, cliVars, c2s>>

\* Faulty variant: the test message is sealed with the server's own key.
ServerSYNAck_OwnKey(c) ==
    /\ srvPc[c] = "wait"
    /\ ServerTakes(c, "SYNAck")
    /\ srvRSA' = [srvRSA EXCEPT ![c] = Head(c2s[c]).data]
    /\ ServerReplies(c, Encrypted("SYNAck", "RSA", ServerRSA, NoKey), "wait")
    /\ UNCHANGED <<srvKey, cliVars>>

\* The client's RSA key: answered with a test message under that key.
ServerSYNAck(c) ==
    /\ srvPc[c] = "wait"
    /\ ServerTakes(c, "SYNAck")
    /\ LET p == Head(c2s[c]) IN
       IF p.enc = "NONE" /\ p.data \in RSAKeys
       THEN /\ srvRSA' = [srvRSA EXCEPT ![c] = p.data]
            /\ ServerReplies(c, Encrypted("SYNAck", "RSA", p.data, NoKey), "wait")
       ELSE UNCHANGED <<srvPc, srvRSA, s2c>>
    /\ UNCHANGED <<srvKey, cliVars>>

\* Faulty variant: the key is stored and never confirmed.
ServerACK_Silent(c) ==
    /\ srvPc[c] = "wait"
    /\ ServerTakes(c, "ACK")
    /\ srvKey' = [srvKey EXCEPT ![c] = Head(c2s[c]).data]
    /\ srvPc' = [srvPc EXCEPT ![c] = "sleep"]
    /\ UNCHANGED <<srvRSA, cliVars, s2c>>

\* The ChaCha key: stored, and sent back under itself.  A send that neither
\* throws nor sends does not exist for a body that is not empty, so the branch
\* that resets HasSentSYN is not reached.
ServerACK(c) ==
    /\ srvPc[c] = "wait"
    /\ ServerTakes(c, "ACK")
    /\ LET p == Head(c2s[c]) IN
       IF p.enc = "RSA" /\ p.under = ServerRSA /\ p.data \in Keys
       THEN /\ srvKey' = [srvKey EXCEPT ![c] = p.data]
            /\ ServerReplies(c, Encrypted("ACK", "ChaCha", p.data, p.data), "sleep")
       ELSE UNCHANGED <<srvPc, srvKey, s2c>>
    /\ UNCHANGED <<srvRSA, cliVars>>

\* The second the client is given to receive the message, then IsAuthorized.
ServerAuthorized(c) ==
    /\ srvPc[c] = "sleep"
    /\ srvPc' = [srvPc EXCEPT ![c] = "authorized"]
    /\ UNCHANGED <<srvRSA, srvKey, cliVars, c2s, s2c>>

\* A packet that is neither SYNAck nor ACK is read and dropped.
ServerDrop(c) ==
    /\ srvPc[c] = "wait"
    /\ ServerTakes(c, "PeerJoin")
    /\ UNCHANGED <<srvVars, cliVars, s2c>>

ServerTurn(c) == \/ ServerSYN(c) \/ ServerSYNAck(c) \/ ServerACK(c)
                 \/ ServerAuthorized(c) \/ ServerDrop(c)

-----------------------------------------------------------------------------
(* The client's turn, and the multicast thread beside it.                  *)

\* The caller calls TLSV2 for as long as it returns false.
MyTurn(c) == cliPc[c] = "turn" /\ ~cliAuth[c]

\* The server's RSA key: stored, answered with the public key of a new pair.
ClientSYN(c) ==
    /\ MyTurn(c)
    /\ ClientTakes(c, "SYN")
    /\ LET p == Head(s2c[c]) IN
       IF p.enc = "NONE" /\ p.data \in RSAKeys
       THEN /\ cliRSA' = [cliRSA EXCEPT ![c] = p.data]
            /\ SendToServer(c, Default("SYNAck", cliKey[c], ClientRSA))
       ELSE UNCHANGED <<cliRSA, c2s>>
    /\ UNCHANGED <<srvVars, cliPc, cliAuth, cliKey, joined>>

\* A test message that decrypts: the client draws its ChaCha key.
ClientSYNAck(c) ==
    /\ MyTurn(c)
    /\ ClientTakes(c, "SYNAck")
    /\ LET p == Head(s2c[c]) IN
       IF p.enc = "RSA" /\ p.under = ClientRSA /\ cliRSA[c] # NoKey
       THEN /\ \E k \in Keys : /\ \A d \in Clients : cliKey[d] # k
                               /\ cliKey' = [cliKey EXCEPT ![c] = k]
            /\ cliPc' = [cliPc EXCEPT ![c] = "send"]
       ELSE UNCHANGED <<cliKey, cliPc>>
    /\ UNCHANGED <<srvVars, cliAuth, cliRSA, joined, c2s>>

\* Faulty variant: the key is sealed with the client's own public key.
ClientSendACK_OwnKey(c) ==
    /\ cliPc[c] = "send"
    /\ cliPc' = [cliPc EXCEPT ![c] = "turn"]
    /\ SendToServer(c, Encrypted("ACK", "RSA", ClientRSA, cliKey[c]))
    /\ UNCHANGED <<srvVars, cliAuth, cliRSA, cliKey, joined, s2c>>

\* ... and sends it under the server's RSA key.
ClientSendACK(c) ==
    /\ cliPc[c] = "send"
    /\ cliPc' = [cliPc EXCEPT ![c] = "turn"]
    /\ IF cliRSA[c] = NoKey THEN UNCHANGED c2s
       ELSE SendToServer(c, Encrypted("ACK", "RSA", cliRSA[c], cliKey[c]))
    /\ UNCHANGED <<srvVars, cliAuth, cliRSA, cliKey, joined, s2c>>

\* The key comes back under itself: the connection is authorized.
ClientACK(c) ==
    /\ MyTurn(c)
    /\ ClientTakes(c, "ACK")
    /\ LET p == Head(s2c[c]) IN
       IF p.enc = "ChaCha" /\ p.under = cliKey[c] /\ p.data = cliKey[c]
       THEN cliAuth' = [cliAuth EXCEPT ![c] = TRUE]
       ELSE UNCHANGED cliAuth
    /\ UNCHANGED <<srvVars, cliPc, cliRSA, cliKey, joined, c2s>>

\* The multicast thread sends the peer list at any time, with the key the
\* PacketHelper holds at that moment.
SendPeerJoin(c) ==
    /\ c \notin joined
    /\ ~Closed(c)
    /\ joined' = joined \cup {c}
    /\ SendToServer(c, Default("PeerJoin", cliKey[c], NoKey))
    /\ UNCHANGED <<srvVars, cliPc, cliAuth, cliRSA, cliKey, s2c>>

\* The client's process ends: what it sent may arrive or be lost.
ClientClose(c) ==
    /\ ~Closed(c)
    /\ cliPc' = [cliPc EXCEPT ![c] = "closed"]
    /\ c2s' \in {c2s, [c2s EXCEPT ![c] = << >>]}
    /\ s2c' = [s2c EXCEPT ![c] = << >>]
    /\ UNCHANGED <<srvVars, cliAuth, cliRSA, cliKey, joined>>

ClientTurn(c) == ClientSYN(c) \/ ClientSYNAck(c) \/ ClientSendACK(c) \/ ClientACK(c)

-----------------------------------------------------------------------------
Next == \E c \in Clients :
            ServerTurn(c) \/ ClientTurn(c) \/ SendPeerJoin(c) \/ ClientClose(c)

Spec == Init /\ [][Next]_vars

\* Both callers call their turn again until it is authorized.
FairSpec == Spec /\ \A c \in Clients : /\ WF_vars(ServerTurn(c))
                                       /\ WF_vars(ClientTurn(c))

-----------------------------------------------------------------------------
(* Properties.                                                             *)

\* Every variable keeps its type.
TypeOK ==
    /\ srvPc \in [Clients -> {"syn", "wait", "sleep", "authorized", "threw"}]
    /\ srvRSA \in [Clients -> RSAKeys \cup {NoKey}]
    /\ srvKey \in [Clients -> Keys \cup {NoKey}]
    /\ cliPc \in [Clients -> {"turn", "send", "closed"}]
    /\ cliAuth \in [Clients -> BOOLEAN]
    /\ cliRSA \in [Clients -> RSAKeys \cup {NoKey}]
    /\ cliKey \in [Clients -> Keys \cup {NoKey}]
    /\ joined \subseteq Clients
    /\ c2s \in [Clients -> Seq(Packet)]
    /\ s2c \in [Clients -> Seq(Packet)]

Packets(q) == {q[i] : i \in DOMAIN q}

\* A client that TLSV2 calls authorized shares its ChaCha key with the server.
KeysAgree ==
    \A c \in Clients : cliAuth[c] => srvKey[c] # NoKey /\ srvKey[c] = cliKey[c]

\* The ChaCha key travels under the server's own RSA key or under itself,
\* although each TryEncryptSend takes whatever key was stored last.
SecretSealed ==
    \A c \in Clients : \A p \in Packets(c2s[c]) \cup Packets(s2c[c]) :
        p.data \in Keys => \/ p.enc = "RSA" /\ p.under = ServerRSA
                           \/ p.enc = "ChaCha" /\ p.under = p.data

\* The server never authorizes a connection the client will not: as long as
\* the client lives, it is authorized or the confirming ACK is on its way.
NoHalfOpen ==
    \A c \in Clients : srvPc[c] \in {"sleep", "authorized"} /\ ~Closed(c) =>
        \/ cliAuth[c]
        \/ \E p \in Packets(s2c[c]) : /\ p.action = "ACK" /\ p.enc = "ChaCha"
                                      /\ p.under = cliKey[c] /\ p.data = cliKey[c]

\* The turns implement the abstract agreement: one key per connection, drawn
\* once, stored as drawn, opened after it was stored.
KA == INSTANCE KeyAgreement WITH offered <- cliKey, accepted <- srvKey,
                                 open <- {c \in Clients : cliAuth[c]}
ImplementsKeyAgreement == KA!Spec

\* Every connection gets through, each on its own, unless the client closes.
BothAuthorize ==
    \A c \in Clients :
        <>(Closed(c) \/ (srvPc[c] = "authorized" /\ cliAuth[c]))
=============================================================================
