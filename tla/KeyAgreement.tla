---------------------------- MODULE KeyAgreement ----------------------------
(***************************************************************************)
(* What the handshake of NETConnect promises, without packets, threads or  *)
(* RSA: a client offers a fresh ChaCha key, the server stores that very    *)
(* key, and only then does the client treat the connection as secured.     *)
(* NetSessions (the two HandleAuthentication methods) implements it.       *)
(***************************************************************************)
CONSTANTS Clients,  \* the connecting BaseTCPClient objects
          Keys,     \* ChaCha20-Poly1305 keys
          NoKey     \* SecurityKey.ChaChaKey before it is set (null)

VARIABLES offered,  \* offered[c]: the key client c generated
          accepted, \* accepted[c]: the key the server stored for c
          open      \* the clients that consider themselves authenticated

vars == <<offered, accepted, open>>

Init ==
    /\ offered = [c \in Clients |-> NoKey]
    /\ accepted = [c \in Clients |-> NoKey]
    /\ open = {}

\* Keys are 32 random bytes: two clients never draw the same one.
Offer(c, k) ==
    /\ offered[c] = NoKey
    /\ \A d \in Clients : offered[d] # k
    /\ offered' = [offered EXCEPT ![c] = k]
    /\ UNCHANGED <<accepted, open>>

Accept(c) ==
    /\ offered[c] # NoKey
    /\ accepted[c] = NoKey
    /\ accepted' = [accepted EXCEPT ![c] = offered[c]]
    /\ UNCHANGED <<offered, open>>

Open(c) ==
    /\ accepted[c] # NoKey
    /\ open' = open \cup {c}
    /\ UNCHANGED <<offered, accepted>>

Next == \E c \in Clients : (\E k \in Keys : Offer(c, k)) \/ Accept(c) \/ Open(c)

Spec == Init /\ [][Next]_vars
=============================================================================
