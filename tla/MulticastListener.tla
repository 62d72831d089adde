-------------------------- MODULE MulticastListener -------------------------
(***************************************************************************)
(* The C++ program of CPlusConnectApp: Multicast over UDPServer and Event. *)
(* Its main thread starts the server and sends a test message to the       *)
(* group; a detached thread receives what the group sends, that message    *)
(* included, and invokes the subscribers, which read it as Announcement    *)
(* has it.                                                                 *)
(*                                                                         *)
(* main calls StartMulticastServer once and ignores whether it succeeded:  *)
(* after a failure it sleeps for ever, as it does after the test message.  *)
(***************************************************************************)
EXTENDS Announcement

CONSTANTS Datagrams, \* what is sent to the group, once each
          Test,      \* "THIS IS A TEST!", sent by this program
          Large,     \* the datagrams longer than the buffer of HandleListening
          Nothing,   \* the buffer while recvfrom waits
          SenderId,  \* Multicast::SenderId, this program's GUID
          Packets,   \* the packets that are announced
          Payloads   \* what the others may send

ASSUME DatagramAssumption == /\ Test \in Datagrams \ Large
                             /\ Nothing \notin Datagrams
ASSUME PacketsAssumption ==
    Packets \subseteq [SenderId : GUIDs, Data : Seq(0..255), Action : 0..255]

VARIABLES
    mainPc,          \* where the main thread is
    listeners,       \* callbacks in Event::listeners, all OnDataReceived
    sock,            \* UDPServer::sock: 0 is INVALID_SOCKET, 1 what socket() returns
    open,            \* the sockets that are open
    IsServerRunning, \* UDPServer::IsServerRunning
    thread,          \* the socket of the detached thread, 0 before it exists
    sent,            \* datagrams sent to the group
    payload,         \* what each datagram of the others carries
    inbox,           \* datagrams queued at the thread's socket
    Buffer,          \* the datagram being handled
    next,            \* the callback Event::Invoke calls next
    handled,         \* how often OnDataReceived was called with a datagram
    read             \* the packets it got from a datagram and took for another's

mainVars == <<mainPc, listeners, sock, open, IsServerRunning, thread>>
threadVars == <<Buffer, next, handled, read>>
vars == <<mainVars, threadVars, sent, payload, inbox>>

Init ==
    /\ mainPc = "idle"
    /\ listeners = 0
    /\ sock = 0
    /\ open = {}
    /\ IsServerRunning = FALSE
    /\ thread = 0
    /\ sent = {}
    /\ payload \in [Datagrams \ (Large \cup {Test}) -> Payloads]
    /\ inbox = << >>
    /\ Buffer = Nothing
    /\ next = 1
    /\ handled = [d \in Datagrams |-> 0]
    /\ read = [d \in Datagrams |-> {}]

-----------------------------------------------------------------------------
(* The main thread: StartMulticastServer of Multicast and of UDPServer.    *)

\* The subscription comes first, and a failing start does not take it back.
Subscribe ==
    /\ mainPc = "idle"
    /\ listeners' = listeners + 1
    /\ mainPc' = "starting"
    /\ UNCHANGED <<sock, open, IsServerRunning, thread, threadVars, sent, payload, inbox>>

\* WSAStartup or inet_pton fails, or socket returns INVALID_SOCKET.
FailBeforeSocket ==
    /\ mainPc = "starting"
    /\ mainPc' = "sleep"
    /\ UNCHANGED <<listeners, sock, open, IsServerRunning, thread, threadVars,
                   sent, payload, inbox>>

OpenSocket ==
    /\ mainPc = "starting"
    /\ sock' = 1
    /\ open' = open \cup {sock'}
    /\ mainPc' = "opened"
    /\ UNCHANGED <<listeners, IsServerRunning, thread, threadVars, sent, payload, inbox>>

\* Faulty variant: a failing bind or join returns without closesocket.
FailWithSocket_Open ==
    /\ mainPc = "opened"
    /\ mainPc' = "sleep"
    /\ UNCHANGED <<listeners, sock, open, IsServerRunning, thread, threadVars,
                   sent, payload, inbox>>

\* The TTL, the bind or the membership fails: the socket is closed, and sock
\* keeps its number.
FailWithSocket ==
    /\ mainPc = "opened"
    /\ open' = open \ {sock}
    /\ mainPc' = "sleep"
    /\ UNCHANGED <<listeners, sock, IsServerRunning, thread, threadVars,
                   sent, payload, inbox>>

\* Bound and a member of the group; the flag is set before the thread runs.
Listen ==
    /\ mainPc = "opened"
    /\ IsServerRunning' = TRUE
    /\ thread' = sock
    /\ mainPc' = "started"
    /\ UNCHANGED <<listeners, sock, open, threadVars, sent, payload, inbox>>

\* SentToAll; the group loops the message back, or it is lost.
SendTest ==
    /\ mainPc = "started"
    /\ sent' = sent \cup {Test}
    /\ inbox' \in {inbox, Append(inbox, Test)}
    /\ mainPc' = "sleep"
    /\ UNCHANGED <<listeners, sock, open, IsServerRunning, thread, threadVars, payload>>

-----------------------------------------------------------------------------
\* Other members of the group announce themselves.
Announce(d) ==
    /\ d \notin sent \cup {Test}
    /\ sent' = sent \cup {d}
    /\ inbox' \in {inbox} \cup (IF thread = 0 THEN {} ELSE {Append(inbox, d)})
    /\ UNCHANGED <<mainVars, threadVars, payload>>

-----------------------------------------------------------------------------
(* The detached thread: HandleListening.                                   *)

\* Faulty variant: an error of recvfrom ends the loop.
ReceiveUDPData_GivesUp ==
    /\ thread # 0
    /\ IsServerRunning
    /\ Buffer = Nothing
    /\ inbox # << >>
    /\ inbox' = Tail(inbox)
    /\ Buffer' = IF Head(inbox) \in Large THEN Nothing ELSE Head(inbox)
    /\ next' = 1
    /\ IsServerRunning' = (Head(inbox) \notin Large)
    /\ UNCHANGED <<mainPc, listeners, sock, open, thread, handled, read, sent, payload>>

\* recvfrom: a datagram that does not fit is an error, and gone.
ReceiveUDPData ==
    /\ thread # 0
    /\ IsServerRunning
    /\ Buffer = Nothing
    /\ inbox # << >>
    /\ inbox' = Tail(inbox)
    /\ Buffer' = IF Head(inbox) \in Large THEN Nothing ELSE Head(inbox)
    /\ next' = 1
    /\ UNCHANGED <<mainVars, handled, read, sent, payload>>

\* "THIS IS A TEST!" is no JSON.
Text(d) == IF d = Test THEN NotJson ELSE payload[d]

\* OnDataReceived: what cannot be read and what this program sent is passed over.
\* It returns ahead of its switch, "blocked for debugging": nothing else changes.
OnDataReceived(d) ==
    /\ handled' = [handled EXCEPT ![d] = @ + 1]
    /\ read' = [read EXCEPT ![d] = {p \in FromJson(Text(d)) : p.SenderId # SenderId}]

\* One turn of the loop in Event::Invoke.
Invoke ==
    /\ Buffer # Nothing
    /\ next <= listeners
    /\ OnDataReceived(Buffer)
    /\ next' = next + 1
    /\ UNCHANGED <<mainVars, Buffer, sent, payload, inbox>>

InvokeReturns ==
    /\ Buffer # Nothing
    /\ next > listeners
    /\ Buffer' = Nothing
    /\ UNCHANGED <<mainVars, next, handled, read, sent, payload, inbox>>

HandleListening == ReceiveUDPData \/ Invoke \/ InvokeReturns

-----------------------------------------------------------------------------
Next ==
    \/ Subscribe \/ FailBeforeSocket \/ OpenSocket \/ FailWithSocket
    \/ Listen \/ SendTest
    \/ \E d \in Datagrams : Announce(d)
    \/ HandleListening

Spec == Init /\ [][Next]_vars

\* The detached thread keeps running.
FairSpec == Spec /\ WF_vars(HandleListening)

-----------------------------------------------------------------------------
(* Properties.                                                             *)

\* The packets that can be read.
Readable == UNION {FromJson(Text(d)) : d \in Datagrams \ Large}

\* Every variable keeps its type.
TypeOK ==
    /\ mainPc \in {"idle", "starting", "opened", "started", "sleep"}
    /\ listeners \in 0..1
    /\ sock \in 0..1
    /\ open \subseteq {1}
    /\ IsServerRunning \in BOOLEAN
    /\ thread \in 0..1
    /\ sent \subseteq Datagrams
    /\ payload \in [Datagrams \ (Large \cup {Test}) -> Payloads]
    /\ inbox \in Seq(Datagrams)
    /\ Buffer \in (Datagrams \ Large) \cup {Nothing}
    /\ next \in Nat
    /\ handled \in [Datagrams -> Nat]
    /\ read \in [Datagrams -> SUBSET Readable]

\* Wherever StartMulticastServer fails it leaves no socket open: an open one is
\* the one the thread reads or the start in progress holds, and while the server
\* runs SendTo goes through that very socket.
NoSocketLeak ==
    /\ open = {s \in {thread} : s # 0} \cup {s \in {sock} : mainPc = "opened"}
    /\ IsServerRunning => sock = thread /\ sock \in open

\* Whatever is announced, in whichever spelling, is read as that packet and passed
\* over only if it is this program's own; and the C++ program would not read what it
\* writes itself: FromJson wants base64 where ToJson leaves an array of numbers.
AnnouncementsRead ==
    \A d \in DOMAIN payload :
        /\ handled[d] = 0 => read[d] = {}
        /\ \A p \in Packets :
              /\ handled[d] > 0 /\ Announces(payload[d], p) =>
                    read[d] = {q \in {p} : q.SenderId # SenderId}
              /\ payload[d] = ToJson(p) => read[d] = {}

\* A datagram that reaches the thread is handed on, and only once, whatever else
\* is in the queue: a datagram that does not fit into the buffer of
\* HandleListening makes recvfrom fail and ends nothing.
HandledOnce ==
    \A d \in Datagrams \ Large :
        (\E i \in DOMAIN inbox : inbox[i] = d) ~> [](handled[d] = 1)
=============================================================================
