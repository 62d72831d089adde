----------------------------- MODULE Discovery ------------------------------
(***************************************************************************)
(* Peer.ConnectedPeers inside one process.  Three threads work on the list *)
(* without a lock: the multicast thread (HandleOnMulticastMessage)         *)
(* deduplicates it and adds each peer it connects to, the accept thread    *)
(* (AddPeers) replaces it by a copy, and the window's Watcher walks        *)
(* through it.  Replacing exchanges the List object; adding changes one in *)
(* place, and an enumeration in progress on that object throws.            *)
(***************************************************************************)
EXTENDS Naturals, Sequences

CONSTANTS Others,       \* the other peers of the network, by PeerId
          NoPeer,       \* the multicast thread handles no announcement
          Lists,        \* identities of List<PeerTable> objects
          NoList,       \* a thread holds no list
          MaxPeerJoins  \* bound: PeerJoin packets that reach AddPeers

ASSUME NoPeerAssumption == NoPeer \notin Others
ASSUME NoListAssumption == NoList \notin Lists
ASSUME MaxPeerJoinsAssumption == MaxPeerJoins \in Nat

VARIABLES
    ConnectedPeers, \* the List object the property refers to
    items,          \* the entries of every List object
    mPc, mPeer,     \* the multicast thread and the announcing peer
    mItems,         \* the copy it is about to assign
    mList,          \* the object it is about to add to
    aPc, aItems,    \* the accept thread and the copy it is about to assign
    aList, aSize,   \* the object it enumerates, its size at the start
    gPc, gList,     \* the Watcher and the object it enumerates
    gSize, gAt,     \* its size at the start, and the position reached
    WiredClients,   \* Form1.WiredClients, by PeerId
    connects,       \* connections made to each peer so far
    peerJoins       \* AddPeers calls so far

mVars == <<mPc, mPeer, mItems, mList, connects>>
aVars == <<aPc, aItems, aList, aSize, peerJoins>>
gVars == <<gPc, gList, gSize, gAt, WiredClients>>
lVars == <<ConnectedPeers, items>>
vars == <<lVars, mVars, aVars, gVars>>

Entries(s) == {s[i] : i \in DOMAIN s}
Known == Entries(items[ConnectedPeers])

\* The property now refers to a new List holding s.
Replace(s) ==
    \E l \in Lists \ {mList, aList', gList} :
        /\ ConnectedPeers' = l
        /\ items' = [items EXCEPT ![l] = s]

\* List.Add gave the object entries after its enumeration began, and the next
\* MoveNext throws.  Enumerating an empty list involves no object to check.
Modified(l, size) == size # 0 /\ Len(items[l]) # size

Init ==
    /\ ConnectedPeers \in Lists
    /\ items = [l \in Lists |-> << >>]
    /\ mPc = "receive" /\ mPeer = NoPeer /\ mItems = << >> /\ mList = NoList
    /\ aPc = "idle" /\ aItems = << >> /\ aList = NoList /\ aSize = 0
    /\ gPc = "check" /\ gList = NoList /\ gSize = 0 /\ gAt = 0
    /\ WiredClients = {}
    /\ connects = [q \in Others |-> 0]
    /\ peerJoins = 0

-----------------------------------------------------------------------------
(* The multicast thread.                                                   *)

\* A Join of another peer (announced every 30 s): copy the list.  Distinct
\* compares references, and no PeerTable object is ever in a list twice.
MulticastJoin(q) ==
    /\ mPc = "receive"
    /\ mPeer' = q
    /\ mItems' = items[ConnectedPeers]
    /\ mPc' = "assign"
    /\ UNCHANGED <<lVars, mList, connects, aVars, gVars>>

MulticastAssign ==
    /\ mPc = "assign"
    /\ UNCHANGED aVars
    /\ Replace(mItems)
    /\ mItems' = << >>
    /\ mPc' = "check"
    /\ UNCHANGED <<mPeer, mList, connects, gVars>>

\* "Peer already discovered", or TryConnect fails.
MulticastReturn ==
    /\ mPc = "check"
    /\ mPc' = "receive"
    /\ mPeer' = NoPeer
    /\ UNCHANGED <<lVars, mItems, mList, connects, aVars, gVars>>

\* Faulty variant: connects to whoever announces itself.
MulticastConnect_Always(q) ==
    /\ mPc = "check"
    /\ mPeer = q
    /\ connects' = [connects EXCEPT ![q] = @ + 1]
    /\ mPc' = "share"
    /\ UNCHANGED <<lVars, mPeer, mItems, mList, aVars, gVars>>

\* Faulty variant: the search for the peer without its negation.
MulticastConnect_OnlyKnown(q) ==
    /\ mPc = "check"
    /\ mPeer = q
    /\ q \in Known
    /\ connects' = [connects EXCEPT ![q] = @ + 1]
    /\ mPc' = "share"
    /\ UNCHANGED <<lVars, mPeer, mItems, mList, aVars, gVars>>

MulticastConnect(q) ==
    /\ mPc = "check"
    /\ mPeer = q
    /\ q \notin Known
    /\ connects' = [connects EXCEPT ![q] = @ + 1]
    /\ mPc' = "share"
    /\ UNCHANGED <<lVars, mPeer, mItems, mList, aVars, gVars>>

\* Sends the list to the new peer, then reads the property for the Add.
MulticastShare ==
    /\ mPc = "share"
    /\ mList' = ConnectedPeers
    /\ mPc' = "add"
    /\ UNCHANGED <<lVars, mPeer, mItems, connects, aVars, gVars>>

\* Faulty variant: the entry replaces the first one instead of being added.
MulticastAdd_Overwrites ==
    /\ mPc = "add"
    /\ items' = [items EXCEPT ![mList] = <<mPeer>>]
    /\ mList' = NoList
    /\ mPeer' = NoPeer
    /\ mPc' = "receive"
    /\ UNCHANGED <<ConnectedPeers, mItems, connects, aVars, gVars>>

MulticastAdd ==
    /\ mPc = "add"
    /\ items' = [items EXCEPT ![mList] = Append(@, mPeer)]
    /\ mList' = NoList
    /\ mPeer' = NoPeer
    /\ mPc' = "receive"
    /\ UNCHANGED <<ConnectedPeers, mItems, connects, aVars, gVars>>

-----------------------------------------------------------------------------
(* The accept thread: HandleAction of a PeerJoin calls AddPeers.           *)

AcceptPeerJoin ==
    /\ aPc = "idle"
    /\ peerJoins < MaxPeerJoins
    /\ peerJoins' = peerJoins + 1
    /\ aList' = ConnectedPeers
    /\ aSize' = Len(items[ConnectedPeers])
    /\ aPc' = "copy"
    /\ UNCHANGED <<lVars, mVars, aItems, gVars>>

\* Distinct().ToList() comes to its end, or throws.  Nothing on the way up to
\* the accept loop's task catches it.
AcceptCopy ==
    /\ aPc = "copy"
    /\ IF Modified(aList, aSize)
       THEN aPc' = "dead" /\ UNCHANGED aItems
       ELSE aPc' = "assign" /\ aItems' = IF aSize = 0 THEN << >> ELSE items[aList]
    /\ aList' = NoList
    /\ aSize' = 0
    /\ UNCHANGED <<lVars, mVars, gVars, peerJoins>>

\* Assigns the copy, and answers with the list.  The search for unknown peers
\* that follows leads to nothing while UseOriginalVersion is false.
AcceptAssign ==
    /\ aPc = "assign"
    /\ aPc' = "idle"
    /\ UNCHANGED <<aList, aSize, peerJoins>>
    /\ Replace(aItems)
    /\ aItems' = << >>
    /\ UNCHANGED <<mVars, gVars>>

-----------------------------------------------------------------------------
(* The Watcher of Form1, every 100 ms.                                     *)

WatchBegin ==
    /\ gPc = "check"
    /\ gList' = ConnectedPeers
    /\ gSize' = Len(items[ConnectedPeers])
    /\ gPc' = "scan"
    /\ UNCHANGED <<lVars, mVars, aVars, gAt, WiredClients>>

\* Faulty variant: any wired peer in the place of none.
WatchScan_NoNegation ==
    /\ gPc = "scan"
    /\ IF gSize # 0 /\ Entries(items[gList]) \cap WiredClients # {}
       THEN /\ gPc' = "show"
            /\ gList' = ConnectedPeers
            /\ gSize' = Len(items[ConnectedPeers])
       ELSE gPc' = "check" /\ gList' = NoList /\ gSize' = 0
    /\ UNCHANGED <<lVars, mVars, aVars, gAt, WiredClients>>

\* Only when not a single listed peer is wired is there anything to do.
WatchScan ==
    /\ gPc = "scan"
    /\ IF gSize # 0 /\ Entries(items[gList]) \cap WiredClients = {}
       THEN /\ gPc' = "show"
            /\ gList' = ConnectedPeers
            /\ gSize' = Len(items[ConnectedPeers])
       ELSE gPc' = "check" /\ gList' = NoList /\ gSize' = 0
    /\ UNCHANGED <<lVars, mVars, aVars, gAt, WiredClients>>

\* The peers not wired, if any, are enumerated for the message box.
WatchShow ==
    /\ gPc = "show"
    /\ gSize' = 0
    /\ IF Entries(items[gList]) \subseteq WiredClients
       THEN gPc' = "check" /\ gList' = NoList
       ELSE IF Modified(gList, gSize)
            THEN gPc' = "dead" /\ gList' = NoList
            ELSE gPc' = "box" /\ UNCHANGED gList
    /\ UNCHANGED <<lVars, mVars, aVars, gAt, WiredClients>>

\* The user has closed the message box: the foreach begins.
WatchDismissed ==
    /\ gPc = "box"
    /\ gSize' = Len(items[gList])
    /\ gAt' = 1
    /\ gPc' = "wire"
    /\ UNCHANGED <<lVars, mVars, aVars, gList, WiredClients>>

\* One MoveNext of the foreach, which wires one peer or comes to the end.
WatchWire ==
    /\ gPc = "wire"
    /\ IF gAt <= gSize /\ ~Modified(gList, gSize)
       THEN /\ WiredClients' = WiredClients \cup {items[gList][gAt]}
            /\ gAt' = gAt + 1
            /\ UNCHANGED <<gPc, gList, gSize>>
       ELSE /\ gPc' = IF Modified(gList, gSize) THEN "dead" ELSE "check"
            /\ gList' = NoList /\ gSize' = 0 /\ gAt' = 0
            /\ UNCHANGED WiredClients
    /\ UNCHANGED <<lVars, mVars, aVars>>

-----------------------------------------------------------------------------
Multicast ==
    \/ \E q \in Others : MulticastJoin(q) \/ MulticastConnect(q)
    \/ MulticastAssign \/ MulticastReturn \/ MulticastShare \/ MulticastAdd

Accept == AcceptPeerJoin \/ AcceptCopy \/ AcceptAssign

Watch == WatchBegin \/ WatchScan \/ WatchShow \/ WatchDismissed \/ WatchWire

Next == Multicast \/ Accept \/ Watch

Spec == Init /\ [][Next]_vars

\* Every thread runs.  A live peer announces itself again and again, some
\* announcement of it arrives, and connecting to it does not fail for ever.
\* Whether a remote peer sends its list, and when the user closes the box, is
\* not up to this process.
Fairness ==
    /\ WF_vars(MulticastAssign \/ MulticastReturn \/ MulticastShare \/ MulticastAdd)
    /\ \A q \in Others : SF_vars(MulticastJoin(q)) /\ SF_vars(MulticastConnect(q))
    /\ WF_vars(AcceptCopy \/ AcceptAssign)
    /\ WF_vars(WatchBegin \/ WatchScan \/ WatchShow \/ WatchWire)

FairSpec == Spec /\ Fairness

-----------------------------------------------------------------------------
(* Properties.                                                             *)

\* Every variable keeps its type.
TypeOK ==
    /\ ConnectedPeers \in Lists
    /\ items \in [Lists -> Seq(Others)]
    /\ mPc \in {"receive", "assign", "check", "share", "add"}
    /\ mPeer \in IF mPc = "receive" THEN {NoPeer} ELSE Others
    /\ mItems \in Seq(Others)
    /\ mList \in IF mPc = "add" THEN Lists ELSE {NoList}
    /\ aPc \in {"idle", "copy", "assign", "dead"}
    /\ aItems \in Seq(Others)
    /\ aList \in IF aPc = "copy" THEN Lists ELSE {NoList}
    /\ aSize \in Nat
    /\ gPc \in {"check", "scan", "show", "box", "wire", "dead"}
    /\ gList \in IF gPc \in {"check", "dead"} THEN {NoList} ELSE Lists
    /\ gSize \in Nat
    /\ gAt \in IF gPc = "wire" THEN Nat \ {0} ELSE {0}
    /\ WiredClients \subseteq Others
    /\ connects \in [Others -> Nat]
    /\ peerJoins \in Nat

Unique(s) == \A i, j \in DOMAIN s : s[i] = s[j] => i = j

\* The multicast thread looks for the peer, connects, and adds it without
\* holding a lock; still no list ever lists a peer twice, because the copies
\* the accept thread assigns meanwhile never know more than the list does.
NoDuplicateEntries == \A l \in Lists : Unique(items[l])

\* A second connection to the same peer always has a cause: each one beyond
\* the first takes an AddPeers call that overwrote an Add.
ReconnectsBounded == \A q \in Others : connects[q] <= 1 + peerJoins

\* A peer that keeps announcing itself ends up in the list for good, the
\* overwritten Adds repaired, as long as finitely many PeerJoins arrive.
PeerStaysKnown == \A q \in Others : <>[](q \in Known)

\* As soon as a peer stays in the list, the Watcher wires one, whatever the
\* other threads do to the list meanwhile, if the user closes the boxes and no
\* exception ends it.  The code promises this of the first peer only.
FirstPeerWired ==
    WF_vars(WatchDismissed) =>
        \A q \in Others : [](q \in Known) ~> WiredClients # {} \/ gPc = "dead"
=============================================================================
