--------------------------- MODULE DiscoveryProofs ---------------------------
(***************************************************************************)
(* Theorems about Discovery, for any peers and any number of PeerJoins.    *)
(* The key fact is an order on the copies in flight: what the accept       *)
(* thread is about to assign never lists more than ConnectedPeers does,    *)
(* and the multicast thread's copy never lists less.                       *)
(***************************************************************************)
EXTENDS Discovery, TLAPS, SequenceTheorems

CopiesUnique == Unique(mItems) /\ Unique(aItems)

\* The accept thread knows at most what the list knows.
AcceptBehind ==
    /\ aPc = "assign" => Entries(aItems) \subseteq Known
    /\ aPc = "copy" => Entries(items[aList]) \subseteq Known

\* The multicast thread's copy knows at least what the list and the accept
\* thread know.
MulticastAhead ==
    mPc = "assign" =>
        /\ Known \subseteq Entries(mItems)
        /\ aPc = "assign" => Entries(aItems) \subseteq Entries(mItems)
        /\ aPc = "copy" => Entries(items[aList]) \subseteq Entries(mItems)

\* The peer being added is in no list it could end up in twice.
Adding ==
    /\ mPc \in {"share", "add"} => mPeer \notin Known
    /\ mPc = "add" => mPeer \notin Entries(items[mList])
    /\ mPc = "add" /\ aPc = "copy" /\ aList = mList => mList = ConnectedPeers

\* AddPeers calls that have assigned their copy, or failed to.
Assigned == IF aPc \in {"copy", "assign"} THEN peerJoins - 1 ELSE peerJoins

\* q is in the list, or on its way into it.
Listed(q) ==
    \/ q \in Known
    \/ mPeer = q /\ mPc = "share"
    \/ mPeer = q /\ mPc = "add" /\ mList = ConnectedPeers

ConnectsCounted ==
    \A q \in Others : connects[q] <= Assigned + (IF Listed(q) THEN 1 ELSE 0)

IInv == /\ TypeOK
        /\ NoDuplicateEntries /\ CopiesUnique
        /\ AcceptBehind /\ MulticastAhead /\ Adding
        /\ ConnectsCounted

-----------------------------------------------------------------------------
LEMMA EmptyList == << >> \in Seq(Others) /\ Entries(<< >>) = {} /\ Unique(<< >>)
<1>1. DOMAIN << >> = {}
  OBVIOUS
<1> QED
  BY <1>1 DEF Entries, Unique

\* What List.Add does to a list that does not hold the entry yet.
LEMMA AppendEntry ==
  ASSUME NEW s \in Seq(Others), NEW q \in Others
  PROVE  /\ Append(s, q) \in Seq(Others)
         /\ Entries(Append(s, q)) = Entries(s) \cup {q}
         /\ Unique(s) /\ q \notin Entries(s) => Unique(Append(s, q))
<1>1. Append(s, q) \in Seq(Others)
  OBVIOUS
<1>2. DOMAIN s = 1..Len(s) /\ DOMAIN Append(s, q) = 1..(Len(s) + 1) /\ Len(s) \in Nat
  OBVIOUS
<1>3. ASSUME NEW i \in 1..(Len(s) + 1)
      PROVE  IF i = Len(s) + 1 THEN Append(s, q)[i] = q
                               ELSE i \in 1..Len(s) /\ Append(s, q)[i] = s[i]
  BY <1>2
<1>4. Entries(Append(s, q)) \subseteq Entries(s) \cup {q}
  BY <1>2, <1>3 DEF Entries
<1>5. Entries(s) \subseteq Entries(Append(s, q))
  <2> SUFFICES ASSUME NEW i \in 1..Len(s) PROVE s[i] \in Entries(Append(s, q))
    BY <1>2 DEF Entries
  <2>1. i \in 1..(Len(s) + 1) /\ Append(s, q)[i] = s[i]
    BY <1>2
  <2> QED
    BY <2>1, <1>2 DEF Entries
<1>6. q \in Entries(Append(s, q))
  <2>1. Len(s) + 1 \in 1..(Len(s) + 1) /\ Append(s, q)[Len(s) + 1] = q
    BY <1>2
  <2> QED
    BY <2>1, <1>2 DEF Entries
<1>7. ASSUME Unique(s), q \notin Entries(s) PROVE Unique(Append(s, q))
  <2> SUFFICES ASSUME NEW i \in 1..(Len(s) + 1), NEW j \in 1..(Len(s) + 1),
                      Append(s, q)[i] = Append(s, q)[j]
               PROVE  i = j
    BY <1>2 DEF Unique
  <2>1. \A k \in 1..Len(s) : s[k] # q
    BY <1>2, <1>7 DEF Entries
  <2>2. CASE i = Len(s) + 1 \/ j = Len(s) + 1
    BY <2>1, <2>2, <1>3
  <2>3. CASE i # Len(s) + 1 /\ j # Len(s) + 1
    BY <2>3, <1>2, <1>3, <1>7 DEF Unique
  <2> QED
    BY <2>2, <2>3
<1> QED
  BY <1>1, <1>4, <1>5, <1>6, <1>7

-----------------------------------------------------------------------------
(* Type correctness.                                                       *)

LEMMA TypeMulticast == TypeOK /\ Multicast => TypeOK'
<1> SUFFICES ASSUME TypeOK, Multicast PROVE TypeOK'
  OBVIOUS
<1> USE NoPeerAssumption, NoListAssumption
<1>1. ASSUME NEW q \in Others, MulticastJoin(q) PROVE TypeOK'
  BY <1>1 DEF TypeOK, MulticastJoin, lVars, aVars, gVars
<1>2. ASSUME NEW q \in Others, MulticastConnect(q) PROVE TypeOK'
  BY <1>2 DEF TypeOK, MulticastConnect, lVars, aVars, gVars
<1>3. CASE MulticastAssign
  BY <1>3, EmptyList DEF TypeOK, MulticastAssign, Replace, lVars, aVars, gVars
<1>4. CASE MulticastReturn
  BY <1>4 DEF TypeOK, MulticastReturn, lVars, aVars, gVars
<1>5. CASE MulticastShare
  BY <1>5 DEF TypeOK, MulticastShare, lVars, aVars, gVars
<1>6. CASE MulticastAdd
  BY <1>6, AppendEntry DEF TypeOK, MulticastAdd, lVars, aVars, gVars
<1> QED
  BY <1>1, <1>2, <1>3, <1>4, <1>5, <1>6 DEF Multicast

LEMMA TypeAccept == TypeOK /\ Accept => TypeOK'
<1> SUFFICES ASSUME TypeOK, Accept PROVE TypeOK'
  OBVIOUS
<1>1. CASE AcceptPeerJoin
  BY <1>1 DEF TypeOK, AcceptPeerJoin, lVars, mVars, gVars
<1>2. CASE AcceptCopy
  BY <1>2, EmptyList DEF TypeOK, AcceptCopy, lVars, mVars, gVars
<1>3. CASE AcceptAssign
  BY <1>3, EmptyList DEF TypeOK, AcceptAssign, Replace, mVars, gVars
<1> QED
  BY <1>1, <1>2, <1>3 DEF Accept

LEMMA TypeWatch == TypeOK /\ Watch => TypeOK'
<1> SUFFICES ASSUME TypeOK, Watch PROVE TypeOK'
  OBVIOUS
<1>1. CASE WatchBegin
  BY <1>1 DEF TypeOK, WatchBegin, lVars, mVars, aVars
<1>2. CASE WatchScan
  BY <1>2 DEF TypeOK, WatchScan, lVars, mVars, aVars
<1>5. CASE WatchShow
  BY <1>5 DEF TypeOK, WatchShow, lVars, mVars, aVars
<1>3. CASE WatchDismissed
  BY <1>3 DEF TypeOK, WatchDismissed, lVars, mVars, aVars
<1>4. CASE WatchWire
  <2>1. CASE gAt <= gSize /\ ~Modified(gList, gSize)
    <3>1. items[gList] \in Seq(Others) /\ gAt \in 1..Len(items[gList])
      BY <1>4, <2>1 DEF TypeOK, WatchWire, Modified
    <3>2. items[gList][gAt] \in Others /\ gAt \in Nat
      BY <3>1
    <3>3. WiredClients' = WiredClients \cup {items[gList][gAt]} /\ gAt' = gAt + 1
      BY <1>4, <2>1 DEF WatchWire
    <3>4. WiredClients' \subseteq Others /\ gAt' \in Nat \ {0}
      BY <3>2, <3>3 DEF TypeOK
    <3>5. UNCHANGED <<gPc, gList, gSize, lVars, mVars, aVars>> /\ gPc = "wire"
      BY <1>4, <2>1 DEF WatchWire
    <3> QED
      BY <3>4, <3>5 DEF TypeOK, lVars, mVars, aVars
  <2>2. CASE ~(gAt <= gSize /\ ~Modified(gList, gSize))
    BY <1>4, <2>2 DEF TypeOK, WatchWire, lVars, mVars, aVars
  <2> QED
    BY <2>1, <2>2
<1> QED
  BY <1>1, <1>2, <1>3, <1>4, <1>5 DEF Watch

-----------------------------------------------------------------------------
(* The order on the copies.                                                *)

Order == NoDuplicateEntries /\ CopiesUnique /\ AcceptBehind /\ MulticastAhead /\ Adding

LEMMA InitIInv == Init => IInv
<1> SUFFICES ASSUME Init PROVE IInv
  OBVIOUS
<1>1. TypeOK
  BY EmptyList DEF Init, TypeOK
<1>2. Order
  BY EmptyList DEF Init, Order, NoDuplicateEntries, CopiesUnique, AcceptBehind,
                   MulticastAhead, Adding
<1>3. ConnectsCounted
  <2> SUFFICES ASSUME NEW q \in Others
               PROVE  connects[q] <= Assigned + (IF Listed(q) THEN 1 ELSE 0)
    BY DEF ConnectsCounted
  <2>1. connects[q] = 0
    BY DEF Init
  <2>a. Assigned = 0
    <3>1. aPc = "idle" /\ peerJoins = 0
      BY DEF Init
    <3> QED
      BY <3>1 DEF Assigned
  <2>2. (IF Listed(q) THEN 1 ELSE 0) \in Nat
    OBVIOUS
  <2> QED
    BY <2>1, <2>a, <2>2
<1> QED
  BY <1>1, <1>2, <1>3 DEF IInv, Order

LEMMA OrderMulticast == TypeOK /\ Order /\ Multicast => Order'
<1> SUFFICES ASSUME TypeOK, Order, Multicast PROVE Order'
  OBVIOUS
<1> USE NoListAssumption DEF lVars, aVars, gVars
<1>1. ASSUME NEW q \in Others, MulticastJoin(q) PROVE Order'
  BY <1>1 DEF TypeOK, MulticastJoin, Order, NoDuplicateEntries, CopiesUnique,
              AcceptBehind, MulticastAhead, Adding, Known
<1>2. ASSUME NEW q \in Others, MulticastConnect(q) PROVE Order'
  BY <1>2 DEF TypeOK, MulticastConnect, Order, NoDuplicateEntries, CopiesUnique,
              AcceptBehind, MulticastAhead, Adding, Known
<1>3. CASE MulticastAssign
  <2>1. PICK l \in Lists : /\ l # aList /\ ConnectedPeers' = l
                           /\ items' = [items EXCEPT ![l] = mItems]
    BY <1>3 DEF MulticastAssign, Replace
  <2>2. Known' = Entries(mItems)
    BY <2>1 DEF TypeOK, Known
  <2>3. NoDuplicateEntries' /\ CopiesUnique'
    BY <1>3, <2>1, EmptyList DEF TypeOK, MulticastAssign, Order, NoDuplicateEntries, CopiesUnique
  <2>4. AcceptBehind'
    BY <1>3, <2>1, <2>2 DEF TypeOK, MulticastAssign, Order, AcceptBehind, MulticastAhead
  <2>5. MulticastAhead' /\ Adding'
    BY <1>3 DEF MulticastAssign, MulticastAhead, Adding
  <2> QED
    BY <2>3, <2>4, <2>5 DEF Order
<1>4. CASE MulticastReturn
  BY <1>4 DEF MulticastReturn, Order, NoDuplicateEntries, CopiesUnique,
              AcceptBehind, MulticastAhead, Adding, Known
<1>5. CASE MulticastShare
  BY <1>5 DEF TypeOK, MulticastShare, Order, NoDuplicateEntries, CopiesUnique,
              AcceptBehind, MulticastAhead, Adding, Known
<1>6. CASE MulticastAdd
  <2>1. /\ mPeer \in Others /\ mList \in Lists /\ mPeer \notin Entries(items[mList])
        /\ items[mList] \in Seq(Others) /\ Unique(items[mList])
    BY <1>6 DEF TypeOK, MulticastAdd, Order, Adding, NoDuplicateEntries
  <2>2. /\ Entries(items'[mList]) = Entries(items[mList]) \cup {mPeer}
        /\ Unique(items'[mList])
    BY <1>6, <2>1, AppendEntry DEF TypeOK, MulticastAdd
  <2>3. \A l \in Lists : l # mList => items'[l] = items[l]
    BY <1>6 DEF TypeOK, MulticastAdd
  <2>4. NoDuplicateEntries' /\ CopiesUnique'
    BY <1>6, <2>2, <2>3 DEF TypeOK, MulticastAdd, Order, NoDuplicateEntries, CopiesUnique
  <2>5. Known \subseteq Known'
    BY <1>6, <2>2, <2>3 DEF TypeOK, MulticastAdd, Known
  <2>6. AcceptBehind'
    <3>1. aPc' = "assign" => Entries(aItems') \subseteq Known'
      BY <1>6, <2>5 DEF MulticastAdd, Order, AcceptBehind
    <3>2. aPc = "copy" /\ aList # mList => Entries(items'[aList]) \subseteq Known'
      BY <2>3, <2>5 DEF TypeOK, Order, AcceptBehind
    <3>3. aPc = "copy" /\ aList = mList => aList = ConnectedPeers'
      BY <1>6 DEF MulticastAdd, Order, Adding
    <3> QED
      BY <1>6, <3>1, <3>2, <3>3 DEF MulticastAdd, AcceptBehind, Known
  <2>7. MulticastAhead' /\ Adding'
    BY <1>6 DEF MulticastAdd, MulticastAhead, Adding
  <2> QED
    BY <2>4, <2>6, <2>7 DEF Order
<1> QED
  BY <1>1, <1>2, <1>3, <1>4, <1>5, <1>6 DEF Multicast

LEMMA OrderAccept == TypeOK /\ Order /\ Accept => Order'
<1> SUFFICES ASSUME TypeOK, Order, Accept PROVE Order'
  OBVIOUS
<1> USE NoListAssumption DEF lVars, mVars, gVars
<1>1. CASE AcceptPeerJoin
  BY <1>1 DEF TypeOK, AcceptPeerJoin, Order, NoDuplicateEntries, CopiesUnique,
              AcceptBehind, MulticastAhead, Adding, Known
<1>2. CASE AcceptCopy
  <2>1. aList \in Lists /\ Unique(items[aList])
    BY <1>2 DEF TypeOK, AcceptCopy, Order, NoDuplicateEntries
  <2>2. aPc' = "assign" => /\ Entries(aItems') \subseteq Entries(items[aList])
                          /\ Unique(aItems')
    BY <1>2, <2>1, EmptyList DEF AcceptCopy
  <2>3. NoDuplicateEntries' /\ CopiesUnique'
    BY <1>2, <2>2 DEF AcceptCopy, Order, NoDuplicateEntries, CopiesUnique
  <2>4. AcceptBehind' /\ MulticastAhead'
    BY <1>2, <2>2 DEF AcceptCopy, Order, AcceptBehind, MulticastAhead, Known
  <2>5. Adding'
    BY <1>2 DEF AcceptCopy, Order, Adding, Known
  <2> QED
    BY <2>3, <2>4, <2>5 DEF Order
<1>3. CASE AcceptAssign
  <2>1. PICK l \in Lists : /\ l # mList /\ ConnectedPeers' = l
                           /\ items' = [items EXCEPT ![l] = aItems]
    BY <1>3 DEF AcceptAssign, Replace
  <2>2. Known' = Entries(aItems) /\ Known' \subseteq Known
    BY <1>3, <2>1 DEF TypeOK, Known, AcceptAssign, Order, AcceptBehind
  <2>3. NoDuplicateEntries' /\ CopiesUnique'
    BY <1>3, <2>1, EmptyList DEF TypeOK, AcceptAssign, Order, NoDuplicateEntries, CopiesUnique
  <2>4. AcceptBehind' /\ MulticastAhead'
    BY <1>3, <2>2 DEF AcceptAssign, Order, AcceptBehind, MulticastAhead
  <2>5. Adding'
    BY <1>3, <2>1, <2>2 DEF TypeOK, AcceptAssign, Order, Adding
  <2> QED
    BY <2>3, <2>4, <2>5 DEF Order
<1> QED
  BY <1>1, <1>2, <1>3 DEF Accept

-----------------------------------------------------------------------------
(* Counting connections.                                                   *)

LEMMA CountMulticast == TypeOK /\ Order /\ ConnectsCounted /\ Multicast => ConnectsCounted'
<1> SUFFICES ASSUME TypeOK, Order, ConnectsCounted, Multicast, NEW r \in Others
             PROVE  connects'[r] <= Assigned' + (IF Listed(r)' THEN 1 ELSE 0)
  BY DEF ConnectsCounted
<1> USE DEF lVars, aVars, gVars
<1>a. Assigned' = Assigned /\ Assigned \in Int /\ connects[r] \in Nat
  BY DEF TypeOK, Multicast, MulticastJoin, MulticastConnect, MulticastAssign, MulticastReturn,
         MulticastShare, MulticastAdd, Assigned
<1>b. connects[r] <= Assigned + (IF Listed(r) THEN 1 ELSE 0)
  BY DEF ConnectsCounted
<1>1. ASSUME NEW q \in Others, MulticastJoin(q)
      PROVE  connects' = connects /\ (Listed(r) => Listed(r)')
  BY <1>1 DEF MulticastJoin, Listed, Known
<1>2. ASSUME NEW q \in Others, MulticastConnect(q)
      PROVE  \/ connects'[r] = connects[r] /\ (Listed(r) => Listed(r)')
             \/ connects'[r] = connects[r] + 1 /\ ~Listed(r) /\ Listed(r)'
  BY <1>2 DEF TypeOK, MulticastConnect, Listed, Known
<1>3. CASE MulticastAssign
  <2>1. Known' = Entries(mItems) /\ Known \subseteq Known'
    BY <1>3 DEF TypeOK, MulticastAssign, Replace, Known, Order, MulticastAhead
  <2>2. connects' = connects /\ (Listed(r) => Listed(r)')
    BY <1>3, <2>1 DEF MulticastAssign, Listed
  <2> QED
    BY <1>a, <1>b, <2>2
<1>4. CASE MulticastReturn
  <2>1. connects' = connects /\ (Listed(r) => Listed(r)')
    BY <1>4 DEF MulticastReturn, Listed, Known
  <2> QED
    BY <1>a, <1>b, <2>1
<1>5. CASE MulticastShare
  <2>1. connects' = connects /\ (Listed(r) => Listed(r)')
    BY <1>5 DEF MulticastShare, Listed, Known
  <2> QED
    BY <1>a, <1>b, <2>1
<1>6. CASE MulticastAdd
  <2>1. mList \in Lists /\ mPeer \in Others /\ items[mList] \in Seq(Others)
    BY <1>6 DEF TypeOK, MulticastAdd
  <2>2. Entries(items'[mList]) = Entries(items[mList]) \cup {mPeer}
    BY <1>6, <2>1, AppendEntry DEF TypeOK, MulticastAdd
  <2>3. \A l \in Lists : l # mList => items'[l] = items[l]
    BY <1>6 DEF TypeOK, MulticastAdd
  <2>4. connects' = connects /\ (Listed(r) => Listed(r)')
    BY <1>6, <2>2, <2>3 DEF TypeOK, MulticastAdd, Listed, Known
  <2> QED
    BY <1>a, <1>b, <2>4
<1> QED
  BY <1>a, <1>b, <1>1, <1>2, <1>3, <1>4, <1>5, <1>6 DEF Multicast

LEMMA CountAccept == TypeOK /\ Order /\ ConnectsCounted /\ Accept => ConnectsCounted'
<1> SUFFICES ASSUME TypeOK, Order, ConnectsCounted, Accept, NEW r \in Others
             PROVE  connects'[r] <= Assigned' + (IF Listed(r)' THEN 1 ELSE 0)
  BY DEF ConnectsCounted
<1> USE DEF lVars, mVars, gVars
<1>a. connects[r] \in Nat /\ peerJoins \in Nat /\ connects' = connects
  BY DEF TypeOK, Accept, AcceptPeerJoin, AcceptCopy, AcceptAssign
<1>b. connects[r] <= Assigned + (IF Listed(r) THEN 1 ELSE 0)
  BY DEF ConnectsCounted
<1>1. CASE AcceptPeerJoin
  <2>1. Listed(r)' = Listed(r)
    BY <1>1 DEF AcceptPeerJoin, Listed, Known
  <2>2. Assigned' = Assigned
    BY <1>1, <1>a DEF AcceptPeerJoin, Assigned
  <2> QED
    BY <1>a, <1>b, <2>1, <2>2
<1>2. CASE AcceptCopy
  <2>1. Listed(r)' = Listed(r)
    BY <1>2 DEF AcceptCopy, Listed, Known
  <2>2. Assigned \in Int /\ Assigned' \in Int /\ Assigned' >= Assigned
    BY <1>2, <1>a DEF AcceptCopy, Assigned
  <2> QED
    BY <1>a, <1>b, <2>1, <2>2
<1>3. CASE AcceptAssign
  <2>1. Assigned' = Assigned + 1
    BY <1>3, <1>a DEF AcceptAssign, Assigned
  <2> QED
    BY <1>a, <1>b, <2>1 DEF Assigned
<1> QED
  BY <1>1, <1>2, <1>3 DEF Accept

-----------------------------------------------------------------------------
LEMMA NextIInv == IInv /\ [Next]_vars => IInv'
<1> SUFFICES ASSUME IInv, [Next]_vars PROVE IInv'
  OBVIOUS
<1> USE DEF IInv
<1>1. CASE Multicast
  BY <1>1, TypeMulticast, OrderMulticast, CountMulticast DEF Order
<1>2. CASE Accept
  BY <1>2, TypeAccept, OrderAccept, CountAccept DEF Order
<1>3. ASSUME UNCHANGED <<lVars, mVars, aVars>> PROVE Order' /\ ConnectsCounted'
  BY <1>3 DEF lVars, mVars, aVars, Order, NoDuplicateEntries, CopiesUnique, AcceptBehind,
              MulticastAhead, Adding, ConnectsCounted, Assigned, Listed, Known
<1>4. CASE Watch
  <2>1. UNCHANGED <<lVars, mVars, aVars>>
    BY <1>4 DEF Watch, WatchBegin, WatchScan, WatchShow, WatchDismissed, WatchWire
  <2> QED
    BY <1>3, <1>4, <2>1, TypeWatch DEF Order
<1>5. CASE UNCHANGED vars
  <2>1. UNCHANGED <<lVars, mVars, aVars>> /\ TypeOK'
    BY <1>5 DEF vars, lVars, mVars, aVars, gVars, TypeOK
  <2> QED
    BY <1>3, <2>1 DEF Order
<1> QED
  BY <1>1, <1>2, <1>4, <1>5 DEF Next

\* The inductive invariant: types, the order on the copies, the count.
THEOREM Invariance == Spec => []IInv
  BY InitIInv, NextIInv, PTL DEF Spec

\* Every variable of the three threads keeps its type.
THEOREM TypeCorrect == Spec => []TypeOK
<1>1. IInv => TypeOK
  BY DEF IInv
<1> QED
  BY <1>1, Invariance, PTL

\* No list of peers ever holds one peer twice, although multicast thread and
\* accept thread change ConnectedPeers without a lock.
THEOREM PeersListedOnce == Spec => []NoDuplicateEntries
<1>1. IInv => NoDuplicateEntries
  BY DEF IInv
<1> QED
  BY <1>1, Invariance, PTL

\* Connecting to a peer once more takes a further AddPeers call each time.
THEOREM EveryReconnectHasACause == Spec => []ReconnectsBounded
<1>1. IInv => ReconnectsBounded
  <2> SUFFICES ASSUME IInv, NEW q \in Others PROVE connects[q] <= 1 + peerJoins
    BY DEF ReconnectsBounded
  <2>1. connects[q] \in Nat /\ peerJoins \in Nat
    BY DEF IInv, TypeOK
  <2>2. connects[q] <= Assigned + 1
    BY <2>1 DEF IInv, ConnectsCounted, Assigned
  <2> QED
    BY <2>1, <2>2 DEF Assigned
<1> QED
  BY <1>1, Invariance, PTL
=============================================================================
