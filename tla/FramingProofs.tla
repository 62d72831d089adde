---------------------------- MODULE FramingProofs ---------------------------
(***************************************************************************)
(* Theorems about Framing, for any header size and any lengths: the        *)
(* reader is in step with the sender until its first short read, and when  *)
(* packets arrive in one piece the stream implements PacketChannel.        *)
(***************************************************************************)
EXTENDS Framing, TLAPS, SequenceTheorems

\* Where packet i begins, or would begin if it is the next one.
Start(i) == IF i \in DOMAIN sent THEN sent[i].at ELSE written

End(p) == p.at + HeaderSize + p.size

\* The packets lie in the stream one after the other, without a gap.
Layout ==
    /\ \A i \in DOMAIN sent : sent[i].size > 0
    /\ Start(1) = 0
    /\ \A i \in DOMAIN sent : End(sent[i]) = Start(i + 1)
    /\ \A i, j \in DOMAIN sent : i < j => End(sent[i]) <= sent[j].at
    /\ \A i \in DOMAIN sent : End(sent[i]) <= written

\* The next packet the reader returns, if all is well.
Expected == Len(delivered) + 1

\* As long as every packet returned is whole, the reader stands at the header
\* or at the body of the packet that comes next.
InStep ==
    PacketsWhole =>
        /\ pc = "header" => read = Start(Expected)
        /\ pc = "body" => /\ Expected \in DOMAIN sent
                          /\ Header = sent[Expected]
                          /\ read = Header.at + HeaderSize
        /\ pc # "failed"

\* In the run without splits, what has arrived ends where a packet ends.
Pieces ==
    WholePacketsArrive =>
        arrived \in {0, written} \cup {sent[i].at : i \in DOMAIN sent}

IInv ==
    /\ TypeOK /\ Layout
    /\ InStep /\ ShortReadComesFirst
    /\ Pieces
    /\ WholePacketsArrive => PacketsWhole

-----------------------------------------------------------------------------
LEMMA PacketsAppend ==
  ASSUME NEW s \in Seq(Packets), NEW p \in Packets
  PROVE  /\ Append(s, p) \in Seq(Packets)
         /\ Len(Append(s, p)) = Len(s) + 1
         /\ DOMAIN s = 1..Len(s) /\ DOMAIN Append(s, p) = 1..(Len(s) + 1) /\ Len(s) \in Nat
         /\ \A i \in 1..Len(s) : Append(s, p)[i] = s[i] /\ s[i] \in Packets
         /\ Append(s, p)[Len(s) + 1] = p
  OBVIOUS

\* What one Receive returns, when there is something or the stream has ended.
LEMMA BytesReadRange ==
  ASSUME TypeOK, NEW n \in Nat
  PROVE  BytesRead(n) \in Nat /\ BytesRead(n) <= n /\ read + BytesRead(n) \in 0..arrived
  BY DEF TypeOK, BytesRead, Available

-----------------------------------------------------------------------------
(* Type correctness.                                                       *)

LEMMA ByteLengthsType == TypeOK => ByteLengths(read) \subseteq Int
<1> SUFFICES ASSUME TypeOK PROVE ByteLengths(read) \subseteq Int
  OBVIOUS
<1>1. \A i \in DOMAIN sent : sent[i] \in Packets
  BY DEF TypeOK
<1>2. \A i \in DOMAIN sent : sent[i].size \in Int
  BY <1>1 DEF Packets
<1> QED
  BY <1>2, GarbageAssumption DEF ByteLengths

LEMMA TypeNext == TypeOK /\ [Next]_vars => TypeOK'
<1> SUFFICES ASSUME TypeOK, [Next]_vars PROVE TypeOK'
  OBVIOUS
<1> USE SizesAssumption
<1>1. ASSUME NEW n \in Sizes, Send(n) PROVE TypeOK'
  <2>1. [at |-> written, size |-> n] \in Packets
    BY DEF TypeOK, Packets
  <2> QED
    BY <1>1, <2>1, PacketsAppend DEF TypeOK, Send
<1>2. CASE Close
  BY <1>2 DEF TypeOK, Close
<1>3. ASSUME NEW n \in 1..written, Arrive(n) PROVE TypeOK'
  BY <1>3 DEF TypeOK, Arrive
<1>4. CASE HasValidHeader
  <2>1. PICK n \in ByteLengths(read) : /\ pc' = IF n < 0 THEN "failed" ELSE "body"
                                       /\ Header' = [at |-> read, size |-> n]
    BY <1>4 DEF HasValidHeader
  <2>2. n \in Int /\ read \in Nat
    BY ByteLengthsType DEF TypeOK
  <2>3. Header' \in IF pc' = "failed" THEN [at : Nat, size : Int] ELSE Packets
    <3>1. CASE n < 0
      BY <2>1, <2>2, <3>1
    <3>2. CASE ~(n < 0)
      BY <2>1, <2>2, <3>2 DEF Packets
    <3> QED
      BY <3>1, <3>2
  <2>4. read' \in 0..arrived'
    BY <1>4 DEF HasValidHeader, Available, TypeOK
  <2> QED
    BY <1>4, <2>1, <2>3, <2>4 DEF HasValidHeader, TypeOK
<1>5. CASE ReceiveBody
  <2>1. Header \in Packets /\ Header.size \in Nat
    BY <1>5 DEF ReceiveBody, TypeOK, Packets
  <2>2. [Header EXCEPT !.size = BytesRead(@)] \in Packets
    BY <2>1, BytesReadRange DEF Packets
  <2>3. delivered' \in Seq(Packets)
    BY <1>5, <2>2, PacketsAppend DEF ReceiveBody, TypeOK
  <2>4. read' \in 0..arrived'
    BY <1>5, <2>1, BytesReadRange DEF ReceiveBody
  <2> QED
    BY <1>5, <2>3, <2>4 DEF ReceiveBody, TypeOK, NoHeader, Packets
<1>6. CASE UNCHANGED vars
  BY <1>6 DEF vars, TypeOK
<1> QED
  BY <1>1, <1>2, <1>3, <1>4, <1>5, <1>6 DEF Next

-----------------------------------------------------------------------------
(* The sender's steps.                                                     *)

LEMMA SendIInv == ASSUME IInv, NEW n \in Sizes, Send(n) PROVE IInv'
<1> USE SizesAssumption
<1>1. TypeOK'
  BY TypeNext DEF IInv, Next
<1>2. /\ Len(sent) \in Nat /\ DOMAIN sent = 1..Len(sent)
      /\ DOMAIN sent' = 1..(Len(sent) + 1)
      /\ \A i \in 1..Len(sent) : sent'[i] = sent[i] /\ sent[i] \in Packets
      /\ sent'[Len(sent) + 1] = [at |-> written, size |-> n]
      /\ Len(sent') = Len(sent) + 1
  <2>1. [at |-> written, size |-> n] \in Packets
    BY DEF IInv, TypeOK, Packets
  <2> QED
    BY <2>1, PacketsAppend DEF IInv, TypeOK, Send
<1>3. /\ written' = written + HeaderSize + n /\ written \in Nat
      /\ n \in Nat /\ n > 0 /\ HeaderSize \in Nat
      /\ UNCHANGED <<closed, arrived, read, pc, Header, delivered>>
  BY DEF IInv, TypeOK, Send
<1>4. \A i \in 1..(Len(sent) + 1) : Start(i)' = Start(i)
  BY <1>2, <1>3 DEF Start
<1>5. Layout'
  <2>1. End(sent'[Len(sent) + 1]) = written' /\ sent'[Len(sent) + 1].size > 0
    BY <1>2, <1>3 DEF End
  <2>2. \A i \in 1..Len(sent) : End(sent'[i]) = End(sent[i])
    BY <1>2 DEF End
  <2>4. \A i \in DOMAIN sent' : sent'[i].size > 0
    BY <1>2, <2>1 DEF IInv, Layout
  <2>5. Start(1)' = 0
    BY <1>2, <1>4 DEF IInv, Layout
  <2>6. ASSUME NEW i \in DOMAIN sent' PROVE End(sent'[i]) = Start(i + 1)'
    <3>1. CASE i \in 1..Len(sent)
      <4>1. i + 1 \in 1..(Len(sent) + 1) /\ End(sent[i]) = Start(i + 1)
        BY <1>2, <3>1 DEF IInv, Layout
      <4> QED
        BY <1>4, <2>2, <3>1, <4>1
    <3>2. CASE i = Len(sent) + 1
      BY <1>2, <2>1, <3>2 DEF Start
    <3> QED
      BY <1>2, <3>1, <3>2
  <2>7. \A i \in DOMAIN sent' : End(sent'[i]) <= written'
    <3>1. ASSUME NEW i \in 1..Len(sent)
          PROVE  End(sent[i]) \in Nat /\ End(sent[i]) <= written
      <4>1. sent[i].at \in Nat /\ sent[i].size \in Nat
        BY <1>2 DEF Packets
      <4>2. End(sent[i]) <= written
        BY <1>2 DEF IInv, Layout
      <4> QED
        BY <1>3, <4>1, <4>2 DEF End
    <3> QED
      BY <1>2, <1>3, <2>1, <2>2, <3>1
  <2>8. \A i, j \in DOMAIN sent' : i < j => End(sent'[i]) <= sent'[j].at
    <3> SUFFICES ASSUME NEW i \in 1..(Len(sent) + 1), NEW j \in 1..(Len(sent) + 1), i < j
                 PROVE  End(sent'[i]) <= sent'[j].at
      BY <1>2
    <3>1. i \in 1..Len(sent)
      BY <1>2
    <3>2. CASE j \in 1..Len(sent)
      BY <1>2, <2>2, <3>1, <3>2 DEF IInv, Layout
    <3>3. CASE j = Len(sent) + 1
      BY <1>2, <2>2, <3>1, <3>3 DEF IInv, Layout
    <3> QED
      BY <1>2, <3>2, <3>3
  <2> QED
    BY <2>4, <2>5, <2>6, <2>7, <2>8 DEF Layout
<1>6. Len(delivered) \in Nat /\ DOMAIN delivered = 1..Len(delivered)
  BY DEF IInv, TypeOK
<1>7. PacketsWhole' => PacketsWhole
  <2> SUFFICES ASSUME PacketsWhole' PROVE PacketsWhole
    OBVIOUS
  <2>1. CASE Len(delivered) <= Len(sent)
    BY <1>2, <1>3, <1>6, <2>1 DEF PacketsWhole
  <2>2. CASE Len(delivered) > Len(sent)
    <3>1. Len(sent) + 1 \in DOMAIN delivered
      BY <1>2, <1>6, <2>2
    <3>2. \A j \in 1..Len(sent) : j \in DOMAIN sent /\ delivered[j] = sent[j]
      BY <1>2, <1>3, <1>6, <2>2 DEF PacketsWhole
    <3>3. Len(sent) + 1 \in DOMAIN sent
      BY <1>2, <3>1, <3>2 DEF IInv, ShortReadComesFirst
    <3> QED
      BY <1>2, <3>3
  <2> QED
    BY <1>2, <1>6, <2>1, <2>2
<1>8. InStep'
  <2> SUFFICES ASSUME PacketsWhole
               PROVE  /\ pc = "header" => read = Start(Expected)'
                      /\ pc = "body" => /\ Expected \in DOMAIN sent'
                                        /\ Header = sent'[Expected]
                                        /\ read = Header.at + HeaderSize
                      /\ pc # "failed"
    BY <1>3, <1>7 DEF InStep, Expected
  <2>1. Expected \in 1..(Len(sent) + 1)
    BY <1>2, <1>6 DEF PacketsWhole, Expected
  <2>2. Start(Expected)' = Start(Expected)
    BY <1>3, <1>4, <2>1 DEF Expected
  <2> QED
    BY <1>2, <2>1, <2>2 DEF IInv, InStep
<1>9. ShortReadComesFirst'
  <2> SUFFICES ASSUME NEW i \in DOMAIN delivered,
                      \A j \in 1..(i - 1) : j \in DOMAIN sent' /\ delivered[j] = sent'[j]
               PROVE  /\ i \in DOMAIN sent'
                      /\ delivered[i].at = sent'[i].at
                      /\ delivered[i].size <= sent'[i].size
    BY <1>3 DEF ShortReadComesFirst
  <2>1. CASE i <= Len(sent) + 1
    <3>1. \A j \in 1..(i - 1) : j \in DOMAIN sent /\ delivered[j] = sent[j]
      BY <1>2, <1>6, <2>1
    <3> QED
      BY <1>2, <3>1 DEF IInv, ShortReadComesFirst
  <2>2. CASE i > Len(sent) + 1
    <3>1. Len(sent) + 1 \in DOMAIN delivered
      BY <1>2, <1>6, <2>2
    <3>2. \A j \in 1..Len(sent) : j \in DOMAIN sent /\ delivered[j] = sent[j]
      BY <1>2, <1>6, <2>2
    <3>3. Len(sent) + 1 \in DOMAIN sent
      BY <1>2, <3>1, <3>2 DEF IInv, ShortReadComesFirst
    <3> QED
      BY <1>2, <3>3
  <2> QED
    BY <1>2, <1>6, <2>1, <2>2
<1>10. Pieces'
  BY <1>2, <1>3 DEF IInv, Pieces
<1>11. WholePacketsArrive => PacketsWhole'
  BY <1>2, <1>3, <1>6 DEF IInv, PacketsWhole
<1> QED
  BY <1>1, <1>5, <1>8, <1>9, <1>10, <1>11 DEF IInv

\* Close and Arrive leave the packets and the reader alone.
LEMMA TransportIInv ==
  ASSUME IInv, Close \/ \E n \in 1..written : Arrive(n)
  PROVE  IInv'
<1>1. TypeOK'
  BY TypeNext DEF IInv, Next
<1>2. UNCHANGED <<sent, written, read, pc, Header, delivered>>
  BY DEF Close, Arrive
<1>3. Layout' /\ InStep' /\ ShortReadComesFirst'
  BY <1>2 DEF IInv, Layout, InStep, ShortReadComesFirst, PacketsWhole, Expected, Start, End
<1>4. Pieces' /\ (WholePacketsArrive => PacketsWhole')
  BY <1>2 DEF IInv, Pieces, PacketsWhole, Close, Arrive
<1> QED
  BY <1>1, <1>3, <1>4 DEF IInv

-----------------------------------------------------------------------------
(* The reader's steps.                                                     *)

\* What the layout says about the packet the reader stands at.
LEMMA AtExpected ==
  ASSUME IInv, PacketsWhole
  PROVE  /\ Expected \in 1..(Len(sent) + 1) /\ Len(sent) \in Nat
         /\ DOMAIN sent = 1..Len(sent)
         /\ Expected \in DOMAIN sent =>
              /\ sent[Expected] \in Packets /\ Start(Expected) = sent[Expected].at
              /\ sent[Expected].at \in Nat /\ sent[Expected].size \in Nat \ {0}
              /\ ByteLengths(sent[Expected].at) = {sent[Expected].size}
<1> USE SizesAssumption
<1>1. /\ Expected \in 1..(Len(sent) + 1) /\ Len(sent) \in Nat /\ DOMAIN sent = 1..Len(sent)
      /\ \A i \in DOMAIN sent : sent[i] \in Packets
  BY DEF IInv, TypeOK, PacketsWhole, Expected
<1>2. ASSUME Expected \in DOMAIN sent
      PROVE  /\ sent[Expected].at \in Nat /\ sent[Expected].size \in Nat \ {0}
             /\ Start(Expected) = sent[Expected].at
  BY <1>1, <1>2 DEF IInv, Layout, Packets, Start
<1>3. ASSUME NEW i \in DOMAIN sent, NEW j \in DOMAIN sent, i < j
      PROVE  sent[i].at # sent[j].at
  <2>1. End(sent[i]) <= sent[j].at /\ sent[i] \in Packets /\ sent[j] \in Packets
    BY <1>1, <1>3 DEF IInv, Layout
  <2> QED
    BY <2>1 DEF End, Packets
<1>4. ASSUME Expected \in DOMAIN sent
      PROVE  {j \in DOMAIN sent : sent[j].at = sent[Expected].at} = {Expected}
  <2>1. ASSUME NEW j \in DOMAIN sent, sent[j].at = sent[Expected].at PROVE j = Expected
    <3>1. ~(j < Expected) /\ ~(Expected < j)
      BY <1>3, <1>4, <2>1
    <3> QED
      BY <1>1, <3>1
  <2> QED
    BY <1>4, <2>1
<1>5. ASSUME Expected \in DOMAIN sent
      PROVE  ByteLengths(sent[Expected].at) = {sent[Expected].size}
  BY <1>4, <1>5 DEF ByteLengths
<1> QED
  BY <1>1, <1>2, <1>5

LEMMA HasValidHeaderIInv == ASSUME IInv, HasValidHeader PROVE IInv'
<1> USE SizesAssumption
<1>1. TypeOK'
  BY TypeNext DEF IInv, Next
<1>2. UNCHANGED <<sent, written, closed, arrived, delivered>>
  BY DEF HasValidHeader
<1>3. Layout' /\ ShortReadComesFirst' /\ Pieces' /\ (WholePacketsArrive => PacketsWhole')
  BY <1>2 DEF IInv, Layout, ShortReadComesFirst, PacketsWhole, Pieces, Start, End
<1>4. InStep'
  <2> SUFFICES ASSUME PacketsWhole
               PROVE  /\ pc' = "body" /\ Expected \in DOMAIN sent
                      /\ Header' = sent[Expected]
                      /\ read' = Header'.at + HeaderSize
    BY <1>2 DEF InStep, PacketsWhole, Expected
  <2>1. read = Start(Expected) /\ read < written
    BY DEF IInv, InStep, TypeOK, HasValidHeader, Available
  <2>2. Expected \in DOMAIN sent
    BY <2>1 DEF Start, IInv, TypeOK
  <2>3. /\ sent[Expected] \in Packets /\ read = sent[Expected].at
        /\ sent[Expected].size \in Nat \ {0}
        /\ ByteLengths(read) = {sent[Expected].size}
    BY <2>1, <2>2, AtExpected
  <2>4. pc' = "body" /\ Header' = [at |-> read, size |-> sent[Expected].size]
    BY <2>3 DEF HasValidHeader
  <2>5. Header' = sent[Expected]
    BY <2>3, <2>4 DEF Packets
  <2> QED
    BY <2>2, <2>4, <2>5 DEF HasValidHeader
<1> QED
  BY <1>1, <1>3, <1>4 DEF IInv

\* Without splits the body is there as soon as its header is read.
LEMMA BodyArrived ==
  ASSUME IInv, WholePacketsArrive, ReceiveBody
  PROVE  BytesRead(Header.size) = Header.size
<1> USE SizesAssumption
<1>1. /\ Expected \in DOMAIN sent /\ Header = sent[Expected] /\ read = Header.at + HeaderSize
  BY DEF IInv, InStep, ReceiveBody
<1>2. /\ Header.at \in Nat /\ Header.size \in Nat \ {0}
      /\ End(Header) <= written /\ written \in Nat /\ arrived \in Nat /\ read \in Nat
  BY <1>1, AtExpected DEF IInv, Layout, TypeOK
<1>3. arrived > Header.at
  BY <1>1, <1>2 DEF ReceiveBody, Available, IsGracefulShutdown, IInv, TypeOK
<1>4. arrived >= End(Header)
  <2>1. CASE arrived = written
    BY <1>2, <2>1
  <2>2. ASSUME NEW j \in DOMAIN sent, arrived = sent[j].at PROVE arrived >= End(Header)
    <3>1. j \in Nat /\ Expected \in Nat /\ sent[j] \in Packets
      BY <1>1 DEF IInv, TypeOK
    <3>2. CASE j < Expected
      <4>1. End(sent[j]) <= sent[Expected].at
        BY <1>1, <3>2 DEF IInv, Layout
      <4> QED
        BY <1>1, <1>2, <1>3, <2>2, <3>1, <4>1 DEF End, Packets
    <3>3. CASE j = Expected
      BY <1>1, <1>2, <1>3, <2>2, <3>3
    <3>4. CASE Expected < j
      BY <1>1, <2>2, <3>4, <1>2 DEF IInv, Layout
    <3> QED
      BY <3>1, <3>2, <3>3, <3>4
  <2> QED
    BY <1>2, <1>3, <2>1, <2>2 DEF IInv, Pieces
<1> QED
  BY <1>1, <1>2, <1>4 DEF BytesRead, Available, End

\* While all packets are whole, the reader returns the next one, or a part of it.
LEMMA NextDelivered ==
  ASSUME IInv, ReceiveBody, PacketsWhole
  PROVE  /\ delivered' = Append(delivered, [Header EXCEPT !.size = BytesRead(@)])
         /\ Expected \in DOMAIN sent /\ Header = sent[Expected] /\ Header \in Packets
         /\ delivered'[Expected].at = sent[Expected].at
         /\ delivered'[Expected].size <= sent[Expected].size
         /\ delivered'[Expected].size = BytesRead(Header.size)
<1>1. /\ Expected \in DOMAIN sent /\ Header = sent[Expected] /\ Header \in Packets
      /\ Header.size \in Nat
  BY AtExpected DEF IInv, InStep, ReceiveBody
<1>2. [Header EXCEPT !.size = BytesRead(@)] \in Packets
  BY <1>1, BytesReadRange DEF IInv, Packets
<1>3. delivered'[Expected] = [Header EXCEPT !.size = BytesRead(@)]
  BY <1>2, PacketsAppend DEF IInv, TypeOK, ReceiveBody, Expected
<1> QED
  BY <1>1, <1>3, BytesReadRange DEF IInv, ReceiveBody, Packets

LEMMA ReceiveBodyIInv == ASSUME IInv, ReceiveBody PROVE IInv'
<1> USE SizesAssumption
<1>1. TypeOK'
  BY TypeNext DEF IInv, Next
<1>2. UNCHANGED <<sent, written, closed, arrived>> /\ pc' = "header"
  BY DEF ReceiveBody
<1>3. Layout' /\ Pieces'
  BY <1>2 DEF IInv, Layout, Pieces, Start, End
<1>4. /\ Len(delivered) \in Nat /\ DOMAIN delivered = 1..Len(delivered)
      /\ DOMAIN delivered' = 1..Expected /\ Len(delivered') = Expected
      /\ \A i \in DOMAIN delivered : delivered'[i] = delivered[i]
  <2>1. Header \in Packets /\ Header.size \in Nat
    BY DEF IInv, TypeOK, ReceiveBody, Packets
  <2>2. [Header EXCEPT !.size = BytesRead(@)] \in Packets
    BY <2>1, BytesReadRange DEF IInv, Packets
  <2> QED
    BY <2>2, PacketsAppend DEF IInv, TypeOK, ReceiveBody, Expected
<1>5. DOMAIN sent = 1..Len(sent) /\ Len(sent) \in Nat
  BY DEF IInv, TypeOK
<1>6. PacketsWhole' => PacketsWhole
  BY <1>2, <1>4 DEF PacketsWhole, Expected
<1>7. ASSUME \A j \in 1..Len(delivered) : j \in DOMAIN sent /\ delivered[j] = sent[j]
      PROVE  PacketsWhole
  BY <1>4, <1>5, <1>7 DEF PacketsWhole
<1>8. ShortReadComesFirst'
  <2> SUFFICES ASSUME NEW i \in DOMAIN delivered',
                      \A j \in 1..(i - 1) : j \in DOMAIN sent /\ delivered'[j] = sent[j]
               PROVE  /\ i \in DOMAIN sent
                      /\ delivered'[i].at = sent[i].at
                      /\ delivered'[i].size <= sent[i].size
    BY <1>2 DEF ShortReadComesFirst
  <2>1. i \in Nat /\ i <= Len(delivered) + 1 /\ i >= 1
    BY <1>4 DEF Expected
  <2>2. \A j \in 1..(i - 1) : j \in DOMAIN sent /\ delivered[j] = sent[j]
    BY <1>4, <2>1
  <2>3. CASE i = Expected
    BY <1>4, <1>7, <2>2, <2>3, NextDelivered DEF Expected
  <2>4. CASE i \in DOMAIN delivered
    BY <1>4, <2>2, <2>4 DEF IInv, ShortReadComesFirst
  <2> QED
    BY <1>4, <2>1, <2>3, <2>4 DEF Expected
<1>9. InStep'
  <2> SUFFICES ASSUME PacketsWhole' PROVE read' = Start(Expected)'
    BY <1>2 DEF InStep
  <2>1. /\ delivered'[Expected].size = BytesRead(Header.size)
        /\ Header = sent[Expected] /\ Expected \in DOMAIN sent
    BY <1>6, NextDelivered
  <2>2. delivered'[Expected] = sent[Expected]
    <3>1. Expected \in DOMAIN delivered'
      BY <1>4 DEF Expected
    <3> QED
      BY <1>2, <3>1 DEF PacketsWhole
  <2>3. read' = End(Header)
    BY <1>6, <2>1, <2>2 DEF ReceiveBody, IInv, InStep, End
  <2>4. Expected' = Expected + 1
    BY <1>4 DEF Expected
  <2>5. Start(Expected)' = End(sent[Expected])
    BY <1>2, <2>1, <2>4 DEF IInv, Layout, Start
  <2> QED
    BY <2>1, <2>3, <2>5
<1>10. WholePacketsArrive => PacketsWhole'
  <2> SUFFICES ASSUME WholePacketsArrive PROVE PacketsWhole'
    OBVIOUS
  <2>1. /\ PacketsWhole /\ Expected \in DOMAIN sent
        /\ delivered'[Expected].size = sent[Expected].size
        /\ delivered'[Expected].at = sent[Expected].at
    BY BodyArrived, NextDelivered DEF IInv
  <2>2. delivered'[Expected] \in Packets /\ sent[Expected] \in Packets
    BY <1>1, <1>4, <1>5, <2>1 DEF TypeOK, IInv, Expected
  <2>3. delivered'[Expected] = sent[Expected]
    BY <2>1, <2>2 DEF Packets
  <2> QED
    BY <1>2, <1>4, <1>5, <2>1, <2>3 DEF PacketsWhole, Expected
<1> QED
  BY <1>1, <1>3, <1>8, <1>9, <1>10 DEF IInv

-----------------------------------------------------------------------------
LEMMA InitIInv == Init => IInv
<1> SUFFICES ASSUME Init PROVE IInv
  OBVIOUS
<1>1. /\ sent = << >> /\ delivered = << >> /\ written = 0 /\ arrived = 0 /\ read = 0
      /\ closed = FALSE /\ pc = "header" /\ Header = NoHeader
  BY DEF Init
<1>2. DOMAIN sent = {} /\ DOMAIN delivered = {} /\ Len(delivered) = 0 /\ Len(sent) = 0
      /\ sent \in Seq(Packets) /\ delivered \in Seq(Packets)
  BY <1>1
<1>3. TypeOK
  <2>1. Header \in Packets
    BY <1>1 DEF NoHeader, Packets
  <2>2. 0 \in 0..0
    OBVIOUS
  <2> QED
    BY <1>1, <1>2, <2>1, <2>2 DEF TypeOK
<1>4. Layout
  BY <1>1, <1>2 DEF Layout, Start
<1>5. InStep /\ ShortReadComesFirst /\ PacketsWhole /\ Pieces
  BY <1>1, <1>2 DEF InStep, ShortReadComesFirst, PacketsWhole, Pieces, Start
<1> QED
  BY <1>3, <1>4, <1>5 DEF IInv

LEMMA NextIInv == IInv /\ [Next]_vars => IInv'
<1> SUFFICES ASSUME IInv, [Next]_vars PROVE IInv'
  OBVIOUS
<1>1. CASE \E n \in Sizes : Send(n)
  BY <1>1, SendIInv
<1>2. CASE Close \/ \E n \in 1..written : Arrive(n)
  BY <1>2, TransportIInv
<1>3. CASE HasValidHeader
  BY <1>3, HasValidHeaderIInv
<1>4. CASE ReceiveBody
  BY <1>4, ReceiveBodyIInv
<1>5. CASE UNCHANGED vars
  BY <1>5 DEF vars, IInv, TypeOK, Layout, InStep, ShortReadComesFirst, PacketsWhole, Pieces,
              Expected, Start, End
<1> QED
  BY <1>1, <1>2, <1>3, <1>4, <1>5 DEF Next

\* The inductive invariant, with or without splits.
THEOREM Invariance == Spec => []IInv
  BY InitIInv, NextIInv, PTL DEF Spec

\* Every variable of the stream keeps its type.
THEOREM TypeCorrect == Spec => []TypeOK
<1>1. IInv => TypeOK
  BY DEF IInv
<1> QED
  BY <1>1, Invariance, PTL

\* However TCP cuts the stream, ReceivePacket is right up to its first short
\* Receive.
THEOREM OnlyShortReadsHarm == Spec => []ShortReadComesFirst
<1>1. IInv => ShortReadComesFirst
  BY DEF IInv
<1> QED
  BY <1>1, Invariance, PTL

\* When each packet arrives in one piece, ReceivePacket returns exactly the
\* packets of Send.
THEOREM WholeWithoutSplits == ASSUME WholePacketsArrive PROVE Spec => []PacketsWhole
<1>1. IInv => PacketsWhole
  BY DEF IInv
<1> QED
  BY <1>1, Invariance, PTL

\* The buffer's length is never negative then.
THEOREM NoFailureWithoutSplits == ASSUME WholePacketsArrive PROVE Spec => []NeverFails
<1>1. IInv => NeverFails
  BY DEF IInv, InStep, TypeOK, NeverFails
<1> QED
  BY <1>1, Invariance, PTL

\* Each step of the stream is one of the channel, or none.
LEMMA StepsOfChannel ==
  ASSUME WholePacketsArrive, IInv, [Next]_vars
  PROVE  [Channel!Next]_(Channel!vars)
<1> USE DEF Channel!vars
<1>1. ASSUME NEW n \in Sizes, Send(n) PROVE Channel!Send
  <2>1. [at |-> written, size |-> n] \in Packets
    BY SizesAssumption DEF IInv, TypeOK, Packets
  <2> QED
    BY <1>1, <2>1, PacketsAppend DEF IInv, TypeOK, Send, Channel!Send
<1>2. CASE ReceiveBody
  <2>1. PacketsWhole /\ IInv'
    BY <1>2, ReceiveBodyIInv DEF IInv
  <2>2. /\ Expected \in DOMAIN sent
        /\ delivered' = Append(delivered, [Header EXCEPT !.size = BytesRead(@)])
        /\ Header = sent[Expected] /\ Header \in Packets
    BY <1>2, <2>1, NextDelivered
  <2>3. [Header EXCEPT !.size = BytesRead(@)] = sent[Expected]
    BY <1>2, <2>2, BodyArrived DEF Packets
  <2>4. Expected <= Len(sent) /\ Len(delivered) \in Nat
    BY <2>2 DEF IInv, TypeOK
  <2> QED
    BY <1>2, <2>2, <2>3, <2>4 DEF ReceiveBody, Channel!Next, Channel!Receive, Expected
<1>3. CASE Close \/ (\E n \in 1..written : Arrive(n)) \/ HasValidHeader \/ UNCHANGED vars
  BY <1>3 DEF Close, Arrive, HasValidHeader, vars
<1> QED
  BY <1>1, <1>2, <1>3 DEF Next, Channel!Next

\* When each packet arrives in one piece, the byte stream is the reliable
\* packet channel that NetSessions and HeartBeat build on.
THEOREM StreamIsChannel == ASSUME WholePacketsArrive PROVE Spec => ImplementsChannel
<1>1. Init => Channel!Init
  BY DEF Init, Channel!Init
<1>2. IInv /\ [Next]_vars => [Channel!Next]_(Channel!vars)
  BY StepsOfChannel
<1> QED
  BY <1>1, <1>2, Invariance, PTL DEF Spec, Channel!Spec, ImplementsChannel
=============================================================================
