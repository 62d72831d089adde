------------------------ MODULE MCMulticastListener ------------------------
(* Announcements for MulticastListener: packets around the padding of      *)
(* base64, in every spelling that RFC 4648 and a GUID's hexadecimal allow, *)
(* what the C++ program writes itself, and what nobody should send.        *)
EXTENDS MulticastListener

CONSTANTS test, join, long \* model values

Other == <<0, 255, 160, 7, 16, 1, 171, 205, 239, 18, 52, 86, 120, 154, 188, 222>>
Own == <<1, 2, 3, 4, 5, 6, 7, 8, 9, 10, 11, 12, 13, 14, 15, 16>>

\* IP:Port is any text to base64; these reach all characters and all paddings.
Contents == {<< >>, <<255>>, <<0, 16>>, <<251, 239, 190>>, <<49, 46, 50, 58>>,
             <<255, 255, 254, 0, 1>>}

MCPackets == [SenderId : {Other, Own}, Data : Contents, Action : 0..2]

\* How else a sender may write a packet: base64 for URLs, without its padding,
\* or the GUID in capitals or without hyphens.
Spellings == [url : BOOLEAN, padded : BOOLEAN, capitals : BOOLEAN, hyphens : BOOLEAN]

Capital(c) == IF IsLower(c) THEN c - 32 ELSE c

Spelled(p, s) ==
    LET data == base64_encode(p.Data, s.url)
        id == IF s.hyphens THEN str(p.SenderId) ELSE WithoutHyphens(str(p.SenderId))
    IN [Serialize(p) EXCEPT
           !.Data = <<"string", IF s.padded THEN data
                                ELSE SelectSeq(data, LAMBDA c : c \notin {Equals, Dot})>>,
           !.SenderId = <<"string", IF s.capitals THEN [k \in DOMAIN id |-> Capital(id[k])] ELSE id>>]

\* A packet and how it may be written; what NETConnect writes itself.
Announced ==
    {<<p, Spelled(p, s)>> : p \in {q \in MCPackets : q.SenderId = Other /\ q.Action = 0}, s \in Spellings}
    \cup {<<p, Serialize(p)>> : p \in MCPackets}

Sample == [SenderId |-> Other, Data |-> <<49, 46, 50, 58>>, Action |-> 1]

\* A member missing or of another type, and base64 cut after one character of a
\* chunk, padded too early, or with a line break.
Broken ==
    {NotJson}
    \cup {[n \in DOMAIN Serialize(Sample) \ {m} |-> Serialize(Sample)[n]] : m \in DOMAIN Sample}
    \cup {[Serialize(Sample) EXCEPT ![m] = <<"null", << >> >>] : m \in DOMAIN Sample}
    \cup {[Serialize(Sample) EXCEPT !.Data = <<"string", t>>] :
            t \in {<<77>>, <<77, 83, 52, 121, 79>>, <<77, 61, 61, 61>>, <<77, 83, 10, 52, 121>>}}

\* Action 1 as get<int> and the conversion to an unsigned byte have it.
Converted == {[Serialize(Sample) EXCEPT !.Action = a] : a \in {<<"boolean", TRUE>>, <<"number", 257>>, <<"number", -255>>}}

OwnForms == {ToJson(p) : p \in {q \in MCPackets : q.SenderId = Other /\ q.Action = 2}}

MCPayloads ==
    {a[2] : a \in Announced}
    \cup OwnForms
    \cup Converted
    \cup Broken

MCSenderId == Own

\* What NETConnect writes, and every other spelling, announces the packet.
ASSUME AnnouncedAssumption == \A a \in Announced : Announces(a[2], a[1])

\* What is broken is refused; what the conversions make of an action is taken.
ASSUME RefusedAssumption == \A doc \in Broken : FromJson(doc) = {}
ASSUME ConvertedAssumption == \A doc \in Converted : FromJson(doc) = {Sample}
=============================================================================
