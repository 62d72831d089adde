------------------------------ MODULE HeartBeat -----------------------------
(***************************************************************************)
(* One connection's HeartBeat object, polled by the loop of                *)
(* HandleClientConnected (IsServer) or HandleConnected (~IsServer) every   *)
(* few milliseconds, while the remote end answers, hangs or goes away.     *)
(* Times are seconds elapsed since the event, counted up by Tick.          *)
(***************************************************************************)
EXTENDS Integers

CONSTANTS IsServer,      \* which of the two loops polls the heartbeat
          TimeoutAfter,  \* TimeoutAfterInSeconds
          PulseCooldown, \* HeartBeat.PulseCooldown
          Pulses,        \* the values PulseAtInSeconds takes
          FirstPulse,    \* its value in a new HeartBeat
          Latencies,     \* round trip times a pong may report, in ms
          MaxStall       \* the longest the polling thread is held up

ASSUME IsServerAssumption == IsServer \in BOOLEAN
ASSUME TimesAssumption ==
    /\ TimeoutAfter \in Nat /\ PulseCooldown \in Nat /\ MaxStall \in Nat
    /\ Pulses = {1, 5, 10} /\ FirstPulse = 10 /\ Latencies \subseteq Int
\* The polling thread is never stalled for as long as a timeout lasts beyond
\* the ping interval: 110 s with the code's numbers.
ASSUME StallAssumption ==
    \A p \in Pulses : p + MaxStall <= TimeoutAfter /\ PulseCooldown + MaxStall <= TimeoutAfter

VARIABLES
    pc,        \* the loop: about to poll, between the checks of
               \* TrySendHeartBeat, about to receive, or cancelled
    beatAge,   \* seconds since LastBeatAt
    pulseAge,  \* seconds since LastPulseAt
    FirstBeat, \* as in the code
    PulseAt,   \* PulseAtInSeconds
    tryAge,    \* seconds since SendPing was last called
    stall,     \* seconds since the polling thread's last step
    remote,    \* the other process: "up", "hung", "closed", or "reset" when a
               \* send has met the closed connection
    ping,      \* a ping is on its way to the remote end
    pong       \* the round trip time of a pong that has arrived, or NoPong

vars == <<pc, beatAge, pulseAge, FirstBeat, PulseAt, tryAge, stall, remote, ping, pong>>

NoPong == -1

Init ==
    /\ pc = "poll"
    /\ beatAge = 0 /\ pulseAge = 0 /\ tryAge = 0 /\ stall = 0
    /\ FirstBeat = TRUE
    /\ PulseAt = FirstPulse
    /\ remote = "up"
    /\ ping = FALSE
    /\ pong = NoPong

-----------------------------------------------------------------------------
(* The polling thread.                                                     *)

\* Faulty variant: no cooldown.
Due_NoCooldown == beatAge >= PulseAt

\* Faulty variant: nothing is due before the first beat, which never comes.
Due_AfterFirst == ~FirstBeat /\ beatAge >= PulseAt /\ pulseAge >= PulseCooldown

Due == beatAge >= PulseAt /\ pulseAge >= PulseCooldown

\* Faulty variant: a sent pulse is not a beat.
SetLastBeat_PulseOnly == pulseAge' = 0 /\ UNCHANGED beatAge

SetLastBeat == beatAge' = 0 /\ pulseAge' = 0

Gone == remote \in {"closed", "reset"}

\* Faulty variant: the test without its negation.
Cancels_NoNegation(sent, isDisconnected, firstBeat) == sent /\ isDisconnected /\ ~firstBeat

\* Faulty variant: no ping sent counts as a dead connection.
Cancels_AnyFailure(sent, isDisconnected, firstBeat) == IsServer /\ ~sent /\ ~firstBeat

\* The loop's reaction to TrySendHeartBeat: the server cancels when nothing
\* was sent, the connection is reported dead and the first beat has passed.
\* The client tests sent /\ disconnected (its "!" is a suffix that negates
\* nothing), which no result of TrySendHeartBeat satisfies.
Cancels(sent, isDisconnected, firstBeat) ==
    /\ isDisconnected
    /\ ~firstBeat
    /\ IF IsServer THEN ~sent ELSE sent

React(sent, isDisconnected, firstBeat) ==
    pc' = IF Cancels(sent, isDisconnected, firstBeat) THEN "cancelled" ELSE "receive"

\* TrySendHeartBeat with a beat due, and SendPing returning bytesSent > 0.  A
\* closed peer's system may still take the bytes, until it resets.
PingSent ==
    /\ pc = "poll"
    /\ Due
    /\ remote # "reset"
    /\ FirstBeat' = FALSE
    /\ SetLastBeat
    /\ tryAge' = 0 /\ stall' = 0
    /\ ping' = (ping \/ remote = "up")
    /\ React(TRUE, FALSE, FALSE)
    /\ UNCHANGED <<PulseAt, remote, pong>>

\* The same with SendPing failing: the times are set only by the first beat.
PingFailed ==
    /\ pc = "poll"
    /\ Due
    /\ Gone
    /\ remote' = "reset"
    /\ IF FirstBeat THEN SetLastBeat ELSE UNCHANGED <<beatAge, pulseAge>>
    /\ FirstBeat' = FALSE
    /\ tryAge' = 0 /\ stall' = 0
    /\ React(FALSE, TRUE, FALSE)
    /\ UNCHANGED <<PulseAt, ping, pong>>

\* No beat is due at the moment "now" was sampled.
NotDue ==
    /\ pc = "poll"
    /\ ~Due
    /\ pc' = "verdict"
    /\ stall' = 0
    /\ UNCHANGED <<beatAge, pulseAge, FirstBeat, PulseAt, tryAge, remote, ping, pong>>

IsGracefulShutdown == Gone /\ pong = NoPong

\* Reads the clock again, after the sample of NotDue.
IsTimeout == ~FirstBeat /\ beatAge >= TimeoutAfter

\* The rest of TrySendHeartBeat.
Verdict ==
    /\ pc = "verdict"
    /\ React(FALSE, IsGracefulShutdown \/ IsTimeout, FirstBeat)
    /\ stall' = 0
    /\ UNCHANGED <<beatAge, pulseAge, FirstBeat, PulseAt, tryAge, remote, ping, pong>>

PulseFor(ms) == IF ms > 200 THEN 1 ELSE IF ms < 50 THEN 10 ELSE 5

\* Receive one packet, if there is one; a pong sets the pulse (UpdateLatency).
\* It is not a beat: LastBeatAt stays.
Receive ==
    /\ pc = "receive"
    /\ pc' = "poll"
    /\ stall' = 0
    /\ PulseAt' = IF pong = NoPong THEN PulseAt ELSE PulseFor(pong)
    /\ pong' = NoPong
    /\ UNCHANGED <<beatAge, pulseAge, FirstBeat, tryAge, remote, ping>>

Loop == PingSent \/ PingFailed \/ NotDue \/ Verdict \/ Receive

-----------------------------------------------------------------------------
(* The remote process and the clock.                                       *)

\* HandleHeartBeatActions of the other side answers a ping with a pong.
RemoteAnswers ==
    /\ remote = "up"
    /\ ping
    /\ pong = NoPong
    /\ ping' = FALSE
    /\ pong' \in Latencies
    /\ UNCHANGED <<pc, beatAge, pulseAge, FirstBeat, PulseAt, tryAge, stall, remote>>

\* The process stops answering; its system keeps the connection open.
RemoteHangs ==
    /\ remote = "up"
    /\ remote' = "hung"
    /\ UNCHANGED <<pc, beatAge, pulseAge, FirstBeat, PulseAt, tryAge, stall, ping, pong>>

RemoteCloses ==
    /\ ~Gone
    /\ remote' = "closed"
    /\ UNCHANGED <<pc, beatAge, pulseAge, FirstBeat, PulseAt, tryAge, stall, ping, pong>>

\* Ages stop at TimeoutAfter, where every comparison has been decided.
Older(age) == IF age < TimeoutAfter THEN age + 1 ELSE age

Tick ==
    /\ pc # "cancelled"
    /\ stall < MaxStall
    /\ stall' = stall + 1
    /\ beatAge' = Older(beatAge)
    /\ pulseAge' = Older(pulseAge)
    /\ tryAge' = Older(tryAge)
    /\ UNCHANGED <<pc, FirstBeat, PulseAt, remote, ping, pong>>

Next == Loop \/ RemoteAnswers \/ RemoteHangs \/ RemoteCloses \/ Tick

Spec == Init /\ [][Next]_vars

\* The thread keeps running, and time keeps passing on a loop that spins.  A
\* live peer answers; nothing makes a peer hang or close.  Data sent to a
\* closed socket is reset sooner or later, so a ping to it eventually fails.
Fairness ==
    /\ WF_vars(Loop)
    /\ SF_vars(Tick)
    /\ WF_vars(RemoteAnswers)
    /\ SF_vars(PingFailed)

FairSpec == Spec /\ Fairness

-----------------------------------------------------------------------------
(* Properties.                                                             *)

\* Every variable keeps its type.
TypeOK ==
    /\ pc \in {"poll", "verdict", "receive", "cancelled"}
    /\ beatAge \in 0..TimeoutAfter /\ pulseAge \in 0..TimeoutAfter
    /\ tryAge \in 0..TimeoutAfter
    /\ stall \in 0..MaxStall
    /\ FirstBeat \in BOOLEAN /\ ping \in BOOLEAN
    /\ PulseAt \in Pulses
    /\ remote \in {"up", "hung", "closed", "reset"}
    /\ pong \in Latencies \cup {NoPong}

\* IsTimeout is never true where TrySendHeartBeat asks: sending a ping resets
\* LastBeatAt, answered or not, so the 120 s timeout decides nothing.
TimeoutUnreachable == pc = "verdict" => ~IsTimeout

\* No loop gives up on a peer that is still there.
CancelsOnlyClosed == pc = "cancelled" => Gone

\* A ping is never tried twice within the cooldown (HeartBeat.cs:76 "Attempts
\* to prevent spam").
NoPingSpam == [][tryAge # 0 /\ tryAge' = 0 => tryAge >= PulseCooldown]_vars

\* The loop keeps pinging a peer, whatever it answers, until it cancels.
PingsGoOn == []<>(pc = "cancelled" \/ tryAge = 0)

\* A peer that closed its connection makes the loop cancel.
NoticesClose == Gone ~> pc = "cancelled"
=============================================================================
