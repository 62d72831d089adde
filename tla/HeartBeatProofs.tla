--------------------------- MODULE HeartBeatProofs --------------------------
(***************************************************************************)
(* Theorems about HeartBeat, for every timing whose stalls are shorter     *)
(* than a timeout lasts beyond the ping interval (StallAssumption).        *)
(***************************************************************************)
EXTENDS HeartBeat, TLAPS

\* The two clocks never differ: SetLastBeat is their only assignment.
SameClock == pulseAge = beatAge

\* Between the sample of "now" and the question IsTimeout, only the stall of
\* that moment can have been added to an interval that had not run out.
FreshVerdict ==
    pc = "verdict" => \/ beatAge < PulseAt + stall
                      \/ beatAge < PulseCooldown + stall

\* The server's loop tries a ping exactly when it resets the clocks.
TriesAreBeats == IsServer /\ pc # "cancelled" => tryAge = beatAge

IInv ==
    /\ TypeOK
    /\ SameClock
    /\ FreshVerdict
    /\ TriesAreBeats
    /\ CancelsOnlyClosed

LEMMA InitIInv == Init => IInv
<1> SUFFICES ASSUME Init PROVE IInv
  OBVIOUS
<1>1. TypeOK
  <2>1. 0 \in 0..TimeoutAfter /\ 0 \in 0..MaxStall /\ FirstPulse \in Pulses
    BY TimesAssumption
  <2> QED
    BY <2>1 DEF Init, TypeOK
<1>2. SameClock /\ FreshVerdict /\ TriesAreBeats /\ CancelsOnlyClosed
  BY DEF Init, SameClock, FreshVerdict, TriesAreBeats, CancelsOnlyClosed
<1> QED
  BY <1>1, <1>2 DEF IInv

\* Where the invariant holds, the timeout decides nothing.
LEMMA NoTimeout == IInv => TimeoutUnreachable
<1> SUFFICES ASSUME IInv, pc = "verdict" PROVE ~IsTimeout
  BY DEF TimeoutUnreachable
<1>1. stall <= MaxStall /\ PulseAt \in Pulses /\ stall \in Int /\ MaxStall \in Int
  BY TimesAssumption DEF IInv, TypeOK
<1>2. PulseAt + MaxStall <= TimeoutAfter /\ PulseCooldown + MaxStall <= TimeoutAfter
  BY <1>1, StallAssumption
<1>3. beatAge < PulseAt + stall \/ beatAge < PulseCooldown + stall
  BY DEF IInv, FreshVerdict
<1>4. beatAge < TimeoutAfter
  BY <1>1, <1>2, <1>3, TimesAssumption DEF IInv, TypeOK
<1> QED
  BY <1>4, TimesAssumption DEF IsTimeout, IInv, TypeOK

\* Every step of the loop, of the remote process and of the clock preserves
\* the invariant.
LEMMA NextIInv == IInv /\ [Next]_vars => IInv'
<1> SUFFICES ASSUME IInv, [Next]_vars PROVE IInv'
  OBVIOUS
<1> USE TimesAssumption, IsServerAssumption
        DEF IInv, TypeOK, SameClock, FreshVerdict, TriesAreBeats, CancelsOnlyClosed, Gone
<1>1. CASE PingSent
  <2>1. pc' = "receive" /\ beatAge' = 0 /\ pulseAge' = 0 /\ tryAge' = 0 /\ stall' = 0
    BY <1>1 DEF PingSent, SetLastBeat, React, Cancels
  <2>2. FirstBeat' \in BOOLEAN /\ ping' \in BOOLEAN
    BY <1>1 DEF PingSent
  <2>3. PulseAt' = PulseAt /\ remote' = remote /\ pong' = pong
    BY <1>1 DEF PingSent
  <2> QED
    BY <2>1, <2>2, <2>3
<1>2. CASE PingFailed
  <2>1. /\ pc' = IF IsServer THEN "cancelled" ELSE "receive"
        /\ tryAge' = 0 /\ stall' = 0 /\ remote' = "reset"
    BY <1>2 DEF PingFailed, React, Cancels
  <2>2. \/ beatAge' = 0 /\ pulseAge' = 0
        \/ beatAge' = beatAge /\ pulseAge' = pulseAge
    BY <1>2 DEF PingFailed, SetLastBeat
  <2>3. FirstBeat' \in BOOLEAN /\ ping' = ping /\ PulseAt' = PulseAt /\ pong' = pong
    BY <1>2 DEF PingFailed
  <2> QED
    BY <2>1, <2>2, <2>3
<1>3. CASE NotDue
  BY <1>3 DEF NotDue, Due
<1>4. CASE Verdict
  <2>1. ~IsTimeout
    BY <1>4, NoTimeout DEF Verdict, TimeoutUnreachable
  <2> QED
    BY <1>4, <2>1 DEF Verdict, React, Cancels, IsGracefulShutdown
<1>5. CASE Receive
  BY <1>5 DEF Receive, PulseFor, NoPong
<1>6. CASE RemoteAnswers
  BY <1>6 DEF RemoteAnswers
<1>7. CASE RemoteHangs
  BY <1>7 DEF RemoteHangs
<1>8. CASE RemoteCloses
  BY <1>8 DEF RemoteCloses
<1>9. CASE Tick
  BY <1>9 DEF Tick, Older
<1>10. CASE UNCHANGED vars
  BY <1>10 DEF vars
<1> QED
  BY <1>1, <1>2, <1>3, <1>4, <1>5, <1>6, <1>7, <1>8, <1>9, <1>10 DEF Next, Loop

\* The invariant holds in every reachable state.
THEOREM Invariance == Spec => []IInv
  BY InitIInv, NextIInv, PTL DEF Spec

\* The variables of HeartBeat.cs keep their types, for every timing.
THEOREM TypeCorrect == Spec => []TypeOK
<1>1. IInv => TypeOK
  BY DEF IInv
<1> QED
  BY Invariance, <1>1, PTL

\* HeartBeat.IsTimeout is dead code on a thread that is not stalled for 110 s.
THEOREM TimeoutNeverReached == Spec => []TimeoutUnreachable
  BY Invariance, NoTimeout, PTL

\* HandleClientConnected and HandleConnected cancel no peer that is there.
THEOREM NoFalseAlarm == Spec => []CancelsOnlyClosed
<1>1. IInv => CancelsOnlyClosed
  BY DEF IInv
<1> QED
  BY Invariance, <1>1, PTL

\* The server's loop spaces its pings by the cooldown, also when they fail.
THEOREM ServerSpacesPings ==
  ASSUME IsServer
  PROVE  Spec => NoPingSpam
<1>1. IInv /\ [Next]_vars => [tryAge # 0 /\ tryAge' = 0 => tryAge >= PulseCooldown]_vars
  <2> SUFFICES ASSUME IInv, Next, tryAge # 0, tryAge' = 0
               PROVE  tryAge >= PulseCooldown
    OBVIOUS
  <2> USE TimesAssumption DEF IInv, TypeOK, SameClock, TriesAreBeats
  <2>1. CASE PingSent \/ PingFailed
    BY <2>1 DEF PingSent, PingFailed, Due
  <2>2. CASE Tick
    BY <2>2 DEF Tick, Older
  <2>3. CASE NotDue \/ Verdict \/ Receive \/ RemoteAnswers \/ RemoteHangs \/ RemoteCloses
    BY <2>3 DEF NotDue, Verdict, Receive, RemoteAnswers, RemoteHangs, RemoteCloses
  <2> QED
    BY <2>1, <2>2, <2>3 DEF Next, Loop
<1> QED
  BY Invariance, <1>1, PTL DEF Spec, NoPingSpam
=============================================================================
