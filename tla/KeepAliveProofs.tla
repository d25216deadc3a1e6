-------------------------- MODULE KeepAliveProofs --------------------------
(***************************************************************************)
(* Theorems about KeepAlive, for every heartbeat, idle timeout and delay   *)
(* of the peer: the dead are dropped in time, the idle only are dropped,   *)
(* and the pongs of a healthy peer keep it.                                *)
(***************************************************************************)
EXTENDS KeepAlive, TLAPS

-----------------------------------------------------------------------------
(* The reader's sleep.                                                     *)

\* Each frame restarts the sleep, and time does not pass its end.
SleepInv ==
    /\ timing \in Timings
    /\ now \in Nat
    /\ heard \in 0..now
    /\ open \in BOOLEAN
    /\ alarm = heard + timing.idle
    /\ open => now <= alarm

\* The sleep of the reader begins with the connection.
LEMMA InitSleeps == Init => SleepInv
BY TimingAssumption DEF Init, SleepInv

\* Every step restarts the sleep or leaves its end ahead.
LEMMA StepSleeps == SleepInv /\ [Next]_keepVars => SleepInv'
<1> SUFFICES ASSUME SleepInv, [Next]_keepVars
             PROVE  SleepInv'
  OBVIOUS
<1> USE TimingAssumption DEF SleepInv
<1>1. CASE Beats
  BY <1>1 DEF Beats
<1>2. CASE PingSent
  BY <1>2 DEF PingSent
<1>3. CASE PongArrives \/ OtherFrame
  BY <1>3 DEF PongArrives, OtherFrame, FrameRead
<1>4. CASE IdleTimeout
  BY <1>4 DEF IdleTimeout
<1>5. CASE \E state \in {"well", "stalled", "gone"} : PeerBecomes(state)
  BY <1>5 DEF PeerBecomes
<1>6. CASE Tick
  BY <1>6 DEF Tick, IdleDue
<1>7. CASE UNCHANGED keepVars
  BY <1>7 DEF keepVars
<1>8. QED
  BY <1>1, <1>2, <1>3, <1>4, <1>5, <1>6, <1>7 DEF Next

\* So it always holds.
LEMMA AlwaysSleeps == Spec => []SleepInv
BY InitSleeps, StepSleeps, PTL DEF Spec

\* A connection that is open past the timeout contradicts it.
LEMMA SleepDrops == SleepInv => ZombieIsDropped
BY TimingAssumption DEF SleepInv, ZombieIsDropped

\* Whoever has not been heard of for idle_timeout is given up.
THEOREM DeadAreDropped == Spec => []ZombieIsDropped
BY AlwaysSleeps, SleepDrops, PTL

\* A connection is given up only at the end of the sleep.
LEMMA StepDropsIdle ==
    SleepInv /\ [Next]_keepVars => [open /\ ~open' => now - heard >= timing.idle]_keepVars
<1> SUFFICES ASSUME SleepInv, [Next]_keepVars, open, ~open'
             PROVE  now - heard >= timing.idle
  OBVIOUS
<1>1. CASE IdleTimeout
  BY <1>1, TimingAssumption DEF IdleTimeout, IdleDue, SleepInv
<1>2. CASE ~IdleTimeout
  BY <1>2 DEF Next, keepVars, Beats, PingSent, PongArrives, OtherFrame, FrameRead,
              PeerBecomes, Tick
<1>3. QED
  BY <1>1, <1>2

\* Nobody else is given up for idleness.
THEOREM IdleAreDropped == Spec => OnlyIdleIsDropped
BY AlwaysSleeps, StepDropsIdle, PTL DEF Spec, OnlyIdleIsDropped

-----------------------------------------------------------------------------
(* The heartbeat of a peer that is well.                                   *)

\* When the latest ping was, or is being, sent.
LastBeat == beat - timing.heartbeat

BeatType ==
    /\ beat \in Nat
    /\ sending \in BOOLEAN
    /\ asked \in Seq(Nat)
    /\ fault \in BOOLEAN
    /\ ~fault => peer = "well"

\* The ping after those in asked: the one that waits for the socket, or the next.
NextPing == IF sending THEN LastBeat ELSE beat

\* Pings follow each other at the heartbeat's distance, the oldest that is not
\* answered is not yet late, and the last frame came no earlier than one
\* heartbeat before it, or before the next ping if all are answered.
Paced ==
    /\ LastBeat <= now
    /\ now <= NextPing
    /\ \A i \in 1..Len(asked) :
         /\ asked[i] <= now
         /\ asked[i] + timing.heartbeat =
              IF i = Len(asked) THEN NextPing ELSE asked[i + 1]
    /\ asked # <<>> => now <= asked[1] + timing.rtt
    /\ heard + timing.heartbeat >= IF asked = <<>> THEN NextPing ELSE asked[1]

Fits == timing.heartbeat + timing.rtt < timing.idle

\* While nothing has gone wrong, the connection is open and its pings are paced.
KeepInv ==
    /\ SleepInv
    /\ BeatType
    /\ Fits /\ ~fault => open /\ Paced

\* The pacing invariant holds at the start.
LEMMA InitKeeps == Init => KeepInv
<1> SUFFICES ASSUME Init
             PROVE  KeepInv
  OBVIOUS
<1>1. timing.heartbeat \in Nat \ {0} /\ timing.rtt \in Nat
  BY TimingAssumption DEF Init
<1>2. SleepInv
  BY InitSleeps
<1>3. BeatType
  <2>1. <<>> \in Seq(Nat)
    OBVIOUS
  <2>2. QED
    BY <1>1, <2>1 DEF Init, BeatType
<1>4. open /\ Paced
  BY <1>1 DEF Init, Paced, NextPing, LastBeat
<1>5. QED
  BY <1>2, <1>3, <1>4 DEF KeepInv

\* Every step preserves the types of the heartbeat.
LEMMA StepBeatType == KeepInv /\ [Next]_keepVars => BeatType'
<1> SUFFICES ASSUME KeepInv, [Next]_keepVars
             PROVE  BeatType'
  OBVIOUS
<1>1. timing.heartbeat \in Nat \ {0} /\ now \in Nat
  BY TimingAssumption DEF KeepInv, SleepInv
<1> USE DEF KeepInv, BeatType
<1>2. CASE Beats
  BY <1>1, <1>2 DEF Beats
<1>3. CASE PingSent
  <2>1. Append(asked, now) \in Seq(Nat)
    BY <1>1
  <2>2. QED
    BY <1>3, <2>1 DEF PingSent
<1>4. CASE PongArrives
  <2>1. asked # <<>> => Tail(asked) \in Seq(Nat)
    OBVIOUS
  <2>2. QED
    BY <1>4, <2>1 DEF PongArrives
<1>5. CASE OtherFrame \/ IdleTimeout \/ Tick
  BY <1>5 DEF OtherFrame, IdleTimeout, Tick
<1>6. CASE \E state \in {"well", "stalled", "gone"} : PeerBecomes(state)
  BY <1>6 DEF PeerBecomes
<1>7. CASE UNCHANGED keepVars
  BY <1>7 DEF keepVars
<1>8. QED
  BY <1>2, <1>3, <1>4, <1>5, <1>6, <1>7 DEF Next

\* The sleep of a paced connection has not ended.
LEMMA PacedIsNotIdle ==
    ASSUME KeepInv, Fits, ~fault
    PROVE  now < alarm
<1>1. /\ now \in Nat /\ heard \in Nat /\ beat \in Nat
      /\ timing.heartbeat \in Nat /\ timing.idle \in Nat /\ timing.rtt \in Nat
  BY TimingAssumption DEF KeepInv, SleepInv, BeatType
<1>2. asked # <<>> => asked[1] \in Nat
  BY DEF KeepInv, BeatType
<1>3. CASE asked = <<>>
  BY <1>1, <1>3 DEF KeepInv, SleepInv, Paced, Fits, NextPing, LastBeat
<1>4. CASE asked # <<>>
  BY <1>1, <1>2, <1>4 DEF KeepInv, SleepInv, Paced, Fits
<1>5. QED
  BY <1>3, <1>4

\* Every step preserves that pings are paced and answered.
LEMMA StepPaced ==
    ASSUME KeepInv, Fits, ~fault, ~fault', Next
    PROVE  open' /\ Paced'
<1>1. /\ now \in Nat /\ heard \in 0..now /\ beat \in Nat /\ asked \in Seq(Nat)
      /\ timing.heartbeat \in Nat \ {0} /\ timing.idle \in Nat /\ timing.rtt \in Nat
  BY TimingAssumption DEF KeepInv, SleepInv, BeatType
<1>2. open /\ Paced /\ peer = "well" /\ sending \in BOOLEAN
  BY DEF KeepInv, BeatType
<1> DEFINE Follows(i, next) == asked[i] <= now /\ asked[i] + timing.heartbeat = next
<1>a. LastBeat <= now /\ now <= NextPing
  BY <1>2 DEF Paced
<1>b. \A i \in 1..Len(asked) :
        Follows(i, IF i = Len(asked) THEN NextPing ELSE asked[i + 1])
  BY <1>2 DEF Paced
<1>c. /\ asked # <<>> => now <= asked[1] + timing.rtt
      /\ heard + timing.heartbeat >= IF asked = <<>> THEN NextPing ELSE asked[1]
  BY <1>2 DEF Paced
<1>3. CASE Beats
  <2>1. beat = now /\ ~sending
    BY <1>1, <1>2, <1>3 DEF Beats, BeatDue, Paced, NextPing
  <2>2. NextPing' = NextPing /\ LastBeat' = now
    BY <1>1, <1>3, <2>1 DEF Beats, NextPing, LastBeat
  <2>3. QED
    BY <1>1, <1>2, <1>3, <2>1, <2>2 DEF Beats, Paced, NextPing
<1>4. CASE PingSent
  <2>1. /\ asked' = Append(asked, now) /\ sending /\ ~sending'
        /\ UNCHANGED <<timing, now, open, alarm, beat, peer, heard, fault>>
    BY <1>2, <1>4 DEF PingSent
  <2>2. NextPing = now /\ NextPing' = beat /\ beat = now + timing.heartbeat
    <3>1. NextPing = LastBeat
      BY <2>1 DEF NextPing
    <3>2. NextPing' = beat
      BY <2>1 DEF NextPing
    <3>3. QED
      BY <1>1, <1>a, <3>1, <3>2 DEF LastBeat
  <2>3. ASSUME NEW i \in 1..Len(asked')
        PROVE  /\ asked'[i] <= now
               /\ asked'[i] + timing.heartbeat =
                    IF i = Len(asked') THEN beat ELSE asked'[i + 1]
    <3>1. CASE i = Len(asked) + 1
      BY <1>1, <2>1, <2>2, <3>1
    <3>2. CASE i \in 1..Len(asked)
      <4>1. asked'[i] = asked[i] /\ i # Len(asked')
        BY <1>1, <2>1, <3>2
      <4>2. asked'[i + 1] = IF i = Len(asked) THEN now ELSE asked[i + 1]
        BY <1>1, <2>1, <3>2
      <4>3. QED
        BY <1>b, <2>2, <3>2, <4>1, <4>2
    <3>3. QED
      BY <1>1, <2>1, <2>3, <3>1, <3>2
  <2>4. asked'[1] = IF asked = <<>> THEN now ELSE asked[1]
    BY <1>1, <2>1
  <2>5. asked' # <<>> /\ (asked # <<>> => asked[1] \in Nat)
    BY <1>1, <2>1
  <2>6. now <= asked'[1] + timing.rtt /\ heard + timing.heartbeat >= asked'[1]
    BY <1>1, <1>c, <2>2, <2>4, <2>5
  <2>7. LastBeat' <= now' /\ now' <= NextPing'
    BY <1>1, <2>1, <2>2 DEF LastBeat
  <2>8. QED
    <3>1. UNCHANGED <<now, heard, timing>> /\ open'
      BY <1>2, <2>1
    <3>2. QED
      BY <2>2, <2>3, <2>5, <2>6, <2>7, <3>1 DEF Paced
<1>5. CASE PongArrives
  <2>1. /\ asked' = Tail(asked) /\ heard' = now /\ asked # <<>>
        /\ UNCHANGED <<timing, now, open, beat, sending, peer, fault>>
    BY <1>5 DEF PongArrives, FrameRead
  <2>2. NextPing' = NextPing /\ LastBeat' = LastBeat
    BY <2>1 DEF NextPing, LastBeat
  <2>3. /\ asked' \in Seq(Nat)
        /\ Len(asked') = Len(asked) - 1
        /\ \A i \in 1..Len(asked') : asked'[i] = asked[i + 1]
    BY <1>1, <2>1
  <2>4. \A i \in 1..Len(asked') :
          /\ asked'[i] <= now
          /\ asked'[i] + timing.heartbeat =
               IF i = Len(asked') THEN NextPing ELSE asked'[i + 1]
    <3>1. TAKE i \in 1..Len(asked')
    <3>2. i + 1 \in 1..Len(asked) /\ asked'[i] = asked[i + 1]
      BY <1>1, <2>3
    <3>3. i # Len(asked') => asked'[i + 1] = asked[(i + 1) + 1]
      <4>1. i # Len(asked') => i + 1 \in 1..Len(asked')
        BY <1>1, <2>3
      <4>2. QED
        BY <2>3, <4>1
    <3>4. i = Len(asked') <=> i + 1 = Len(asked)
      BY <1>1, <2>3
    <3>5. Follows(i + 1, IF i + 1 = Len(asked) THEN NextPing ELSE asked[(i + 1) + 1])
      BY <1>b, <3>2
    <3>6. QED
      BY <3>2, <3>3, <3>4, <3>5
  <2>5. 1 \in 1..Len(asked) /\ asked[1] \in Nat
    BY <1>1, <2>1
  <2>6. asked[1] <= now /\ now <= asked[1] + timing.rtt
    BY <1>b, <1>c, <2>1, <2>5
  <2>7. asked' = <<>> => asked[1] + timing.heartbeat = NextPing
    <3>1. asked' = <<>> => Len(asked) = 1
      BY <1>1, <2>3
    <3>2. Follows(1, IF 1 = Len(asked) THEN NextPing ELSE asked[1 + 1])
      BY <1>b, <2>5
    <3>3. QED
      BY <3>1, <3>2
  <2>8. ASSUME asked' # <<>>
        PROVE  asked'[1] \in Nat /\ asked[1] + timing.heartbeat = asked'[1]
    <3>1. Len(asked') \in Nat /\ Len(asked') # 0
      BY <2>3, <2>8
    <3>2. 1 \in 1..Len(asked') /\ Len(asked) # 1
      BY <1>1, <2>3, <3>1
    <3>3. asked'[1] = asked[1 + 1] /\ asked'[1] \in Nat
      BY <2>3, <3>2
    <3>4. Follows(1, IF 1 = Len(asked) THEN NextPing ELSE asked[1 + 1])
      BY <1>b, <2>5
    <3>5. QED
      BY <3>2, <3>3, <3>4
  <2>9. ASSUME asked' # <<>>
        PROVE  now' <= asked'[1] + timing'.rtt
    <3>1. now' = now /\ timing' = timing
      BY <2>1
    <3>2. now <= (asked[1] + timing.heartbeat) + timing.rtt
      BY <1>1, <2>5, <2>6
    <3>3. QED
      BY <2>8, <2>9, <3>1, <3>2
  <2>10. heard' + timing'.heartbeat >= IF asked' = <<>> THEN NextPing' ELSE asked'[1]
    <3>1. heard' = now /\ timing' = timing
      BY <2>1
    <3>2. CASE asked' = <<>>
      <4>1. NextPing = asked[1] + timing.heartbeat
        BY <2>7, <3>2
      <4>2. QED
        BY <1>1, <2>2, <2>5, <2>6, <3>1, <3>2, <4>1
    <3>3. CASE asked' # <<>>
      BY <1>1, <2>5, <2>6, <2>8, <3>1, <3>3
    <3>4. QED
      BY <3>2, <3>3
  <2>11. QED
    BY <1>2, <1>a, <2>1, <2>2, <2>4, <2>9, <2>10 DEF Paced
<1>6. CASE OtherFrame
  <2>1. heard' = now /\ UNCHANGED <<timing, now, open, beat, sending, asked, peer, fault>>
    BY <1>6 DEF OtherFrame, FrameRead
  <2>2. NextPing <= now + timing.heartbeat /\ (asked # <<>> => asked[1] <= now)
    BY <1>1, <1>2 DEF Paced, NextPing, LastBeat
  <2>3. NextPing' = NextPing /\ LastBeat' = LastBeat
    BY <2>1 DEF NextPing, LastBeat
  <2>4. asked # <<>> => asked[1] \in Nat
    BY <1>1
  <2>5. heard' + timing.heartbeat >= IF asked = <<>> THEN NextPing ELSE asked[1]
    <3>1. CASE asked = <<>>
      BY <2>1, <2>2, <3>1
    <3>2. CASE asked # <<>>
      BY <1>1, <2>1, <2>2, <2>4, <3>2
    <3>3. QED
      BY <3>1, <3>2
  <2>6. QED
    BY <1>2, <1>a, <1>b, <1>c, <2>1, <2>3, <2>5 DEF Paced
<1>7. CASE IdleTimeout
  BY <1>1, <1>7, PacedIsNotIdle DEF IdleTimeout, IdleDue, KeepInv, SleepInv
<1>8. CASE \E state \in {"well", "stalled", "gone"} : PeerBecomes(state)
  BY <1>8 DEF PeerBecomes
<1>9. CASE Tick
  <2>1. now' = now + 1 /\ UNCHANGED <<timing, open, beat, sending, asked, peer, heard, fault>>
    BY <1>9 DEF Tick
  <2>2. ~sending /\ now < beat
    BY <1>1, <1>2, <1>9 DEF Tick, BeatDue
  <2>3. asked # <<>> => asked[1] \in Nat /\ now < asked[1] + timing.rtt
    BY <1>1, <1>2, <1>9 DEF Tick, PongDue
  <2>4. NextPing' = NextPing /\ LastBeat' = LastBeat
    BY <2>1 DEF NextPing, LastBeat
  <2>5. NextPing = beat /\ LastBeat \in Int
    BY <1>1, <2>2 DEF NextPing, LastBeat
  <2>6. \A i \in 1..Len(asked) :
          /\ asked[i] <= now'
          /\ asked[i] + timing.heartbeat =
               IF i = Len(asked) THEN NextPing ELSE asked[i + 1]
    <3>1. \A i \in 1..Len(asked) : asked[i] \in Nat
      BY <1>1
    <3>2. QED
      BY <1>1, <1>b, <2>1, <3>1
  <2>7. LastBeat <= now' /\ now' <= NextPing
    BY <1>1, <1>a, <2>1, <2>2, <2>5
  <2>8. asked # <<>> => now' <= asked[1] + timing.rtt
    BY <1>1, <2>1, <2>3
  <2>9. QED
    BY <1>2, <1>c, <2>1, <2>4, <2>6, <2>7, <2>8 DEF Paced
<1>10. QED
  BY <1>3, <1>4, <1>5, <1>6, <1>7, <1>8, <1>9 DEF Next

\* So every step preserves the invariant.
LEMMA StepKeeps == KeepInv /\ [Next]_keepVars => KeepInv'
<1> SUFFICES ASSUME KeepInv, [Next]_keepVars
             PROVE  KeepInv'
  OBVIOUS
<1>1. SleepInv' /\ BeatType'
  BY StepSleeps, StepBeatType DEF KeepInv
<1>2. timing' = timing /\ (~fault' => ~fault)
  BY DEF Next, keepVars, Beats, PingSent, PongArrives, OtherFrame, FrameRead,
         IdleTimeout, PeerBecomes, Tick
<1>3. ASSUME Fits', ~fault'
      PROVE  open' /\ Paced'
  <2>1. Fits /\ ~fault
    BY <1>2, <1>3 DEF Fits
  <2>2. CASE Next
    BY <1>3, <2>1, <2>2, StepPaced
  <2>3. CASE UNCHANGED keepVars
    BY <2>1, <2>3 DEF keepVars, KeepInv, Paced, NextPing, LastBeat
  <2>4. QED
    BY <2>2, <2>3
<1>4. QED
  BY <1>1, <1>3 DEF KeepInv

\* While nothing has gone wrong, pacing keeps the connection open.
LEMMA KeepsHealthy == KeepInv => HealthyPeerKept
BY DEF KeepInv, HealthyPeerKept, Fits

\* A quiet peer that is well is kept, whenever heartbeat and answer fit into the
\* idle timeout.
THEOREM HealthyAreKept == Spec => []HealthyPeerKept
<1>1. Spec => []KeepInv
  BY InitKeeps, StepKeeps, PTL DEF Spec
<1>2. QED
  BY <1>1, KeepsHealthy, PTL
=============================================================================
