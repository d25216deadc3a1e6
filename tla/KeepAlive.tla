----------------------------- MODULE KeepAlive -----------------------------
(***************************************************************************)
(* How a connection is kept or given up: the heartbeat of the writer task  *)
(* and the idle timer of the reader task (connection_loop,                 *)
(* src/src/server.rs), against a peer that answers pings, that stops       *)
(* reading, or that vanishes.  What else ends a session is Hub's business. *)
(*                                                                         *)
(* Time passes in ticks.  The runtime takes what is due at an instant      *)
(* before the next one, and what is due at the same instant in any order.  *)
(***************************************************************************)
EXTENDS Integers, Sequences

CONSTANTS
    Timings,   \* [heartbeat, idle, rtt]: heartbeat_interval, idle_timeout and
               \* how long a healthy peer takes to answer a ping
    MaxNow     \* bound on the time

ASSUME TimingAssumption ==
    /\ Timings \subseteq [heartbeat : Nat \ {0}, idle : Nat \ {0}, rtt : Nat]
    /\ MaxNow \in Nat

VARIABLES
    timing,    \* the one of Timings that holds
    now,
    open,      \* the session is open: the reader runs
    alarm,     \* when the reader's sleep ends
    beat,      \* when the heartbeat's next tick is due
    sending,   \* the writer waits for the socket to take a ping
    asked,     \* when the pings that are not answered were sent
    peer,      \* "well", "stalled" (reads nothing) or "gone"
    heard,     \* history: when the last frame came in
    fault      \* history: the peer has stalled or vanished

keepVars == <<timing, now, open, alarm, beat, sending, asked, peer, heard, fault>>

\* The first tick of an interval is immediate and consumed before the loop.
Init ==
    /\ timing \in Timings
    /\ now = 0
    /\ open = TRUE
    /\ alarm = timing.idle
    /\ beat = timing.heartbeat
    /\ sending = FALSE
    /\ asked = <<>>
    /\ peer = "well"
    /\ heard = 0
    /\ fault = FALSE

-----------------------------------------------------------------------------
(* The writer.                                                             *)

\* A tick that was missed is made up for at once (MissedTickBehavior::Burst).
BeatDue == open /\ ~sending /\ beat <= now

Beats ==
    /\ BeatDue
    /\ sending' = TRUE
    /\ beat' = beat + timing.heartbeat
    /\ UNCHANGED <<timing, now, open, alarm, asked, peer, heard, fault>>

\* The socket takes the ping.  One whose peer is gone may do so until its
\* buffer is full.
\* Mutant PingRestartsSleep: what is sent counts as activity.
PingRestartsSleep ==
    /\ open /\ sending
    /\ peer # "stalled"
    /\ sending' = FALSE
    /\ asked' = IF peer = "well" THEN Append(asked, now) ELSE asked
    /\ alarm' = now + timing.idle
    /\ UNCHANGED <<timing, now, open, beat, peer, heard, fault>>
PingSent ==
    /\ open /\ sending
    /\ peer # "stalled"
    /\ sending' = FALSE
    /\ asked' = IF peer = "well" THEN Append(asked, now) ELSE asked
    /\ UNCHANGED <<timing, now, open, alarm, beat, peer, heard, fault>>

-----------------------------------------------------------------------------
(* The reader: each turn of its loop makes a new sleep.                    *)

\* Mutant SleepOnce: the sleep is made before the loop.
SleepOnce ==
    /\ open
    /\ heard' = now
    /\ UNCHANGED alarm
FrameRead ==
    /\ open
    /\ heard' = now
    /\ alarm' = now + timing.idle

PongArrives ==
    /\ FrameRead
    /\ asked # <<>>
    /\ peer # "gone"
    /\ asked' = Tail(asked)
    /\ UNCHANGED <<timing, now, open, beat, sending, peer, fault>>

\* Any other frame, by which a peer that reads nothing is kept as well.
OtherFrame ==
    /\ FrameRead
    /\ peer # "gone"
    /\ UNCHANGED <<timing, now, open, beat, sending, asked, peer, fault>>

\* The sleep wins the select; connection_loop then aborts the writer.
\* Mutant SleepWinsEarly: the deadline is rounded down.
IdleDue == open /\ alarm <= now
SleepWinsEarly ==
    /\ open /\ alarm <= now + 1
    /\ open' = FALSE
    /\ sending' = FALSE
    /\ UNCHANGED <<timing, now, alarm, beat, asked, peer, heard, fault>>
IdleTimeout ==
    /\ IdleDue
    /\ open' = FALSE
    /\ sending' = FALSE
    /\ UNCHANGED <<timing, now, alarm, beat, asked, peer, heard, fault>>

-----------------------------------------------------------------------------
(* The peer and time.                                                      *)

PeerBecomes(state) ==
    /\ open
    /\ peer # "gone"
    /\ peer # state
    /\ peer' = state
    /\ fault' = TRUE
    /\ UNCHANGED <<timing, now, open, alarm, beat, sending, asked, heard>>

PongDue == open /\ peer = "well" /\ asked # <<>> /\ Head(asked) + timing.rtt <= now

Tick ==
    /\ now < MaxNow
    /\ ~BeatDue
    /\ ~IdleDue
    /\ ~PongDue
    /\ ~(open /\ sending /\ peer = "well")
    /\ now' = now + 1
    /\ UNCHANGED <<timing, open, alarm, beat, sending, asked, peer, heard, fault>>

Next ==
    \/ Beats \/ PingSent
    \/ PongArrives \/ OtherFrame \/ IdleTimeout
    \/ \E state \in {"well", "stalled", "gone"} : PeerBecomes(state)
    \/ Tick

Spec == Init /\ [][Next]_keepVars

-----------------------------------------------------------------------------
(* Properties.                                                             *)

\* A healthy peer that never sends a frame of its own is kept open by its pongs,
\* if a heartbeat and its answer fit into the idle timeout: with the defaults,
\* 20 and 60 seconds, answers may take up to 40.
HealthyPeerKept ==
    timing.heartbeat + timing.rtt < timing.idle /\ ~fault => open

\* A peer that vanishes is given up within idle_timeout of its last frame,
\* although the heartbeat goes on being sent to it (README.md:12, zombies are
\* cleaned up).
ZombieIsDropped ==
    open => now - heard <= timing.idle

\* Nobody is given up for idleness who was heard of within idle_timeout, however
\* long the socket has not taken a ping.
OnlyIdleIsDropped == [][open /\ ~open' => now - heard >= timing.idle]_keepVars
=============================================================================
