---------------------------- MODULE MCKeepAlive ----------------------------
(* Instances of KeepAlive for TLC: heartbeats and answers that fit into the  *)
(* idle timeout, by one tick or more, and some that do not.                  *)
EXTENDS KeepAlive

Timing(heartbeat, idle, rtt) ==
    [heartbeat |-> heartbeat, idle |-> idle, rtt |-> rtt]
MCTimings == {Timing(1, 3, 1), Timing(2, 4, 1), Timing(2, 3, 0), Timing(2, 4, 2),
              Timing(4, 3, 0)}
=============================================================================
