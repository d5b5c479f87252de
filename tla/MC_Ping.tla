------------------------------- MODULE MC_Ping -------------------------------
(* Model-checking instance of Ping: two pings, the default token 0, two    *)
(* round-trip times, one token collision and one signal.                  *)
EXTENDS Ping

MC_COUNT == 2
MC_TOKEN0 == 0
MC_DIFFS == {1, 3}
MC_MAX_COLLISIONS == 1
MC_MAX_SIGNALS == 1
=============================================================================
