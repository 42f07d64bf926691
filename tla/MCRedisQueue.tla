---------------------------- MODULE MCRedisQueue ----------------------------
(* Instances of RedisQueue for TLC. *)
EXTENDS RedisQueue

CONSTANTS m1, m2, c1, c2
=============================================================================
