--------------------------- MODULE MCRedisClient ---------------------------
(* An instance of RedisClient for TLC. *)
EXTENDS RedisClient

CONSTANTS main, t1, t2, t3
=============================================================================
