--------------------------- MODULE MCRedisValues ---------------------------
(* Instances of RedisValues for TLC. *)
EXTENDS RedisValues

CONSTANTS plain, app, app2, d1

Preview == Filled(<<"oots", "message", "request", "preview">>, <<"c1">>)

\* Two applications have a prefix, of which one begins as the other does;
\* the third has none.  The first also writes a key prefixed already.
ThreePrefixes == plain :> <<>> @@ app :> <<"", "app", "">> @@ app2 :> <<"app2">>
NoPrefix == <<>>

MCNames ==
    plain :> {Preview} @@
    app   :> {Preview, <<"app">> \o Preview} @@
    app2  :> {<<"app">>}
=============================================================================
