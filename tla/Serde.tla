------------------------------- MODULE Serde -------------------------------
(***************************************************************************)
(* Saving and loading models (oots_lib/lib/redis_serde.py).                *)
(*                                                                         *)
(* A dictionary is a function on the keys it has; None is null, the text   *)
(* of an empty element and Python's None.  A key of Redis holds nothing    *)
(* (or null), a dictionary, a list around one (the old format), an empty   *)
(* list, or another JSON value.                                            *)
(***************************************************************************)
CONSTANT None

Get(dict, key, default) == IF key \in DOMAIN dict THEN dict[key] ELSE default

\* What a call returned, or the exception it ended in.
Returned(x) == [raised |-> "nothing", value |-> x]
Raised(exception) == [raised |-> exception, value |-> None]
Ok(result) == result.raised = "nothing"

Nothing   == [form |-> "none", data |-> None]
Dict(d)   == [form |-> "dict", data |-> d]
List(d)   == [form |-> "list", data |-> d]
EmptyList == [form |-> "empty", data |-> None]
Other     == [form |-> "other", data |-> None]

(* save_model_to_redis                                                     *)
SaveModel(payload, as_list) == IF as_list THEN List(payload) ELSE Dict(payload)

(* load_model_from_redis of a key that holds c: converted is from_dict of   *)
(* its dictionary; "wrapped" if it is given an error_message, which turns  *)
(* KeyError and TypeError into ValueError.                                 *)
LoadModel(c, converted, wrapped) ==
    CASE c.form \in {"none", "empty"} -> Returned(None)
      [] c.form = "other" -> Raised("ValueError")
      [] OTHER ->
            IF wrapped /\ converted.raised \in {"KeyError", "TypeError"}
            THEN Raised("ValueError") ELSE converted
=============================================================================
