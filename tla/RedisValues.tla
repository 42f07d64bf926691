---------------------------- MODULE RedisValues ----------------------------
(***************************************************************************)
(* The values of UseRedisAsync (oots_lib/lib/UseRedis.py): applications    *)
(* that share a Redis server write and read keys as JSON, as raw bytes and *)
(* as flags, each through a client that puts its prefix before every key.  *)
(*                                                                         *)
(* A key is the sequence of its parts between colons, as is a prefix: the  *)
(* text "oots:x" is <<"oots", "x">> and ":app:" is <<"", "app", "">>.      *)
(* Prefixes have no whitespace around them, which strip() would remove.    *)
(* Stored bytes are the JSON value they encode, or Garbled (text that is   *)
(* no JSON), or Binary (not even UTF-8, as a PDF).  The bytes null are     *)
(* Null; None is what Python makes of them, and of a missing key.          *)
(***************************************************************************)
EXTENDS Serde, SequencesExt, Integers, FiniteSets

CONSTANTS
    Apps,
    GivenPrefix,    \* redis_prefix of each application, <<>> if none
    RedisPrefix,    \* the REDIS_PREFIX environment variable
    Names,          \* the keys each application uses, as it writes them
    Documents,      \* JSON dictionaries, lists and texts
    Absent, Null, Garbled, Binary

Json  == BOOLEAN \cup Documents \cup {Null}
Bytes == Json \cup {Garbled, Binary}

(* _normalize_prefix: colons at either end are dropped.                    *)
NormalizePrefix(p) ==
    LET leading  == {i \in DOMAIN p : \A j \in 1..i : p[j] = ""}
        trailing == {i \in DOMAIN p : \A j \in i..Len(p) : p[j] = ""}
    IN  SubSeq(p, Cardinality(leading) + 1, Len(p) - Cardinality(trailing))

Prefix(a) ==
    NormalizePrefix(IF GivenPrefix[a] # <<>> THEN GivenPrefix[a] ELSE RedisPrefix)

(* _prefixed_key: a key that starts with "prefix:" is left alone.          *)
PrefixedKey_Always(p, k) == p \o k
PrefixedKey(p, k) == IF p = <<>> \/ IsStrictPrefix(p, k) THEN k ELSE p \o k

(* The keys of a message or an evidence type are filled-in templates.       *)
Templates ==
    {<<"oots", "message", "response", k>> : k \in {"evidence", "edm", "exp"}}
    \cup {<<"oots", "message", "request", k>> :
              k \in {"edm", "as4", "preview", "person", "permit"}}
    \cup {<<"oots", "evidencetype">>}
Filled(template, id) == template \o id

Key(a, n) == PrefixedKey(Prefix(a), n)
ServerKeys == UNION {{Key(a, n) : n \in Names[a]} : a \in Apps}

(* An application is told apart from another one by its prefix: no key of  *)
(* one of the two begins with the prefix of the other.                     *)
Apart(a, b) ==
    \A n \in Names[b] : ~IsPrefix(Prefix(a), Key(b, n))

ASSUME RedisValuesAssumption ==
    /\ GivenPrefix \in [Apps -> Seq(STRING)] /\ RedisPrefix \in Seq(STRING)
    /\ DOMAIN Names = Apps
    /\ \A a \in Apps : \A n \in Names[a] : n \in Seq(STRING) /\ n # <<>>
    /\ {Absent, None} \cap Bytes = {} /\ Absent # None
    /\ \A a, b \in Apps : Prefix(a) # Prefix(b) => Apart(a, b) \/ Apart(b, a)

VARIABLES
    server,     \* the bytes under each key of the server
    reply,      \* the bytes the server returned to the last reading call
    asked,      \* the default that call was given, or None
    result      \* what it returned or raised

vars == <<server, reply, asked, result>>

TypeOK ==
    /\ server \in [ServerKeys -> Bytes \cup {Absent}]
    /\ reply \in Bytes \cup {Absent}
    /\ asked \in BOOLEAN \cup {None}
    /\ result.value \in Bytes \cup {None}

Init ==
    /\ server = [k \in ServerKeys |-> Absent]
    /\ reply = Absent /\ asked = None /\ result = Returned(None)

-----------------------------------------------------------------------------
Set(a, n, bytes) ==
    /\ server' = [server EXCEPT ![Key(a, n)] = bytes]
    /\ UNCHANGED <<reply, asked, result>>

SaveToRedis(a, n) == \E v \in Documents : Set(a, n, v)

\* None and what is no bytes object is refused with ValueError.
SaveRawToRedis(a, n) == \E v \in Bytes : Set(a, n, v)

SetFlag(a, n) == \E v \in BOOLEAN \cup {Null} : Set(a, n, v)

(* DELETE, or the TTL that every SET carries.                              *)
DeleteFromRedis(a, n) == Set(a, n, Absent)

Stored(a, n) == server[Key(a, n)]

Reads(a, n, default, outcome) ==
    /\ reply' = Stored(a, n)
    /\ asked' = default
    /\ result' = outcome
    /\ UNCHANGED server

(* Only json.JSONDecodeError is caught; null is None as a missing key is.  *)
Parsed(bytes) ==
    CASE bytes \in Json \ {Null} -> Returned(bytes)
      [] bytes \in {Absent, Null} -> Returned(None)
      [] bytes = Garbled  -> Raised("RedisDataError")
      [] bytes = Binary   -> Raised("UnicodeDecodeError")
GetFromRedis(a, n) == Reads(a, n, None, Parsed(Stored(a, n)))

Raw_Absent(bytes) == Returned(bytes)
Raw(bytes) == Returned(IF bytes = Absent THEN None ELSE bytes)
GetRawFromRedis(a, n) == Reads(a, n, None, Raw(Stored(a, n)))

Flag_Truthy(bytes, default) ==
    CASE bytes \in Json   -> Returned(bytes \notin {Null, FALSE})
      [] bytes = Binary   -> Raised("UnicodeDecodeError")
      [] OTHER            -> Returned(default)
Flag(bytes, default) ==
    CASE bytes \in BOOLEAN -> Returned(bytes)
      [] bytes = Binary    -> Raised("UnicodeDecodeError")
      [] OTHER             -> Returned(default)
GetFlag(a, n) ==
    \E default \in BOOLEAN :
        Reads(a, n, default, Flag(Stored(a, n), default))

Next ==
    \E a \in Apps : \E n \in Names[a] :
        \/ SaveToRedis(a, n) \/ SaveRawToRedis(a, n) \/ SetFlag(a, n)
        \/ DeleteFromRedis(a, n)
        \/ GetFromRedis(a, n) \/ GetRawFromRedis(a, n) \/ GetFlag(a, n)

Spec == Init /\ [][Next]_vars

-----------------------------------------------------------------------------
(* Applications whose prefixes keep them apart never meet in a key, and a  *)
(* name leads to one cell whether it is written with its prefix already or *)
(* not ("repeated prefixing does not happen").                             *)
Own(a, n) ==
    IF IsStrictPrefix(Prefix(a), n)
    THEN SubSeq(n, Len(Prefix(a)) + 1, Len(n)) ELSE n
Slot(a, n) == <<Prefix(a), Own(a, n)>>
Location(s) == s[1] \o s[2]
Slots == UNION {{Slot(a, n) : n \in Names[a]} : a \in Apps}

Stores == INSTANCE Namespaces WITH
              cells <- [s \in Slots |-> server[Location(s)]]
ImplementsNamespaces == Stores!Spec

(* No reading call claims what the key does not hold.  A flag that differs *)
(* from the caller's default is a boolean that is stored: no document      *)
(* counts as consent.  None means a missing key or null, and an exception  *)
(* that somebody stored raw bytes there.                                   *)
NothingMadeUp ==
    /\ Ok(result) /\ asked # None => result.value \in {asked, reply}
    /\ Ok(result) /\ result.value = None => reply \in {Absent, Null}
    /\ ~Ok(result) => reply \in {Garbled, Binary}
=============================================================================
