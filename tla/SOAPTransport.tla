---------------------------- MODULE SOAPTransport ----------------------------
(***************************************************************************)
(* SOAPTransport (oots_lib/Transport.py): a blocking client of a data      *)
(* service, used by one thread.  response() makes one exchange, appends it *)
(* to trembita_payload["calls"] and posts the whole payload with           *)
(* log_trembita_sync of a fresh TraceabilityLogger, whose failures it      *)
(* only writes to the program's log.  The constructor raises without a     *)
(* client, so the "client is None" branches are never taken.               *)
(***************************************************************************)
EXTENDS Naturals, Sequences, SequencesExt

CONSTANTS
    Transports,     \* instances, of several conversations
    IfSendError,    \* those with if_send_error
    MaxExchanges    \* bound: calls of response() per transport

ASSUME SOAPTransportAssumption ==
    IfSendError \subseteq Transports /\ MaxExchanges \in Nat

VARIABLES
    soap,       \* where each transport is
    exchange,   \* the number of its current or latest exchange
    answered,   \* its exchanges the data service answered with a body
    returned,   \* those whose result response() returned
    callLog,    \* its trembita_payload["calls"], exchanges by number
    traced,     \* the payloads of it the traceability service stored
    accepted,   \* its latest log was accepted
    outcome     \* how its constructor or latest response() ended

transportVars == <<soap, exchange, answered, returned, callLog, traced, accepted, outcome>>

Exchanges == 1..MaxExchanges
Outcomes == {"-", "result", "EDMException", "TransportError", "raised"}

TransportTypeOK ==
    /\ soap \in [Transports ->
                   {"new", "idle", "requesting", "logging", "parsing", "broken"}]
    /\ exchange \in [Transports -> {0} \cup Exchanges]
    /\ answered \in [Transports -> SUBSET Exchanges]
    /\ returned \in [Transports -> SUBSET Exchanges]
    /\ callLog \in [Transports -> Seq(Exchanges)]
    /\ \A s \in Transports : \A p \in traced[s] : p \in Seq(Exchanges)
    /\ accepted \in [Transports -> BOOLEAN]
    /\ outcome \in [Transports -> Outcomes]

TransportInit ==
    /\ soap = [s \in Transports |-> "new"]
    /\ exchange = [s \in Transports |-> 0]
    /\ answered = [s \in Transports |-> {}]
    /\ returned = [s \in Transports |-> {}]
    /\ callLog = [s \in Transports |-> <<>>]
    /\ traced = [s \in Transports |-> {}]
    /\ accepted = [s \in Transports |-> FALSE]
    /\ outcome = [s \in Transports |-> "-"]

-----------------------------------------------------------------------------
Goto(s, where, how) ==
    /\ soap' = [soap EXCEPT ![s] = where]
    /\ outcome' = [outcome EXCEPT ![s] = how]

(* send_error_message: it always raises.                                   *)
SendErrorMessage(s, where) ==
    Goto(s, where, IF s \in IfSendError THEN "EDMException" ELSE "TransportError")

Create(s) ==
    /\ soap[s] = "new"
    /\ Goto(s, "idle", "-") \/ SendErrorMessage(s, "broken") \/ Goto(s, "broken", "raised")
    /\ UNCHANGED <<exchange, answered, returned, callLog, traced, accepted>>

Request(s) ==
    /\ soap[s] = "idle" /\ exchange[s] < MaxExchanges
    /\ exchange' = [exchange EXCEPT ![s] = @ + 1]
    /\ Goto(s, "requesting", "-")
    /\ UNCHANGED <<answered, returned, callLog, traced, accepted>>

(* The service answers: the call is appended, the payload is to be sent.   *)
Answered_PayloadAnew(s) ==
    /\ soap[s] = "requesting"
    /\ answered' = [answered EXCEPT ![s] = @ \cup {exchange[s]}]
    /\ callLog' = [callLog EXCEPT ![s] = <<exchange[s]>>]
    /\ Goto(s, "logging", "-")
    /\ UNCHANGED <<exchange, returned, traced, accepted>>
Answered_NextId(s) ==
    /\ soap[s] = "requesting"
    /\ answered' = [answered EXCEPT ![s] = @ \cup {exchange[s]}]
    /\ callLog' = [callLog EXCEPT ![s] = Append(@, exchange[s] + 1)]
    /\ Goto(s, "logging", "-")
    /\ UNCHANGED <<exchange, returned, traced, accepted>>
Answered(s) ==
    /\ soap[s] = "requesting"
    /\ answered' = [answered EXCEPT ![s] = @ \cup {exchange[s]}]
    /\ callLog' = [callLog EXCEPT ![s] = Append(@, exchange[s])]
    /\ Goto(s, "logging", "-")
    /\ UNCHANGED <<exchange, returned, traced, accepted>>

(* It answers with a body, and UXPHistoryPlugin has no date: isoformat()   *)
(* raises outside the try of _logging_trembita_transaction.                *)
HistoryFails(s) ==
    /\ soap[s] = "requesting"
    /\ answered' = [answered EXCEPT ![s] = @ \cup {exchange[s]}]
    /\ Goto(s, "idle", "raised")
    /\ UNCHANGED <<exchange, returned, callLog, traced, accepted>>

(* The request raises, or the answer has no body.                          *)
RequestFails_Logged(s) ==
    /\ soap[s] = "requesting"
    /\ callLog' = [callLog EXCEPT ![s] = Append(@, exchange[s])]
    /\ SendErrorMessage(s, "idle")
    /\ UNCHANGED <<exchange, answered, returned, traced, accepted>>
RequestFails(s) ==
    /\ soap[s] = "requesting"
    /\ SendErrorMessage(s, "idle")
    /\ UNCHANGED <<exchange, answered, returned, callLog, traced, accepted>>

Stores(s) == traced' = [traced EXCEPT ![s] = @ \cup {callLog[s]}]

LogAccepted(s) ==
    /\ soap[s] = "logging"
    /\ Stores(s)
    /\ accepted' = [accepted EXCEPT ![s] = TRUE]
    /\ Goto(s, "parsing", "-")
    /\ UNCHANGED <<exchange, answered, returned, callLog>>

(* Not configured, refused, unreachable, timed out: stored or not.         *)
LogFails(s) ==
    /\ soap[s] = "logging"
    /\ Stores(s) \/ UNCHANGED traced
    /\ accepted' = [accepted EXCEPT ![s] = FALSE]
    /\ Goto(s, "parsing", "-")
    /\ UNCHANGED <<exchange, answered, returned, callLog>>

(* parsing_response of the subclass *)
Parsed(s) ==
    /\ soap[s] = "parsing"
    /\ returned' = [returned EXCEPT ![s] = @ \cup {exchange[s]}]
    /\ Goto(s, "idle", "result")
    /\ UNCHANGED <<exchange, answered, callLog, traced, accepted>>

ParsingFails(s) ==
    /\ soap[s] = "parsing"
    /\ Goto(s, "idle", "raised")
    /\ UNCHANGED <<exchange, answered, returned, callLog, traced, accepted>>

Transporting(s) ==
    \/ Create(s) \/ Request(s) \/ Answered(s) \/ HistoryFails(s) \/ RequestFails(s)
    \/ LogAccepted(s) \/ LogFails(s) \/ Parsed(s) \/ ParsingFails(s)

TransportNext == \E s \in Transports : Transporting(s)

TransportSpec == TransportInit /\ [][TransportNext]_transportVars

-----------------------------------------------------------------------------
(* A log that is accepted makes up for the lost ones: the traceability     *)
(* service then holds every exchange whose result was returned so far      *)
(* (the calls of trembita_payload are kept from exchange to exchange).     *)
AcceptedLogCatchesUp ==
    \A s \in Transports :
        accepted[s] => returned[s] \subseteq UNION {ToSet(p) : p \in traced[s]}

(* Only exchanges the data service answered are traced, each once in a     *)
(* payload and in their order.                                             *)
TracedWereAnswered ==
    \A s \in Transports : \A p \in traced[s] :
        /\ ToSet(p) \subseteq answered[s]
        /\ \A i, j \in DOMAIN p : i < j => p[i] < p[j]
==============================================================================
