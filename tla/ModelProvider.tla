--------------------------- MODULE ModelProvider ---------------------------
(***************************************************************************)
(* A call of the advisory model provider (providers/): the permission and  *)
(* cost gates, the request over the network, the offline fallback and the  *)
(* record in the cost ledger.                                              *)
(*                                                                         *)
(* Sessions call while the owner edits .myco/config.toml.  A caller may    *)
(* hand in a provider object, which keeps the configuration it was built   *)
(* from; the command line never does, and the provider is then built from  *)
(* the configuration just read.  A configuration is abstracted to          *)
(*   kind   "offline", "local-http", "openai-compatible", or "custom" for a*)
(*          class of the caller's that works without the network, which    *)
(*          only a provider that is handed in can be                       *)
(*   allow  allow_network_for_model_provider                               *)
(*   limit  max_cost_usd                                                   *)
(*   ready  the base URL (local-http) or the API key (openai) is there     *)
(***************************************************************************)
EXTENDS Integers, Sequences, FiniteSets

CONSTANTS
    Session,    \* processes that call a provider
    Config,     \* the valid configurations of a repository
    Invalid,    \* a configuration that load_config refuses
    None,       \* no provider is handed in
    Handed,     \* the configurations that handed-in providers were built from
    CustomCost, \* what a custom provider says a call cost
    MaxEdits,   \* bound: edits of the configuration
    MaxCalls    \* bound: calls of a session

Kind == {"offline", "local-http", "openai-compatible", "custom"}
Settings(kinds) == [kind : kinds, allow : BOOLEAN, limit : Nat, ready : BOOLEAN]

ASSUME ProviderAssumption ==
    /\ Config \subseteq Settings(Kind \ {"custom"})
    /\ Handed \subseteq Settings(Kind)
    /\ Invalid \notin Config /\ None \notin Handed
    /\ CustomCost \subseteq Nat
    /\ MaxEdits \in Nat /\ MaxCalls \in Nat

VARIABLES
    configs,    \* history: the configurations .myco/config.toml held, the last one now
    pc,         \* pc[s]: "idle", "gate", "calling", "respond", "return" or "dead"
    active,     \* active[s]: the configuration the call has read
    handed,     \* handed[s]: None, or what the handed-in provider was built from
    began,      \* history: how many configurations there had been when the call began
    response,   \* response[s]: the provider that answered, and the cost it names
    attempts,   \* history: the requests that went to the network
    ledger,     \* the model_call_recorded records
    calls,      \* calls[s]: how many calls s has begun
    returned    \* history: the responses callers got

callVars == <<active, handed, began>>
vars == <<configs, pc, callVars, response, attempts, ledger, calls, returned>>

OnDisk == configs[Len(configs)]
Network(c) == c.kind \in {"local-http", "openai-compatible"}

\* The configuration of the provider that answers.
Own(s) == IF handed[s] = None THEN active[s] ELSE handed[s]

Response == [by : Kind, cost : Nat]
Answer(s, r) == response' = [response EXCEPT ![s] = r]
Fallback(s) == Answer(s, [by |-> "offline", cost |-> 0])
Goto(s, l) == pc' = [pc EXCEPT ![s] = l]

Init ==
    /\ configs \in {<<c>> : c \in Config}
    /\ pc = [s \in Session |-> "idle"]
    /\ active = [s \in Session |-> configs[1]]
    /\ handed = [s \in Session |-> None]
    /\ began = [s \in Session |-> 1]
    /\ response = [s \in Session |-> [by |-> "offline", cost |-> 0]]
    /\ attempts = {}
    /\ ledger = <<>>
    /\ calls = [s \in Session |-> 0]
    /\ returned = {}

\* Variants of Call: an invalid configuration is used all the same ...
CallUnvalidated(s, h) ==
    /\ pc[s] = "idle"
    /\ calls[s] < MaxCalls
    /\ calls' = [calls EXCEPT ![s] = @ + 1]
    /\ active' = [active EXCEPT ![s] = OnDisk]
    /\ handed' = [handed EXCEPT ![s] = h]
    /\ began' = [began EXCEPT ![s] = Len(configs)]
    /\ Goto(s, "gate")
    /\ UNCHANGED <<configs, response, attempts, ledger, returned>>

\* ... or the configuration of the first call is kept for the later ones.
CallCached(s, h) ==
    /\ pc[s] = "idle"
    /\ calls[s] < MaxCalls
    /\ OnDisk # Invalid
    /\ calls' = [calls EXCEPT ![s] = @ + 1]
    /\ active' = [active EXCEPT ![s] = IF calls[s] > 0 THEN @ ELSE OnDisk]
    /\ handed' = [handed EXCEPT ![s] = h]
    /\ began' = [began EXCEPT ![s] = Len(configs)]
    /\ Goto(s, "gate")
    /\ UNCHANGED <<configs, response, attempts, ledger, returned>>

\* load_config; an invalid file raises ValueError and ends the command.
Call(s, h) ==
    /\ pc[s] = "idle"
    /\ calls[s] < MaxCalls
    /\ OnDisk # Invalid
    /\ calls' = [calls EXCEPT ![s] = @ + 1]
    /\ active' = [active EXCEPT ![s] = OnDisk]
    /\ handed' = [handed EXCEPT ![s] = h]
    /\ began' = [began EXCEPT ![s] = Len(configs)]
    /\ Goto(s, "gate")
    /\ UNCHANGED <<configs, response, attempts, ledger, returned>>

BadConfig(s) ==
    /\ pc[s] = "idle"
    /\ calls[s] < MaxCalls
    /\ OnDisk = Invalid
    /\ Goto(s, "dead")
    /\ UNCHANGED <<configs, callVars, response, attempts, ledger, calls, returned>>

\* The cost gate looks at the configuration just read, the permission and the
\* URL or key at the provider's own.
Refused(s) ==
    /\ Network(Own(s))
    /\ \/ active[s].limit <= 0
       \/ ~Own(s).allow
       \/ ~Own(s).ready

\* Variant of Refuse: the answer keeps the name of the provider that refused.
RefuseMisnamed(s) ==
    /\ pc[s] = "gate"
    /\ Refused(s)
    /\ Answer(s, [by |-> Own(s).kind, cost |-> 0])
    /\ Goto(s, "respond")
    /\ UNCHANGED <<configs, callVars, attempts, ledger, calls, returned>>

\* ModelProviderError: the offline provider answers instead.
Refuse(s) ==
    /\ pc[s] = "gate"
    /\ Refused(s)
    /\ Fallback(s)
    /\ Goto(s, "respond")
    /\ UNCHANGED <<configs, callVars, attempts, ledger, calls, returned>>

Local(s) ==
    /\ pc[s] = "gate"
    /\ ~Network(Own(s))
    /\ \E cost \in IF Own(s).kind = "custom" THEN CustomCost ELSE {0} :
         Answer(s, [by |-> Own(s).kind, cost |-> cost])
    /\ Goto(s, "respond")
    /\ UNCHANGED <<configs, callVars, attempts, ledger, calls, returned>>

\* urlopen sends the request.
Send(s) ==
    /\ pc[s] = "gate"
    /\ Network(Own(s)) /\ ~Refused(s)
    /\ attempts' = attempts \cup
         {[session |-> s, call |-> calls[s], own |-> Own(s), handed |-> handed[s],
           limit |-> active[s].limit, began |-> began[s]]}
    /\ Goto(s, "calling")
    /\ UNCHANGED <<configs, callVars, response, ledger, calls, returned>>

\* An answer; its cost is always named as 0.0.
Answered(s) ==
    /\ pc[s] = "calling"
    /\ Answer(s, [by |-> Own(s).kind, cost |-> 0])
    /\ Goto(s, "respond")
    /\ UNCHANGED <<configs, callVars, attempts, ledger, calls, returned>>

\* Variant of Unreachable: the fallback is returned without a record.
UnreachableUnrecorded(s) ==
    /\ pc[s] = "calling"
    /\ Fallback(s)
    /\ Goto(s, "return")
    /\ UNCHANGED <<configs, callVars, attempts, ledger, calls, returned>>

\* URLError, a timeout, bytes that are not UTF-8 or not JSON: the offline
\* provider answers.
Unreachable(s) ==
    /\ pc[s] = "calling"
    /\ Fallback(s)
    /\ Goto(s, "respond")
    /\ UNCHANGED <<configs, callVars, attempts, ledger, calls, returned>>

\* An exception of another type, as when the server closes the connection
\* before it answers or sends JSON that is not an object, ends the command.
Raised(s) ==
    /\ pc[s] = "calling"
    /\ Goto(s, "dead")
    /\ UNCHANGED <<configs, callVars, response, attempts, ledger, calls, returned>>

\* Variant of Charged: a cost over the limit is noted.
ChargedInFull(s) == response[s].cost

\* What is over the limit is not used, and counted as free.
Charged(s) ==
    IF response[s].cost > active[s].limit THEN 0 ELSE response[s].cost

RecordCost(s) ==
    /\ pc[s] = "respond"
    /\ Answer(s, [response[s] EXCEPT !.cost = Charged(s)])
    /\ ledger' = Append(ledger, [session |-> s, call |-> calls[s], by |-> response[s].by,
                                 cost |-> Charged(s), limit |-> active[s].limit])
    /\ Goto(s, "return")
    /\ UNCHANGED <<configs, callVars, attempts, calls, returned>>

Return(s) ==
    /\ pc[s] = "return"
    /\ returned' = returned \cup {[session |-> s, call |-> calls[s], by |-> response[s].by]}
    /\ Goto(s, "idle")
    /\ UNCHANGED <<configs, callVars, response, attempts, ledger, calls>>

\* The process is killed, or the ledger cannot be written.
Die(s) ==
    /\ pc[s] # "dead"
    /\ Goto(s, "dead")
    /\ UNCHANGED <<configs, callVars, response, attempts, ledger, calls, returned>>

Edit ==
    /\ Len(configs) <= MaxEdits
    /\ \E c \in Config \cup {Invalid} : c # OnDisk /\ configs' = Append(configs, c)
    /\ UNCHANGED <<pc, callVars, response, attempts, ledger, calls, returned>>

Next ==
    \/ \E s \in Session :
        \/ \E h \in Handed \cup {None} : Call(s, h)
        \/ BadConfig(s) \/ Refuse(s) \/ Local(s) \/ Send(s)
        \/ Answered(s) \/ Unreachable(s) \/ Raised(s)
        \/ RecordCost(s) \/ Return(s) \/ Die(s)
    \/ Edit

Spec == Init /\ [][Next]_vars

(***************************************************************************)
(* Properties.                                                             *)
(***************************************************************************)
Attempt == [session : Session, call : Nat, own : Config \cup Handed, handed : Handed \cup {None},
            limit : Nat, began : Nat]

TypeOK ==
    /\ configs \in Seq(Config \cup {Invalid})
    /\ Len(configs) >= 1
    /\ pc \in [Session -> {"idle", "gate", "calling", "respond", "return", "dead"}]
    /\ active \in [Session -> Config]
    /\ handed \in [Session -> Handed \cup {None}]
    /\ began \in [Session -> 1..Len(configs)]
    /\ response \in [Session -> Response]
    /\ attempts \subseteq Attempt
    /\ ledger \in Seq([session : Session, call : Nat, by : Kind, cost : Nat, limit : Nat])
    /\ calls \in [Session -> Nat]
    /\ returned \subseteq [session : Session, call : Nat, by : Kind]

\* No request leaves without consent (docs/safety.md:43): the configuration on
\* disk when the call began authorised a cost, and it allowed the network,
\* whatever it held before or has come to hold since; for a provider that was
\* handed in, the configuration it was built from allowed the network.
NetworkNeedsConsent ==
    \A r \in attempts :
        /\ configs[r.began].limit > 0
        /\ IF r.handed = None THEN configs[r.began].allow ELSE r.handed.allow

\* Whatever a caller got, the ledger holds one record of that call, of the
\* provider that answered (service.py:65-77); a record without a caller is left
\* only by a session that ended before it could return.
Of(r) == {i \in DOMAIN ledger : ledger[i].session = r.session /\ ledger[i].call = r.call}
ResponsesLedgered ==
    /\ \A r \in returned : Cardinality(Of(r)) = 1 /\ \A i \in Of(r) : ledger[i].by = r.by
    /\ \A i \in DOMAIN ledger :
        \/ \E r \in returned : i \in Of(r)
        \/ /\ pc[ledger[i].session] \in {"return", "dead"}
           /\ ledger[i].call = calls[ledger[i].session]

\* No record exceeds the limit its call was made under (service.py:59-63); the
\* records of Consultation say so as well.
LedgerWithinLimit == \A i \in DOMAIN ledger : ledger[i].cost <= ledger[i].limit

\* What the callers and the owner see of the calls.
Allowance == IF OnDisk = Invalid THEN [limit |-> 0, allow |-> FALSE]
             ELSE [limit |-> OnDisk.limit, allow |-> OnDisk.allow]
Begun == {c \in Session \X (1..MaxCalls) : c[2] <= calls[c[1]]}
UnderWay == {s \in Session : pc[s] \notin {"idle", "dead"}}
InHand(s) == [call |-> <<s, calls[s]>>, limit |-> active[s].limit, allow |-> Own(s).allow]
Pending == {InHand(s) : s \in UnderWay}
Requested == {<<r.session, r.call>> : r \in attempts}
RecordOf(e) == [call |-> <<e.session, e.call>>, by |-> e.by, cost |-> e.cost]
Records == {RecordOf(ledger[i]) : i \in DOMAIN ledger}
Replies == {[call |-> <<r.session, r.call>>, by |-> r.by] : r \in returned}

Service == INSTANCE Consultation WITH
              Calls <- Session \X (1..MaxCalls), Provider <- Kind,
              Far <- {"local-http", "openai-compatible"},
              consent <- Allowance, asked <- Begun, pending <- Pending,
              sent <- Requested, records <- Records, replies <- Replies

\* What callers and the owner may count on: a call is settled by the permission
\* that holds when it begins, sends one request at most, and is replied to once
\* it has its one record, whatever fails and whoever edits (service.py:27-92).
ImplementsConsultation == Service!ConsultSpec

\* A record names a network provider only when that call did send a request
\* (service.py:54-57).
NetworkRecordsSent ==
    \A i \in DOMAIN ledger : ledger[i].by \in {"local-http", "openai-compatible"} =>
        \E r \in attempts : i \in Of(r) /\ r.own.kind = ledger[i].by

(* What the documentation says, and the code does not do. *)

\* "Every model-provider call, including offline heuristic calls, is recorded in
\* .myco/reports/cost_ledger.jsonl" (docs/safety.md:56): a call that an
\* exception of the provider ends has its record.
EveryCallRecorded ==
    [][\A s \in Session : Raised(s) =>
        \E i \in DOMAIN ledger' : ledger'[i].session = s /\ ledger'[i].call = calls[s]]_vars
=============================================================================
