---------------------------- MODULE Consultation ----------------------------
(***************************************************************************)
(* What the callers of invoke_model_provider, and the owner of the         *)
(* repository, may count on, told without the network and the process.     *)
(*                                                                         *)
(* What a call may do is settled when it is asked, by what the owner       *)
(* allows then.  It sends one request at most, and none without leave; it  *)
(* has one record at most, which names a provider far away only after a    *)
(* request and a cost within the limit; and it is replied to only once it  *)
(* has its record, with the provider named there.  It may be given up at   *)
(* any moment, and then nothing more comes of it.                          *)
(***************************************************************************)
EXTENDS Integers

CONSTANTS
    Calls,      \* whatever may be asked, each once
    Provider,   \* the kinds of provider ...
    Far         \* ... and those of them that use the network

VARIABLES
    consent,    \* what the owner allows now: a cost up to limit, the network or not
    asked,      \* the calls that were ever asked
    pending,    \* those under way, with what they may do
    sent,       \* the calls that sent a request
    records,    \* the records of calls
    replies     \* the replies callers got

consultVars == <<consent, asked, pending, sent, records, replies>>

Leave == [limit : Nat, allow : BOOLEAN]
Recorded(c) == \E r \in records : r.call = c

ConsultInit ==
    /\ consent \in Leave
    /\ asked = {} /\ pending = {} /\ sent = {} /\ records = {} /\ replies = {}

\* The owner changes what is allowed.
Decide ==
    /\ consent' \in Leave
    /\ UNCHANGED <<asked, pending, sent, records, replies>>

\* Whoever brings a provider along has the leave that one was given.
Ask(c, brought) ==
    /\ c \notin asked
    /\ asked' = asked \cup {c}
    /\ \E allow \in IF brought THEN BOOLEAN ELSE {consent.allow} :
         pending' = pending \cup {[call |-> c, limit |-> consent.limit, allow |-> allow]}
    /\ UNCHANGED <<consent, sent, records, replies>>

Request(p) ==
    /\ p.allow /\ p.limit > 0
    /\ p.call \notin sent /\ ~Recorded(p.call)
    /\ sent' = sent \cup {p.call}
    /\ UNCHANGED <<consent, asked, pending, records, replies>>

Record(p, by, cost) ==
    /\ ~Recorded(p.call)
    /\ by \in Far => p.call \in sent
    /\ records' = records \cup {[call |-> p.call, by |-> by, cost |-> cost]}
    /\ UNCHANGED <<consent, asked, pending, sent, replies>>

Reply(p) ==
    /\ \E r \in records : r.call = p.call /\ replies' = replies \cup {[call |-> p.call, by |-> r.by]}
    /\ pending' = pending \ {p}
    /\ UNCHANGED <<consent, asked, sent, records>>

GiveUp(p) ==
    /\ pending' = pending \ {p}
    /\ UNCHANGED <<consent, asked, sent, records, replies>>

ConsultNext ==
    \/ Decide
    \/ \E c \in Calls, brought \in BOOLEAN : Ask(c, brought)
    \/ \E p \in pending :
         \/ Request(p) \/ Reply(p) \/ GiveUp(p)
         \/ \E by \in Provider, cost \in 0..p.limit : Record(p, by, cost)

ConsultSpec == ConsultInit /\ [][ConsultNext]_consultVars
=============================================================================
