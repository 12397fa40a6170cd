------------------------ MODULE ModelProviderProofs ------------------------
(***************************************************************************)
(* What TLAPS proves of the calls of the model provider, for every set of  *)
(* sessions, configurations and handed-in providers, and every number of   *)
(* calls and of edits.                                                     *)
(***************************************************************************)
EXTENDS ModelProvider, TLAPS, FiniteSetTheorems

Entry == [session : Session, call : Nat, by : Kind, cost : Nat, limit : Nat]
Networked == {"local-http", "openai-compatible"}

\* A call works with the configuration that was on disk when it began.
ConfigAsRead == \A s \in Session : active[s] = configs[began[s]]

\* Behind each answer of a network provider there is a request of that call.
SentFirst ==
    /\ \A r \in attempts : r.began \in 1..Len(configs)
    /\ \A s \in Session : pc[s] = "calling" =>
         \E r \in attempts : r.session = s /\ r.call = calls[s] /\ r.own.kind = Own(s).kind
    /\ \A s \in Session : pc[s] \in {"respond", "return"} /\ response[s].by \in Networked =>
         \E r \in attempts : r.session = s /\ r.call = calls[s] /\ r.own.kind = response[s].by

\* No call has two records, none has one before it is charged, and each has one
\* when it returns.
RecordedOnce ==
    /\ \A i, j \in DOMAIN ledger :
         ledger[i].session = ledger[j].session /\ ledger[i].call = ledger[j].call => i = j
    /\ \A i \in DOMAIN ledger :
         /\ ledger[i].call <= calls[ledger[i].session]
         /\ pc[ledger[i].session] \in {"gate", "calling", "respond"} =>
              ledger[i].call < calls[ledger[i].session]
    /\ \A s \in Session : pc[s] = "return" =>
         \E i \in DOMAIN ledger :
             ledger[i].session = s /\ ledger[i].call = calls[s] /\ ledger[i].by = response[s].by

\* What was returned has its record, and a record without a caller is the last
\* of a session that is returning or dead.
CallersServed ==
    /\ \A r \in returned : \E i \in DOMAIN ledger :
         ledger[i].session = r.session /\ ledger[i].call = r.call /\ ledger[i].by = r.by
    /\ \A i \in DOMAIN ledger :
         \/ \E r \in returned : r.session = ledger[i].session /\ r.call = ledger[i].call
         \/ /\ pc[ledger[i].session] \in {"return", "dead"}
            /\ ledger[i].call = calls[ledger[i].session]

ProviderInv ==
    /\ TypeOK /\ ConfigAsRead /\ SentFirst /\ RecordedOnce /\ CallersServed
    /\ NetworkNeedsConsent /\ NetworkRecordsSent /\ LedgerWithinLimit

LEMMA AppendKeeps ==
    ASSUME NEW S, NEW q \in Seq(S), NEW x \in S
    PROVE  /\ Append(q, x) \in Seq(S)
           /\ Len(q) \in Nat /\ Len(Append(q, x)) = Len(q) + 1
           /\ DOMAIN q = 1..Len(q) /\ DOMAIN Append(q, x) = 1..(Len(q) + 1)
           /\ \A i \in 1..Len(q) : q[i] \in S /\ Append(q, x)[i] = q[i]
           /\ Append(q, x)[Len(q) + 1] = x
  OBVIOUS

\* What a provider is made of has the fields of a configuration.
LEMMA OwnType ==
    ASSUME TypeOK, NEW s \in Session
    PROVE  /\ Own(s) \in Config \cup Handed
           /\ Own(s).kind \in Kind /\ active[s].limit \in Nat
           /\ active[s] \in Config /\ handed[s] \in Handed \cup {None}
  BY ProviderAssumption DEF TypeOK, Own, Settings

LEMMA InitHolds == Init => ProviderInv
  <1> SUFFICES ASSUME Init PROVE ProviderInv
    OBVIOUS
  <1>1. PICK c \in Config : configs = <<c>>
    BY DEF Init
  <1>2. /\ configs \in Seq(Config \cup {Invalid}) /\ Len(configs) = 1 /\ configs[1] = c
        /\ ledger = <<>> /\ ledger \in Seq(Entry) /\ DOMAIN ledger = {}
    BY <1>1 DEF Init
  <1>3. TypeOK
    BY <1>1, <1>2 DEF Init, TypeOK, Response, Kind, Entry
  <1>4. ConfigAsRead
    BY <1>1, <1>2 DEF Init, ConfigAsRead
  <1>5. SentFirst /\ RecordedOnce /\ CallersServed
    BY <1>2 DEF Init, SentFirst, RecordedOnce, CallersServed
  <1>6. NetworkNeedsConsent /\ NetworkRecordsSent /\ LedgerWithinLimit
    BY <1>2 DEF Init, NetworkNeedsConsent, NetworkRecordsSent, LedgerWithinLimit
  <1> QED BY <1>3, <1>4, <1>5, <1>6 DEF ProviderInv

LEMMA TypeStep == TypeOK /\ [Next]_vars => TypeOK'
  <1> SUFFICES ASSUME TypeOK, [Next]_vars PROVE TypeOK'
    OBVIOUS
  <1>0. Len(configs) \in Nat /\ DOMAIN configs = 1..Len(configs)
    BY DEF TypeOK
  <1>1. ASSUME NEW s \in Session, NEW h \in Handed \cup {None}, Call(s, h) PROVE TypeOK'
    <2>1. OnDisk \in Config
      BY <1>0, <1>1 DEF Call, OnDisk, TypeOK
    <2>2. Len(configs) \in 1..Len(configs)
      BY <1>0 DEF TypeOK
    <2> QED BY <1>1, <2>1, <2>2 DEF Call, Goto, TypeOK
  <1>2. ASSUME NEW s \in Session, BadConfig(s) \/ Raised(s) \/ Die(s) PROVE TypeOK'
    BY <1>2 DEF BadConfig, Raised, Die, Goto, TypeOK, callVars
  <1>3. ASSUME NEW s \in Session, Refuse(s) \/ Unreachable(s) PROVE TypeOK'
    <2>1. [by |-> "offline", cost |-> 0] \in Response
      BY DEF Response, Kind
    <2>2. response' \in [Session -> Response]
      BY <1>3, <2>1 DEF Refuse, Unreachable, Fallback, Answer, TypeOK
    <2> QED BY <1>3, <2>2 DEF Refuse, Unreachable, Goto, TypeOK, callVars
  <1>4. ASSUME NEW s \in Session, Local(s) \/ Answered(s) PROVE TypeOK'
    <2>1. Own(s).kind \in Kind
      BY OwnType
    <2>2. response' \in [Session -> Response]
      <3>1. PICK cost \in Nat : response' = [response EXCEPT ![s] = [by |-> Own(s).kind, cost |-> cost]]
        BY <1>4, ProviderAssumption DEF Local, Answered, Answer
      <3>2. [by |-> Own(s).kind, cost |-> cost] \in Response
        BY <2>1 DEF Response
      <3> QED BY <3>1, <3>2 DEF TypeOK
    <2> QED BY <1>4, <2>2 DEF Local, Answered, Goto, TypeOK, callVars
  <1>5. ASSUME NEW s \in Session, Send(s) PROVE TypeOK'
    <2>1. [session |-> s, call |-> calls[s], own |-> Own(s), handed |-> handed[s],
           limit |-> active[s].limit, began |-> began[s]] \in Attempt
      BY OwnType, <1>0 DEF Attempt, TypeOK
    <2> QED BY <1>5, <2>1 DEF Send, Goto, TypeOK, callVars
  <1>6. ASSUME NEW s \in Session, RecordCost(s) PROVE TypeOK'
    <2>1. response[s].by \in Kind /\ Charged(s) \in Nat /\ calls[s] \in Nat
      BY DEF Charged, TypeOK, Response
    <2>2. active[s].limit \in Nat
      BY OwnType
    <2>3. response' \in [Session -> Response]
      BY <1>6, <2>1 DEF RecordCost, Answer, Response, TypeOK
    <2>4. ledger' \in Seq([session : Session, call : Nat, by : Kind, cost : Nat, limit : Nat])
      BY <1>6, <2>1, <2>2 DEF RecordCost, TypeOK
    <2> QED BY <1>6, <2>3, <2>4 DEF RecordCost, Goto, TypeOK, callVars
  <1>7. ASSUME NEW s \in Session, Return(s) PROVE TypeOK'
    BY <1>7 DEF Return, Goto, TypeOK, callVars, Response
  <1>8. CASE Edit
    <2>1. PICK c \in Config \cup {Invalid} : configs' = Append(configs, c)
      BY <1>8 DEF Edit
    <2>2. configs' \in Seq(Config \cup {Invalid}) /\ Len(configs') = Len(configs) + 1
      BY <2>1, AppendKeeps DEF TypeOK
    <2>3. began' \in [Session -> 1..Len(configs')]
      BY <1>0, <1>8, <2>2 DEF Edit, TypeOK, callVars
    <2> QED BY <1>0, <1>8, <2>2, <2>3 DEF Edit, TypeOK, callVars
  <1>9. CASE UNCHANGED vars
    BY <1>9 DEF vars, callVars, TypeOK
  <1> QED BY <1>1, <1>2, <1>3, <1>4, <1>5, <1>6, <1>7, <1>8, <1>9 DEF Next

\* The configurations there have been stay what they were.
LEMMA ConfigsStep ==
    ASSUME TypeOK, [Next]_vars
    PROVE  \A n \in 1..Len(configs) : n \in 1..Len(configs') /\ configs'[n] = configs[n]
  <1>1. CASE Edit
    <2>1. PICK c \in Config \cup {Invalid} : configs' = Append(configs, c)
      BY <1>1 DEF Edit
    <2>2. configs \in Seq(Config \cup {Invalid})
      BY DEF TypeOK
    <2> QED BY <2>1, <2>2, AppendKeeps
  <1>2. CASE ~Edit
    BY <1>2 DEF Next, Call, BadConfig, Refuse, Local, Send, Answered, Unreachable,
                Raised, RecordCost, Return, Die, vars
  <1> QED BY <1>1, <1>2

\* What a step means for one session: one of its own, or nothing.
LEMMA SessionStep ==
    ASSUME TypeOK, [Next]_vars, NEW t \in Session
    PROVE  \/ UNCHANGED <<pc[t], active[t], handed[t], began[t], response[t], calls[t]>>
           \/ \E h \in Handed \cup {None} : Call(t, h)
           \/ BadConfig(t) \/ Refuse(t) \/ Local(t) \/ Send(t) \/ Answered(t)
           \/ Unreachable(t) \/ Raised(t) \/ RecordCost(t) \/ Return(t) \/ Die(t)
  <1>1. ASSUME NEW s \in Session, s # t, NEW h \in Handed \cup {None}, Call(s, h)
        PROVE  UNCHANGED <<pc[t], active[t], handed[t], began[t], response[t], calls[t]>>
    BY <1>1 DEF Call, Goto, TypeOK
  <1>2. ASSUME NEW s \in Session, s # t,
               \/ BadConfig(s) \/ Refuse(s) \/ Local(s) \/ Send(s) \/ Answered(s)
               \/ Unreachable(s) \/ Raised(s) \/ RecordCost(s) \/ Return(s) \/ Die(s)
        PROVE  UNCHANGED <<pc[t], active[t], handed[t], began[t], response[t], calls[t]>>
    BY <1>2 DEF BadConfig, Refuse, Local, Send, Answered, Unreachable, Raised, RecordCost,
                Return, Die, Fallback, Answer, Goto, TypeOK, callVars
  <1>3. CASE Edit \/ UNCHANGED vars
    BY <1>3 DEF Edit, vars, callVars
  <1> QED BY <1>1, <1>2, <1>3 DEF Next

LEMMA ConfigStep == TypeOK /\ ConfigAsRead /\ [Next]_vars => ConfigAsRead'
  <1> SUFFICES ASSUME TypeOK, ConfigAsRead, [Next]_vars, NEW t \in Session
               PROVE  active'[t] = configs'[began'[t]]
    BY DEF ConfigAsRead
  <1>0. began[t] \in 1..Len(configs) /\ Len(configs) \in Nat /\ Len(configs) \in 1..Len(configs)
    BY DEF TypeOK
  <1>1. ASSUME NEW h \in Handed \cup {None}, Call(t, h)
        PROVE  active'[t] = configs'[began'[t]]
    BY <1>0, <1>1 DEF Call, OnDisk, TypeOK
  <1>2. ASSUME UNCHANGED <<active[t], began[t]>>
        PROVE  active'[t] = configs'[began'[t]]
    BY <1>0, <1>2, ConfigsStep DEF ConfigAsRead
  <1>3. ~(\E h \in Handed \cup {None} : Call(t, h)) => UNCHANGED <<active[t], began[t]>>
    BY SessionStep DEF BadConfig, Refuse, Local, Send, Answered, Unreachable,
                       Raised, RecordCost, Return, Die, callVars
  <1> QED BY <1>1, <1>2, <1>3

\* The attempts grow by those Send makes, in the step from "gate".
LEMMA AttemptsStep ==
    ASSUME TypeOK, [Next]_vars
    PROVE  attempts' = attempts \/ \E s \in Session : Send(s)
  BY DEF Next, Call, BadConfig, Refuse, Local, Answered, Unreachable,
         Raised, RecordCost, Return, Die, Edit, vars

LEMMA ConsentStep ==
    ASSUME TypeOK, ConfigAsRead, SentFirst, NetworkNeedsConsent, [Next]_vars
    PROVE  NetworkNeedsConsent' /\ (\A r \in attempts' : r.began \in 1..Len(configs'))
  <1>1. ASSUME NEW r \in attempts
        PROVE  /\ r.began \in 1..Len(configs')
               /\ configs'[r.began].limit > 0
               /\ IF r.handed = None THEN configs'[r.began].allow ELSE r.handed.allow
    BY ConfigsStep DEF SentFirst, NetworkNeedsConsent
  <1>2. ASSUME NEW s \in Session, Send(s), NEW r \in attempts', r \notin attempts
        PROVE  /\ r.began \in 1..Len(configs')
               /\ configs'[r.began].limit > 0
               /\ IF r.handed = None THEN configs'[r.began].allow ELSE r.handed.allow
    <2>1. r.began = began[s] /\ r.handed = handed[s] /\ configs' = configs
      BY <1>2 DEF Send
    <2>2. began[s] \in 1..Len(configs) /\ active[s] = configs[began[s]]
      BY DEF TypeOK, ConfigAsRead
    <2>3. active[s].limit > 0 /\ Own(s).allow
      BY <1>2, OwnType DEF Send, Refused
    <2> QED BY <2>1, <2>2, <2>3 DEF Own
  <1> QED BY <1>1, <1>2, AttemptsStep DEF NetworkNeedsConsent

LEMMA SentStep ==
    ASSUME TypeOK, TypeOK', ConfigAsRead, SentFirst, NetworkNeedsConsent, [Next]_vars
    PROVE  SentFirst'
  <1> DEFINE Sent(s) == \E r \in attempts : r.session = s /\ r.call = calls[s] /\ r.own.kind = Own(s).kind
             Asked(s) == \E r \in attempts :
                            r.session = s /\ r.call = calls[s] /\ r.own.kind = response[s].by
  <1>0. \A r \in attempts' : r.began \in 1..Len(configs')
    BY ConsentStep
  <1>s. attempts \subseteq attempts'
    BY AttemptsStep DEF Send
  <1> SUFFICES ASSUME NEW t \in Session
               PROVE  /\ pc'[t] = "calling" => Sent(t)'
                      /\ pc'[t] \in {"respond", "return"} /\ response'[t].by \in Networked => Asked(t)'
    BY <1>0 DEF SentFirst
  <1>old. /\ pc[t] = "calling" => Sent(t)
          /\ pc[t] \in {"respond", "return"} /\ response[t].by \in Networked => Asked(t)
    BY DEF SentFirst
  <1>1. CASE UNCHANGED <<pc[t], active[t], handed[t], response[t], calls[t]>>
    <2>1. Own(t)' = Own(t)
      BY <1>1 DEF Own
    <2> QED BY <1>1, <1>old, <1>s, <2>1
  <1>2. ASSUME NEW h \in Handed \cup {None}, Call(t, h)
        PROVE  pc'[t] \notin {"calling", "respond", "return"}
    BY <1>2 DEF Call, Goto, TypeOK
  <1>3. CASE BadConfig(t) \/ Return(t) \/ Raised(t) \/ Die(t)
    BY <1>3 DEF BadConfig, Return, Raised, Die, Goto, TypeOK
  <1>4. CASE Refuse(t) \/ Unreachable(t)
    BY <1>4 DEF Refuse, Unreachable, Fallback, Answer, Goto, TypeOK, Networked
  <1>5. CASE Local(t)
    <2>1. pc'[t] = "respond" /\ response'[t].by \notin Networked
      BY <1>5 DEF Local, Answer, Goto, Network, Networked, TypeOK
    <2> QED BY <2>1
  <1>6. CASE Send(t)
    <2>1. Own(t)' = Own(t)
      BY <1>6 DEF Send, Own, callVars
    <2>2. pc'[t] = "calling" /\ calls' = calls
      BY <1>6 DEF Send, Goto, TypeOK
    <2>3. [session |-> t, call |-> calls[t], own |-> Own(t), handed |-> handed[t],
           limit |-> active[t].limit, began |-> began[t]] \in attempts'
      BY <1>6 DEF Send
    <2>4. Sent(t)'
      BY <2>1, <2>2, <2>3
    <2> QED BY <2>2, <2>4
  <1>7. CASE Answered(t)
    <2>1. pc'[t] = "respond" /\ response'[t].by = Own(t).kind /\ calls' = calls
      BY <1>7 DEF Answered, Answer, Goto, TypeOK
    <2>2. Sent(t)
      BY <1>7, <1>old DEF Answered
    <2> QED BY <1>s, <2>1, <2>2
  <1>8. CASE RecordCost(t)
    <2>1. /\ pc'[t] = "return" /\ response'[t].by = response[t].by /\ calls' = calls
      BY <1>8 DEF RecordCost, Answer, Goto, TypeOK, Response
    <2>2. response[t].by \in Networked => Asked(t)
      BY <1>8, <1>old DEF RecordCost
    <2> QED BY <1>s, <2>1, <2>2
  <1> QED BY <1>1, <1>2, <1>3, <1>4, <1>5, <1>6, <1>7, <1>8, SessionStep

LEMMA EntryType ==
    ASSUME TypeOK, NEW i \in DOMAIN ledger
    PROVE  /\ ledger[i].session \in Session /\ ledger[i].call \in Nat /\ ledger[i].by \in Kind
           /\ ledger[i].cost \in Nat /\ ledger[i].limit \in Nat
  <1>1. ledger \in Seq(Entry)
    BY DEF TypeOK, Entry
  <1>2. ledger[i] \in Entry
    BY <1>1
  <1> QED BY <1>2 DEF Entry

\* The ledger grows by what RecordCost appends.
LEMMA LedgerStep ==
    ASSUME TypeOK, [Next]_vars
    PROVE  \/ ledger' = ledger /\ \A s \in Session : ~RecordCost(s)
           \/ \E s \in Session :
                /\ RecordCost(s)
                /\ DOMAIN ledger = 1..Len(ledger) /\ Len(ledger) \in Nat
                /\ DOMAIN ledger' = 1..(Len(ledger) + 1)
                /\ \A i \in DOMAIN ledger : ledger'[i] = ledger[i]
                /\ ledger'[Len(ledger) + 1].session = s
                /\ ledger'[Len(ledger) + 1].call = calls[s]
                /\ ledger'[Len(ledger) + 1].by = response[s].by
                /\ ledger'[Len(ledger) + 1].cost = Charged(s)
                /\ ledger'[Len(ledger) + 1].limit = active[s].limit
  <1>1. ASSUME NEW s \in Session, RecordCost(s)
        PROVE  /\ DOMAIN ledger = 1..Len(ledger) /\ Len(ledger) \in Nat
               /\ DOMAIN ledger' = 1..(Len(ledger) + 1)
               /\ \A i \in DOMAIN ledger : ledger'[i] = ledger[i]
               /\ ledger'[Len(ledger) + 1].session = s
               /\ ledger'[Len(ledger) + 1].call = calls[s]
               /\ ledger'[Len(ledger) + 1].by = response[s].by
               /\ ledger'[Len(ledger) + 1].cost = Charged(s)
               /\ ledger'[Len(ledger) + 1].limit = active[s].limit
    <2> DEFINE new == [session |-> s, call |-> calls[s], by |-> response[s].by,
                       cost |-> Charged(s), limit |-> active[s].limit]
    <2>1. ledger \in Seq(Entry) /\ ledger' = Append(ledger, new)
      BY <1>1 DEF RecordCost, TypeOK, Entry
    <2>2. new \in Entry
      BY OwnType DEF TypeOK, Entry, Response, Charged
    <2> HIDE DEF new
    <2>3. /\ Len(ledger) \in Nat
          /\ DOMAIN ledger = 1..Len(ledger) /\ DOMAIN Append(ledger, new) = 1..(Len(ledger) + 1)
          /\ \A i \in 1..Len(ledger) : Append(ledger, new)[i] = ledger[i]
          /\ Append(ledger, new)[Len(ledger) + 1] = new
      BY <2>1, <2>2, AppendKeeps
    <2> QED BY <2>1, <2>3 DEF new
  <1>2. (\A s \in Session : ~RecordCost(s)) => ledger' = ledger
    BY DEF Next, Call, BadConfig, Refuse, Local, Send, Answered, Unreachable,
           Raised, Return, Die, Edit, vars
  <1> QED BY <1>1, <1>2

\* A session comes to "return" by RecordCost alone; no call is counted back.
LEMMA CallStep ==
    ASSUME TypeOK, [Next]_vars, NEW t \in Session, ~RecordCost(t)
    PROVE  /\ calls[t] \in Nat /\ calls'[t] \in Nat
           /\ pc'[t] = "return" => pc[t] = "return" /\ UNCHANGED <<calls[t], response[t]>>
           /\ \/ calls'[t] = calls[t]
              \/ calls'[t] = calls[t] + 1 /\ pc[t] = "idle" /\ pc'[t] = "gate"
           /\ calls'[t] = calls[t] /\ pc'[t] \in {"gate", "calling", "respond"} =>
                pc[t] \in {"gate", "calling", "respond"}
           /\ pc[t] \in {"return", "dead"} /\ ~Return(t) =>
                pc'[t] \in {"return", "dead"} /\ calls'[t] = calls[t]
  <1>1. ASSUME NEW h \in Handed \cup {None}, Call(t, h)
        PROVE  calls'[t] = calls[t] + 1 /\ pc[t] = "idle" /\ pc'[t] = "gate"
    BY <1>1 DEF Call, Goto, TypeOK
  <1>2. CASE \/ BadConfig(t) \/ Refuse(t) \/ Local(t) \/ Send(t) \/ Answered(t)
             \/ Unreachable(t) \/ Raised(t) \/ Return(t) \/ Die(t)
    BY <1>2 DEF BadConfig, Refuse, Local, Send, Answered, Unreachable, Raised,
                Return, Die, Goto, TypeOK, callVars
  <1>3. CASE UNCHANGED <<pc[t], active[t], handed[t], began[t], response[t], calls[t]>>
    BY <1>3 DEF TypeOK
  <1>4. calls[t] \in Nat
    BY DEF TypeOK
  <1> QED BY <1>1, <1>2, <1>3, <1>4, SessionStep

LEMMA RecordedStep ==
    ASSUME TypeOK, TypeOK', RecordedOnce, [Next]_vars
    PROVE  RecordedOnce'
  <1>t. \A i \in DOMAIN ledger :
          ledger[i].session \in Session /\ ledger[i].call \in Nat
    BY EntryType
  <1>1. CASE ledger' = ledger /\ \A s \in Session : ~RecordCost(s)
    <2>1. ASSUME NEW i \in DOMAIN ledger
          PROVE  /\ ledger[i].call <= calls'[ledger[i].session]
                 /\ pc'[ledger[i].session] \in {"gate", "calling", "respond"} =>
                      ledger[i].call < calls'[ledger[i].session]
      BY <1>1, <1>t, CallStep DEF RecordedOnce
    <2>2. ASSUME NEW t \in Session, pc'[t] = "return"
          PROVE  \E i \in DOMAIN ledger :
                   ledger[i].session = t /\ ledger[i].call = calls'[t] /\ ledger[i].by = response'[t].by
      BY <1>1, <2>2, CallStep DEF RecordedOnce
    <2> QED BY <1>1, <2>1, <2>2 DEF RecordedOnce
  <1>2. ASSUME NEW s \in Session, RecordCost(s),
               DOMAIN ledger = 1..Len(ledger), Len(ledger) \in Nat,
               DOMAIN ledger' = 1..(Len(ledger) + 1),
               \A i \in DOMAIN ledger : ledger'[i] = ledger[i],
               ledger'[Len(ledger) + 1].session = s,
               ledger'[Len(ledger) + 1].call = calls[s],
               ledger'[Len(ledger) + 1].by = response[s].by
        PROVE  RecordedOnce'
    <2>1. /\ pc[s] = "respond" /\ calls' = calls /\ pc' = [pc EXCEPT ![s] = "return"]
          /\ response'[s].by = response[s].by /\ calls[s] \in Nat
          /\ \A t \in Session : t # s => response'[t] = response[t]
      BY <1>2 DEF RecordCost, Goto, Answer, TypeOK, Response
    <2>2. \A i \in DOMAIN ledger : ledger[i].session = s => ledger[i].call < calls[s]
      BY <2>1, <1>t DEF RecordedOnce
    <2>3. \A i \in DOMAIN ledger' : i \in DOMAIN ledger \/ i = Len(ledger) + 1
      BY <1>2
    <2>4. \A i, j \in DOMAIN ledger' :
            ledger'[i].session = ledger'[j].session /\ ledger'[i].call = ledger'[j].call => i = j
      BY <1>2, <1>t, <2>1, <2>2, <2>3 DEF RecordedOnce
    <2>5. ASSUME NEW i \in DOMAIN ledger'
          PROVE  /\ ledger'[i].call <= calls'[ledger'[i].session]
                 /\ pc'[ledger'[i].session] \in {"gate", "calling", "respond"} =>
                      ledger'[i].call < calls'[ledger'[i].session]
      <3>1. CASE i = Len(ledger) + 1
        <4>1. pc'[s] = "return" /\ calls'[s] = calls[s]
          BY <2>1 DEF TypeOK
        <4> QED BY <1>2, <2>1, <3>1, <4>1
      <3>2. CASE i \in DOMAIN ledger
        <4> DEFINE u == ledger[i].session
        <4>1. /\ ledger'[i] = ledger[i] /\ u \in Session /\ calls'[u] = calls[u]
              /\ ledger[i].call <= calls[u]
          BY <1>2, <1>t, <2>1, <3>2 DEF RecordedOnce, TypeOK
        <4>2. pc'[u] \in {"gate", "calling", "respond"} => ledger[i].call < calls[u]
          BY <1>t, <2>1, <3>2, <4>1 DEF RecordedOnce, TypeOK
        <4> QED BY <4>1, <4>2
      <3> QED BY <2>3, <3>1, <3>2
    <2>6. ASSUME NEW t \in Session, pc'[t] = "return"
          PROVE  \E i \in DOMAIN ledger' :
                   ledger'[i].session = t /\ ledger'[i].call = calls'[t] /\ ledger'[i].by = response'[t].by
      <3>1. CASE t = s
        <4>1. Len(ledger) + 1 \in DOMAIN ledger'
          BY <1>2
        <4> QED BY <1>2, <2>1, <3>1, <4>1
      <3>2. CASE t # s
        <4>1. PICK i \in DOMAIN ledger :
                ledger[i].session = t /\ ledger[i].call = calls[t] /\ ledger[i].by = response[t].by
          BY <2>1, <2>6, <3>2 DEF RecordedOnce, TypeOK
        <4>2. i \in DOMAIN ledger' /\ ledger'[i] = ledger[i]
          BY <1>2
        <4> QED BY <2>1, <3>2, <4>1, <4>2
      <3> QED BY <3>1, <3>2
    <2> QED BY <2>4, <2>5, <2>6 DEF RecordedOnce
  <1> QED BY <1>1, <1>2, LedgerStep

LEMMA ServedStep ==
    ASSUME TypeOK, TypeOK', RecordedOnce, CallersServed, [Next]_vars
    PROVE  CallersServed'
  <1> DEFINE Served(i) == \E r \in returned : r.session = ledger[i].session /\ r.call = ledger[i].call
             Kept(r) == \E i \in DOMAIN ledger :
                          ledger[i].session = r.session /\ ledger[i].call = r.call /\ ledger[i].by = r.by
  <1>t. \A i \in DOMAIN ledger : ledger[i].session \in Session /\ ledger[i].call \in Nat
    BY EntryType
  <1>1. \A r \in returned : Kept(r)'
    <2>1. ASSUME NEW r \in returned PROVE Kept(r)'
      <3>1. PICK i \in DOMAIN ledger :
              ledger[i].session = r.session /\ ledger[i].call = r.call /\ ledger[i].by = r.by
        BY DEF CallersServed
      <3>2. i \in DOMAIN ledger' /\ ledger'[i] = ledger[i]
        BY LedgerStep
      <3> QED BY <3>1, <3>2
    <2> QED BY <2>1
  <1>2. \A r \in returned' : Kept(r)'
    <2>1. ASSUME NEW s \in Session, Return(s) PROVE \A r \in returned' : Kept(r)'
      <3>1. /\ pc[s] = "return" /\ ledger' = ledger
            /\ returned' = returned \cup {[session |-> s, call |-> calls[s], by |-> response[s].by]}
        BY <2>1 DEF Return
      <3>2. PICK i \in DOMAIN ledger :
              ledger[i].session = s /\ ledger[i].call = calls[s] /\ ledger[i].by = response[s].by
        BY <3>1 DEF RecordedOnce
      <3> QED BY <1>1, <3>1, <3>2
    <2>2. (\A s \in Session : ~Return(s)) => returned' = returned
      BY DEF Next, Call, BadConfig, Refuse, Local, Send, Answered, Unreachable,
             Raised, RecordCost, Die, Edit, vars
    <2> QED BY <1>1, <2>1, <2>2
  <1>3. returned \subseteq returned'
    BY DEF Next, Call, BadConfig, Refuse, Local, Send, Answered, Unreachable,
           Raised, RecordCost, Return, Die, Edit, vars
  <1>4. ASSUME NEW i \in DOMAIN ledger, ledger'[i] = ledger[i]
        PROVE  \/ Served(i)'
               \/ /\ pc'[ledger[i].session] \in {"return", "dead"}
                  /\ ledger[i].call = calls'[ledger[i].session]
    <2>1. CASE Served(i)
      BY <1>3, <1>4, <2>1
    <2>2. CASE ~Served(i)
      <3> DEFINE t == ledger[i].session
      <3>1. t \in Session /\ pc[t] \in {"return", "dead"} /\ ledger[i].call = calls[t]
        BY <1>t, <2>2 DEF CallersServed
      <3>2. ~RecordCost(t)
        BY <3>1 DEF RecordCost
      <3>3. CASE Return(t)
        <4>1. [session |-> t, call |-> calls[t], by |-> response[t].by] \in returned'
          BY <3>3 DEF Return
        <4> QED BY <1>4, <3>1, <4>1
      <3>4. CASE ~Return(t)
        BY <3>1, <3>2, <3>4, CallStep
      <3> QED BY <3>3, <3>4
    <2> QED BY <2>1, <2>2
  <1>5. ASSUME NEW i \in DOMAIN ledger', i \notin DOMAIN ledger
        PROVE  /\ pc'[ledger'[i].session] \in {"return", "dead"}
               /\ ledger'[i].call = calls'[ledger'[i].session]
    <2>1. PICK s \in Session : RecordCost(s) /\ ledger'[i].session = s /\ ledger'[i].call = calls[s]
      <3>1. ledger' # ledger
        BY <1>5
      <3> QED BY <1>5, <3>1, LedgerStep
    <2> QED BY <2>1 DEF RecordCost, Goto, TypeOK
  <1>6. \A i \in DOMAIN ledger : i \in DOMAIN ledger' /\ ledger'[i] = ledger[i]
    BY LedgerStep
  <1> QED BY <1>2, <1>4, <1>5, <1>6 DEF CallersServed

LEMMA RecordsStep ==
    ASSUME TypeOK, TypeOK', SentFirst, NetworkRecordsSent, LedgerWithinLimit, [Next]_vars
    PROVE  NetworkRecordsSent' /\ LedgerWithinLimit'
  <1>1. \A i \in DOMAIN ledger : i \in DOMAIN ledger' /\ ledger'[i] = ledger[i]
    BY LedgerStep
  <1>2. attempts \subseteq attempts'
    BY AttemptsStep DEF Send
  <1>3. ASSUME NEW i \in DOMAIN ledger', i \notin DOMAIN ledger
        PROVE  /\ ledger'[i].cost <= ledger'[i].limit
               /\ ledger'[i].by \in Networked =>
                    \E r \in attempts' : /\ r.session = ledger'[i].session /\ r.call = ledger'[i].call
                                         /\ r.own.kind = ledger'[i].by
    <2>0. ledger' # ledger
      BY <1>3
    <2>1. PICK s \in Session :
            /\ RecordCost(s) /\ ledger'[i].session = s /\ ledger'[i].call = calls[s]
            /\ ledger'[i].by = response[s].by
            /\ ledger'[i].cost = Charged(s) /\ ledger'[i].limit = active[s].limit
      BY <1>3, <2>0, LedgerStep
    <2>2. Charged(s) <= active[s].limit
      <3>1. response[s].cost \in Nat
        BY DEF TypeOK, Response
      <3>2. active[s].limit \in Nat
        BY OwnType
      <3> QED BY <3>1, <3>2 DEF Charged
    <2>3. pc[s] = "respond"
      BY <2>1 DEF RecordCost
    <2>4. response[s].by \in Networked =>
            \E r \in attempts : r.session = s /\ r.call = calls[s] /\ r.own.kind = response[s].by
      BY <2>3 DEF SentFirst
    <2> QED BY <1>2, <2>1, <2>2, <2>4
  <1>4. LedgerWithinLimit'
    BY <1>1, <1>3 DEF LedgerWithinLimit
  <1>5. NetworkRecordsSent'
    <2> SUFFICES ASSUME NEW i \in DOMAIN ledger', ledger'[i].by \in Networked
                 PROVE  \E r \in attempts' : /\ r.session = ledger'[i].session
                                             /\ r.call = ledger'[i].call /\ r.own.kind = ledger'[i].by
      BY DEF NetworkRecordsSent, Of, Networked
    <2>1. CASE i \in DOMAIN ledger
      <3>1. PICK r \in attempts : i \in Of(r) /\ r.own.kind = ledger[i].by
        BY <1>1, <2>1 DEF NetworkRecordsSent, Networked
      <3> QED BY <1>1, <1>2, <2>1, <3>1 DEF Of
    <2>2. CASE i \notin DOMAIN ledger
      BY <1>3, <2>2
    <2> QED BY <2>1, <2>2
  <1> QED BY <1>4, <1>5

LEMMA ProviderStep == ProviderInv /\ [Next]_vars => ProviderInv'
  BY TypeStep, ConfigStep, ConsentStep, SentStep, RecordedStep, ServedStep, RecordsStep
     DEF ProviderInv

LEMMA ProviderInvariant == Spec => []ProviderInv
  BY InitHolds, ProviderStep, PTL DEF Spec

-----------------------------------------------------------------------------
(* The calls implement Consultation: the initial states map to its initial  *)
(* state, and every step of a call, of a death or of the owner is a step of *)
(* it or changes nothing there.                                             *)

\* A call that has not passed its gate has sent nothing.
SentOnce ==
    \A r \in attempts :
        /\ r.call <= calls[r.session]
        /\ pc[r.session] = "gate" => r.call < calls[r.session]

LEMMA SentOnceStep == TypeOK /\ SentOnce /\ [Next]_vars => SentOnce'
  <1> SUFFICES ASSUME TypeOK, SentOnce, [Next]_vars PROVE SentOnce'
    OBVIOUS
  <1>0. /\ \A s \in Session : calls[s] \in Nat
        /\ \A r \in attempts : r.session \in Session /\ r.call \in Nat
        /\ calls \in [Session -> Nat]
    BY DEF TypeOK, Attempt
  <1>1. ASSUME NEW s \in Session, NEW h \in Handed \cup {None}, Call(s, h) PROVE SentOnce'
    <2>1. calls' = [calls EXCEPT ![s] = @ + 1] /\ pc' = [pc EXCEPT ![s] = "gate"] /\ attempts' = attempts
      BY <1>1 DEF Call, Goto
    <2> QED BY <1>0, <2>1 DEF SentOnce, TypeOK
  <1>2. ASSUME NEW s \in Session, Send(s) PROVE SentOnce'
    <2> DEFINE r == [session |-> s, call |-> calls[s], own |-> Own(s), handed |-> handed[s],
                     limit |-> active[s].limit, began |-> began[s]]
    <2>1. /\ attempts' = attempts \cup {r} /\ r.session = s /\ r.call = calls[s]
          /\ calls' = calls /\ pc' = [pc EXCEPT ![s] = "calling"]
      BY <1>2 DEF Send, Goto
    <2> HIDE DEF r
    <2> QED BY <1>0, <2>1 DEF SentOnce, TypeOK
  <1>3. ASSUME NEW s \in Session, NEW l, l # "gate", pc' = [pc EXCEPT ![s] = l],
               attempts' = attempts, calls' = calls
        PROVE  SentOnce'
    BY <1>0, <1>3 DEF SentOnce, TypeOK
  <1>4. ASSUME NEW s \in Session, BadConfig(s) \/ Raised(s) \/ Die(s) PROVE SentOnce'
    BY <1>3, <1>4 DEF BadConfig, Raised, Die, Goto
  <1>5. ASSUME NEW s \in Session,
               Refuse(s) \/ Local(s) \/ Answered(s) \/ Unreachable(s) \/ RecordCost(s) \/ Return(s)
        PROVE  SentOnce'
    BY <1>3, <1>5 DEF Refuse, Local, Answered, Unreachable, RecordCost, Return, Goto
  <1>6. CASE Edit \/ UNCHANGED vars
    BY <1>6 DEF Edit, vars, SentOnce
  <1> QED BY <1>1, <1>2, <1>4, <1>5, <1>6 DEF Next

ConsultInv == ProviderInv /\ SentOnce

LEMMA ConsultInvariant == Spec => []ConsultInv
  <1>1. Init => SentOnce
    BY DEF Init, SentOnce
  <1>2. ProviderInv /\ SentOnce /\ [Next]_vars => SentOnce'
    BY SentOnceStep DEF ProviderInv
  <1> QED BY <1>1, <1>2, ProviderInvariant, PTL DEF Spec, ConsultInv

\* What of the mapped state depends on what.
LEMMA Frames ==
    /\ configs' = configs => Allowance' = Allowance
    /\ calls' = calls => Begun' = Begun
    /\ attempts' = attempts => Requested' = Requested
    /\ ledger' = ledger => Records' = Records
    /\ returned' = returned => Replies' = Replies
  BY DEF Allowance, OnDisk, Begun, Requested, Records, Replies

LEMMA HandsApart ==
    ASSUME TypeOK, NEW s \in Session, NEW t \in Session, InHand(s) = InHand(t)
    PROVE  s = t
  BY DEF InHand

LEMMA SameHands ==
    ASSUME TypeOK, NEW s \in Session, NEW l, pc' = [pc EXCEPT ![s] = l],
           UNCHANGED <<active, handed, calls>>
    PROVE  /\ \A t \in Session : InHand(t)' = InHand(t)
           /\ UnderWay' = IF l \in {"idle", "dead"} THEN UnderWay \ {s} ELSE UnderWay \cup {s}
  <1>1. \A t \in Session : InHand(t)' = InHand(t)
    BY DEF InHand, Own
  <1>2. pc' \in [Session -> {pc'[t] : t \in Session}] /\ \A t \in Session : pc'[t] = IF t = s THEN l ELSE pc[t]
    BY DEF TypeOK
  <1> QED BY <1>1, <1>2 DEF UnderWay

\* A step within a call, and a step outside of one.
LEMMA GoesOn ==
    ASSUME TypeOK, NEW s \in Session, NEW l, pc' = [pc EXCEPT ![s] = l],
           UNCHANGED <<active, handed, calls>>,
           s \in UnderWay <=> l \notin {"idle", "dead"}
    PROVE  Pending' = Pending
  <1>1. UnderWay' = UnderWay /\ \A t \in Session : InHand(t)' = InHand(t)
    BY SameHands DEF UnderWay
  <1> QED BY <1>1 DEF Pending, UnderWay

\* The end of a call.
LEMMA Ends ==
    ASSUME TypeOK, NEW s \in UnderWay, NEW l \in {"idle", "dead"}, pc' = [pc EXCEPT ![s] = l],
           UNCHANGED <<active, handed, calls>>
    PROVE  Pending' = Pending \ {InHand(s)}
  <1>0. s \in Session
    BY DEF UnderWay
  <1>1. UnderWay' = UnderWay \ {s} /\ \A t \in Session : InHand(t)' = InHand(t)
    BY <1>0, SameHands
  <1>2. \A t \in UnderWay \ {s} : InHand(t) # InHand(s)
    BY <1>0, HandsApart DEF UnderWay
  <1>3. Pending' = {InHand(t) : t \in UnderWay \ {s}}
    BY <1>1 DEF Pending, UnderWay
  <1> QED BY <1>2, <1>3 DEF Pending

\* A call begins: it is asked.
LEMMA CallMaps ==
    ASSUME ConsultInv, NEW s \in Session, NEW h \in Handed \cup {None}, Call(s, h)
    PROVE  \E c \in Session \X (1..MaxCalls), brought \in BOOLEAN : Service!Ask(c, brought)
  <1> DEFINE c == <<s, calls[s] + 1>>
             item(allow) == [call |-> c, limit |-> Allowance.limit, allow |-> allow]
  <1>1. /\ TypeOK /\ calls[s] \in Nat /\ calls[s] < MaxCalls /\ calls' = [calls EXCEPT ![s] = @ + 1]
        /\ pc[s] = "idle" /\ pc' = [pc EXCEPT ![s] = "gate"]
        /\ active' = [active EXCEPT ![s] = OnDisk] /\ handed' = [handed EXCEPT ![s] = h]
        /\ OnDisk # Invalid
        /\ configs' = configs /\ attempts' = attempts /\ ledger' = ledger /\ returned' = returned
    BY DEF ConsultInv, ProviderInv, Call, Goto, TypeOK
  <1>2. c \in Session \X (1..MaxCalls) /\ c \notin Begun
    BY <1>1, ProviderAssumption DEF Begun
  <1>3. Begun' = Begun \cup {c}
    <2>1. \A t \in Session : calls'[t] = IF t = s THEN calls[s] + 1 ELSE calls[t]
      BY <1>1 DEF TypeOK
    <2> QED BY <1>1, <1>2, <2>1 DEF Begun
  <1>4. \A t \in Session \ {s} : InHand(t)' = InHand(t)
    BY <1>1 DEF InHand, Own, TypeOK
  <1>5. UnderWay' = UnderWay \cup {s} /\ s \notin UnderWay
    BY <1>1 DEF UnderWay, TypeOK
  <1>6. InHand(s)' = item(IF h = None THEN Allowance.allow ELSE h.allow)
    <2>1. calls'[s] = calls[s] + 1 /\ active'[s] = OnDisk /\ handed'[s] = h
      BY <1>1 DEF TypeOK
    <2>2. Own(s)' = IF h = None THEN OnDisk ELSE h
      BY <2>1 DEF Own
    <2>3. Allowance = [limit |-> OnDisk.limit, allow |-> OnDisk.allow]
      BY <1>1 DEF Allowance
    <2> QED BY <2>1, <2>2, <2>3 DEF InHand
  <1>7. Pending' = Pending \cup {InHand(s)'}
    <2>1. UnderWay \subseteq Session
      BY DEF UnderWay
    <2> QED BY <1>4, <1>5, <2>1 DEF Pending
  <1>8. /\ h # None => h.allow \in BOOLEAN
        /\ Allowance' = Allowance /\ Requested' = Requested /\ Records' = Records /\ Replies' = Replies
    BY <1>1, Frames, ProviderAssumption DEF Settings
  <1>9. CASE h = None
    <2>1. Service!Ask(c, FALSE)
      BY <1>2, <1>3, <1>6, <1>7, <1>8, <1>9 DEF Service!Ask
    <2> QED BY <1>2, <2>1
  <1>10. CASE h # None
    <2>1. Service!Ask(c, TRUE)
      BY <1>2, <1>3, <1>6, <1>7, <1>8, <1>10 DEF Service!Ask
    <2> QED BY <1>2, <2>1
  <1> QED BY <1>9, <1>10

LEMMA Unrecorded ==
    ASSUME ConsultInv, NEW s \in Session, pc[s] \in {"gate", "calling", "respond"}
    PROVE  ~Service!Recorded(<<s, calls[s]>>)
  <1>1. \A i \in DOMAIN ledger :
            /\ ledger[i].session \in Session /\ ledger[i].call \in Nat
            /\ ledger[i].session = s => ledger[i].call < calls[s]
    BY EntryType DEF ConsultInv, ProviderInv, RecordedOnce
  <1>2. calls[s] \in Nat
    BY DEF ConsultInv, ProviderInv, TypeOK
  <1>3. \A r \in Records : r.call # <<s, calls[s]>>
    <2> SUFFICES ASSUME NEW i \in DOMAIN ledger PROVE RecordOf(ledger[i]).call # <<s, calls[s]>>
      BY DEF Records
    <2> QED BY <1>1, <1>2 DEF RecordOf
  <1> QED BY <1>3 DEF Service!Recorded

\* A request goes out: with leave, the first of its call.
LEMMA SendMaps ==
    ASSUME ConsultInv, NEW s \in Session, Send(s)
    PROVE  InHand(s) \in Pending /\ Service!Request(InHand(s))
  <1> DEFINE r == [session |-> s, call |-> calls[s], own |-> Own(s), handed |-> handed[s],
                   limit |-> active[s].limit, began |-> began[s]]
  <1>1. /\ TypeOK /\ pc[s] = "gate" /\ pc' = [pc EXCEPT ![s] = "calling"]
        /\ attempts' = attempts \cup {r} /\ r.session = s /\ r.call = calls[s]
        /\ Own(s).allow /\ active[s].limit > 0
        /\ UNCHANGED <<configs, active, handed, calls, ledger, returned>>
    <2>1. active[s].limit \in Nat
      BY OwnType DEF ConsultInv, ProviderInv
    <2> QED BY <2>1 DEF ConsultInv, ProviderInv, Send, Refused, Goto, callVars
  <1> HIDE DEF r
  <1>2. s \in UnderWay /\ InHand(s) \in Pending /\ Pending' = Pending
    BY <1>1, GoesOn DEF UnderWay, Pending
  <1>3. Requested' = Requested \cup {<<s, calls[s]>>}
    BY <1>1 DEF Requested
  <1>4. <<s, calls[s]>> \notin Requested
    BY <1>1 DEF Requested, ConsultInv, SentOnce, TypeOK, Attempt
  <1>5. InHand(s).call = <<s, calls[s]>> /\ InHand(s).allow /\ InHand(s).limit > 0
    BY <1>1 DEF InHand
  <1>6. ~Service!Recorded(<<s, calls[s]>>)
    BY <1>1, Unrecorded
  <1> QED BY <1>1, <1>2, <1>3, <1>4, <1>5, <1>6, Frames DEF Service!Request

\* The record of a call: the only one, after the request it speaks of, within
\* the limit.
LEMMA RecordMaps ==
    ASSUME ConsultInv, NEW s \in Session, RecordCost(s)
    PROVE  InHand(s) \in Pending
           /\ \E by \in Kind, cost \in 0..InHand(s).limit : Service!Record(InHand(s), by, cost)
  <1> DEFINE by == response[s].by
             e == [session |-> s, call |-> calls[s], by |-> by, cost |-> Charged(s), limit |-> active[s].limit]
  <1>1. /\ TypeOK /\ pc[s] = "respond" /\ pc' = [pc EXCEPT ![s] = "return"]
        /\ ledger' = Append(ledger, e)
        /\ UNCHANGED <<configs, active, handed, calls, attempts, returned>>
    BY DEF ConsultInv, ProviderInv, RecordCost, Goto, callVars
  <1>2. s \in UnderWay /\ InHand(s) \in Pending /\ Pending' = Pending
    BY <1>1, GoesOn DEF UnderWay, Pending
  <1>3. by \in Kind /\ Charged(s) \in 0..InHand(s).limit
    <2>1. active[s].limit \in Nat /\ response[s] \in Response
      BY <1>1, OwnType DEF TypeOK
    <2> QED BY <2>1 DEF Charged, Response, InHand
  <1>4. e \in Entry
    BY <1>1, <1>3, OwnType DEF Entry, TypeOK, Charged, Response
  <1>5. Records' = Records \cup {[call |-> <<s, calls[s]>>, by |-> by, cost |-> Charged(s)]}
    <2>1. RecordOf(e) = [call |-> <<s, calls[s]>>, by |-> by, cost |-> Charged(s)]
      BY DEF RecordOf
    <2> HIDE DEF e
    <2>2. /\ DOMAIN ledger = 1..Len(ledger) /\ DOMAIN ledger' = 1..(Len(ledger) + 1) /\ Len(ledger) \in Nat
          /\ \A i \in DOMAIN ledger : ledger'[i] = ledger[i]
          /\ ledger'[Len(ledger) + 1] = e
      <3>1. ledger \in Seq(Entry)
        BY <1>1 DEF TypeOK, Entry
      <3> QED BY <1>1, <1>4, <3>1, AppendKeeps
    <2>3. Records' = Records \cup {RecordOf(e)}
      <3>1. DOMAIN ledger' = DOMAIN ledger \cup {Len(ledger) + 1}
        BY <2>2
      <3> QED BY <2>2, <3>1 DEF Records
    <2> QED BY <2>1, <2>3
  <1>6. by \in Networked => <<s, calls[s]>> \in Requested
    BY <1>1 DEF ConsultInv, ProviderInv, SentFirst, Requested
  <1>7. ~Service!Recorded(<<s, calls[s]>>)
    BY <1>1, Unrecorded
  <1>8. InHand(s).call = <<s, calls[s]>>
    BY DEF InHand
  <1>9. Service!Record(InHand(s), by, Charged(s))
    <2> HIDE DEF e, by
    <2> QED BY <1>1, <1>2, <1>5, <1>6, <1>7, <1>8, Frames DEF Service!Record, Networked
  <1> QED BY <1>2, <1>3, <1>9

\* A caller gets what the record says.
LEMMA ReturnMaps ==
    ASSUME ConsultInv, NEW s \in Session, Return(s)
    PROVE  InHand(s) \in Pending /\ Service!Reply(InHand(s))
  <1>1. /\ TypeOK /\ pc[s] = "return" /\ pc' = [pc EXCEPT ![s] = "idle"]
        /\ returned' = returned \cup {[session |-> s, call |-> calls[s], by |-> response[s].by]}
        /\ UNCHANGED <<configs, active, handed, calls, attempts, ledger>>
    BY DEF ConsultInv, ProviderInv, Return, Goto, callVars
  <1>2. s \in UnderWay /\ InHand(s) \in Pending /\ Pending' = Pending \ {InHand(s)}
    BY <1>1, Ends DEF UnderWay, Pending
  <1>3. PICK i \in DOMAIN ledger :
            ledger[i].session = s /\ ledger[i].call = calls[s] /\ ledger[i].by = response[s].by
    BY <1>1 DEF ConsultInv, ProviderInv, RecordedOnce
  <1>4. RecordOf(ledger[i]) \in Records
    BY DEF Records
  <1>5. RecordOf(ledger[i]).call = InHand(s).call /\ RecordOf(ledger[i]).by = response[s].by
        /\ InHand(s).call = <<s, calls[s]>>
    BY <1>3 DEF RecordOf, InHand
  <1>6. Replies' = Replies \cup {[call |-> <<s, calls[s]>>, by |-> response[s].by]}
    <2> DEFINE r == [session |-> s, call |-> calls[s], by |-> response[s].by]
    <2>1. returned' = returned \cup {r} /\ r.session = s /\ r.call = calls[s] /\ r.by = response[s].by
      BY <1>1
    <2> HIDE DEF r
    <2> QED BY <2>1 DEF Replies
  <1> QED BY <1>1, <1>2, <1>4, <1>5, <1>6, Frames DEF Service!Reply

LEMMA EditMaps ==
    ASSUME ConsultInv, Edit
    PROVE  Service!Decide
  <1>1. PICK c \in Config \cup {Invalid} : configs' = Append(configs, c)
    BY DEF Edit
  <1>2. OnDisk' = c
    BY <1>1, AppendKeeps DEF OnDisk, ConsultInv, ProviderInv, TypeOK
  <1>3. Allowance' \in [limit : Nat, allow : BOOLEAN]
    BY <1>2, ProviderAssumption DEF Allowance, Settings
  <1>4. Pending' = Pending
    BY DEF Edit, callVars, Pending, UnderWay, InHand, Own
  <1> QED BY <1>3, <1>4, Frames DEF Edit, callVars, Service!Decide, Service!Leave

\* Every step of the calls is a step of Consultation or leaves it alone.
LEMMA ConsultStep ==
    ASSUME ConsultInv, [Next]_vars
    PROVE  [Service!ConsultNext]_(Service!consultVars)
  <1>0. TypeOK
    BY DEF ConsultInv, ProviderInv
  <1>1. ASSUME NEW s \in Session, NEW h \in Handed \cup {None}, Call(s, h) PROVE Service!ConsultNext
    BY <1>1, CallMaps DEF Service!ConsultNext
  <1>2. ASSUME NEW s \in Session, Send(s) \/ Return(s) \/ RecordCost(s) PROVE Service!ConsultNext
    BY <1>2, SendMaps, ReturnMaps, RecordMaps DEF Service!ConsultNext
  <1>3. ASSUME NEW s \in Session, Refuse(s) \/ Local(s) \/ Answered(s) \/ Unreachable(s)
        PROVE  UNCHANGED Service!consultVars
    <2>1. /\ pc[s] \in {"gate", "calling"} /\ pc' = [pc EXCEPT ![s] = "respond"]
          /\ UNCHANGED <<configs, active, handed, calls, attempts, ledger, returned>>
      BY <1>3 DEF Refuse, Local, Answered, Unreachable, Goto, callVars
    <2>2. Pending' = Pending
      BY <1>0, <2>1, GoesOn DEF UnderWay
    <2> QED BY <2>1, <2>2, Frames DEF Service!consultVars
  <1>4. ASSUME NEW s \in Session, BadConfig(s) \/ Raised(s) \/ Die(s)
        PROVE  Service!ConsultNext \/ UNCHANGED Service!consultVars
    <2>1. /\ pc' = [pc EXCEPT ![s] = "dead"]
          /\ UNCHANGED <<configs, active, handed, calls, attempts, ledger, returned>>
      BY <1>4 DEF BadConfig, Raised, Die, Goto, callVars
    <2>2. CASE s \in UnderWay
      <3>1. InHand(s) \in Pending /\ Pending' = Pending \ {InHand(s)}
        BY <1>0, <2>1, <2>2, Ends DEF Pending
      <3> QED BY <2>1, <3>1, Frames DEF Service!GiveUp, Service!ConsultNext
    <2>3. CASE s \notin UnderWay
      <3>1. Pending' = Pending
        BY <1>0, <2>1, <2>3, GoesOn
      <3> QED BY <2>1, <3>1, Frames DEF Service!consultVars
    <2> QED BY <2>2, <2>3
  <1>5. CASE Edit
    BY <1>5, EditMaps DEF Service!ConsultNext
  <1>6. CASE UNCHANGED vars
    <2>1. UNCHANGED <<configs, active, handed, calls, attempts, ledger, returned, pc>>
      BY <1>6 DEF vars, callVars
    <2>2. Pending' = Pending
      BY <2>1 DEF Pending, UnderWay, InHand, Own
    <2> QED BY <2>1, <2>2, Frames DEF Service!consultVars
  <1> QED BY <1>1, <1>2, <1>3, <1>4, <1>5, <1>6 DEF Next

LEMMA ConsultStart == Init => Service!ConsultInit
  <1> SUFFICES ASSUME Init PROVE Service!ConsultInit
    OBVIOUS
  <1>1. PICK c \in Config : configs = <<c>>
    BY DEF Init
  <1>2. OnDisk = c
    BY <1>1 DEF OnDisk
  <1>3. Allowance \in [limit : Nat, allow : BOOLEAN]
    BY <1>2, ProviderAssumption DEF Allowance, Settings
  <1>4. Begun = {} /\ Pending = {}
    BY DEF Init, Begun, Pending, UnderWay
  <1>5. Requested = {} /\ Records = {} /\ Replies = {}
    BY DEF Init, Requested, Records, Replies
  <1> QED BY <1>3, <1>4, <1>5 DEF Service!ConsultInit, Service!Leave

-----------------------------------------------------------------------------
(* The theorems. *)

\* The state of the calls keeps its type.
THEOREM TypeCorrect == Spec => []TypeOK
  <1>1. ProviderInv => TypeOK
    BY DEF ProviderInv
  <1> QED BY <1>1, ProviderInvariant, PTL

\* No request leaves without consent, whatever the configuration was before the
\* call or became during it (docs/safety.md:43, service.py:34-52).
THEOREM Consent == Spec => []NetworkNeedsConsent
  <1>1. ProviderInv => NetworkNeedsConsent
    BY DEF ProviderInv
  <1> QED BY <1>1, ProviderInvariant, PTL

\* A record names a network provider only if that call sent a request
\* (service.py:54-57).
THEOREM RecordsOfRequests == Spec => []NetworkRecordsSent
  <1>1. ProviderInv => NetworkRecordsSent
    BY DEF ProviderInv
  <1> QED BY <1>1, ProviderInvariant, PTL

\* No record exceeds the limit its call was made under (service.py:59-63).
THEOREM WithinLimit == Spec => []LedgerWithinLimit
  <1>1. ProviderInv => LedgerWithinLimit
    BY DEF ProviderInv
  <1> QED BY <1>1, ProviderInvariant, PTL

\* Each response a caller got has one record, of the provider that gave it
\* (service.py:65-77).
THEOREM OneRecordEach == Spec => []ResponsesLedgered
  <1>1. ProviderInv => ResponsesLedgered
    <2> SUFFICES ASSUME ProviderInv PROVE ResponsesLedgered
      OBVIOUS
    <2> USE DEF ProviderInv
    <2>1. ASSUME NEW r \in returned
          PROVE  Cardinality(Of(r)) = 1 /\ \A i \in Of(r) : ledger[i].by = r.by
      <3>1. PICK i \in DOMAIN ledger :
              ledger[i].session = r.session /\ ledger[i].call = r.call /\ ledger[i].by = r.by
        BY DEF CallersServed
      <3>2. Of(r) = {i}
        BY <3>1 DEF Of, RecordedOnce
      <3> QED BY <3>1, <3>2, FS_Singleton
    <2>2. ASSUME NEW i \in DOMAIN ledger
          PROVE  \/ \E r \in returned : i \in Of(r)
                 \/ /\ pc[ledger[i].session] \in {"return", "dead"}
                    /\ ledger[i].call = calls[ledger[i].session]
      BY DEF CallersServed, Of
    <2> QED BY <2>1, <2>2 DEF ResponsesLedgered
  <1> QED BY <1>1, ProviderInvariant, PTL

\* The calls do what their callers and the owner may count on: each is settled
\* by the leave that holds when it begins, sends one request at most, and is
\* replied to after its one record (service.py:27-92).
THEOREM ConsultationImplemented == Spec => ImplementsConsultation
  <1>1. ConsultInv /\ [Next]_vars => [Service!ConsultNext]_(Service!consultVars)
    BY ConsultStep
  <1> QED BY <1>1, ConsultStart, ConsultInvariant, PTL DEF Spec, ImplementsConsultation, Service!ConsultSpec
=============================================================================
