------------------------------ MODULE HuntProofs ------------------------------
(***************************************************************************)
(* What TLAPS proves of `myco hunt` and of `myco report` beside it, for    *)
(* every set of sessions and files, every naming of the probes, all        *)
(* command lines, estimates and budgets, and any number of edits.          *)
(***************************************************************************)
EXTENDS Report, TLAPS, FiniteSetTheorems

Stages == {"scan", "no_target", "no_match", "no_target_cost", "next", "open", "fill",
           "generated", "cost", "no_run", "verify", "start", "running", "lost", "done", "dead"}

\* A session has a risk in hand.
Verifying == {"no_run", "verify", "start", "running", "lost"}
Working == {"open", "fill", "generated", "cost"} \cup Verifying
InHand ==
    \A s \in Session :
        /\ at[s] >= 1
        /\ pc[s] \in Working => at[s] <= Len(selected[s])

\* What is generated waits for its ledger record, and then for its outcome: of a
\* log l, a session at p and the risk f in hand.
Waits(l, p, f) ==
    /\ p = "cost" => Len(l) >= 1 /\ l[Len(l)].type = "probe_generated" /\ SameRisk(l[Len(l)], f)
    /\ p \in Verifying =>
          /\ Len(l) >= 2
          /\ l[Len(l) - 1].type = "probe_generated" /\ SameRisk(l[Len(l) - 1], f)
          /\ l[Len(l)].type = "cost_recorded"
    /\ \A i \in DOMAIN l : l[i].type = "probe_generated" /\ p # "dead" =>
          \/ i + 2 <= Len(l)
          \/ p = "cost" /\ i = Len(l)
          \/ p \in Verifying /\ i = Len(l) - 1
Followed(l) ==
    \A i \in DOMAIN l : l[i].type = "probe_generated" =>
        /\ i + 1 <= Len(l) => l[i + 1].type = "cost_recorded" /\ SameRisk(l[i + 1], l[i])
        /\ i + 2 <= Len(l) => l[i + 2].type \in Outcomes /\ SameRisk(l[i + 2], l[i])
EventsInHand == \A s \in Session : Waits(log[s], pc[s], Current(s)) /\ Followed(log[s])

\* What has been consumed, against what may be.
Limit(s) == opt[s].budget - Reserved + MaxOf(AskTokens) + MaxOf(ProbeTokens)
Spending ==
    \A s \in Session :
        /\ pc[s] \in {"open", "fill", "generated"} => consumed[s] + Reserved <= opt[s].budget
        /\ pc[s] = "cost" => consumed[s] <= Limit(s)
        /\ \A i \in DOMAIN log[s] : Noted(s, i) => log[s][i].num <= consumed[s]

\* The risks before the one in hand are answered.
AnsweredSoFar ==
    \A s \in Session :
        /\ pc[s] = "scan" => log[s] = <<>> /\ at[s] = 1
        /\ pc[s] \in {"no_target", "no_match", "no_target_cost"} => selected[s] = <<>>
        /\ pc[s] \in Working \cup {"next"} =>
              Cardinality(Answered(s)) = at[s] - 1 /\ at[s] <= Len(selected[s]) + 1

\* A probe file bears the path of its test, and so does what a session runs.
Named(content, p) ==
    content = <<>> \/ \E t \in Test : content = <<t>> /\ PathOf(t.mode, t.target, t.kind) = p
ProbesNamed ==
    /\ \A p \in DOMAIN probes : Named(probes[p], p)
    /\ \A s \in Session : pc[s] = "running" => Named(running[s], Path(s))

\* Another session than s has asked for the probe at p.
Writer(q, p) == \E m \in Mode, t \in Target, k \in Kind : PathOf(m, t, k) = p /\ Hunted(q, m, t, k)
Contended(s, p) == \E q \in Session \ {s} : Writer(q, p)

\* A probe is damaged for those only who are not alone at its path: a text that
\* a session finds in a file it has emptied is another's.
Damaged(content) == content # <<>> /\ ~content[1].whole
DamageShared ==
    /\ \A s \in Session : pc[s] \in Working => Writer(s, Path(s))
    /\ \A s \in Session : pc[s] = "fill" =>
          Path(s) \in DOMAIN probes /\ (probes[Path(s)] # <<>> => Contended(s, Path(s)))
    /\ \A p \in DOMAIN probes, s \in Session : Damaged(probes[p]) /\ pc[s] # "dead" => Contended(s, p)
    /\ \A s \in Session : pc[s] = "running" /\ Damaged(running[s]) => Contended(s, Path(s))

HuntInv ==
    /\ TypeOK /\ InHand
    /\ EventsInHand
    /\ Spending /\ BudgetHolds
    /\ AnsweredSoFar /\ EveryRiskAnswered
    /\ ProbesNamed /\ DamageShared /\ VerdictsAreEarned

(***************************************************************************)
(* Constants, options and logs.                                            *)
(***************************************************************************)
LEMMA Numbers ==
    /\ RiskTokens \in Nat /\ MaxOutput \in Nat /\ Reserved \in Nat /\ MaxEdits \in Nat
    /\ MaxOf(AskTokens) \in Nat /\ \A n \in AskTokens : n \in Nat /\ n <= MaxOf(AskTokens)
    /\ MaxOf(ProbeTokens) \in Nat /\ \A n \in ProbeTokens : n \in Nat /\ n <= MaxOf(ProbeTokens)
  <1>1. RiskTokens \in Nat /\ MaxOutput \in Nat /\ MaxEdits \in Nat /\ Reserved \in Nat
    BY HuntAssumption DEF Reserved
  <1>2. ASSUME NEW S \in SUBSET Nat, \E n \in S : \A m \in S : m <= n
        PROVE  MaxOf(S) \in S /\ \A n \in S : n <= MaxOf(S)
    BY <1>2 DEF MaxOf
  <1>3. /\ AskTokens \in SUBSET Nat /\ \E n \in AskTokens : \A m \in AskTokens : m <= n
        /\ ProbeTokens \in SUBSET Nat /\ \E n \in ProbeTokens : \A m \in ProbeTokens : m <= n
    BY HuntAssumption
  <1>4. MaxOf(AskTokens) \in AskTokens /\ \A n \in AskTokens : n <= MaxOf(AskTokens)
    BY <1>2, <1>3
  <1>5. MaxOf(ProbeTokens) \in ProbeTokens /\ \A n \in ProbeTokens : n <= MaxOf(ProbeTokens)
    BY <1>2, <1>3
  <1> QED BY <1>1, <1>3, <1>4, <1>5

LEMMA OptionType ==
    ASSUME NEW o \in Options
    PROVE  /\ o.mode \in Mode /\ o.run \in BOOLEAN /\ o.dry \in BOOLEAN
           /\ o.limit \in Nat /\ o.budget \in Nat
  BY HuntAssumption

LEMMA Appended ==
    ASSUME NEW S, NEW l \in Seq(S), NEW e \in S
    PROVE  /\ Append(l, e) \in Seq(S)
           /\ Len(l) \in Nat /\ Len(Append(l, e)) = Len(l) + 1
           /\ DOMAIN l = 1..Len(l) /\ DOMAIN Append(l, e) = 1..(Len(l) + 1)
           /\ \A i \in 1..Len(l) : Append(l, e)[i] = l[i]
           /\ Append(l, e)[Len(l) + 1] = e
  OBVIOUS

\* The risks a scan can find: three of a file.
Most == 3 * Cardinality(Target)

LEMMA KindsCount ==
    /\ IsFiniteSet(Target \X Kind) /\ Cardinality(Target \X Kind) = Most
    /\ Most \in Nat /\ Cardinality(Target) \in Nat
  <1> DEFINE one == {"timezone_boundary"}
             two == one \cup {"mutable_default_argument"}
  <1>1. IsFiniteSet(one) /\ Cardinality(one) = 1
    BY FS_Singleton
  <1>2. IsFiniteSet(two) /\ Cardinality(two) = 2
    <2>1. "mutable_default_argument" \notin one
      OBVIOUS
    <2> HIDE DEF one
    <2> QED BY <1>1, <2>1, FS_AddElement
  <1>3. Kind = two \cup {"broad_exception_swallow"} /\ "broad_exception_swallow" \notin two
    BY DEF Kind
  <1> HIDE DEF two
  <1>4. IsFiniteSet(Kind) /\ Cardinality(Kind) = 3
    BY <1>2, <1>3, FS_AddElement
  <1>5. IsFiniteSet(Target) /\ Cardinality(Target) \in Nat
    BY HuntAssumption, FS_CardinalityType
  <1>6. IsFiniteSet(Target \X Kind) /\ Cardinality(Target \X Kind) = Cardinality(Target) * Cardinality(Kind)
    BY <1>4, <1>5, FS_Product
  <1> QED BY <1>4, <1>5, <1>6 DEF Most

LEMMA RisksFinite ==
    ASSUME NEW src, NEW score
    PROVE  /\ IsFiniteSet(RisksOf(src, score))
           /\ Cardinality(RisksOf(src, score)) \in Nat
           /\ Cardinality(RisksOf(src, score)) <= Most
  <1> DEFINE T == {y \in Target \X Kind : Risky(src[y[1]][y[2]]) /\ score[y] > 0}
             f == [x \in T |-> [target |-> x[1], kind |-> x[2], score |-> score[x],
                                pattern |-> PatternOf(src[x[1]][x[2]])]]
             R == RisksOf(src, score)
  <1>1. IsFiniteSet(T) /\ Cardinality(T) <= Most
    BY KindsCount, FS_Subset
  <1>2. f \in Surjection(T, R)
    BY DEF Surjection, RisksOf
  <1> HIDE DEF T, f, R
  <1>3. IsFiniteSet(R) /\ Cardinality(R) <= Cardinality(T)
    BY <1>1, <1>2, FS_Surjection
  <1>4. Cardinality(T) \in Nat /\ Cardinality(R) \in Nat
    BY <1>1, <1>3, FS_CardinalityType
  <1> QED BY <1>1, <1>3, <1>4, KindsCount DEF R

\* The risks a scan selects are risks, three for a file at most.
LEMMA SelectionType ==
    ASSUME NEW src \in [Target -> Content], NEW score \in Scorings, NEW o \in Options,
           NEW chosen \in Selections(RisksOf(src, score), o)
    PROVE  chosen \in Seq(Risk) /\ Len(chosen) \in Nat /\ Len(chosen) <= Most
  <1> DEFINE R == {r \in RisksOf(src, score) : r.target \in o.want}
  <1>1. R \subseteq Risk
    <2>1. score \in [Target \X Kind -> Nat]
      BY HuntAssumption
    <2>2. \A r \in RisksOf(src, score) : r \in Risk
      BY <2>1 DEF RisksOf, Risk, PatternOf
    <2> QED BY <2>2
  <1>2. IsFiniteSet(R) /\ Cardinality(R) <= Cardinality(RisksOf(src, score))
        /\ Cardinality(RisksOf(src, score)) <= Most
        /\ Cardinality(RisksOf(src, score)) \in Nat /\ Most \in Nat
    BY RisksFinite, KindsCount, FS_Subset
  <1>3. Cardinality(R) \in Nat /\ Cardinality(R) <= Most
    <2>1. Cardinality(R) \in Nat
      BY <1>2, FS_CardinalityType
    <2> HIDE DEF R
    <2> QED BY <1>2, <2>1
  <1>4. PICK seq \in Ranked(R) :
            chosen = SubSeq(seq, 1, IF o.limit < Len(seq) THEN o.limit ELSE Len(seq))
    BY DEF Selections
  <1>5. seq \in [1..Cardinality(R) -> R]
    BY <1>4 DEF Ranked
  <1> HIDE DEF R
  <1>6. seq \in Seq(Risk) /\ Len(seq) \in Nat /\ Len(seq) <= Most
    BY <1>1, <1>3, <1>5
  <1>7. o.limit \in Nat
    BY OptionType
  <1>8. CASE o.limit < Len(seq)
    BY <1>2, <1>4, <1>6, <1>7, <1>8
  <1>9. CASE ~(o.limit < Len(seq))
    BY <1>4, <1>6, <1>9
  <1> QED BY <1>8, <1>9

LEMMA Recorded ==
    ASSUME TypeOK, NEW s \in Session, NEW type, NEW n, NEW saw, Record(s, type, n, saw)
    PROVE  log'[s] = Append(log[s], [type |-> type, target |-> Current(s).target, kind |-> Current(s).kind,
                                     num |-> n, saw |-> saw])
  BY DEF Record, Current, TypeOK

LEMMA Noting ==
    ASSUME TypeOK, NEW s \in Session, NEW type, NEW n, Note(s, type, n)
    PROVE  log'[s] = Append(log[s], [type |-> type, target |-> Current(s).target, kind |-> Current(s).kind,
                                     num |-> n, saw |-> [probe |-> <<>>, src |-> "absent"]])
  BY Recorded DEF Note

LEMMA RecordType ==
    ASSUME TypeOK, NEW s \in Session, Current(s) \in Risk,
           NEW type \in Outcomes \cup {"model_call_recorded", "probe_generated", "cost_recorded"},
           NEW n \in Int, NEW saw \in [probe : Seq(Test), src : Reading],
           Record(s, type, n, saw)
    PROVE  log' \in [Session -> Seq(Entry)]
  <1> DEFINE e == [type |-> type, target |-> Current(s).target, kind |-> Current(s).kind,
                                     num |-> n, saw |-> saw]
  <1>1. e \in Entry
    BY DEF Entry, Risk
  <1>2. log' = [log EXCEPT ![s] = Append(@, e)]
    BY DEF Record, Current
  <1>3. log \in [Session -> Seq(Entry)] /\ log[s] \in Seq(Entry)
    BY DEF TypeOK
  <1> HIDE DEF e
  <1>4. Append(log[s], e) \in Seq(Entry)
    BY <1>1, <1>3
  <1> QED BY <1>2, <1>3, <1>4

LEMMA NoteType ==
    ASSUME TypeOK, NEW s \in Session, Current(s) \in Risk,
           NEW type \in Outcomes \cup {"model_call_recorded", "probe_generated", "cost_recorded"},
           NEW n \in Int, Note(s, type, n)
    PROVE  log' \in [Session -> Seq(Entry)]
  <1> DEFINE none == [probe |-> <<>>, src |-> "absent"]
  <1>1. none \in [probe : Seq(Test), src : Reading]
    BY DEF Reading
  <1>2. Record(s, type, n, none)
    BY DEF Note
  <1> HIDE DEF none
  <1> QED BY <1>1, <1>2, RecordType

LEMMA CurrentType ==
    ASSUME TypeOK, InHand, NEW s \in Session, at[s] <= Len(selected[s])
    PROVE  /\ at[s] \in 1..Len(selected[s]) /\ Len(selected[s]) \in Nat
           /\ Current(s) \in Risk /\ Current(s).target \in Target /\ Current(s).kind \in Kind
           /\ opt[s] \in Options /\ opt[s].mode \in Mode
           /\ Path(s) \in Pathname
  <1>1. at[s] \in 1..Len(selected[s]) /\ Len(selected[s]) \in Nat /\ selected[s] \in Seq(Risk)
    BY DEF TypeOK, InHand
  <1>2. Current(s) \in Risk
    BY <1>1 DEF Current
  <1>3. opt[s] \in Options /\ opt[s].mode \in Mode
    BY OptionType DEF TypeOK
  <1> QED BY <1>1, <1>2, <1>3 DEF Risk, Path, Pathname

LEMMA TestType ==
    ASSUME TypeOK, InHand, NEW s \in Session, at[s] <= Len(selected[s]), NEW whole \in BOOLEAN
    PROVE  /\ TestOf(s, whole) \in Test /\ <<TestOf(s, whole)>> \in Seq(Test)
           /\ TestOf(s, whole).mode = opt[s].mode
           /\ TestOf(s, whole).target = Current(s).target /\ TestOf(s, whole).kind = Current(s).kind
           /\ TestOf(s, whole).whole = whole
  <1>1. TestOf(s, whole) \in Test
    BY CurrentType DEF TestOf, Test, Risk
  <1> QED BY <1>1 DEF TestOf

LEMMA PutFile ==
    ASSUME NEW p, NEW file, probes' = Put(p, file)
    PROVE  /\ DOMAIN probes' = DOMAIN probes \cup {p} /\ probes'[p] = file
           /\ \A q \in DOMAIN probes : q # p => probes'[q] = probes[q]
  BY DEF Put

\* What a step does to the probes: a session writes its file, or one is removed.
\* What is left of a test comes of a file that was not empty, or of a death.
Wrote(s) ==
    /\ at[s] <= Len(selected[s]) /\ pc[s] \in {"open", "fill"}
    /\ \E file : /\ probes' = Put(Path(s), file)
                 /\ \/ file = <<>> /\ pc[s] = "open"
                    \/ \E whole \in BOOLEAN :
                          /\ file = <<TestOf(s, whole)>> /\ pc[s] = "fill" /\ pc'[s] # "fill"
                          /\ whole \/ probes[Path(s)] # <<>> \/ pc'[s] = "dead"
Removed(p) ==
    /\ pc' = pc /\ \A s \in Session : pc[s] # "fill"
    /\ probes' = [q \in DOMAIN probes \ {p} |-> probes[q]]
LEMMA ProbeSteps ==
    ASSUME TypeOK, InHand, [Next]_vars
    PROVE  probes' = probes \/ (\E s \in Session : Wrote(s)) \/ \E p \in DOMAIN probes : Removed(p)
  <1>t. pc \in [Session -> Stages]
    BY DEF TypeOK, Stages
  <1>1. ASSUME NEW s \in Session, OpenProbe(s) PROVE Wrote(s)
    BY <1>1 DEF OpenProbe, Wrote, InHand, Working
  <1>2. ASSUME NEW s \in Session, FillProbe(s) PROVE Wrote(s)
    <2>1. PICK whole \in BOOLEAN :
              probes' = Put(Path(s), <<TestOf(s, whole)>>) /\ (whole \/ probes[Path(s)] # <<>>)
      BY <1>2 DEF FillProbe
    <2>2. pc[s] = "fill" /\ pc'[s] = "generated" /\ at[s] <= Len(selected[s])
      BY <1>t, <1>2 DEF FillProbe, Goto, InHand, Working
    <2> QED BY <2>1, <2>2 DEF Wrote
  <1>3. ASSUME NEW s \in Session, Die(s) PROVE probes' = probes \/ Wrote(s)
    <2>1. pc'[s] = "dead" /\ (pc[s] = "fill" => at[s] <= Len(selected[s]))
      BY <1>t, <1>3 DEF Die, Goto, InHand, Working
    <2> QED BY <1>3, <2>1 DEF Die, Wrote
  <1>4. CASE Edit
    BY <1>4 DEF Edit, Removed
  <1>5. ASSUME NEW s \in Session, Step(s), ~OpenProbe(s), ~FillProbe(s) PROVE probes' = probes
    BY <1>5 DEF Step, Scan, Idle, Finish, OverBudget, Ask, Generated, Cost, NoRun, NotRunnable, Check, Load, Outcome
  <1> QED BY <1>1, <1>2, <1>3, <1>4, <1>5 DEF Next, vars

LEMMA ProbesType ==
    ASSUME TypeOK, InHand, [Next]_vars
    PROVE  DOMAIN probes' \subseteq Pathname /\ \A p \in DOMAIN probes' : probes'[p] \in Seq(Test)
  <1>1. DOMAIN probes \subseteq Pathname /\ \A p \in DOMAIN probes : probes[p] \in Seq(Test)
    BY DEF TypeOK
  <1>2. ASSUME NEW s \in Session, Wrote(s)
        PROVE  DOMAIN probes' \subseteq Pathname /\ \A p \in DOMAIN probes' : probes'[p] \in Seq(Test)
    <2>1. PICK file : probes' = Put(Path(s), file) /\ file \in Seq(Test)
      <3>1. PICK file : /\ probes' = Put(Path(s), file)
                        /\ file = <<>> \/ \E whole \in BOOLEAN : file = <<TestOf(s, whole)>>
        BY <1>2 DEF Wrote
      <3>2. <<>> \in Seq(Test)
        OBVIOUS
      <3> QED BY <1>2, <3>1, <3>2, TestType DEF Wrote
    <2>2. Path(s) \in Pathname
      BY <1>2, CurrentType DEF Wrote
    <2>3. DOMAIN probes' = DOMAIN probes \cup {Path(s)} /\ probes'[Path(s)] = file
          /\ \A q \in DOMAIN probes : q # Path(s) => probes'[q] = probes[q]
      BY <2>1, PutFile
    <2>4. ASSUME NEW p \in DOMAIN probes' PROVE probes'[p] \in Seq(Test)
      <3>1. CASE p = Path(s)
        BY <2>1, <2>3, <3>1
      <3>2. CASE p # Path(s)
        BY <1>1, <2>3, <3>2
      <3> QED BY <3>1, <3>2
    <2> QED BY <1>1, <2>2, <2>3, <2>4
  <1>3. CASE \E p \in DOMAIN probes : Removed(p)
    BY <1>1, <1>3 DEF Removed
  <1> QED BY <1>1, <1>2, <1>3, ProbeSteps

LEMMA ReadingType ==
    ASSUME NEW c \in Content, NEW k \in Kind
    PROVE  c[k] \in Reading
  BY DEF Content, Reading

(***************************************************************************)
(* What a step means for one session.                                      *)
(***************************************************************************)
LEMMA SessionStep ==
    ASSUME TypeOK, [Next]_vars, NEW t \in Session
    PROVE  /\ opt' = opt
           /\ \/ UNCHANGED <<pc[t], selected[t], at[t], consumed[t], running[t], log[t]>>
              \/ Step(t) \/ Die(t)
  <1> USE DEF TypeOK
  <1>1. opt' = opt
    BY DEF Next, Step, Scan, Idle, Finish, OverBudget, Ask, OpenProbe, FillProbe, Generated, Cost, NoRun,
           NotRunnable, Check, Load, Outcome, Die, Edit, vars
  <1>2. ASSUME NEW s \in Session, s # t,
               Scan(s) \/ Idle(s) \/ Finish(s) \/ OverBudget(s) \/ Ask(s) \/ OpenProbe(s) \/ FillProbe(s) \/ Die(s)
               \/ Check(s)
        PROVE  UNCHANGED <<pc[t], selected[t], at[t], consumed[t], running[t], log[t]>>
    BY <1>2 DEF Scan, Idle, Finish, OverBudget, Ask, OpenProbe, FillProbe, Die, Check, Goto, Note, Record
  <1>3. ASSUME NEW s \in Session, s # t, Generated(s) \/ Cost(s) \/ NoRun(s) \/ Load(s)
        PROVE  UNCHANGED <<pc[t], selected[t], at[t], consumed[t], running[t], log[t]>>
    BY <1>3 DEF Generated, Cost, NoRun, Load, Goto, NextRisk, Note, Record
  <1>4. ASSUME NEW s \in Session, s # t, NotRunnable(s) \/ Outcome(s)
        PROVE  UNCHANGED <<pc[t], selected[t], at[t], consumed[t], running[t], log[t]>>
    <2>1. \E type, n, saw : Record(s, type, n, saw)
      BY <1>4 DEF NotRunnable, Outcome, Note
    <2>2. log'[t] = log[t]
      BY <1>4, <2>1 DEF Record
    <2> QED BY <1>4, <2>2 DEF NotRunnable, Outcome, Goto, NextRisk
  <1>5. CASE Edit \/ UNCHANGED vars
    BY <1>5 DEF Edit, vars
  <1> QED BY <1>1, <1>2, <1>3, <1>4, <1>5 DEF Next, Step

LEMMA InitHolds == Init => HuntInv
  <1> SUFFICES ASSUME Init PROVE HuntInv
    OBVIOUS
  <1>1. /\ source \in [Target -> Content] /\ opt \in [Session -> Options]
    BY HuntAssumption DEF Init
  <1>2. TypeOK
    BY <1>1, Numbers DEF Init, TypeOK
  <1>3. /\ \A s \in Session : pc[s] = "scan" /\ at[s] = 1 /\ log[s] = <<>> /\ DOMAIN log[s] = {}
        /\ DOMAIN probes = {}
    BY DEF Init
  <1>4. InHand /\ EventsInHand /\ Spending /\ BudgetHolds
    BY <1>3 DEF InHand, Working, Verifying, EventsInHand, Waits, Followed, Spending, BudgetHolds, OvershootBounded,
                OverBudgetStops
  <1>5. AnsweredSoFar /\ EveryRiskAnswered /\ ProbesNamed /\ DamageShared /\ VerdictsAreEarned
    BY <1>3 DEF Working, Verifying, AnsweredSoFar, EveryRiskAnswered, ProbesNamed, DamageShared, VerdictsAreEarned
  <1> QED BY <1>2, <1>4, <1>5 DEF HuntInv

\* The return codes a test process can end with.
CodesOf(s) ==
    IF pc[s] = "running" THEN Verdicts(running[s], Runner[Current(s).target], source)
    ELSE {IF Runner[Current(s).target] = "pytest" THEN 4 ELSE 1}
LEMMA OutcomeCodes ==
    ASSUME NEW s \in Session, Outcome(s)
    PROVE  \E rc \in CodesOf(s) \cup Broken :
              /\ rc \in Int
              /\ Record(s, StatusOf(rc), rc,
                   [probe |-> running[s],
                    src |-> IF running[s] = <<>> THEN "absent"
                            ELSE source[running[s][1].target][running[s][1].kind]])
  <1>1. \A rc \in CodesOf(s) \cup Broken : rc \in Int
    <2>1. \A rc \in CodesOf(s) : rc \in {0, 1, 2, 5} \/ rc \in {1, 4}
      BY Zenon DEF CodesOf, Verdicts
    <2>2. \A rc \in Broken : rc \in Int
      BY HuntAssumption
    <2> QED BY <2>1, <2>2
  <1> QED BY <1>1, Zenon DEF Outcome, CodesOf

LEMMA TypeStep == TypeOK /\ InHand /\ ProbesNamed /\ [Next]_vars => TypeOK'
  <1> SUFFICES ASSUME TypeOK, InHand, ProbesNamed, [Next]_vars PROVE TypeOK'
    OBVIOUS
  <1>t. /\ source \in [Target -> Content] /\ pc \in [Session -> Stages] /\ opt \in [Session -> Options]
        /\ selected \in [Session -> Seq(Risk)] /\ at \in [Session -> Nat]
        /\ consumed \in [Session -> Nat] /\ running \in [Session -> Seq(Test)]
        /\ log \in [Session -> Seq(Entry)]
    BY DEF TypeOK, Stages
  <1>p. DOMAIN probes' \subseteq Pathname /\ \A p \in DOMAIN probes' : probes'[p] \in Seq(Test)
    BY ProbesType
  <1>1. ASSUME NEW s \in Session, Scan(s) PROVE TypeOK'
    <2>1. PICK score \in Scorings :
              \E chosen \in Selections(RisksOf(source, score), opt[s]) : selected' = [selected EXCEPT ![s] = chosen]
      BY <1>1 DEF Scan
    <2>2. selected' \in [Session -> Seq(Risk)]
      BY <1>t, <2>1, SelectionType
    <2>3. pc' \in [Session -> Stages]
      BY <1>1, <1>t DEF Scan, Goto, Stages
    <2> QED BY <1>1, <2>2, <2>3, Numbers DEF Scan, TypeOK, Stages, ownerVars
  <1>2. ASSUME NEW s \in Session, Idle(s) PROVE TypeOK'
    <2> DEFINE e(type) == [type |-> type, target |-> "none", kind |-> "none", num |-> 0, saw |-> [probe |-> <<>>, src |-> "absent"]]
    <2>1. PICK type \in {"cost_recorded", "probe_inconclusive"} : log' = [log EXCEPT ![s] = Append(@, e(type))]
      BY <1>2 DEF Idle
    <2>2. e(type) \in Entry
      BY DEF Entry, Outcomes, Reading
    <2> HIDE DEF e
    <2>3. log' \in [Session -> Seq(Entry)]
      BY <1>t, <2>1, <2>2
    <2>4. pc' \in [Session -> Stages]
      BY <1>2, <1>t DEF Idle, Goto, Stages
    <2> QED BY <1>2, <2>3, <2>4, Numbers DEF Idle, TypeOK, Stages, ownerVars
  <1>3. ASSUME NEW s \in Session, Finish(s) \/ Die(s) PROVE TypeOK'
    <2>1. pc' \in [Session -> Stages]
      BY <1>3, <1>t DEF Finish, Die, Goto, Stages
    <2> QED BY <1>3, <1>p, <2>1, Numbers DEF Finish, Die, TypeOK, Stages, ownerVars
  <1>4. ASSUME NEW s \in Session, OverBudget(s) \/ Ask(s) PROVE TypeOK'
    <2>1. Current(s) \in Risk
      BY <1>4, CurrentType DEF OverBudget, Ask
    <2>2. log' \in [Session -> Seq(Entry)]
      BY <1>4, <1>t, <2>1, NoteType DEF OverBudget, Ask, Outcomes
    <2>3. pc' \in [Session -> Stages]
      BY <1>4, <1>t DEF OverBudget, Ask, Goto, Stages
    <2> QED BY <1>4, <2>2, <2>3, Numbers DEF OverBudget, Ask, TypeOK, Stages, ownerVars
  <1>5. ASSUME NEW s \in Session, OpenProbe(s) PROVE TypeOK'
    <2>1. pc' \in [Session -> Stages]
      BY <1>5, <1>t DEF OpenProbe, Goto, Stages
    <2> QED BY <1>5, <1>p, <2>1, Numbers DEF OpenProbe, TypeOK, Stages, ownerVars
  <1>6. ASSUME NEW s \in Session, FillProbe(s) \/ Check(s) PROVE TypeOK'
    <2>1. pc' \in [Session -> Stages]
      BY <1>6, <1>t DEF FillProbe, Check, Goto, Stages
    <2> QED BY <1>6, <1>p, <2>1, Numbers DEF FillProbe, Check, TypeOK, Stages, ownerVars
  <1>7. ASSUME NEW s \in Session, Generated(s) PROVE TypeOK'
    <2>1. Current(s) \in Risk
      BY <1>7, CurrentType DEF Generated, InHand, Working
    <2>2. log' \in [Session -> Seq(Entry)]
      <3>1. Note(s, "probe_generated", 0) /\ 0 \in Int
        BY <1>7 DEF Generated
      <3> QED BY <2>1, <3>1, NoteType
    <2>3. consumed' \in [Session -> Nat]
      BY <1>7, <1>t, Numbers DEF Generated
    <2>4. pc' \in [Session -> Stages]
      BY <1>7, <1>t DEF Generated, Goto, Stages
    <2> QED BY <1>7, <2>2, <2>3, <2>4, Numbers DEF Generated, TypeOK, Stages, ownerVars
  <1>8. ASSUME NEW s \in Session, Cost(s) PROVE TypeOK'
    <2>1. Current(s) \in Risk
      BY <1>8, CurrentType DEF Cost, InHand, Working
    <2>2. log' \in [Session -> Seq(Entry)]
      <3>1. Note(s, "cost_recorded", consumed[s]) /\ consumed[s] \in Int
        BY <1>8, <1>t DEF Cost
      <3> QED BY <2>1, <3>1, NoteType
    <2>3. pc' \in [Session -> Stages]
      BY <1>8, <1>t DEF Cost, Goto, Stages
    <2> QED BY <1>8, <2>2, <2>3, Numbers DEF Cost, TypeOK, Stages, ownerVars
  <1>9. ASSUME NEW s \in Session, NoRun(s) \/ NotRunnable(s) PROVE TypeOK'
    <2>1. Current(s) \in Risk
      BY <1>9, CurrentType DEF NoRun, NotRunnable, InHand, Working, Verifying
    <2>2. \E type \in Outcomes : Note(s, type, 0)
      BY <1>9 DEF NoRun, NotRunnable, Outcomes
    <2>3. log' \in [Session -> Seq(Entry)]
      BY <2>1, <2>2, NoteType
    <2>4. at' \in [Session -> Nat] /\ selected' = selected
      <3>1. NextRisk(s)
        BY <1>9 DEF NoRun, NotRunnable
      <3> QED BY <1>t, <3>1 DEF NextRisk
    <2>5. pc' \in [Session -> Stages]
      BY <1>9, <1>t DEF NoRun, NotRunnable, Goto, Stages
    <2> QED BY <1>9, <2>3, <2>4, <2>5, Numbers DEF NoRun, NotRunnable, TypeOK, Stages, ownerVars
  <1>10. ASSUME NEW s \in Session, Load(s) PROVE TypeOK'
    <2>1. running' \in [Session -> Seq(Test)]
      BY <1>10, <1>t DEF Load, TypeOK
    <2>2. pc' \in [Session -> Stages]
      BY <1>10, <1>t DEF Load, Goto, Stages
    <2> QED BY <1>10, <2>1, <2>2, Numbers DEF Load, TypeOK, Stages, ownerVars
  <1>11. ASSUME NEW s \in Session, Outcome(s) PROVE TypeOK'
    <2>1. Current(s) \in Risk
      BY <1>11, CurrentType DEF Outcome, InHand, Working, Verifying
    <2> DEFINE ran == running[s]
               seen == IF ran = <<>> THEN "absent" ELSE source[ran[1].target][ran[1].kind]
    <2>2. PICK rc : Record(s, StatusOf(rc), rc, [probe |-> ran, src |-> seen]) /\ rc \in Int
      BY <1>11, OutcomeCodes DEF Outcome
    <2>4. StatusOf(rc) \in Outcomes
      BY DEF StatusOf, Outcomes
    <2>5. ran \in Seq(Test)
      BY <1>t
    <2>6. seen \in Reading
      <3>1. CASE ran = <<>>
        BY <3>1 DEF Reading
      <3>2. CASE ran # <<>>
        <4>1. ran[1] \in Test
          BY <2>5, <3>2
        <4> QED BY <1>t, <3>2, <4>1, ReadingType DEF Test
      <3> QED BY <3>1, <3>2
    <2> HIDE DEF ran, seen
    <2>7. log' \in [Session -> Seq(Entry)]
      BY <2>1, <2>2, <2>4, <2>5, <2>6, RecordType
    <2>8. running' \in [Session -> Seq(Test)] /\ at' \in [Session -> Nat] /\ selected' = selected
      BY <1>11, <1>t DEF Outcome, NextRisk
    <2>9. pc' \in [Session -> Stages]
      BY <1>11, <1>t DEF Outcome, Goto, Stages
    <2> QED BY <1>11, <2>7, <2>8, <2>9, Numbers DEF Outcome, TypeOK, Stages, ownerVars
  <1>12. CASE Edit
    <2>1. source' \in [Target -> Content]
      BY <1>12, <1>t, HuntAssumption DEF Edit
    <2>3. config' \in BOOLEAN
      BY <1>12 DEF Edit, TypeOK
    <2>4. edits' \in 0..MaxEdits
      BY <1>12, Numbers DEF Edit, TypeOK
    <2> QED BY <1>12, <1>p, <2>1, <2>3, <2>4 DEF Edit, TypeOK
  <1>13. CASE UNCHANGED vars
    BY <1>13 DEF vars, TypeOK
  <1> QED BY <1>1, <1>2, <1>3, <1>4, <1>5, <1>6, <1>7, <1>8, <1>9, <1>10, <1>11, <1>12, <1>13 DEF Next, Step

(***************************************************************************)
(* The steps of a session as a table: where it goes, what it records.      *)
(***************************************************************************)
Added(t, e) == e \in Entry /\ log'[t] = Append(log[t], e)
Kept(t) == UNCHANGED <<selected[t], at[t], consumed[t]>>
After(t, from, to) == pc[t] \in from /\ pc'[t] \in to

Scanned(t) ==
    /\ After(t, {"scan"}, {"no_target", "no_match", "done", "next"})
    /\ pc'[t] \in {"no_target", "no_match"} => selected'[t] = <<>>
    /\ Len(selected'[t]) <= Most
    /\ UNCHANGED <<at[t], consumed[t], log[t]>>
Idled(t) ==
    /\ After(t, {"no_target"}, {"no_target_cost"}) \/ After(t, {"no_match", "no_target_cost"}, {"done"})
    /\ Kept(t)
    /\ \E e : Added(t, e) /\ e.type \in {"cost_recorded", "probe_inconclusive"} /\ e.target = "none"
Finished(t) ==
    /\ After(t, {"next"}, {"done"}) /\ at[t] > Len(selected[t])
    /\ Kept(t) /\ UNCHANGED log[t]
Stopped(t) ==
    /\ After(t, {"next"}, {"done"}) /\ at[t] <= Len(selected[t])
    /\ consumed[t] + Reserved > opt[t].budget
    /\ Kept(t)
    /\ \E e : Added(t, e) /\ e.type = "probe_inconclusive" /\ SameRisk(e, Current(t))
Asked(t) ==
    /\ After(t, {"next"}, {"open"}) /\ at[t] <= Len(selected[t])
    /\ consumed[t] + Reserved <= opt[t].budget
    /\ Kept(t)
    /\ \E e : Added(t, e) /\ e.type = "model_call_recorded" /\ SameRisk(e, Current(t))
WentOn(t) ==
    /\ \/ After(t, {"open"}, {"fill"}) \/ After(t, {"fill"}, {"generated"})
       \/ After(t, {"verify"}, {"start"}) \/ After(t, {"start"}, {"running", "lost"})
    /\ Kept(t) /\ UNCHANGED log[t]
Counted(t) ==
    /\ After(t, {"generated"}, {"cost"})
    /\ UNCHANGED <<selected[t], at[t]>>
    /\ \E n \in AskTokens, m \in ProbeTokens : consumed'[t] = consumed[t] + n + m
    /\ \E e : Added(t, e) /\ e.type = "probe_generated" /\ SameRisk(e, Current(t))
Costed(t) ==
    /\ After(t, {"cost"}, {"verify", "no_run"})
    /\ Kept(t)
    /\ \E e : Added(t, e) /\ e.type = "cost_recorded" /\ SameRisk(e, Current(t)) /\ e.num = consumed[t]
Concluded(t) ==
    /\ After(t, {"no_run", "verify", "running", "lost"}, {"next"})
    /\ at'[t] = at[t] + 1 /\ UNCHANGED <<selected[t], consumed[t]>>
    /\ \E e : Added(t, e) /\ e.type \in Outcomes /\ SameRisk(e, Current(t))
    /\ Outcome(t) \/ \E e : Added(t, e) /\ e.type \notin Ran
Died(t) ==
    /\ pc[t] \notin {"done", "dead"} /\ pc'[t] = "dead"
    /\ Kept(t) /\ UNCHANGED log[t]

LEMMA LogStep ==
    ASSUME TypeOK, NEW t \in Session, NEW e, Added(t, e)
    PROVE  /\ Len(log[t]) \in Nat /\ Len(log'[t]) = Len(log[t]) + 1
           /\ DOMAIN log[t] = 1..Len(log[t]) /\ DOMAIN log'[t] = 1..(Len(log[t]) + 1)
           /\ \A i \in 1..Len(log[t]) : log'[t][i] = log[t][i]
           /\ log'[t][Len(log[t]) + 1] = e
           /\ \A i \in DOMAIN log'[t] : \/ i \in DOMAIN log[t] /\ log'[t][i] = log[t][i]
                                        \/ i = Len(log[t]) + 1 /\ log'[t][i] = e
  <1> DEFINE l == log[t]
             m == log'[t]
  <1>1. l \in Seq(Entry) /\ e \in Entry /\ m = Append(l, e)
    BY DEF TypeOK, Added
  <1> HIDE DEF l, m
  <1>2. /\ Len(l) \in Nat /\ Len(m) = Len(l) + 1
        /\ DOMAIN l = 1..Len(l) /\ DOMAIN m = 1..(Len(l) + 1)
        /\ \A i \in 1..Len(l) : m[i] = l[i]
        /\ m[Len(l) + 1] = e
    BY <1>1, Appended
  <1>3. \A i \in 1..(Len(l) + 1) : i \in 1..Len(l) \/ i = Len(l) + 1
    BY <1>2
  <1>4. ASSUME NEW i \in DOMAIN m
        PROVE  (i \in DOMAIN l /\ m[i] = l[i]) \/ (i = Len(l) + 1 /\ m[i] = e)
    <2>1. i \in 1..Len(l) \/ i = Len(l) + 1
      BY <1>2, <1>3
    <2> QED BY <1>2, <2>1
  <1> QED BY <1>2, <1>4 DEF l, m

LEMMA NoteAdded ==
    ASSUME TypeOK, TypeOK', NEW s \in Session, NEW type, NEW n, NEW saw, Record(s, type, n, saw)
    PROVE  \E e : /\ Added(s, e) /\ e.type = type /\ SameRisk(e, Current(s))
                 /\ e.num = n /\ e.saw = saw
  <1> DEFINE e == [type |-> type, target |-> Current(s).target, kind |-> Current(s).kind,
                                     num |-> n, saw |-> saw]
  <1>1. log'[s] = Append(log[s], e)
    BY Recorded
  <1>2. log[s] \in Seq(Entry) /\ log'[s] \in Seq(Entry)
    BY DEF TypeOK
  <1>3. e.type = type /\ SameRisk(e, Current(s)) /\ e.num = n /\ e.saw = saw
    BY DEF SameRisk
  <1> HIDE DEF e
  <1>4. Len(log[s]) \in Nat /\ Append(log[s], e)[Len(log[s]) + 1] = e /\ Len(Append(log[s], e)) = Len(log[s]) + 1
    BY <1>2
  <1>5. e \in Entry
    BY <1>1, <1>2, <1>4
  <1> QED BY <1>1, <1>3, <1>5 DEF Added

LEMMA StepTable ==
    ASSUME TypeOK, TypeOK', [Next]_vars, NEW t \in Session
    PROVE  \/ UNCHANGED <<pc[t], selected[t], at[t], consumed[t], running[t], log[t]>>
           \/ Scanned(t) \/ Idled(t) \/ Finished(t) \/ Stopped(t) \/ Asked(t) \/ WentOn(t)
           \/ Counted(t) \/ Costed(t) \/ Concluded(t) \/ Died(t)
  <1> USE DEF Kept, After
  <1>t. /\ pc \in [Session -> Stages] /\ at \in [Session -> Nat] /\ consumed \in [Session -> Nat]
        /\ selected \in [Session -> Seq(Risk)]
        /\ log \in [Session -> Seq(Entry)] /\ log' \in [Session -> Seq(Entry)]
    BY DEF TypeOK, Stages
  <1>1. CASE Scan(t)
    <2>0. opt[t] \in Options /\ source \in [Target -> Content]
      BY DEF TypeOK
    <2>s. PICK score \in Scorings :
              \E chosen \in Selections(RisksOf(source, score), opt[t]) :
                 /\ selected' = [selected EXCEPT ![t] = chosen]
                 /\ pc'[t] = CASE RisksOf(source, score) = {} -> "no_target"
                               [] RisksOf(source, score) # {} /\ opt[t].dry -> "done"
                               [] RisksOf(source, score) # {} /\ ~opt[t].dry /\ chosen = <<>> -> "no_match"
                               [] chosen # <<>> /\ ~opt[t].dry /\ ~config -> "done"
                               [] chosen # <<>> /\ ~opt[t].dry /\ config -> "next"
      BY <1>1, <1>t DEF Scan, Goto
    <2> DEFINE risks == RisksOf(source, score)
    <2>1. PICK chosen \in Selections(risks, opt[t]) :
              /\ selected' = [selected EXCEPT ![t] = chosen]
              /\ pc'[t] = CASE risks = {} -> "no_target"
                            [] risks # {} /\ opt[t].dry -> "done"
                            [] risks # {} /\ ~opt[t].dry /\ chosen = <<>> -> "no_match"
                            [] chosen # <<>> /\ ~opt[t].dry /\ ~config -> "done"
                            [] chosen # <<>> /\ ~opt[t].dry /\ config -> "next"
      BY <2>s
    <2>2. risks = {} => chosen = <<>>
      <3> DEFINE R == {r \in risks : r.target \in opt[t].want}
      <3> SUFFICES ASSUME risks = {} PROVE chosen = <<>>
        OBVIOUS
      <3>1. R = {} /\ Cardinality(R) = 0
        BY FS_EmptySet
      <3>2. PICK seq \in Ranked(R) :
                chosen = SubSeq(seq, 1, IF opt[t].limit < Len(seq) THEN opt[t].limit ELSE Len(seq))
        BY DEF Selections
      <3>3. seq \in [1..0 -> R]
        BY <3>1, <3>2 DEF Ranked
      <3>4. seq = <<>> /\ Len(seq) = 0
        BY <3>3
      <3>5. opt[t].limit \in Nat
        BY <2>0, OptionType
      <3> QED BY <3>2, <3>4, <3>5
    <2>3. selected'[t] = chosen /\ Len(chosen) <= Most
      BY <1>t, <2>0, <2>1, SelectionType
    <2>4. pc'[t] \in {"no_target", "no_match", "done", "next"}
      BY <2>1, <2>2, <2>0, OptionType DEF TypeOK
    <2>5. pc'[t] \in {"no_target", "no_match"} => chosen = <<>>
      BY <2>1, <2>2, <2>0, OptionType DEF TypeOK
    <2> QED BY <1>1, <2>3, <2>4, <2>5 DEF Scan, Scanned
  <1>2. CASE Idle(t)
    <2>1. PICK type \in {"cost_recorded", "probe_inconclusive"} :
              log' = [log EXCEPT ![t] = Append(@, [type |-> type, target |-> "none", kind |-> "none", num |-> 0,
                                                   saw |-> [probe |-> <<>>, src |-> "absent"]])]
      BY <1>2 DEF Idle
    <2> DEFINE e == [type |-> type, target |-> "none", kind |-> "none", num |-> 0, saw |-> [probe |-> <<>>, src |-> "absent"]]
    <2>2. Added(t, e)
      BY <1>t, <2>1 DEF Added, Entry, Outcomes, Reading
    <2>3. After(t, {"no_target"}, {"no_target_cost"}) \/ After(t, {"no_match", "no_target_cost"}, {"done"})
      BY <1>2, <1>t DEF Idle, Goto
    <2>4. e.type \in {"cost_recorded", "probe_inconclusive"} /\ e.target = "none"
      BY <2>1
    <2> QED BY <1>2, <2>2, <2>3, <2>4 DEF Idle, Idled
  <1>3. CASE Finish(t)
    BY <1>3, <1>t DEF Finish, Finished, Goto
  <1>4. CASE OverBudget(t)
    <2>1. PICK e : Added(t, e) /\ e.type = "probe_inconclusive" /\ SameRisk(e, Current(t))
      BY <1>4, NoteAdded DEF OverBudget, Note
    <2>2. pc'[t] = "done"
      BY <1>4, <1>t DEF OverBudget, Goto
    <2> QED BY <1>4, <2>1, <2>2 DEF OverBudget, Stopped
  <1>5. CASE Ask(t)
    <2>1. CASE Note(t, "model_call_recorded", 0) /\ Goto(t, "open")
      <3>1. PICK e : Added(t, e) /\ e.type = "model_call_recorded" /\ SameRisk(e, Current(t))
        BY <2>1, NoteAdded DEF Note
      <3>2. pc'[t] = "open"
        BY <2>1, <1>t DEF Goto
      <3> QED BY <1>5, <3>1, <3>2 DEF Ask, Asked
    <2>2. CASE Goto(t, "dead") /\ UNCHANGED log
      BY <1>5, <1>t, <2>2 DEF Ask, Died, Goto
    <2> QED BY <1>5, <2>1, <2>2 DEF Ask
  <1>6. CASE OpenProbe(t) \/ FillProbe(t) \/ Check(t) \/ Load(t)
    BY <1>6, <1>t DEF OpenProbe, FillProbe, Check, Load, Goto, WentOn
  <1>7. CASE Generated(t)
    <2>1. PICK e : Added(t, e) /\ e.type = "probe_generated" /\ SameRisk(e, Current(t))
      BY <1>7, NoteAdded DEF Generated, Note
    <2>2. pc'[t] = "cost"
      BY <1>7, <1>t DEF Generated, Goto
    <2>3. \E n \in AskTokens, m \in ProbeTokens : consumed'[t] = consumed[t] + n + m
      BY <1>7, <1>t DEF Generated
    <2> QED BY <1>7, <2>1, <2>2, <2>3 DEF Generated, Counted
  <1>8. CASE Cost(t)
    <2>1. PICK e : Added(t, e) /\ e.type = "cost_recorded" /\ SameRisk(e, Current(t)) /\ e.num = consumed[t]
      BY <1>8, NoteAdded DEF Cost, Note
    <2>2. pc'[t] \in {"verify", "no_run"}
      BY <1>8, <1>t DEF Cost, Goto
    <2> QED BY <1>8, <2>1, <2>2 DEF Cost, Costed
  <1>9. CASE NoRun(t) \/ NotRunnable(t) \/ Outcome(t)
    <2>1. PICK type, n, saw : type \in Outcomes /\ Record(t, type, n, saw)
      BY <1>9 DEF NoRun, NotRunnable, Outcome, Outcomes, Note, StatusOf
    <2>2. PICK e : Added(t, e) /\ e.type \in Outcomes /\ SameRisk(e, Current(t))
      BY <2>1, NoteAdded
    <2>3. NextRisk(t) /\ Goto(t, "next") /\ pc[t] \in {"no_run", "verify", "running", "lost"} /\ consumed' = consumed
      BY <1>9 DEF NoRun, NotRunnable, Outcome
    <2>4. at'[t] = at[t] + 1 /\ selected' = selected /\ pc'[t] = "next"
      BY <1>t, <2>3 DEF NextRisk, Goto
    <2>5. Outcome(t) \/ \E x : Added(t, x) /\ x.type \notin Ran
      <3>1. CASE NoRun(t) \/ NotRunnable(t)
        <4>1. PICK kind : Note(t, kind, 0) /\ kind \notin Ran
          BY <3>1 DEF NoRun, NotRunnable, Ran
        <4> QED BY <4>1, NoteAdded DEF Note
      <3> QED BY <1>9, <3>1
    <2> QED BY <2>2, <2>3, <2>4, <2>5 DEF Concluded
  <1>10. CASE Die(t)
    BY <1>10, <1>t DEF Die, Goto, Died
  <1> QED BY <1>1, <1>2, <1>3, <1>4, <1>5, <1>6, <1>7, <1>8, <1>9, <1>10, SessionStep DEF Step

(***************************************************************************)
(* The invariant, part by part.                                            *)
(***************************************************************************)
LEMMA InHandStep == TypeOK /\ TypeOK' /\ InHand /\ [Next]_vars => InHand'
  <1> SUFFICES ASSUME TypeOK, TypeOK', InHand, [Next]_vars, NEW t \in Session
               PROVE  /\ at'[t] >= 1
                      /\ pc'[t] \in Working => at'[t] <= Len(selected'[t])
    BY DEF InHand
  <1>0. /\ at[t] \in Nat /\ at[t] >= 1
        /\ pc[t] \in Working => at[t] <= Len(selected[t])
    BY DEF TypeOK, InHand
  <1> QED BY <1>0, StepTable DEF Working, Verifying, After, Kept, Scanned, Idled, Finished, Stopped, Asked, WentOn, Counted,
             Costed, Concluded, Died

\* The events that fit a step from p to q, with f the file in hand before and g
\* the one after.
Pending == {"cost", "dead"} \cup Verifying
Fits(p, q, e, f, g) ==
    \/ p \notin Pending /\ q \notin Pending /\ e.type # "probe_generated"
    \/ p = "generated" /\ q = "cost" /\ e.type = "probe_generated" /\ SameRisk(e, g)
    \/ /\ p = "cost" /\ q \in {"verify", "no_run"} /\ g = f
       /\ e.type = "cost_recorded" /\ SameRisk(e, f)
    \/ /\ p \in Verifying /\ q = "next"
       /\ e.type \in Outcomes /\ SameRisk(e, f)

\* A log that such an event is appended to.
LEMMA WaitsStep ==
    ASSUME NEW n \in Nat, NEW l, DOMAIN l = 1..n, Len(l) = n,
           NEW m, DOMAIN m = 1..(n + 1), Len(m) = n + 1, \A i \in 1..n : m[i] = l[i],
           NEW p, NEW f, Waits(l, p, f), Followed(l),
           NEW q, NEW g,
           Fits(p, q, m[n + 1], f, g)
    PROVE  Waits(m, q, g) /\ Followed(m)
  <1>1. \A i \in 1..(n + 1) : i \in 1..n \/ i = n + 1
    OBVIOUS
  <1>2. \A i \in 1..n : l[i].type = "probe_generated" =>
            /\ p # "dead" => \/ i + 2 <= n
                             \/ p = "cost" /\ i = n
                             \/ p \in Verifying /\ i = n - 1
            /\ i + 1 <= n => l[i + 1].type = "cost_recorded" /\ SameRisk(l[i + 1], l[i])
            /\ i + 2 <= n => l[i + 2].type \in Outcomes /\ SameRisk(l[i + 2], l[i])
    BY DEF Waits, Followed
  <1>3. /\ p = "cost" => n >= 1 /\ l[n].type = "probe_generated" /\ SameRisk(l[n], f)
        /\ p \in Verifying =>
              /\ n >= 2
              /\ l[n - 1].type = "probe_generated" /\ SameRisk(l[n - 1], f)
              /\ l[n].type = "cost_recorded"
    BY DEF Waits
  <1>4. "probe_generated" \notin Outcomes
    BY DEF Outcomes
  <1> USE DEF Fits, Pending, Verifying, SameRisk
  <1>5. Waits(m, q, g)
    <2>1. q = "cost" => n + 1 >= 1 /\ m[n + 1].type = "probe_generated" /\ SameRisk(m[n + 1], g)
      OBVIOUS
    <2>2. q \in Verifying =>
              /\ n + 1 >= 2
              /\ m[n].type = "probe_generated" /\ SameRisk(m[n], g)
              /\ m[n + 1].type = "cost_recorded"
      BY <1>3
    <2>3. \A i \in 1..n : m[i].type = "probe_generated" /\ q # "dead" =>
              \/ i + 2 <= n + 1
              \/ q \in Verifying /\ i = n
      BY <1>2
    <2>4. m[n + 1].type = "probe_generated" /\ q # "dead" => q = "cost"
      BY <1>4
    <2>5. n = (n + 1) - 1
      OBVIOUS
    <2> QED BY <1>1, <2>1, <2>2, <2>3, <2>4, <2>5 DEF Waits
  <1>6. Followed(m)
    <2> SUFFICES ASSUME NEW i \in 1..(n + 1), m[i].type = "probe_generated"
                 PROVE  /\ i + 1 <= n + 1 => m[i + 1].type = "cost_recorded" /\ SameRisk(m[i + 1], m[i])
                        /\ i + 2 <= n + 1 => m[i + 2].type \in Outcomes /\ SameRisk(m[i + 2], m[i])
      BY DEF Followed
    <2>1. CASE i = n + 1
      BY <2>1
    <2>2. CASE i \in 1..n
      <3>1. l[i].type = "probe_generated" /\ m[i] = l[i]
        BY <2>2
      <3>2. CASE i + 2 <= n
        BY <1>2, <2>2, <3>1, <3>2
      <3>3. CASE p = "cost" /\ i = n
        BY <1>3, <1>4, <3>1, <3>3
      <3>4. CASE p \in Verifying /\ i = n - 1
        <4>1. m[i + 1] = l[i + 1] /\ i + 1 \in 1..n
          BY <2>2, <3>4
        <4>2. m[i + 2].type \in Outcomes /\ SameRisk(m[i + 2], f)
          BY <3>4
        <4> QED BY <1>2, <1>3, <2>2, <3>1, <3>4, <4>1, <4>2
      <3> QED BY <1>2, <1>3, <2>2, <3>1, <3>2, <3>3, <3>4
    <2> QED BY <1>1, <2>1, <2>2
  <1> QED BY <1>5, <1>6

LEMMA EventsStep ==
    ASSUME TypeOK, TypeOK', EventsInHand, [Next]_vars
    PROVE  EventsInHand'
  <1> SUFFICES ASSUME NEW t \in Session
               PROVE  Waits(log'[t], pc'[t], Current(t)') /\ Followed(log'[t])
    BY DEF EventsInHand, Waits, Followed
  <1> DEFINE f == Current(t)
             g == Current(t)'
             n == Len(log[t])
  <1>1. Waits(log[t], pc[t], f) /\ Followed(log[t])
    BY DEF EventsInHand
  <1>2. n \in Nat /\ DOMAIN log[t] = 1..n
    BY DEF TypeOK
  <1>3. UNCHANGED <<selected[t], at[t]>> => g = f
    BY DEF Current
  <1> HIDE DEF f, g
  <1>4. ASSUME log'[t] = log[t],
               \/ UNCHANGED <<pc[t], selected[t], at[t]>>
               \/ pc'[t] = "dead"
               \/ pc[t] \notin Pending /\ pc'[t] \notin Pending
               \/ pc[t] \in {"verify", "start"} /\ pc'[t] \in Verifying /\ UNCHANGED <<selected[t], at[t]>>
        PROVE  Waits(log'[t], pc'[t], g) /\ Followed(log'[t])
    BY <1>1, <1>3, <1>4 DEF Waits, Pending, Verifying
  <1>5. ASSUME NEW e, Added(t, e), Fits(pc[t], pc'[t], e, f, g)
        PROVE  Waits(log'[t], pc'[t], g) /\ Followed(log'[t])
    <2> DEFINE l == log[t]
               m == log'[t]
    <2>1. /\ DOMAIN l = 1..n /\ Len(l) = n /\ DOMAIN m = 1..(n + 1) /\ Len(m) = n + 1
          /\ \A i \in 1..n : m[i] = l[i]
          /\ m[n + 1] = e
      BY <1>5, LogStep
    <2>2. Waits(l, pc[t], f) /\ Followed(l) /\ n \in Nat
      BY <1>1, <1>2
    <2> HIDE DEF l, m, n
    <2>3. Waits(m, pc'[t], g) /\ Followed(m)
      <3>1. Fits(pc[t], pc'[t], m[n + 1], f, g)
        BY <1>5, <2>1
      <3> QED BY <2>1, <2>2, <3>1, WaitsStep
    <2> QED BY <2>3 DEF m
  <1> USE DEF After, Kept
  <1>6. CASE Counted(t)
    <2>1. PICK e : Added(t, e) /\ e.type = "probe_generated" /\ SameRisk(e, f)
      BY <1>6 DEF Counted, f
    <2> QED BY <1>3, <1>5, <1>6, <2>1 DEF Counted, Fits, Verifying, g
  <1>7. CASE Costed(t)
    <2>1. PICK e : Added(t, e) /\ e.type = "cost_recorded" /\ SameRisk(e, f)
      BY <1>7 DEF Costed, f
    <2> QED BY <1>3, <1>5, <1>7, <2>1 DEF Costed, Fits, Verifying, g
  <1>8. CASE Concluded(t)
    <2>1. PICK e : Added(t, e) /\ e.type \in Outcomes /\ SameRisk(e, f)
      BY <1>8 DEF Concluded, f
    <2> QED BY <1>5, <1>8, <2>1 DEF Concluded, Fits, Verifying, g
  <1>9. CASE Idled(t) \/ Stopped(t) \/ Asked(t)
    <2>1. PICK e : Added(t, e) /\ e.type \in {"cost_recorded", "probe_inconclusive", "model_call_recorded"}
      BY <1>9 DEF Idled, Stopped, Asked
    <2>2. pc[t] \notin Pending /\ pc'[t] \notin Pending
      BY <1>9 DEF Idled, Stopped, Asked, Pending, Verifying
    <2> QED BY <1>5, <2>1, <2>2 DEF Fits, Verifying, g
  <1>10. CASE \/ UNCHANGED <<pc[t], selected[t], at[t], consumed[t], running[t], log[t]>>
              \/ Scanned(t) \/ Finished(t) \/ WentOn(t) \/ Died(t)
    BY <1>4, <1>10 DEF Scanned, Finished, WentOn, Died, Pending, Verifying, g
  <1> QED BY <1>6, <1>7, <1>8, <1>9, <1>10, StepTable

LEMMA EventsAccounted == TypeOK /\ EventsInHand => ProbesAccounted
  <1> SUFFICES ASSUME TypeOK, EventsInHand, NEW s \in Session, NEW i \in DOMAIN log[s],
                      log[s][i].type = "probe_generated"
               PROVE  /\ pc[s] \in {"next", "done"} => i + 2 <= Len(log[s])
                      /\ i + 1 <= Len(log[s]) => /\ log[s][i + 1].type = "cost_recorded"
                                                 /\ SameRisk(log[s][i + 1], log[s][i])
                      /\ i + 2 <= Len(log[s]) => /\ log[s][i + 2].type \in Outcomes
                                                 /\ SameRisk(log[s][i + 2], log[s][i])
    BY DEF ProbesAccounted
  <1>1. Waits(log[s], pc[s], Current(s)) /\ Followed(log[s])
    BY DEF EventsInHand
  <1>2. pc[s] \in {"next", "done"} => pc[s] # "dead" /\ pc[s] # "cost" /\ pc[s] \notin Verifying
    BY DEF Verifying
  <1>3. pc[s] \in {"next", "done"} => i + 2 <= Len(log[s])
    BY <1>1, <1>2 DEF Waits
  <1> QED BY <1>1, <1>3 DEF Followed

\* No record of the ledger says more than what has been consumed.
LEMMA SpendingStep ==
    ASSUME TypeOK, TypeOK', Spending, BudgetHolds, [Next]_vars
    PROVE  Spending' /\ BudgetHolds'
  <1>o. opt' = opt
    BY SessionStep, Numbers DEF Next, Step, Scan, Idle, Finish, OverBudget, Ask, OpenProbe, FillProbe, Generated,
           Cost, NoRun, NotRunnable, Check, Load, Outcome, Die, Edit, vars
  <1> DEFINE IsNoted(e) == e.type = "cost_recorded" /\ e.target # "none"
  <1>s. SUFFICES ASSUME NEW t \in Session
                 PROVE  /\ pc'[t] \in {"open", "fill", "generated"} => consumed'[t] + Reserved <= opt[t].budget
                        /\ pc'[t] = "cost" => consumed'[t] <= Limit(t)
                        /\ \A i \in DOMAIN log'[t] : IsNoted(log'[t][i]) => log'[t][i].num <= consumed'[t]
                        /\ \A i \in DOMAIN log'[t] : IsNoted(log'[t][i]) => log'[t][i].num <= Limit(t)
                        /\ \A i, j \in DOMAIN log'[t] :
                             IsNoted(log'[t][i]) /\ log'[t][i].num > opt[t].budget /\ i < j =>
                                 log'[t][j].type \notin {"model_call_recorded", "probe_generated"}
    BY <1>o DEF Spending, BudgetHolds, OvershootBounded, OverBudgetStops, Noted, Limit
  <1> DEFINE l == log[t]
             m == log'[t]
             b == opt[t].budget
             c == consumed[t]
  <1>1. /\ pc[t] \in {"open", "fill", "generated"} => c + Reserved <= b
        /\ pc[t] = "cost" => c <= Limit(t)
        /\ \A i \in DOMAIN l : IsNoted(l[i]) => l[i].num <= c
        /\ \A i \in DOMAIN l : IsNoted(l[i]) => l[i].num <= Limit(t)
        /\ \A i, j \in DOMAIN l : IsNoted(l[i]) /\ l[i].num > b /\ i < j =>
              l[j].type \notin {"model_call_recorded", "probe_generated"}
    BY ZenonT(40) DEF Spending, BudgetHolds, OvershootBounded, OverBudgetStops, Noted, Limit
  <1>2. b \in Nat /\ c \in Nat /\ Reserved \in Nat /\ Limit(t) \in Int /\ Len(l) \in Nat /\ DOMAIN l = 1..Len(l)
    <2>1. b \in Nat /\ Reserved \in Nat /\ MaxOf(AskTokens) \in Nat /\ MaxOf(ProbeTokens) \in Nat
      BY OptionType, Numbers DEF TypeOK
    <2>2. Limit(t) \in Int
      BY <2>1 DEF Limit
    <2>3. c \in Nat /\ l \in Seq(Entry)
      BY DEF TypeOK
    <2> QED BY <2>1, <2>2, <2>3
  <1>3. \A i \in DOMAIN l : l[i].num \in Int
    <2>1. \A i \in DOMAIN log[t] : log[t][i] \in Entry
      BY DEF TypeOK
    <2> QED BY <2>1 DEF Entry
  <1> HIDE DEF IsNoted, l, b, c
  <1>4. CASE log'[t] = log[t] /\ consumed'[t] = consumed[t]
             /\ (pc'[t] \in {"open", "fill", "generated"} => pc[t] \in {"open", "fill", "generated"})
             /\ (pc'[t] = "cost" => pc[t] = "cost")
    BY <1>1, <1>4 DEF l, b, c
  <1>5. ASSUME NEW e, Added(t, e), consumed'[t] = consumed[t], ~IsNoted(e) \/ (e.num <= c /\ c <= Limit(t)),
               pc'[t] \notin {"open", "fill", "generated", "cost"},
               e.type \notin {"model_call_recorded", "probe_generated"}
        PROVE  /\ \A i \in DOMAIN m : IsNoted(m[i]) => m[i].num <= consumed'[t]
               /\ \A i \in DOMAIN m : IsNoted(m[i]) => m[i].num <= Limit(t)
               /\ \A i, j \in DOMAIN m : IsNoted(m[i]) /\ m[i].num > b /\ i < j =>
                    m[j].type \notin {"model_call_recorded", "probe_generated"}
    <2>1. \A i \in DOMAIN m : (i \in DOMAIN l /\ m[i] = l[i]) \/ (i = Len(l) + 1 /\ m[i] = e)
      BY <1>5, LogStep DEF l
    <2>2. e.num \in Int
      BY <1>5 DEF Added, Entry
    <2> HIDE DEF m
    <2>4. consumed'[t] = c
      BY <1>5 DEF c
    <2>5. \A i \in DOMAIN m : IsNoted(m[i]) => m[i].num <= c /\ m[i].num <= Limit(t)
      BY <1>1, <1>2, <1>3, <1>5, <2>1, <2>2
    <2>6. \A i, j \in DOMAIN m : IsNoted(m[i]) /\ m[i].num > b /\ i < j =>
             m[j].type \notin {"model_call_recorded", "probe_generated"}
      BY <1>1, <1>2, <1>5, <2>1
    <2> QED BY <2>4, <2>5, <2>6
  <1>6. ASSUME NEW e, Added(t, e), c + Reserved <= b, ~IsNoted(e), consumed'[t] \in Nat, c <= consumed'[t]
        PROVE  /\ \A i \in DOMAIN m : IsNoted(m[i]) => m[i].num <= consumed'[t]
               /\ \A i \in DOMAIN m : IsNoted(m[i]) => m[i].num <= Limit(t)
               /\ \A i, j \in DOMAIN m : ~(IsNoted(m[i]) /\ m[i].num > b)
    <2>1. \A i \in DOMAIN m : (i \in DOMAIN l /\ m[i] = l[i]) \/ (i = Len(l) + 1 /\ m[i] = e)
      BY <1>6, LogStep DEF l
    <2> HIDE DEF m
    <2>3. \A i \in DOMAIN m : IsNoted(m[i]) => i \in DOMAIN l /\ m[i] = l[i]
      BY <1>6, <2>1
    <2>4. \A i \in DOMAIN l : IsNoted(l[i]) => l[i].num <= consumed'[t] /\ l[i].num <= b
      BY <1>1, <1>2, <1>3, <1>6
    <2>5. \A i \in DOMAIN l : IsNoted(l[i]) => ~(l[i].num > b)
      BY <1>2, <1>3, <2>4
    <2> QED BY <1>1, <2>3, <2>4, <2>5
  <1>7. CASE Counted(t)
    <2>1. PICK e : Added(t, e) /\ e.type = "probe_generated"
      BY <1>7 DEF Counted
    <2>2. PICK x \in AskTokens, y \in ProbeTokens : consumed'[t] = c + x + y
      BY <1>7 DEF Counted, c
    <2>3. x \in Nat /\ y \in Nat /\ x <= MaxOf(AskTokens) /\ y <= MaxOf(ProbeTokens)
          /\ MaxOf(AskTokens) \in Nat /\ MaxOf(ProbeTokens) \in Nat
      BY Numbers
    <2>4. pc[t] = "generated" /\ pc'[t] = "cost" /\ c + Reserved <= b
      BY <1>1, <1>7 DEF Counted, After
    <2>5. Limit(t) = b - Reserved + MaxOf(AskTokens) + MaxOf(ProbeTokens)
      BY DEF Limit, b
    <2>6. consumed'[t] <= Limit(t) /\ consumed'[t] \in Nat /\ c <= consumed'[t]
      BY <1>2, <2>2, <2>3, <2>4, <2>5
    <2>7. ~IsNoted(e)
      BY <2>1 DEF IsNoted
    <2> QED BY <1>6, <2>1, <2>4, <2>6, <2>7 DEF b
  <1>8. CASE Asked(t)
    <2>1. PICK e : Added(t, e) /\ e.type = "model_call_recorded"
      BY <1>8 DEF Asked
    <2>2. pc'[t] = "open" /\ c + Reserved <= b /\ consumed'[t] = c
      BY <1>8 DEF Asked, After, Kept, c, b
    <2>3. ~IsNoted(e)
      BY <2>1 DEF IsNoted
    <2> QED BY <1>2, <1>6, <2>1, <2>2, <2>3 DEF b
  <1>9. CASE Costed(t)
    <2>1. PICK e : Added(t, e) /\ e.type = "cost_recorded" /\ e.num = consumed[t]
      BY <1>9 DEF Costed
    <2>2. pc[t] = "cost" /\ pc'[t] \in {"verify", "no_run"} /\ consumed'[t] = consumed[t]
      BY <1>9 DEF Costed, After, Kept
    <2>3. e.num <= c /\ c <= Limit(t)
      BY <1>1, <1>2, <2>1, <2>2 DEF c
    <2> QED BY <1>5, <2>1, <2>2, <2>3 DEF b
  <1>10. CASE Idled(t) \/ Stopped(t) \/ Concluded(t)
    <2>1. PICK e : Added(t, e) /\ (e.type \in Outcomes \/ e.target = "none")
                    /\ e.type \notin {"model_call_recorded", "probe_generated"}
      BY <1>10 DEF Idled, Stopped, Concluded, Outcomes
    <2>2. ~IsNoted(e)
      BY <2>1 DEF IsNoted, Outcomes
    <2>3. pc'[t] \notin {"open", "fill", "generated", "cost"} /\ consumed'[t] = consumed[t]
      BY <1>10 DEF Idled, Stopped, Concluded, After, Kept
    <2>4. e.type \notin {"model_call_recorded", "probe_generated"} /\ Added(t, e)
      BY <2>1
    <2>5. /\ \A i \in DOMAIN m : IsNoted(m[i]) => m[i].num <= consumed'[t]
          /\ \A i \in DOMAIN m : IsNoted(m[i]) => m[i].num <= Limit(t)
          /\ \A i, j \in DOMAIN m : IsNoted(m[i]) /\ m[i].num > b /\ i < j =>
                m[j].type \notin {"model_call_recorded", "probe_generated"}
      BY <1>5, <2>2, <2>3, <2>4
    <2> QED BY <2>3, <2>5 DEF b
  <1>11. CASE Scanned(t) \/ Finished(t) \/ WentOn(t) \/ Died(t)
    BY <1>4, <1>11 DEF Scanned, Finished, WentOn, Died, After, Kept
  <1> QED BY <1>4, <1>7, <1>8, <1>9, <1>10, <1>11, StepTable

LEMMA AnsweredStep ==
    ASSUME TypeOK, NEW t \in Session, NEW e, Added(t, e)
    PROVE  /\ e.type \notin Outcomes => Answered(t)' = Answered(t)
           /\ e.type \in Outcomes => Cardinality(Answered(t)') = Cardinality(Answered(t)) + 1
  <1> DEFINE n == Len(log[t])
  <1>1. /\ n \in Nat /\ DOMAIN log[t] = 1..n /\ DOMAIN log'[t] = 1..(n + 1)
        /\ \A i \in 1..n : log'[t][i] = log[t][i]
        /\ log'[t][n + 1] = e
    BY LogStep
  <1> HIDE DEF n
  <1>2. \A i \in 1..(n + 1) : i \in 1..n \/ i = n + 1
    BY <1>1
  <1>3. \A i \in 1..n : i \in 1..(n + 1)
    BY <1>1
  <1>4. n + 1 \in 1..(n + 1) /\ n + 1 \notin 1..n
    BY <1>1
  <1>5. e.type \notin Outcomes => Answered(t)' = Answered(t)
    BY <1>1, <1>2, <1>3, <1>4 DEF Answered
  <1>6. e.type \in Outcomes => Answered(t)' = Answered(t) \cup {n + 1}
    BY <1>1, <1>2, <1>3, <1>4 DEF Answered
  <1>7. Answered(t) \subseteq 1..n
    BY <1>1 DEF Answered
  <1>8. IsFiniteSet(Answered(t)) /\ n + 1 \notin Answered(t)
    <2>0. n \in Int /\ 1 \in Int
      BY <1>1
    <2>1. IsFiniteSet(1..n)
      BY <2>0, FS_Interval
    <2>2. IsFiniteSet(Answered(t))
      BY <1>7, <2>1, FS_Subset
    <2> QED BY <1>4, <1>7, <2>2
  <1> QED BY <1>5, <1>6, <1>8, FS_AddElement

LEMMA AnswersStep ==
    ASSUME TypeOK, TypeOK', InHand, AnsweredSoFar, EveryRiskAnswered, [Next]_vars
    PROVE  AnsweredSoFar' /\ EveryRiskAnswered'
  <1>o. opt' = opt
    BY SessionStep DEF Next, Step, Scan, Idle, Finish, OverBudget, Ask, OpenProbe, FillProbe, Generated,
           Cost, NoRun, NotRunnable, Check, Load, Outcome, Die, Edit, vars
  <1> SUFFICES ASSUME NEW t \in Session
               PROVE  /\ pc'[t] = "scan" => log'[t] = <<>> /\ at'[t] = 1
                      /\ pc'[t] \in {"no_target", "no_match", "no_target_cost"} => selected'[t] = <<>>
                      /\ pc'[t] \in Working \cup {"next"} =>
                            Cardinality(Answered(t)') = at'[t] - 1 /\ at'[t] <= Len(selected'[t]) + 1
                      /\ pc'[t] = "done" /\ log'[t] # <<>> /\ selected'[t] # <<>> =>
                            \/ Cardinality(Answered(t)') = Len(selected'[t])
                            \/ /\ log'[t][Len(log'[t])].type = "probe_inconclusive"
                               /\ consumed'[t] + Reserved > opt[t].budget
    BY <1>o DEF AnsweredSoFar, EveryRiskAnswered, Answered
  <1>1. /\ pc[t] = "scan" => log[t] = <<>> /\ at[t] = 1
        /\ pc[t] \in {"no_target", "no_match", "no_target_cost"} => selected[t] = <<>>
        /\ pc[t] \in Working \cup {"next"} =>
              Cardinality(Answered(t)) = at[t] - 1 /\ at[t] <= Len(selected[t]) + 1
        /\ pc[t] = "done" /\ log[t] # <<>> /\ selected[t] # <<>> =>
              \/ Cardinality(Answered(t)) = Len(selected[t])
              \/ /\ log[t][Len(log[t])].type = "probe_inconclusive"
                 /\ consumed[t] + Reserved > opt[t].budget
    BY DEF AnsweredSoFar, EveryRiskAnswered
  <1>2. /\ at[t] \in Nat /\ at[t] >= 1 /\ Len(selected[t]) \in Nat /\ Len(selected'[t]) \in Nat
        /\ pc[t] \in Working => at[t] <= Len(selected[t])
    BY DEF TypeOK, InHand
  <1>3. log'[t] = log[t] => Answered(t)' = Answered(t)
    BY DEF Answered
  <1> USE DEF After, Kept
  <1>4. CASE UNCHANGED <<pc[t], selected[t], at[t], consumed[t], running[t], log[t]>>
    BY <1>1, <1>3, <1>4
  <1>5. CASE Scanned(t)
    <2>1. log'[t] = <<>> /\ at'[t] = 1
      BY <1>1, <1>5 DEF Scanned
    <2>2. Cardinality(Answered(t)') = 0
      BY <2>1, FS_EmptySet DEF Answered
    <2> QED BY <1>2, <1>5, <2>1, <2>2 DEF Scanned, Working, Verifying
  <1>6. CASE Idled(t)
    BY <1>1, <1>6 DEF Idled, Working, Verifying
  <1>7. CASE Finished(t)
    <2>1. at[t] = Len(selected[t]) + 1 /\ Cardinality(Answered(t)') = at[t] - 1
      BY <1>1, <1>2, <1>3, <1>7 DEF Finished
    <2> QED BY <1>2, <1>7, <2>1 DEF Finished, Working, Verifying
  <1>8. CASE Stopped(t)
    <2>1. PICK e : Added(t, e) /\ e.type = "probe_inconclusive"
      BY <1>8 DEF Stopped
    <2>2. log'[t][Len(log'[t])].type = "probe_inconclusive"
      BY <2>1, LogStep
    <2> QED BY <1>8, <2>2 DEF Stopped, Working, Verifying
  <1>9. CASE Asked(t) \/ Counted(t) \/ Costed(t)
    <2>1. PICK e : Added(t, e) /\ e.type \notin Outcomes
      BY <1>9 DEF Asked, Counted, Costed, Outcomes
    <2>2. Answered(t)' = Answered(t)
      BY <2>1, AnsweredStep
    <2> QED BY <1>1, <1>9, <2>2 DEF Asked, Counted, Costed, Working, Verifying
  <1>10. CASE Concluded(t)
    <2>1. PICK e : Added(t, e) /\ e.type \in Outcomes
      BY <1>10 DEF Concluded
    <2>2. Cardinality(Answered(t)') = Cardinality(Answered(t)) + 1
      BY <2>1, AnsweredStep
    <2>3. Cardinality(Answered(t)) = at[t] - 1 /\ at[t] <= Len(selected[t])
      BY <1>1, <1>2, <1>10 DEF Concluded, Working, Verifying
    <2> QED BY <1>2, <1>10, <2>2, <2>3 DEF Concluded, Working, Verifying
  <1>11. CASE WentOn(t)
    BY <1>1, <1>3, <1>11 DEF WentOn, Working, Verifying
  <1>12. CASE Died(t)
    BY <1>12 DEF Died, Working, Verifying
  <1> QED BY <1>4, <1>5, <1>6, <1>7, <1>8, <1>9, <1>10, <1>11, <1>12, StepTable

\* A log only grows, and so does what the sessions have asked for.
LEMMA LogGrows ==
    ASSUME TypeOK, TypeOK', [Next]_vars, NEW t \in Session
    PROVE  log'[t] = log[t] \/ \E e : Added(t, e)
  BY StepTable DEF Scanned, Idled, Finished, Stopped, Asked, WentOn, Counted, Costed, Concluded, Died

LEMMA HuntedStays ==
    ASSUME TypeOK, TypeOK', [Next]_vars, NEW q \in Session, NEW m, NEW t, NEW k, Hunted(q, m, t, k)
    PROVE  Hunted(q, m, t, k)'
  <1>1. opt'[q] = opt[q]
    BY SessionStep
  <1>2. PICK i \in DOMAIN log[q] :
            log[q][i].type = "model_call_recorded" /\ log[q][i].target = t /\ log[q][i].kind = k
    BY DEF Hunted
  <1>3. i \in DOMAIN log'[q] /\ log'[q][i] = log[q][i]
    <2>1. ASSUME NEW e, Added(q, e) PROVE i \in DOMAIN log'[q] /\ log'[q][i] = log[q][i]
      BY <1>2, <2>1, LogStep
    <2> QED BY <1>2, <2>1, LogGrows
  <1> QED BY <1>1, <1>2, <1>3 DEF Hunted

LEMMA WriterStays ==
    ASSUME TypeOK, TypeOK', [Next]_vars
    PROVE  /\ \A q \in Session : \A p : Writer(q, p) => Writer(q, p)'
           /\ \A s \in Session : \A p : Contended(s, p) => Contended(s, p)'
  <1>1. ASSUME NEW q \in Session, NEW p, Writer(q, p) PROVE Writer(q, p)'
    <2>1. PICK m \in Mode, t \in Target, k \in Kind : PathOf(m, t, k) = p /\ Hunted(q, m, t, k)
      BY <1>1 DEF Writer
    <2>2. Hunted(q, m, t, k)'
      BY <2>1, HuntedStays
    <2> QED BY <2>1, <2>2 DEF Writer
  <1>2. ASSUME NEW s \in Session, NEW p, Contended(s, p) PROVE Contended(s, p)'
    <2>1. PICK q \in Session \ {s} : Writer(q, p)
      BY <1>2 DEF Contended
    <2>2. Writer(q, p)'
      BY <1>1, <2>1
    <2> QED BY <2>1, <2>2 DEF Contended
  <1> QED BY <1>1, <1>2

\* How a session comes to where it is with the risk in hand.
LEMMA WorkStep ==
    ASSUME TypeOK, TypeOK', [Next]_vars, NEW t \in Session
    PROVE  /\ pc'[t] \in Working => Asked(t) \/ (pc[t] \in Working /\ Path(t)' = Path(t))
           /\ pc'[t] = "fill" => OpenProbe(t) \/ pc[t] = "fill"
           /\ pc'[t] = "running" => Load(t) \/ UNCHANGED <<pc[t], running[t]>>
           /\ pc'[t] # "dead" => pc[t] # "dead"
  <1>t. pc \in [Session -> Stages] /\ opt' = opt
    BY SessionStep DEF TypeOK, Stages
  <1>1. pc'[t] \in Working => \/ Asked(t)
                              \/ pc[t] \in Working /\ UNCHANGED <<selected[t], at[t]>>
    BY StepTable DEF Scanned, Idled, Finished, Stopped, WentOn, Counted, Costed, Concluded, Died, After, Kept,
                     Working, Verifying
  <1>2. UNCHANGED <<selected[t], at[t]>> => Path(t)' = Path(t)
    BY <1>t DEF Path, Current
  <1>3. CASE Step(t)
    <2>1. pc'[t] = "fill" => OpenProbe(t)
      BY <1>t, <1>3 DEF Step, Scan, Idle, Finish, OverBudget, Ask, FillProbe, Generated, Cost, NoRun, NotRunnable,
                        Check, Load, Outcome, Goto
    <2>2. pc'[t] = "running" => Load(t)
      BY <1>t, <1>3 DEF Step, Scan, Idle, Finish, OverBudget, Ask, OpenProbe, FillProbe, Generated, Cost, NoRun,
                        NotRunnable, Check, Outcome, Goto
    <2>3. pc[t] # "dead"
      BY <1>3 DEF Step, Scan, Idle, Finish, OverBudget, Ask, OpenProbe, FillProbe, Generated, Cost, NoRun,
                  NotRunnable, Check, Load, Outcome
    <2> QED BY <1>1, <1>2, <2>1, <2>2, <2>3
  <1>4. CASE Die(t)
    BY <1>t, <1>1, <1>2, <1>4 DEF Die, Goto
  <1>5. CASE UNCHANGED <<pc[t], selected[t], at[t], consumed[t], running[t], log[t]>>
    BY <1>1, <1>2, <1>5
  <1> QED BY <1>3, <1>4, <1>5, SessionStep

LEMMA Loaded ==
    ASSUME TypeOK, [Next]_vars, NEW t \in Session, Load(t), pc'[t] = "running"
    PROVE  /\ Path(t) \in DOMAIN probes /\ running'[t] = probes[Path(t)]
           /\ pc[t] = "start" /\ Path(t)' = Path(t)
  BY DEF TypeOK, Load, Goto, Path, Current

LEMMA AskedWrites ==
    ASSUME TypeOK, TypeOK', InHand, [Next]_vars, NEW t \in Session, Asked(t)
    PROVE  Writer(t, Path(t))'
  <1>1. opt' = opt
    BY SessionStep
  <1>2. /\ opt[t].mode \in Mode /\ Current(t).target \in Target /\ Current(t).kind \in Kind
        /\ Path(t)' = Path(t)
    BY <1>1, CurrentType DEF Asked, Kept, Path, Current
  <1>3. PICK e : Added(t, e) /\ e.type = "model_call_recorded" /\ SameRisk(e, Current(t))
    BY DEF Asked
  <1>4. Len(log[t]) + 1 \in DOMAIN log'[t] /\ log'[t][Len(log[t]) + 1] = e
    BY <1>3, LogStep
  <1>5. Hunted(t, opt[t].mode, Current(t).target, Current(t).kind)'
    BY <1>1, <1>3, <1>4 DEF Hunted, SameRisk, Asked, Kept, Current
  <1> QED BY <1>1, <1>2, <1>5 DEF Path, Current, Writer, Asked, Kept

\* A probe file bears its test's path all the time.
LEMMA ProbesStep ==
    ASSUME TypeOK, TypeOK', InHand, ProbesNamed, [Next]_vars
    PROVE  ProbesNamed'
  <1>1. \A p \in DOMAIN probes' : Named(probes'[p], p)
    <2>0. \A p \in DOMAIN probes : Named(probes[p], p)
      BY DEF ProbesNamed
    <2>1. ASSUME NEW s \in Session, Wrote(s) PROVE \A p \in DOMAIN probes' : Named(probes'[p], p)
      <3>1. PICK file : /\ probes' = Put(Path(s), file)
                        /\ file = <<>> \/ \E whole \in BOOLEAN : file = <<TestOf(s, whole)>>
        BY <2>1 DEF Wrote
      <3>2. Named(file, Path(s))
        <4>1. CASE file = <<>>
          BY <4>1 DEF Named
        <4>2. ASSUME NEW whole \in BOOLEAN, file = <<TestOf(s, whole)>> PROVE Named(file, Path(s))
          <5> DEFINE x == TestOf(s, whole)
          <5>1. x \in Test /\ x.mode = opt[s].mode /\ x.target = Current(s).target /\ x.kind = Current(s).kind
            BY <2>1, TestType DEF Wrote
          <5>2. file = <<x>>
            BY <4>2
          <5> HIDE DEF x
          <5> QED BY <5>1, <5>2 DEF Named, Path
        <4> QED BY <3>1, <4>1, <4>2
      <3>3. DOMAIN probes' = DOMAIN probes \cup {Path(s)} /\ probes'[Path(s)] = file
            /\ \A q \in DOMAIN probes : q # Path(s) => probes'[q] = probes[q]
        BY <3>1, PutFile
      <3>4. ASSUME NEW p \in DOMAIN probes' PROVE Named(probes'[p], p)
        <4>1. CASE p = Path(s)
          BY <3>2, <3>3, <4>1
        <4>2. CASE p # Path(s)
          BY <2>0, <3>3, <4>2
        <4> QED BY <4>1, <4>2
      <3> QED BY <3>4
    <2>2. CASE \E p \in DOMAIN probes : Removed(p)
      BY <2>0, <2>2 DEF Removed
    <2> QED BY <2>0, <2>1, <2>2, ProbeSteps
  <1>2. ASSUME NEW t \in Session, pc'[t] = "running" PROVE Named(running'[t], Path(t)')
    <2>1. Path(t)' = Path(t) /\ (Load(t) \/ UNCHANGED <<pc[t], running[t]>>)
      BY <1>2, WorkStep DEF Asked, After, Working, Verifying
    <2>2. CASE UNCHANGED <<pc[t], running[t]>>
      BY <1>2, <2>1, <2>2 DEF ProbesNamed
    <2>3. CASE Load(t)
      <3>1. running'[t] = probes[Path(t)] /\ Path(t) \in DOMAIN probes /\ Path(t)' = Path(t)
        BY <1>2, <2>3, Loaded
      <3> QED BY <3>1 DEF ProbesNamed
    <2> QED BY <2>1, <2>2, <2>3
  <1> QED BY <1>1, <1>2 DEF ProbesNamed, Named

\* Damage stays among those who share a path.
LEMMA WriterAtWork ==
    ASSUME TypeOK, TypeOK', InHand, DamageShared, [Next]_vars, NEW s \in Session, pc'[s] \in Working
    PROVE  Writer(s, Path(s))'
  <1>1. CASE pc[s] \in Working /\ Path(s)' = Path(s)
    <2>1. PICK p : p = Path(s) /\ p = Path(s)'
      BY <1>1
    <2>2. Writer(s, p)'
      BY <1>1, <2>1, WriterStays DEF DamageShared
    <2> QED BY <2>1, <2>2 DEF Writer
  <1> QED BY <1>1, WorkStep, AskedWrites

LEMMA FilledShared ==
    ASSUME TypeOK, TypeOK', InHand, DamageShared, [Next]_vars, NEW t \in Session, pc'[t] = "fill"
    PROVE  Path(t)' \in DOMAIN probes' /\ (probes'[Path(t)'] # <<>> => Contended(t, Path(t))')
  <1>1. Path(t)' = Path(t) /\ (OpenProbe(t) \/ pc[t] = "fill")
    BY WorkStep DEF Asked, After, Working, Verifying
  <1>p. PICK p : p = Path(t) /\ p = Path(t)'
    BY <1>1
  <1>2. CASE OpenProbe(t)
    <2>1. p \in DOMAIN probes' /\ probes'[p] = <<>>
      BY <1>2, <1>p, PutFile DEF OpenProbe
    <2> QED BY <1>p, <2>1
  <1>3. CASE pc[t] = "fill"
    <2>1. p \in DOMAIN probes /\ (probes[p] # <<>> => Contended(t, p)')
      BY <1>3, <1>p, WriterStays DEF DamageShared
    <2>2. ASSUME NEW s \in Session, Wrote(s)
          PROVE  p \in DOMAIN probes' /\ (probes'[p] # <<>> => Contended(t, p)')
      <3>1. PICK file : probes' = Put(Path(s), file)
        BY <2>2 DEF Wrote
      <3>p. DOMAIN probes' = DOMAIN probes \cup {Path(s)}
            /\ \A q \in DOMAIN probes : q # Path(s) => probes'[q] = probes[q]
        BY <3>1, PutFile
      <3>2. CASE Path(s) # p
        BY <2>1, <3>p, <3>2
      <3>3. CASE Path(s) = p
        <4>1. s # t
          BY <1>3, <2>2 DEF Wrote
        <4>2. Writer(s, p)
          BY <2>2, <3>3 DEF Wrote, DamageShared, Working
        <4>3. Contended(t, p)
          BY <4>1, <4>2 DEF Contended
        <4> QED BY <3>1, <3>3, <4>3, PutFile, WriterStays
      <3> QED BY <3>2, <3>3
    <2>3. ~\E q \in DOMAIN probes : Removed(q)
      BY <1>3 DEF Removed
    <2>4. probes' = probes => p \in DOMAIN probes' /\ (probes'[p] # <<>> => Contended(t, p)')
      BY <2>1
    <2>5. p \in DOMAIN probes' /\ (probes'[p] # <<>> => Contended(t, p)')
      BY <2>2, <2>3, <2>4, ProbeSteps
    <2> QED BY <1>p, <2>5 DEF Contended
  <1> QED BY <1>1, <1>2, <1>3

LEMMA DamagedShared ==
    ASSUME TypeOK, TypeOK', InHand, DamageShared, [Next]_vars, NEW p \in DOMAIN probes', NEW t \in Session,
           Damaged(probes'[p]), pc'[t] # "dead"
    PROVE  Contended(t, p)'
  <1>0. pc[t] # "dead"
    BY WorkStep
  <1>1. p \in DOMAIN probes /\ probes'[p] = probes[p] => Contended(t, p)'
    BY <1>0, WriterStays DEF DamageShared
  <1>2. ASSUME NEW s \in Session, Wrote(s) PROVE Contended(t, p)'
    <2>1. PICK file : /\ probes' = Put(Path(s), file)
                      /\ \/ file = <<>>
                         \/ \E whole \in BOOLEAN :
                               /\ file = <<TestOf(s, whole)>> /\ pc[s] = "fill"
                               /\ whole \/ probes[Path(s)] # <<>> \/ pc'[s] = "dead"
      BY <1>2 DEF Wrote
    <2>p. DOMAIN probes' = DOMAIN probes \cup {Path(s)} /\ probes'[Path(s)] = file
          /\ \A q \in DOMAIN probes : q # Path(s) => probes'[q] = probes[q]
      BY <2>1, PutFile
    <2>2. CASE Path(s) # p
      BY <1>1, <2>p, <2>2
    <2>3. CASE Path(s) = p
      <3>1. Damaged(file)
        BY <2>p, <2>3
      <3>2. PICK whole \in BOOLEAN : /\ file = <<TestOf(s, whole)>> /\ pc[s] = "fill"
                                     /\ whole \/ probes[Path(s)] # <<>> \/ pc'[s] = "dead"
        BY <2>1, <3>1 DEF Damaged
      <3>3. probes[p] # <<>> \/ pc'[s] = "dead"
        <4>1. TestOf(s, whole).whole = whole /\ file[1] = TestOf(s, whole)
          BY <1>2, <3>2, TestType DEF Wrote
        <4> QED BY <2>3, <3>1, <3>2, <4>1 DEF Damaged
      <3>4. CASE s # t
        <4>1. Writer(s, p)
          BY <1>2, <2>3 DEF Wrote, DamageShared, Working
        <4> QED BY <3>4, <4>1, WriterStays DEF Contended
      <3>5. CASE s = t
        <4>1. probes[p] # <<>>
          BY <3>3, <3>5
        <4> QED BY <2>3, <3>2, <3>5, <4>1, WriterStays DEF DamageShared
      <3> QED BY <3>4, <3>5
    <2> QED BY <2>2, <2>3
  <1>3. CASE \E q \in DOMAIN probes : Removed(q)
    BY <1>1, <1>3 DEF Removed
  <1>4. CASE probes' = probes
    BY <1>1, <1>4
  <1> QED BY <1>2, <1>3, <1>4, ProbeSteps

LEMMA DamageStep ==
    ASSUME TypeOK, TypeOK', InHand, DamageShared, [Next]_vars
    PROVE  DamageShared'
  <1>1. ASSUME NEW t \in Session, pc'[t] = "running", Damaged(running'[t]) PROVE Contended(t, Path(t))'
    <2>1. Path(t)' = Path(t) /\ (Load(t) \/ UNCHANGED <<pc[t], running[t]>>)
      BY <1>1, WorkStep DEF Asked, After, Working, Verifying
    <2>p. PICK p : p = Path(t) /\ p = Path(t)'
      BY <2>1
    <2>2. Contended(t, p)
      <3>1. CASE Load(t)
        BY <1>1, <2>p, <3>1, Loaded DEF DamageShared
      <3>2. CASE UNCHANGED <<pc[t], running[t]>>
        BY <1>1, <2>p, <3>2 DEF DamageShared
      <3> QED BY <2>1, <3>1, <3>2
    <2>3. Contended(t, p)'
      BY <2>2, WriterStays
    <2> QED BY <2>p, <2>3 DEF Contended
  <1> QED BY <1>1, WriterAtWork, FilledShared, DamagedShared DEF DamageShared, Damaged

\* Where no two probes share a path, a probe file's name tells what its test is for.
LEMMA OneName ==
    ASSUME NEW m \in Mode, NEW g \in Target, NEW k \in Kind, DistinctPaths
    PROVE  \A n \in Mode, u \in Target, l \in Kind :
               PathOf(n, u, l) = PathOf(m, g, k) => n = m /\ u = g /\ l = k
  BY DEF DistinctPaths

\* What a session runs is a test for its risk and mode, or what is left of one ...
LEMMA RunsItsTest ==
    ASSUME TypeOK, InHand, ProbesNamed, DistinctPaths, NEW s \in Session, pc[s] = "running", running[s] # <<>>
    PROVE  /\ running[s] = <<running[s][1]>> /\ running[s][1] \in Test
           /\ running[s][1].mode = opt[s].mode
           /\ SameRisk(running[s][1], Current(s))
  <1>1. /\ opt[s].mode \in Mode /\ Current(s).target \in Target /\ Current(s).kind \in Kind
        /\ Path(s) = PathOf(opt[s].mode, Current(s).target, Current(s).kind)
    BY CurrentType DEF InHand, Working, Verifying, Path
  <1>2. PICK t \in Test : running[s] = <<t>> /\ PathOf(t.mode, t.target, t.kind) = Path(s)
    BY DEF ProbesNamed, Named
  <1>3. t.mode \in Mode /\ t.target \in Target /\ t.kind \in Kind /\ running[s][1] = t
    BY <1>2 DEF Test
  <1>4. t.mode = opt[s].mode /\ t.target = Current(s).target /\ t.kind = Current(s).kind
    <2>1. PathOf(t.mode, t.target, t.kind) = PathOf(opt[s].mode, Current(s).target, Current(s).kind)
      BY <1>1, <1>2
    <2> QED BY <1>1, <1>3, <2>1, OneName
  <1> QED BY <1>2, <1>3, <1>4 DEF SameRisk

\* ... and where something is left only, another session hunts the same risk.
LEMMA DamageOfAnother ==
    ASSUME TypeOK, InHand, ProbesNamed, DamageShared, DistinctPaths, NEW s \in Session,
           pc[s] = "running", running[s] # <<>>, ~running[s][1].whole
    PROVE  \E q \in Session \ {s} :
              Hunted(q, running[s][1].mode, running[s][1].target, running[s][1].kind)
  <1> DEFINE m == opt[s].mode
             g == Current(s).target
             k == Current(s).kind
  <1>1. m \in Mode /\ g \in Target /\ k \in Kind /\ Path(s) = PathOf(m, g, k)
    BY CurrentType DEF InHand, Working, Verifying, Path
  <1>2. Contended(s, Path(s))
    BY DEF DamageShared, Damaged
  <1>3. PICK q \in Session \ {s}, n \in Mode, u \in Target, l \in Kind :
            PathOf(n, u, l) = Path(s) /\ Hunted(q, n, u, l)
    BY <1>2 DEF Contended, Writer
  <1>4. running[s][1].mode = m /\ running[s][1].target = g /\ running[s][1].kind = k
    BY RunsItsTest DEF SameRisk
  <1> HIDE DEF m, g, k
  <1>5. n = m /\ u = g /\ l = k
    BY <1>1, <1>3, OneName
  <1> QED BY <1>3, <1>4, <1>5

\* A whole test of pytest passes just when it finds what its mode wants.
LEMMA WholeVerdict ==
    ASSUME NEW p \in Test, p.whole, NEW rc \in Verdicts(<<p>>, "pytest", source)
    PROVE  rc \in {0, 1} /\ (rc = 0 <=> Holds(p, source[p.target][p.kind]))
  BY DEF Verdicts

\* The outcome of a test that ran in the session s is earned.
EarnedBy(s, e) == e.type \in Ran /\ e.num \in {0, 1} /\ Runner[e.target] = "pytest" => Earned(s, e)
LEMMA OutcomeEarned ==
    ASSUME TypeOK, TypeOK', InHand, ProbesNamed, DamageShared, DistinctPaths, NEW s \in Session, Outcome(s)
    PROVE  \E e : Added(s, e) /\ EarnedBy(s, e)
  <1> DEFINE ran == running[s]
             p == ran[1]
             f == Current(s)
             seen == IF ran = <<>> THEN "absent" ELSE source[p.target][p.kind]
  <1>1. PICK rc \in CodesOf(s) \cup Broken : Record(s, StatusOf(rc), rc, [probe |-> ran, src |-> seen])
    BY OutcomeCodes
  <1>2. PICK e : /\ Added(s, e) /\ e.type = StatusOf(rc) /\ SameRisk(e, f)
                 /\ e.num = rc /\ e.saw = [probe |-> ran, src |-> seen]
    BY <1>1, NoteAdded
  <1>3. ASSUME rc \in {0, 1}, Runner[f.target] = "pytest"
        PROVE  /\ pc[s] = "running" /\ rc \in Verdicts(ran, "pytest", source) /\ ran # <<>>
    <2>1. rc \in CodesOf(s)
      BY <1>3, HuntAssumption
    <2>2. pc[s] = "running" /\ rc \in Verdicts(ran, "pytest", source)
      BY <1>3, <2>1 DEF CodesOf
    <2> QED BY <1>3, <2>2 DEF Verdicts
  <1>4. SUFFICES ASSUME e.type \in Ran, e.num \in {0, 1}, Runner[e.target] = "pytest" PROVE Earned(s, e)
    BY <1>2 DEF EarnedBy
  <1>5. /\ rc \in {0, 1} /\ pc[s] = "running" /\ rc \in Verdicts(ran, "pytest", source) /\ ran # <<>>
    BY <1>2, <1>3, <1>4 DEF SameRisk
  <1>6. ran = <<p>> /\ p \in Test /\ p.mode = opt[s].mode /\ SameRisk(p, f) /\ SameRisk(p, e)
    BY <1>2, <1>5, RunsItsTest DEF SameRisk
  <1>7. seen = source[p.target][p.kind]
    BY <1>5
  <1>8. e.type = "probe_passed" <=> rc = 0
    BY <1>2 DEF StatusOf
  <1>9. p.whole => (rc = 0 <=> Holds(p, seen))
    BY <1>5, <1>6, <1>7, WholeVerdict
  <1>10. ~p.whole => \E q \in Session \ {s} : Hunted(q, p.mode, p.target, p.kind)
    BY <1>5, DamageOfAnother
  <1>11. e.saw.probe = ran /\ e.saw.src = seen
    BY <1>2
  <1>12. e.type \in Ran
    BY <1>4
  <1>13. p.pattern \in {"none", "marker"} /\ p.mode \in Mode
    BY <1>6 DEF Test
  <1> HIDE DEF ran, p, f, seen
  <1>14. e.saw.probe[1] = p
    BY <1>11 DEF p, ran
  <1>15. p.whole /\ e.type = "probe_passed" =>
             /\ seen \notin {"gone", "undecodable"}
             /\ p.pattern = "marker" => ((seen = "literal") <=> (p.mode = "safe"))
    BY <1>8, <1>9 DEF Holds
  <1>16. p.whole /\ e.type = "probe_failed" /\ p.pattern = "marker" =>
             seen \in {"gone", "undecodable"} \/ ~((seen = "literal") <=> (p.mode = "safe"))
    BY <1>8, <1>9 DEF Holds
  <1> QED BY <1>5, <1>6, <1>10, <1>11, <1>14, <1>15, <1>16 DEF Earned

\* What is earned stays so.
LEMMA EarnedStays ==
    ASSUME TypeOK, TypeOK', [Next]_vars, NEW s \in Session, NEW e, Earned(s, e)
    PROVE  Earned(s, e)'
  <1>1. opt' = opt
    BY SessionStep
  <1>2. \A q \in Session : \A m, t, k : Hunted(q, m, t, k) => Hunted(q, m, t, k)'
    BY HuntedStays
  <1> QED BY <1>1, <1>2 DEF Earned

LEMMA EarnedStep ==
    ASSUME TypeOK, TypeOK', InHand, ProbesNamed, DamageShared, VerdictsAreEarned, [Next]_vars
    PROVE  VerdictsAreEarned'
  <1> SUFFICES ASSUME DistinctPaths, NEW t \in Session
               PROVE  \A i \in DOMAIN log'[t] : EarnedBy(t, log[t][i])'
    BY ZenonT(40) DEF VerdictsAreEarned, EarnedBy, DistinctPaths
  <1>1. \A i \in DOMAIN log[t] : EarnedBy(t, log[t][i])
    BY DEF VerdictsAreEarned, EarnedBy
  <1>s. \A e : EarnedBy(t, e) => EarnedBy(t, e)'
    BY EarnedStays DEF EarnedBy
  <1>2. ASSUME NEW e, Added(t, e), EarnedBy(t, e)
        PROVE  \A i \in DOMAIN log'[t] : EarnedBy(t, log[t][i])'
    <2>1. \A x : EarnedBy(t, x) => EarnedBy(t, x)'
      BY <1>s
    <2>2. ASSUME NEW i \in DOMAIN log'[t] PROVE EarnedBy(t, log[t][i])'
      <3>1. PICK x : x = log'[t][i] /\ EarnedBy(t, x)
        BY <1>1, <1>2, <2>2, LogStep
      <3>2. EarnedBy(t, x)'
        BY <2>1, <3>1
      <3> QED BY <3>1, <3>2 DEF EarnedBy, Earned
    <2> QED BY <2>2
  <1>3. ASSUME NEW e, Added(t, e), e.type \notin Ran
        PROVE  \A i \in DOMAIN log'[t] : EarnedBy(t, log[t][i])'
    BY <1>2, <1>3 DEF EarnedBy
  <1>4. CASE Concluded(t)
    <2>1. CASE Outcome(t)
      BY <1>2, <2>1, OutcomeEarned
    <2>2. CASE \E e : Added(t, e) /\ e.type \notin Ran
      BY <1>3, <2>2
    <2> QED BY <1>4, <2>1, <2>2 DEF Concluded
  <1>5. CASE Idled(t) \/ Stopped(t) \/ Asked(t) \/ Counted(t) \/ Costed(t)
    <2>1. PICK e : Added(t, e) /\ e.type \notin Ran
      BY <1>5 DEF Idled, Stopped, Asked, Counted, Costed, Ran
    <2> QED BY <1>3, <2>1
  <1>6. CASE log'[t] = log[t]
    <2>1. ASSUME NEW i \in DOMAIN log'[t] PROVE EarnedBy(t, log[t][i])'
      <3>1. PICK x : x = log'[t][i] /\ EarnedBy(t, x)
        BY <1>1, <1>6, <2>1
      <3>2. EarnedBy(t, x)'
        BY <1>s, <3>1
      <3> QED BY <3>1, <3>2 DEF EarnedBy, Earned
    <2> QED BY <2>1
  <1>7. CASE Scanned(t) \/ Finished(t) \/ WentOn(t) \/ Died(t)
    BY <1>6, <1>7 DEF Scanned, Finished, WentOn, Died
  <1> QED BY <1>4, <1>5, <1>6, <1>7, StepTable

LEMMA HuntStep == HuntInv /\ [Next]_vars => HuntInv'
  BY TypeStep, InHandStep, EventsStep, SpendingStep, AnswersStep, ProbesStep, DamageStep, EarnedStep DEF HuntInv

LEMMA HuntInvariant == Spec => []HuntInv
  BY InitHolds, HuntStep, PTL DEF Spec

(***************************************************************************)
(* The end of a hunt.                                                      *)
(***************************************************************************)
\* How many steps a session has left at most, with n risks selected of which it
\* has come to the one at i.
StepsFrom(p, n, i) ==
    CASE p = "scan" -> 8 * Most + 3
      [] p = "no_target" -> 2
      [] p \in {"no_match", "no_target_cost"} -> 1
      [] p = "next" -> 8 * (n - i) + 9
      [] p = "open" -> 8 * (n - i) + 8
      [] p = "fill" -> 8 * (n - i) + 7
      [] p = "generated" -> 8 * (n - i) + 6
      [] p = "cost" -> 8 * (n - i) + 5
      [] p \in {"no_run", "verify"} -> 8 * (n - i) + 4
      [] p = "start" -> 8 * (n - i) + 3
      [] p \in {"running", "lost"} -> 8 * (n - i) + 2
      [] p \in {"done", "dead"} -> 0
Left(s) == StepsFrom(pc[s], Len(selected[s]), at[s])

LEMMA LeftType ==
    ASSUME HuntInv, NEW s \in Session
    PROVE  /\ Left(s) \in Nat /\ (Left(s) = 0 <=> pc[s] \in {"done", "dead"})
           /\ Most \in Nat /\ Len(selected[s]) \in Nat /\ at[s] \in Nat
  <1> DEFINE n == Len(selected[s])
             i == at[s]
             p == pc[s]
  <1>1. n \in Nat /\ i \in Nat /\ Most \in Nat /\ p \in Stages
    <2>1. n \in Nat /\ i \in Nat /\ p \in Stages
      BY DEF HuntInv, TypeOK, Stages
    <2> QED BY <2>1, KindsCount
  <1>2. /\ p \in Working => i <= n
        /\ p = "next" => i <= n + 1
    BY DEF HuntInv, InHand, AnsweredSoFar
  <1> HIDE DEF n, i, p
  <1>3. StepsFrom(p, n, i) \in Nat /\ (StepsFrom(p, n, i) = 0 <=> p \in {"done", "dead"})
    BY <1>1, <1>2 DEF StepsFrom, Working, Verifying, Stages
  <1> QED BY <1>1, <1>3 DEF Left, n, i, p

LeftTyped == \A s \in Session : Left(s) \in Nat /\ (Left(s) = 0 <=> pc[s] \in {"done", "dead"})
LEMMA LeftTypeHolds == HuntInv => LeftTyped
  BY LeftType DEF LeftTyped
LEMMA LeftTypeNext == HuntInv' => LeftTyped'
  BY LeftTypeHolds, PTL

\* A step of the session moves on.
LEMMA StepMoves ==
    ASSUME TypeOK, NEW s \in Session, Step(s)
    PROVE  pc'[s] # pc[s]
  <1>1. pc \in [Session -> Stages]
    BY DEF TypeOK, Stages
  <1> QED BY <1>1 DEF Step, Scan, Idle, Finish, OverBudget, Ask, OpenProbe, FillProbe, Generated, Cost,
                      NoRun, NotRunnable, Check, Load, Outcome, Goto

RunsOut == \A s \in Session : (Step(s) => Left(s)' < Left(s)) /\ Left(s)' <= Left(s)

LEMMA LeftStep ==
    ASSUME HuntInv, HuntInv', [Next]_vars
    PROVE  RunsOut
  <1> SUFFICES ASSUME NEW t \in Session
               PROVE  (Step(t) => Left(t)' < Left(t)) /\ Left(t)' <= Left(t)
    BY DEF RunsOut
  <1> DEFINE n == Len(selected[t])
             i == at[t]
             p == pc[t]
             q == pc'[t]
             N == Most
  <1>1. n \in Nat /\ i \in Nat /\ N \in Nat /\ Left(t) \in Nat /\ (Left(t) = 0 <=> p \in {"done", "dead"})
    BY LeftType
  <1>2. /\ Left(t) = StepsFrom(p, n, i)
        /\ Left(t)' = StepsFrom(q, Len(selected'[t]), at'[t])
    BY DEF Left
  <1>3. /\ p = "scan" => i = 1
        /\ p \in Working => i <= n
        /\ p = "next" => i <= n + 1
    BY DEF HuntInv, InHand, AnsweredSoFar
  <1>t. TypeOK /\ TypeOK' /\ Len(selected'[t]) \in Nat
    <2>1. TypeOK /\ TypeOK'
      BY DEF HuntInv
    <2>2. selected'[t] \in Seq(Risk)
      BY <2>1 DEF TypeOK
    <2> QED BY <2>1, <2>2
  <1>4. CASE UNCHANGED <<pc[t], selected[t], at[t], consumed[t], running[t], log[t]>>
    <2>1. Left(t)' = Left(t)
      BY <1>2, <1>4
    <2> QED BY <1>1, <1>4, <1>t, <2>1, StepMoves
  <1>5. CASE Scanned(t)
    <2>1. p = "scan" /\ q \in {"no_target", "no_match", "done", "next"} /\ Len(selected'[t]) <= N /\ at'[t] = 1
      BY <1>3, <1>5 DEF Scanned, After
    <2> DEFINE k == Len(selected'[t])
    <2>2. k \in Nat /\ k <= N
      BY <1>t, <2>1
    <2>3. StepsFrom(p, n, i) = 8 * N + 3
      BY <2>1, Zenon DEF StepsFrom
    <2>4. StepsFrom(q, k, 1) \in {0, 1, 2, 8 * (k - 1) + 9}
      <3> HIDE DEF q, k
      <3> QED BY <2>1 DEF StepsFrom
    <2>5. Left(t)' = StepsFrom(q, k, 1)
      BY <1>2, <2>1
    <2> HIDE DEF n, i, p, q, N, k
    <2> QED BY <1>1, <1>2, <2>2, <2>3, <2>4, <2>5
  <1>6. CASE Idled(t) \/ Finished(t) \/ Stopped(t) \/ Asked(t) \/ WentOn(t) \/ Counted(t) \/ Costed(t)
    <2>1. /\ Len(selected'[t]) = n /\ at'[t] = i
          /\ \/ p = "no_target" /\ q = "no_target_cost"
             \/ p \in {"no_match", "no_target_cost"} /\ q = "done"
             \/ p = "next" /\ q \in {"done", "open"}
             \/ p = "open" /\ q = "fill"
             \/ p = "fill" /\ q = "generated"
             \/ p = "generated" /\ q = "cost"
             \/ p = "cost" /\ q \in {"verify", "no_run"}
             \/ p = "verify" /\ q = "start"
             \/ p = "start" /\ q \in {"running", "lost"}
      BY <1>6 DEF Idled, Finished, Stopped, Asked, WentOn, Counted, Costed, After, Kept
    <2>2. Left(t)' = StepsFrom(q, n, i)
      BY <1>2, <2>1
    <2>3. p = "next" => i <= n + 1
      BY <1>3
    <2> HIDE DEF n, i, p, q
    <2>4. StepsFrom(q, n, i) < StepsFrom(p, n, i) /\ StepsFrom(q, n, i) <= StepsFrom(p, n, i)
      <3>1. CASE p \in {"no_target", "no_match", "no_target_cost"}
        BY <2>1, <3>1 DEF StepsFrom
      <3>2. CASE p = "next" /\ q = "done"
        <4>1. StepsFrom(p, n, i) = 8 * (n - i) + 9 /\ StepsFrom(q, n, i) = 0
          BY <3>2, Zenon DEF StepsFrom
        <4> QED BY <1>1, <2>3, <3>2, <4>1
      <3>3. CASE p = "next" /\ q = "open"
        <4>1. StepsFrom(p, n, i) = 8 * (n - i) + 9 /\ StepsFrom(q, n, i) = 8 * (n - i) + 8
          BY <3>3, Zenon DEF StepsFrom
        <4> QED BY <1>1, <4>1
      <3>4. CASE p = "open" \/ p = "fill"
        <4>1. \/ StepsFrom(p, n, i) = 8 * (n - i) + 8 /\ StepsFrom(q, n, i) = 8 * (n - i) + 7
              \/ StepsFrom(p, n, i) = 8 * (n - i) + 7 /\ StepsFrom(q, n, i) = 8 * (n - i) + 6
          BY <2>1, <3>4 DEF StepsFrom
        <4> QED BY <1>1, <4>1
      <3>5. CASE p = "generated" \/ p = "cost"
        <4>1. \/ StepsFrom(p, n, i) = 8 * (n - i) + 6 /\ StepsFrom(q, n, i) = 8 * (n - i) + 5
              \/ StepsFrom(p, n, i) = 8 * (n - i) + 5 /\ StepsFrom(q, n, i) = 8 * (n - i) + 4
          BY <2>1, <3>5 DEF StepsFrom
        <4> QED BY <1>1, <4>1
      <3>6. CASE p = "verify" \/ p = "start"
        <4>1. \/ StepsFrom(p, n, i) = 8 * (n - i) + 4 /\ StepsFrom(q, n, i) = 8 * (n - i) + 3
              \/ StepsFrom(p, n, i) = 8 * (n - i) + 3 /\ StepsFrom(q, n, i) = 8 * (n - i) + 2
          BY <2>1, <3>6 DEF StepsFrom
        <4> QED BY <1>1, <4>1
      <3> QED BY <2>1, <3>1, <3>2, <3>3, <3>4, <3>5, <3>6, Zenon
    <2> QED BY <1>2, <2>2, <2>4
  <1>7. CASE Concluded(t)
    <2>1. /\ Len(selected'[t]) = n /\ at'[t] = i + 1 /\ q = "next"
          /\ p \in {"no_run", "verify", "running", "lost"}
      BY <1>7 DEF Concluded, After
    <2> HIDE DEF n, i, p, q
    <2>2. StepsFrom(q, n, i + 1) < StepsFrom(p, n, i) /\ StepsFrom(q, n, i + 1) <= StepsFrom(p, n, i)
      BY <1>1, <2>1 DEF StepsFrom
    <2> QED BY <1>2, <2>1, <2>2
  <1>8. CASE Died(t)
    <2>1. q = "dead" /\ p \notin {"done", "dead"}
      BY <1>8 DEF Died
    <2>2. Left(t)' = 0
      BY <1>2, <2>1, Zenon DEF StepsFrom
    <2> QED BY <1>1, <2>1, <2>2
  <1> QED BY <1>t, <1>4, <1>5, <1>6, <1>7, <1>8, StepTable

\* So no session has more steps left than a scan of every risk there can be.
Bounded == \A s \in Session : Left(s) <= 24 * Cardinality(Target) + 3

LEMMA LeftBounded == Spec => []Bounded
  <1>0. 8 * Most + 3 = 24 * Cardinality(Target) + 3 /\ 24 * Cardinality(Target) + 3 \in Nat
    BY KindsCount DEF Most
  <1>1. Init => Bounded
    <2> SUFFICES ASSUME Init, NEW s \in Session PROVE Left(s) = 8 * Most + 3
      BY <1>0, KindsCount DEF Bounded
    <2>1. pc[s] = "scan"
      BY DEF Init
    <2> QED BY <2>1, Zenon DEF Left, StepsFrom
  <1>2. HuntInv /\ HuntInv' /\ Bounded /\ [Next]_vars => Bounded'
    <2> SUFFICES ASSUME HuntInv, HuntInv', Bounded, [Next]_vars, NEW s \in Session
                 PROVE  Left(s)' <= 24 * Cardinality(Target) + 3
      BY DEF Bounded
    <2>1. Left(s) \in Nat /\ Left(s) <= 24 * Cardinality(Target) + 3
      BY LeftType DEF Bounded
    <2>2. Left(s)' \in Nat
      BY LeftTypeNext DEF LeftTyped
    <2>3. Left(s)' <= Left(s)
      BY LeftStep DEF RunsOut
    <2> QED BY <1>0, <2>1, <2>2, <2>3
  <1> QED BY <1>1, <1>2, HuntInvariant, PTL DEF Spec

(***************************************************************************)
(* The ranking.                                                            *)
(***************************************************************************)
\* A finite set can be put in the order of a relation that orders it.
LEMMA Sorting ==
    ASSUME NEW R, IsFiniteSet(R), NEW L,
           \A x \in R : <<x, x>> \notin L,
           \A x, y, z \in R : <<x, y>> \in L /\ <<y, z>> \in L => <<x, z>> \in L,
           \A x, y \in R : x = y \/ <<x, y>> \in L \/ <<y, x>> \in L
    PROVE  \E seq \in [1..Cardinality(R) -> R] :
               \A i, j \in 1..Cardinality(R) : i < j => <<seq[i], seq[j]>> \in L
  <1> DEFINE n == Cardinality(R)
             below(x) == {y \in R : <<y, x>> \in L}
             rank == [x \in R |-> Cardinality(below(x)) + 1]
             seq == [i \in 1..n |-> CHOOSE x \in R : rank[x] = i]
  <1>0. n \in Nat
    BY FS_CardinalityType
  <1>1. ASSUME NEW x \in R
        PROVE  IsFiniteSet(below(x)) /\ Cardinality(below(x)) \in Nat /\ Cardinality(below(x)) < n
    <2>1. below(x) \subseteq R /\ x \notin below(x)
      OBVIOUS
    <2> HIDE DEF below
    <2>2. IsFiniteSet(below(x)) /\ Cardinality(below(x)) <= n /\ Cardinality(below(x)) # n
      BY <2>1, FS_Subset
    <2>3. Cardinality(below(x)) \in Nat
      BY <2>2, FS_CardinalityType
    <2> QED BY <1>0, <2>2, <2>3
  <1>2. ASSUME NEW x \in R, NEW y \in R, <<x, y>> \in L
        PROVE  Cardinality(below(x)) < Cardinality(below(y))
    <2>1. below(x) \subseteq below(y) /\ x \in below(y) /\ x \notin below(x)
      BY <1>2
    <2>2. IsFiniteSet(below(y)) /\ Cardinality(below(x)) \in Nat /\ Cardinality(below(y)) \in Nat
      BY <1>1
    <2> HIDE DEF below
    <2>3. Cardinality(below(x)) <= Cardinality(below(y)) /\ Cardinality(below(x)) # Cardinality(below(y))
      BY <2>1, <2>2, FS_Subset
    <2> QED BY <2>2, <2>3
  <1>3. /\ \A x \in R : rank[x] = Cardinality(below(x)) + 1 /\ rank[x] \in 1..n
        /\ rank \in [R -> 1..n]
    <2>1. \A x \in R : Cardinality(below(x)) + 1 \in 1..n
      BY <1>0, <1>1
    <2> HIDE DEF below
    <2> QED BY <2>1
  <1>4. \A x, y \in R : <<x, y>> \in L => rank[x] < rank[y]
    <2>1. \A x \in R : Cardinality(below(x)) \in Nat
      BY <1>1
    <2> HIDE DEF below, rank
    <2> QED BY <1>2, <1>3, <2>1
  <1> HIDE DEF below, rank
  <1>5. rank \in Injection(R, 1..n)
    <2>1. \A x, y \in R : rank[x] = rank[y] => x = y
      <3>1. \A x, y \in R : <<x, y>> \in L => rank[x] # rank[y]
        BY <1>0, <1>3, <1>4
      <3> QED BY <3>1, Zenon
    <2> QED BY <1>3, <2>1 DEF Injection, IsInjective
  <1>6. rank \in Surjection(R, 1..n)
    <2>1. IsFiniteSet(1..n) /\ Cardinality(1..n) = n
      BY <1>0, FS_Interval
    <2> QED BY <1>5, <2>1, FS_Injection
  <1>7. \A i \in 1..n : seq[i] \in R /\ rank[seq[i]] = i
    <2>1. \A i \in 1..n : \E x \in R : rank[x] = i
      BY <1>6 DEF Surjection
    <2> QED BY <2>1
  <1> HIDE DEF seq
  <1>8. ASSUME NEW i \in 1..n, NEW j \in 1..n, i < j PROVE <<seq[i], seq[j]>> \in L
    <2>1. seq[i] \in R /\ seq[j] \in R /\ rank[seq[i]] < rank[seq[j]]
      BY <1>7, <1>8
    <2>2. seq[i] # seq[j] /\ <<seq[j], seq[i]>> \notin L
      BY <1>0, <1>3, <1>4, <2>1
    <2> QED BY <2>1, <2>2
  <1>9. seq \in [1..n -> R]
    BY <1>7 DEF seq
  <1> QED BY <1>8, <1>9

\* Of a scan's risks one always comes before the other.
LEMMA RiskKeys ==
    ASSUME NEW src, NEW score \in Scorings, NEW r \in RisksOf(src, score)
    PROVE  /\ r.target \in Target /\ r.kind \in Kind /\ r.score \in Nat
           /\ r = [target |-> r.target, kind |-> r.kind, score |-> score[<<r.target, r.kind>>],
                   pattern |-> PatternOf(src[r.target][r.kind])]
           /\ Place[r.target] \in Nat /\ Turn(r.kind) \in {1, 2, 3}
  <1>0. score \in [Target \X Kind -> Nat]
    BY HuntAssumption
  <1>1. PICK x \in Target \X Kind :
            r = [target |-> x[1], kind |-> x[2], score |-> score[x], pattern |-> PatternOf(src[x[1]][x[2]])]
    BY DEF RisksOf
  <1>2. x = <<x[1], x[2]>> /\ x[1] \in Target /\ x[2] \in Kind /\ score[x] \in Nat
    BY <1>0
  <1>3. r.target = x[1] /\ r.kind = x[2] /\ r.score = score[x] /\ r.pattern = PatternOf(src[x[1]][x[2]])
    BY <1>1
  <1>4. Place[r.target] \in Nat
    BY <1>2, <1>3, HuntAssumption
  <1>5. Turn(r.kind) \in {1, 2, 3}
    BY <1>2, <1>3 DEF Turn, Kind
  <1> QED BY <1>1, <1>2, <1>3, <1>4, <1>5

LEMMA RisksOrdered ==
    ASSUME NEW src, NEW score \in Scorings,
           NEW r \in RisksOf(src, score), NEW q \in RisksOf(src, score), NEW p \in RisksOf(src, score)
    PROVE  /\ ~Before(r, r)
           /\ Before(r, q) /\ Before(q, p) => Before(r, p)
           /\ r = q \/ Before(r, q) \/ Before(q, r)
  <1>1. /\ r.score \in Nat /\ q.score \in Nat /\ p.score \in Nat
        /\ Place[r.target] \in Nat /\ Place[q.target] \in Nat /\ Place[p.target] \in Nat
        /\ Turn(r.kind) \in Nat /\ Turn(q.kind) \in Nat /\ Turn(p.kind) \in Nat
    <2>1. \A x \in RisksOf(src, score) : /\ x.score \in Nat /\ Place[x.target] \in Nat
                                         /\ Turn(x.kind) \in {1, 2, 3}
      BY RiskKeys
    <2>2. \A n \in {1, 2, 3} : n \in Nat
      OBVIOUS
    <2> QED BY <2>1, <2>2
  <1>2. Place[r.target] = Place[q.target] => r.target = q.target
    BY RiskKeys, HuntAssumption
  <1>3. Turn(r.kind) = Turn(q.kind) => r.kind = q.kind
    <2>1. r.kind \in Kind /\ q.kind \in Kind
      BY RiskKeys
    <2> QED BY <2>1 DEF Turn, Kind
  <1>4. r.target = q.target /\ r.kind = q.kind => r = q
    <2> DEFINE risk(t, k) == [target |-> t, kind |-> k, score |-> score[<<t, k>>], pattern |-> PatternOf(src[t][k])]
    <2>1. \A x \in RisksOf(src, score) : x = risk(x.target, x.kind)
      BY RiskKeys
    <2> HIDE DEF risk
    <2>2. r = risk(r.target, r.kind) /\ q = risk(q.target, q.kind)
      BY <2>1
    <2> QED BY <2>2
  <1>5. ~Before(r, r)
    BY <1>1 DEF Before, Earlier
  <1>6. Before(r, q) /\ Before(q, p) => Before(r, p)
    BY <1>1 DEF Before, Earlier
  <1>7. r = q \/ Before(r, q) \/ Before(q, r)
    BY <1>1, <1>2, <1>3, <1>4 DEF Before, Earlier
  <1> QED BY <1>5, <1>6, <1>7

LeastOf(m, n) == IF m < n THEN m ELSE n
Wanted(src, score, o) == {r \in RisksOf(src, score) : r.target \in o.want}

LEMMA WantedFinite ==
    ASSUME NEW src, NEW score \in Scorings, NEW o
    PROVE  /\ IsFiniteSet(Wanted(src, score, o)) /\ Cardinality(Wanted(src, score, o)) \in Nat
           /\ Wanted(src, score, o) \subseteq RisksOf(src, score)
  <1>1. Wanted(src, score, o) \subseteq RisksOf(src, score)
    BY DEF Wanted
  <1> QED BY <1>1, RisksFinite, FS_Subset, FS_CardinalityType

LEMMA RankingExists ==
    ASSUME NEW src, NEW score \in Scorings, NEW o
    PROVE  Ranked(Wanted(src, score, o)) # {}
  <1> DEFINE R == Wanted(src, score, o)
             L == {x \in R \X R : Before(x[1], x[2])}
  <1>1. R \subseteq RisksOf(src, score) /\ IsFiniteSet(R)
    BY WantedFinite
  <1> HIDE DEF R
  <1>2. \A x, y \in R : <<x, y>> \in L <=> Before(x, y)
    OBVIOUS
  <1> HIDE DEF L
  <1>3. /\ \A x \in R : <<x, x>> \notin L
        /\ \A x, y, z \in R : <<x, y>> \in L /\ <<y, z>> \in L => <<x, z>> \in L
        /\ \A x, y \in R : x = y \/ <<x, y>> \in L \/ <<y, x>> \in L
    <2>1. \A x, y, z \in R : /\ ~Before(x, x)
                             /\ Before(x, y) /\ Before(y, z) => Before(x, z)
                             /\ x = y \/ Before(x, y) \/ Before(y, x)
      BY <1>1, RisksOrdered
    <2> QED BY <1>2, <2>1
  <1>4. PICK seq \in [1..Cardinality(R) -> R] : \A i, j \in 1..Cardinality(R) : i < j => <<seq[i], seq[j]>> \in L
    BY <1>1, <1>3, Sorting
  <1>5. \A i, j \in DOMAIN seq : i < j => Before(seq[i], seq[j])
    BY <1>2, <1>4
  <1>6. seq \in Ranked(R)
    BY <1>4, <1>5 DEF Ranked
  <1> QED BY <1>6 DEF R

\* A ranking has every risk.
LEMMA RankingWhole ==
    ASSUME NEW src, NEW score \in Scorings, NEW o, NEW seq \in Ranked(Wanted(src, score, o)), NEW q \in Wanted(src, score, o)
    PROVE  \E k \in 1..Cardinality(Wanted(src, score, o)) : seq[k] = q
  <1> DEFINE R == Wanted(src, score, o)
             n == Cardinality(R)
  <1>1. R \subseteq RisksOf(src, score) /\ IsFiniteSet(R) /\ n \in Nat
    BY WantedFinite
  <1> HIDE DEF R
  <1>2. seq \in [1..n -> R] /\ \A i, j \in 1..n : i < j => Before(seq[i], seq[j])
    BY DEF Ranked, R
  <1>3. \A x \in R : ~Before(x, x)
    BY <1>1, RisksOrdered
  <1>4. ASSUME NEW i \in 1..n, NEW j \in 1..n, seq[i] = seq[j] PROVE i = j
    <2>1. ~(i < j) /\ ~(j < i)
      BY <1>2, <1>3, <1>4
    <2> QED BY <1>1, <2>1
  <1>5. seq \in Injection(1..n, R)
    BY <1>2, <1>4 DEF Injection, IsInjective
  <1>6. Cardinality(1..n) = n
    BY <1>1, FS_Interval
  <1>7. seq \in Surjection(1..n, R)
    BY <1>1, <1>5, <1>6, FS_Injection
  <1> QED BY <1>7 DEF Surjection, R

\* A risk's place in a ranking is the number of those before it.
LEMMA RankingPlace ==
    ASSUME NEW src, NEW score \in Scorings, NEW o, NEW seq \in Ranked(Wanted(src, score, o)),
           NEW i \in 1..Cardinality(Wanted(src, score, o))
    PROVE  Cardinality({q \in Wanted(src, score, o) : Before(q, seq[i])}) = i - 1
  <1> DEFINE R == Wanted(src, score, o)
             n == Cardinality(R)
             below == {q \in R : Before(q, seq[i])}
             f == [j \in 1..(i - 1) |-> seq[j]]
  <1>1. R \subseteq RisksOf(src, score) /\ IsFiniteSet(R) /\ n \in Nat
    BY WantedFinite
  <1>2. seq \in [1..n -> R] /\ \A j, k \in 1..n : j < k => Before(seq[j], seq[k])
    BY DEF Ranked
  <1>3. \A q \in R : \E k \in 1..n : seq[k] = q
    BY RankingWhole
  <1> HIDE DEF R
  <1>4. \A x, y \in R : ~Before(x, x) /\ ~(Before(x, y) /\ Before(y, x))
    BY <1>1, RisksOrdered
  <1>5. i \in 1..n /\ i \in Nat /\ i - 1 \in Nat
    BY <1>1 DEF R
  <1> HIDE DEF n
  <1>6. ASSUME NEW j \in 1..(i - 1) PROVE j \in 1..n /\ seq[j] \in R /\ Before(seq[j], seq[i])
    <2>1. j \in 1..n /\ j < i
      BY <1>1, <1>5
    <2> QED BY <1>2, <1>5, <2>1
  <1>7. ASSUME NEW q \in below PROVE \E j \in 1..(i - 1) : seq[j] = q
    <2>1. PICK k \in 1..n : seq[k] = q
      BY <1>3
    <2>2. seq[i] \in R /\ q \in R /\ Before(q, seq[i])
      BY <1>2, <1>5
    <2>3. k # i /\ ~(i < k)
      BY <1>2, <1>4, <1>5, <2>1, <2>2
    <2>4. k \in 1..(i - 1)
      BY <1>1, <1>5, <2>3
    <2> QED BY <2>1, <2>4
  <1>8. ASSUME NEW j \in 1..(i - 1), NEW k \in 1..(i - 1), seq[j] = seq[k] PROVE j = k
    <2>1. j \in 1..n /\ k \in 1..n
      BY <1>6
    <2>2. ~(j < k) /\ ~(k < j)
      BY <1>2, <1>4, <1>8, <2>1
    <2> QED BY <1>1, <2>1, <2>2
  <1> DEFINE S == 1..(i - 1)
  <1>9. IsFiniteSet(S) /\ Cardinality(S) = i - 1
    BY <1>5, FS_Interval
  <1> HIDE DEF S
  <1>10. f \in Surjection(S, below) /\ f \in Injection(S, below)
    <2>1. \A j \in S : seq[j] \in below
      BY <1>6 DEF S
    <2>2. \A q \in below : \E j \in S : seq[j] = q
      BY <1>7 DEF S
    <2>3. \A j, k \in S : seq[j] = seq[k] => j = k
      BY <1>8 DEF S
    <2>4. f = [j \in S |-> seq[j]]
      BY DEF S
    <2> HIDE DEF f, below
    <2> QED BY <2>1, <2>2, <2>3, <2>4 DEF Surjection, Injection, IsInjective
  <1> HIDE DEF f, below
  <1>11. Cardinality(below) = Cardinality(S)
    BY <1>9, <1>10, FS_Surjection
  <1> QED BY <1>9, <1>11 DEF below, R

\* A set of risks has one ranking.
LEMMA RankingUnique ==
    ASSUME NEW src, NEW score \in Scorings, NEW o,
           NEW u \in Ranked(Wanted(src, score, o)), NEW v \in Ranked(Wanted(src, score, o))
    PROVE  u = v
  <1> DEFINE R == Wanted(src, score, o)
             n == Cardinality(R)
  <1>1. u \in [1..n -> R] /\ v \in [1..n -> R] /\ n \in Nat
    BY WantedFinite DEF Ranked
  <1>2. ASSUME NEW i \in 1..n PROVE u[i] = v[i]
    <2>1. u[i] \in R
      BY <1>1
    <2>2. PICK k \in 1..n : v[k] = u[i]
      BY <2>1, RankingWhole
    <2> DEFINE c == Cardinality({q \in R : Before(q, u[i])})
    <2>3. c = i - 1
      BY RankingPlace
    <2>4. c = k - 1
      BY <2>2, RankingPlace
    <2> HIDE DEF c, n
    <2>5. k = i
      BY <1>1, <2>3, <2>4
    <2> QED BY <2>2, <2>5
  <1> QED BY <1>1, <1>2

\* What a scan selects: as many as it may, in order, and no risk that is left out
\* comes before one that is kept.
LEMMA SelectionBest ==
    ASSUME NEW src, NEW score \in Scorings, NEW o \in Options, NEW chosen \in Selections(RisksOf(src, score), o)
    PROVE  /\ Len(chosen) = LeastOf(o.limit, Cardinality(Wanted(src, score, o)))
           /\ DOMAIN chosen = 1..Len(chosen) /\ \A i \in DOMAIN chosen : chosen[i] \in Wanted(src, score, o)
           /\ \A i, j \in DOMAIN chosen : i < j => Before(chosen[i], chosen[j])
           /\ \A q \in Wanted(src, score, o), i \in DOMAIN chosen :
                  (\E k \in DOMAIN chosen : chosen[k] = q) \/ Before(chosen[i], q)
  <1> DEFINE n == Cardinality(Wanted(src, score, o))
  <1>1. PICK seq \in Ranked(Wanted(src, score, o)) :
            chosen = SubSeq(seq, 1, IF o.limit < Len(seq) THEN o.limit ELSE Len(seq))
    BY DEF Selections, Wanted
  <1>2. seq \in [1..n -> Wanted(src, score, o)] /\ \A i, j \in 1..n : i < j => Before(seq[i], seq[j])
    BY DEF Ranked
  <1>3. n \in Nat /\ o.limit \in Nat
    BY WantedFinite, OptionType
  <1> HIDE DEF n
  <1>4. seq \in Seq(Wanted(src, score, o)) /\ Len(seq) = n
    BY <1>2, <1>3
  <1> DEFINE m == LeastOf(o.limit, n)
  <1>5. m \in Nat /\ m <= n
    BY <1>3 DEF LeastOf
  <1>6. chosen = SubSeq(seq, 1, m)
    BY <1>1, <1>4 DEF LeastOf
  <1> HIDE DEF m
  <1>7. DOMAIN chosen = 1..m /\ Len(chosen) = m /\ \A i \in 1..m : chosen[i] = seq[i]
    BY <1>4, <1>5, <1>6
  <1>k. \A i \in DOMAIN chosen : chosen[i] \in Wanted(src, score, o)
    BY <1>2, <1>3, <1>5, <1>7
  <1>8. \A i, j \in DOMAIN chosen : i < j => Before(chosen[i], chosen[j])
    BY <1>2, <1>3, <1>5, <1>7
  <1>9. ASSUME NEW q \in Wanted(src, score, o), NEW i \in 1..m, \A k \in 1..m : chosen[k] # q
        PROVE  Before(chosen[i], q)
    <2>1. PICK k \in 1..n : seq[k] = q
      BY RankingWhole DEF n
    <2>2. k \notin 1..m
      BY <1>7, <1>9, <2>1
    <2>3. i \in 1..n /\ i < k
      BY <1>3, <1>5, <2>2
    <2> QED BY <1>2, <1>7, <2>1, <2>3
  <1> QED BY <1>7, <1>k, <1>8, <1>9 DEF m, n

\* What a scan may select, and in which order.
BestFirst ==
    \A s \in Session : Scan(s) => \E score \in Scorings :
        LET wanted == Wanted(source, score, opt[s])
            chosen == selected'[s]
        IN  /\ Len(chosen) = LeastOf(opt[s].limit, Cardinality(wanted))
            /\ \A i \in 1..Len(chosen) : chosen[i] \in wanted
            /\ \A i, j \in 1..Len(chosen) : i < j =>
                  chosen[i] # chosen[j] /\ chosen[i].score >= chosen[j].score
            /\ \A q \in wanted, i \in 1..Len(chosen) :
                  \/ \E k \in 1..Len(chosen) : chosen[k] = q
                  \/ chosen[i].score > q.score
                  \/ chosen[i].score = q.score /\ Earlier(chosen[i], q)

LEMMA ScanSelects == TypeOK => BestFirst
  <1> SUFFICES ASSUME TypeOK, NEW s \in Session, Scan(s)
               PROVE  \E score \in Scorings :
                        LET wanted == Wanted(source, score, opt[s])
                            chosen == selected'[s]
                        IN  /\ Len(chosen) = LeastOf(opt[s].limit, Cardinality(wanted))
                            /\ \A i \in 1..Len(chosen) : chosen[i] \in wanted
                            /\ \A i, j \in 1..Len(chosen) : i < j =>
                                  chosen[i] # chosen[j] /\ chosen[i].score >= chosen[j].score
                            /\ \A q \in wanted, i \in 1..Len(chosen) :
                                  \/ \E k \in 1..Len(chosen) : chosen[k] = q
                                  \/ chosen[i].score > q.score
                                  \/ chosen[i].score = q.score /\ Earlier(chosen[i], q)
    BY DEF BestFirst
  <1>1. PICK score \in Scorings :
            \E x \in Selections(RisksOf(source, score), opt[s]) : selected' = [selected EXCEPT ![s] = x]
    BY DEF Scan
  <1>2. PICK x \in Selections(RisksOf(source, score), opt[s]) : selected' = [selected EXCEPT ![s] = x]
    BY <1>1
  <1> DEFINE W == Wanted(source, score, opt[s])
             c == selected'[s]
  <1>3. c = x /\ opt[s] \in Options
    BY <1>2 DEF TypeOK
  <1>4. /\ Len(c) = LeastOf(opt[s].limit, Cardinality(W))
        /\ DOMAIN c = 1..Len(c) /\ \A i \in DOMAIN c : c[i] \in W
        /\ \A i, j \in DOMAIN c : i < j => Before(c[i], c[j])
        /\ \A q \in W, i \in DOMAIN c : (\E k \in DOMAIN c : c[k] = q) \/ Before(c[i], q)
    BY <1>3, SelectionBest
  <1>5. \A r, q \in W : /\ ~Before(r, r) /\ r.score \in Nat /\ q.score \in Nat
                        /\ Before(r, q) => r.score > q.score \/ (r.score = q.score /\ Earlier(r, q))
    <2>1. W \subseteq RisksOf(source, score)
      BY WantedFinite
    <2> HIDE DEF W
    <2> QED BY <2>1, RisksOrdered, RiskKeys DEF Before
  <1> HIDE DEF W, c
  <1>6. \A i, j \in 1..Len(c) : i < j => c[i] # c[j] /\ c[i].score >= c[j].score
    BY <1>4, <1>5
  <1>7. \A q \in W, i \in 1..Len(c) : \/ \E k \in 1..Len(c) : c[k] = q
                                      \/ c[i].score > q.score
                                      \/ c[i].score = q.score /\ Earlier(c[i], q)
    BY <1>4, <1>5
  <1>8. \A i \in 1..Len(c) : c[i] \in W
    BY <1>4
  <1> QED BY <1>4, <1>6, <1>7, <1>8 DEF W, c

(***************************************************************************)
(* Reports beside the hunts.                                               *)
(***************************************************************************)
\* The events a report counts; probes are generated in one file of the memory.
Generations == Events("failure_patterns", {"probe_generated"})
Failures == Events("failure_patterns", Outcomes)
Others == Events("negative_results", Outcomes)
Costs == Events("cost_ledger", {"cost_recorded"})

\* The report in the making, against what the files hold: the outcomes of the
\* second file and the ledger's records of what is generated are still to come,
\* but they are there.
Reports == [read : 0..3, generated : Nat, answered : Nat, costs : Nat, open : Nat]
ReportInv ==
    /\ report \in Reports
    /\ report.read = 0 => report.generated = 0 /\ report.answered = 0
    /\ report.read = 1 => report.generated <= report.answered + Cardinality(Others) + report.open
    /\ report.read >= 2 => report.generated <= report.answered + report.open
    /\ report.read \in {1, 2} => report.generated <= Cardinality(Costs) + report.open
    /\ report.read = 3 => report.generated <= report.costs + report.open

LEMMA EventIn ==
    ASSUME NEW file, NEW types, NEW x
    PROVE  x \in Events(file, types) <=>
               \E s \in Session : \E i \in DOMAIN log[s] :
                   /\ x = <<s, i>> /\ log[s][i].type \in types
                   /\ FileOf(log[s][i].type) = file
  BY DEF Events

LEMMA UnansweredIn ==
    ASSUME NEW x
    PROVE  x \in Unanswered <=>
               \E s \in Session : \E i \in DOMAIN log[s] :
                   x = <<s, i>> /\ log[s][i].type = "probe_generated" /\ i + 2 > Len(log[s])
  BY DEF Unanswered

LEMMA EventsFinite ==
    TypeOK => /\ \A file, types : IsFiniteSet(Events(file, types)) /\ Count(file, types) \in Nat
              /\ IsFiniteSet(Unanswered) /\ Open \in Nat
  <1> SUFFICES ASSUME TypeOK
               PROVE  /\ \A file, types : IsFiniteSet(Events(file, types)) /\ Count(file, types) \in Nat
                      /\ IsFiniteSet(Unanswered) /\ Open \in Nat
    OBVIOUS
  <1> DEFINE At(s) == {<<s, i>> : i \in DOMAIN log[s]}
             All == UNION {At(s) : s \in Session}
  <1>1. ASSUME NEW s \in Session PROVE IsFiniteSet(At(s))
    <2> DEFINE f == [i \in DOMAIN log[s] |-> <<s, i>>]
    <2>1. log[s] \in Seq(Entry)
      BY DEF TypeOK
    <2>2. DOMAIN log[s] = 1..Len(log[s]) /\ Len(log[s]) \in Nat
      BY <2>1
    <2>3. IsFiniteSet(DOMAIN log[s])
      BY <2>2, FS_Interval
    <2>4. f \in Surjection(DOMAIN log[s], At(s))
      BY DEF Surjection
    <2> QED BY <2>3, <2>4, FS_Surjection
  <1>2. IsFiniteSet({At(s) : s \in Session})
    <2> DEFINE g == [s \in Session |-> At(s)]
    <2>1. g \in Surjection(Session, {At(s) : s \in Session})
      BY DEF Surjection
    <2> QED BY <2>1, ReportAssumption, FS_Surjection
  <1>3. IsFiniteSet(All)
    BY <1>1, <1>2, FS_UNION
  <1>4. ASSUME NEW file, NEW types PROVE Events(file, types) \subseteq All
    BY DEF Events
  <1>5. Unanswered \subseteq All
    BY DEF Unanswered
  <1> HIDE DEF All
  <1> QED BY <1>3, <1>4, <1>5, FS_Subset, FS_CardinalityType DEF Count, Open

LEMMA EventsFiniteNext ==
    TypeOK' => (\A file, types : IsFiniteSet(Events(file, types)) /\ Count(file, types) \in Nat)'
  <1>1. TypeOK => \A file, types : IsFiniteSet(Events(file, types)) /\ Count(file, types) \in Nat
    BY EventsFinite
  <1> QED BY <1>1, PTL

\* A probe whose outcome is there is not counted as open: outcomes stand two
\* places behind, ledger records one.
LEMMA CountedNow ==
    ASSUME TypeOK, EventsInHand
    PROVE  /\ Cardinality(Generations) <= Cardinality(Failures) + Cardinality(Others) + Cardinality(Unanswered)
           /\ Cardinality(Generations) <= Cardinality(Costs) + Cardinality(Unanswered)
  <1> DEFINE Done == Generations \ Unanswered
  <1>1. /\ IsFiniteSet(Generations) /\ IsFiniteSet(Failures) /\ IsFiniteSet(Others)
        /\ IsFiniteSet(Costs) /\ IsFiniteSet(Unanswered)
    BY EventsFinite DEF Generations, Failures, Others, Costs
  <1>2. ASSUME NEW x \in Done
        PROVE  \E s \in Session : \E i \in Nat :
                   /\ x = <<s, i>> /\ x[1] = s /\ x[2] = i
                   /\ <<s, i + 2>> \in Failures \cup Others /\ <<s, i + 1>> \in Costs
    <2>1. PICK s \in Session : \E i \in DOMAIN log[s] : x = <<s, i>> /\ log[s][i].type = "probe_generated"
      BY EventIn DEF Generations
    <2>2. PICK i \in DOMAIN log[s] : x = <<s, i>> /\ log[s][i].type = "probe_generated"
      BY <2>1
    <2>3. log[s] \in Seq(Entry) /\ Followed(log[s])
      BY DEF TypeOK, EventsInHand
    <2>4. DOMAIN log[s] = 1..Len(log[s]) /\ Len(log[s]) \in Nat /\ i \in Nat
      BY <2>3
    <2>5. i + 2 <= Len(log[s])
      BY <2>2, <2>4, UnansweredIn
    <2>6. /\ i + 1 \in DOMAIN log[s] /\ log[s][i + 1].type = "cost_recorded"
          /\ i + 2 \in DOMAIN log[s] /\ log[s][i + 2].type \in Outcomes
      BY <2>2, <2>3, <2>4, <2>5 DEF Followed
    <2>7. <<s, i + 1>> \in Costs
      BY <2>6, EventIn DEF Costs, FileOf
    <2>8. <<s, i + 2>> \in Failures \cup Others
      <3>1. FileOf(log[s][i + 2].type) \in {"failure_patterns", "negative_results"}
        BY <2>6 DEF FileOf, Outcomes
      <3> QED BY <2>6, <3>1, EventIn DEF Failures, Others
    <2>9. x[1] = s /\ x[2] = i
      BY <2>2
    <2> QED BY <2>2, <2>4, <2>7, <2>8, <2>9
  <1>3. ASSUME NEW k \in Nat, NEW T, IsFiniteSet(T), \A x \in Done : <<x[1], x[2] + k>> \in T
        PROVE  Cardinality(Done) <= Cardinality(T)
    <2> DEFINE f == [x \in Done |-> <<x[1], x[2] + k>>]
    <2>1. f \in [Done -> T]
      BY <1>3
    <2>2. ASSUME NEW x \in Done, NEW y \in Done, f[x] = f[y] PROVE x = y
      <3>1. PICK s \in Session, i \in Nat : x = <<s, i>> /\ x[1] = s /\ x[2] = i
        BY <1>2
      <3>2. PICK t \in Session, j \in Nat : y = <<t, j>> /\ y[1] = t /\ y[2] = j
        BY <1>2
      <3>3. <<s, i + k>> = <<t, j + k>>
        BY <2>2, <3>1, <3>2
      <3> QED BY <3>1, <3>2, <3>3
    <2>3. f \in Injection(Done, T)
      BY <2>1, <2>2 DEF Injection, IsInjective
    <2> HIDE DEF f, Done
    <2> QED BY <1>3, <2>3, FS_Injection
  <1>4. Cardinality(Done) <= Cardinality(Failures \cup Others) /\ Cardinality(Done) <= Cardinality(Costs)
    <2>1. \A x \in Done : <<x[1], x[2] + 2>> \in Failures \cup Others /\ <<x[1], x[2] + 1>> \in Costs
      BY <1>2
    <2>2. IsFiniteSet(Failures \cup Others)
      BY <1>1, FS_Union
    <2> HIDE DEF Done
    <2> QED BY <1>1, <1>3, <2>1, <2>2
  <1>5. /\ Cardinality(Failures \cup Others) <= Cardinality(Failures) + Cardinality(Others)
        /\ Cardinality(Failures) \in Nat /\ Cardinality(Others) \in Nat /\ Cardinality(Costs) \in Nat
        /\ Cardinality(Unanswered) \in Nat
    <2>1. Cardinality(Failures \cap Others) \in Nat
      BY <1>1, FS_Intersection, FS_CardinalityType
    <2>2. /\ Cardinality(Failures) \in Nat /\ Cardinality(Others) \in Nat /\ Cardinality(Costs) \in Nat
          /\ Cardinality(Unanswered) \in Nat
      BY <1>1, FS_CardinalityType
    <2>3. Cardinality(Failures \cup Others) =
              Cardinality(Failures) + Cardinality(Others) - Cardinality(Failures \cap Others)
      BY <1>1, FS_Union
    <2> QED BY <2>1, <2>2, <2>3
  <1>6. Cardinality(Generations) <= Cardinality(Done) + Cardinality(Unanswered)
    <2>1. IsFiniteSet(Done) /\ Cardinality(Done) \in Nat
      BY <1>1, FS_Difference, FS_CardinalityType
    <2>2. Generations \subseteq Done \cup Unanswered
      OBVIOUS
    <2> HIDE DEF Done
    <2>3. /\ IsFiniteSet(Done \cup Unanswered) /\ Cardinality(Done \cap Unanswered) \in Nat
          /\ Cardinality(Done \cup Unanswered) =
                 Cardinality(Done) + Cardinality(Unanswered) - Cardinality(Done \cap Unanswered)
      BY <1>1, <2>1, FS_Union, FS_Intersection, FS_CardinalityType
    <2>4. Cardinality(Generations) <= Cardinality(Done \cup Unanswered)
      BY <2>2, <2>3, FS_Subset
    <2>5. Cardinality(Generations) \in Nat /\ Cardinality(Done \cup Unanswered) \in Nat
      BY <1>1, <2>3, FS_CardinalityType
    <2> QED BY <1>5, <2>1, <2>3, <2>4, <2>5
  <1>7. Cardinality(Done) \in Nat /\ Cardinality(Generations) \in Nat /\ Cardinality(Failures \cup Others) \in Nat
    BY <1>1, FS_Difference, FS_Union, FS_CardinalityType
  <1> HIDE DEF Done
  <1> QED BY <1>4, <1>5, <1>6, <1>7

\* Logs only grow, and with them what the files hold.
LEMMA EventsGrow ==
    ASSUME TypeOK, TypeOK', [Next]_vars, NEW file, NEW types
    PROVE  Cardinality(Events(file, types)) <= Cardinality(Events(file, types)')
  <1>1. ASSUME NEW s \in Session
        PROVE  \A i \in DOMAIN log[s] : i \in DOMAIN log'[s] /\ log'[s][i] = log[s][i]
    <2>1. CASE log'[s] = log[s]
      BY <2>1
    <2>2. CASE \E e : Added(s, e)
      BY <2>2, LogStep
    <2> QED BY <2>1, <2>2, StepTable DEF Scanned, Idled, Finished, Stopped, Asked, WentOn, Counted, Costed,
               Concluded, Died
  <1>2. Events(file, types) \subseteq Events(file, types)'
    BY <1>1 DEF Events
  <1>3. IsFiniteSet(Events(file, types)')
    BY EventsFiniteNext
  <1> QED BY <1>2, <1>3, FS_Subset

LEMMA ReportInitHolds == ReportInit => HuntInv /\ ReportInv
  BY InitHolds DEF ReportInit, Blank, ReportInv, Reports

\* A report after one file more.
WithMemory(r, g, a, o) == [r EXCEPT !.read = @ + 1, !.generated = @ + g, !.answered = @ + a, !.open = o]
WithLedger(r, c) == [r EXCEPT !.read = @ + 1, !.costs = c]

LEMMA MemoryRead ==
    ASSUME NEW r \in Reports, r.read <= 2, NEW g \in Nat, NEW a \in Nat, NEW o \in Nat,
           NEW q, q = WithMemory(r, g, a, o)
    PROVE  /\ q \in Reports
           /\ q.read = r.read + 1 /\ q.generated = r.generated + g /\ q.answered = r.answered + a
           /\ q.open = o
  <1>1. /\ r.read \in 0..2 /\ r.generated \in Nat /\ r.answered \in Nat /\ r.costs \in Nat /\ r.open \in Nat
        /\ r = [read |-> r.read, generated |-> r.generated, answered |-> r.answered, costs |-> r.costs,
                open |-> r.open]
    BY DEF Reports
  <1>2. q = [read |-> r.read + 1, generated |-> r.generated + g, answered |-> r.answered + a,
             costs |-> r.costs, open |-> o]
    BY <1>1 DEF WithMemory
  <1> QED BY <1>1, <1>2 DEF Reports

LEMMA LedgerRead ==
    ASSUME NEW r \in Reports, r.read <= 2, NEW c \in Nat, NEW q, q = WithLedger(r, c)
    PROVE  /\ q \in Reports
           /\ q.read = r.read + 1 /\ q.generated = r.generated /\ q.answered = r.answered
           /\ q.costs = c /\ q.open = r.open
  <1>1. /\ r.read \in 0..2 /\ r.generated \in Nat /\ r.answered \in Nat /\ r.costs \in Nat /\ r.open \in Nat
        /\ r = [read |-> r.read, generated |-> r.generated, answered |-> r.answered, costs |-> r.costs,
                open |-> r.open]
    BY DEF Reports
  <1>2. q = [read |-> r.read + 1, generated |-> r.generated, answered |-> r.answered, costs |-> c,
             open |-> r.open]
    BY <1>1 DEF WithLedger
  <1> QED BY <1>1, <1>2 DEF Reports

LEMMA ReportInvStep ==
    ASSUME HuntInv, HuntInv', ReportInv, [ReportNext]_reportVars
    PROVE  ReportInv'
  <1>t. TypeOK /\ TypeOK' /\ EventsInHand
    BY DEF HuntInv
  <1>f. /\ report \in Reports
        /\ Len(MemoryFiles) = 2 /\ MemoryFiles[1] = "failure_patterns" /\ MemoryFiles[2] = "negative_results"
    BY DEF ReportInv, MemoryFiles
  <1>r. /\ report.generated \in Nat /\ report.answered \in Nat /\ report.costs \in Nat
        /\ report.open \in Nat /\ report.read \in 0..3
    BY <1>f DEF Reports
  <1>n. /\ Cardinality(Generations) \in Nat /\ Cardinality(Failures) \in Nat /\ Cardinality(Others) \in Nat
        /\ Cardinality(Costs) \in Nat /\ Open \in Nat /\ Open = Cardinality(Unanswered)
    BY <1>t, EventsFinite DEF Count, Generations, Failures, Others, Costs, Open
  <1>1. CASE [Next]_vars /\ UNCHANGED report
    <2>1. /\ Cardinality(Others) <= Cardinality(Others') /\ Cardinality(Costs) <= Cardinality(Costs')
      BY <1>t, <1>1, EventsGrow DEF Others, Costs
    <2>2. Cardinality(Others') \in Nat /\ Cardinality(Costs') \in Nat
      BY <1>t, EventsFiniteNext DEF Count, Others, Costs
    <2> QED BY <1>1, <1>f, <1>n, <2>1, <2>2 DEF ReportInv, Reports
  <1>2. CASE ReadMemory
    <2>1. UNCHANGED <<Generations, Failures, Others, Costs>>
      BY <1>2 DEF ReadMemory, vars, Generations, Failures, Others, Costs, Events
    <2>2. CASE report.read = 0
      <3>0. MemoryFiles[report.read + 1] = "failure_patterns"
        BY <1>f, <2>2
      <3>1. report' = WithMemory(report, Cardinality(Generations), Cardinality(Failures), Open)
        BY <1>2, <2>2, <3>0 DEF ReadMemory, Count, Generations, Failures, WithMemory
      <3>2. /\ Cardinality(Generations) <= Cardinality(Failures) + Cardinality(Others) + Open
            /\ Cardinality(Generations) <= Cardinality(Costs) + Open
        BY <1>t, <1>n, CountedNow
      <3>3. report.generated = 0 /\ report.answered = 0
        BY <2>2 DEF ReportInv
      <3>4. /\ report'.read = 1 /\ report'.generated = Cardinality(Generations)
            /\ report'.answered = Cardinality(Failures) /\ report'.open = Open
            /\ report' \in Reports
        <4>1. report.read <= 2
          BY <2>2
        <4>2. /\ report' \in Reports
              /\ report'.read = report.read + 1 /\ report'.generated = report.generated + Cardinality(Generations)
              /\ report'.answered = report.answered + Cardinality(Failures) /\ report'.open = Open
          <5>1. Cardinality(Generations) \in Nat /\ Cardinality(Failures) \in Nat /\ Open \in Nat
            BY <1>n
          <5> QED BY <1>f, <3>1, <4>1, <5>1, MemoryRead
        <4> QED BY <1>n, <2>2, <3>3, <4>2
      <3> QED BY <1>n, <2>1, <3>2, <3>4 DEF ReportInv
    <2>3. CASE report.read = 1
      <3>1. Count("negative_results", {"probe_generated"}) = 0
        <4>1. Events("negative_results", {"probe_generated"}) = {}
          BY EventIn DEF FileOf, Outcomes
        <4> QED BY <4>1, FS_EmptySet DEF Count
      <3>2. MemoryFiles[report.read + 1] = "negative_results"
        BY <1>f, <2>3
      <3>3. report' = WithMemory(report, 0, Cardinality(Others), report.open)
        <4>1. report' = [report EXCEPT !.read = @ + 1,
                                       !.generated = @ + Count("negative_results", {"probe_generated"}),
                                       !.answered = @ + Count("negative_results", Outcomes),
                                       !.open = IF report.read = 0 THEN Open ELSE @]
          BY <1>2, <3>2 DEF ReadMemory
        <4>2. (IF report.read = 0 THEN Open ELSE report.open) = report.open
          BY <2>3
        <4>3. Count("negative_results", Outcomes) = Cardinality(Others)
          BY DEF Count, Others
        <4> QED BY <3>1, <4>1, <4>2, <4>3, Zenon DEF WithMemory
      <3>4. /\ report'.read = 2 /\ report'.generated = report.generated
            /\ report'.answered = report.answered + Cardinality(Others) /\ report'.open = report.open
            /\ report' \in Reports
        <4>1. report.read <= 2
          BY <2>3
        <4>2. /\ report' \in Reports
              /\ report'.read = report.read + 1 /\ report'.generated = report.generated + 0
              /\ report'.answered = report.answered + Cardinality(Others) /\ report'.open = report.open
          <5>1. 0 \in Nat /\ report.open \in Nat /\ Cardinality(Others) \in Nat
            BY <1>r, <1>n
          <5> QED BY <1>f, <3>3, <4>1, <5>1, MemoryRead
        <4> QED BY <1>r, <2>3, <4>2
      <3> QED BY <1>f, <1>n, <2>1, <2>3, <3>4 DEF ReportInv, Reports
    <2> QED BY <1>2, <1>f, <2>2, <2>3 DEF ReadMemory, Reports
  <1>3. CASE ReadLedger
    <2>1. UNCHANGED <<Others, Costs>>
      BY <1>3 DEF ReadLedger, vars, Others, Costs, Events
    <2>2. /\ report.read = 2
          /\ report' = WithLedger(report, Cardinality(Costs))
      <3>1. report' = [report EXCEPT !.read = @ + 1, !.costs = Count("cost_ledger", {"cost_recorded"})]
        BY <1>3 DEF ReadLedger
      <3>2. report.read = 2
        BY <1>3, <1>f DEF ReadLedger
      <3> QED BY <3>1, <3>2 DEF Count, Costs, WithLedger
    <2>3. /\ report'.read = 3 /\ report'.generated = report.generated
          /\ report'.answered = report.answered /\ report'.open = report.open
          /\ report'.costs = Cardinality(Costs)
          /\ report' \in Reports
      <3>1. report.read <= 2
        BY <2>2
      <3>2. /\ report' \in Reports
            /\ report'.read = report.read + 1 /\ report'.generated = report.generated
            /\ report'.answered = report.answered /\ report'.open = report.open
            /\ report'.costs = Cardinality(Costs)
        BY <1>f, <1>n, <2>2, <3>1, LedgerRead
      <3> QED BY <1>r, <2>2, <3>2
    <2> QED BY <1>n, <2>1, <2>2, <2>3 DEF ReportInv
  <1>4. CASE Show
    BY <1>4, <1>f DEF Show, Blank, ReportInv, Reports
  <1>5. CASE UNCHANGED reportVars
    BY <1>1, <1>5 DEF reportVars
  <1> QED BY <1>1, <1>2, <1>3, <1>4, <1>5 DEF ReportNext

LEMMA ReportInvariant == ReportSpec => [](HuntInv /\ ReportInv)
  <1>1. ReportInit => HuntInv /\ ReportInv
    BY ReportInitHolds
  <1>2. [ReportNext]_reportVars => [Next]_vars
    BY DEF ReportNext, ReadMemory, ReadLedger, Show, reportVars
  <1>3. HuntInv /\ [ReportNext]_reportVars => HuntInv'
    BY <1>2, HuntStep
  <1>4. HuntInv /\ HuntInv' /\ ReportInv /\ [ReportNext]_reportVars => ReportInv'
    BY ReportInvStep
  <1> QED BY <1>1, <1>3, <1>4, PTL DEF ReportSpec

(***************************************************************************)
(* The theorems.                                                           *)
(***************************************************************************)
\* The variables keep their types: what is recorded is an event of the hunt, of
\* a file the scanner looks at (cli.py:247-356).
THEOREM TypeCorrect == Spec => []TypeOK
  <1>1. HuntInv => TypeOK
    BY DEF HuntInv
  <1> QED BY <1>1, HuntInvariant, PTL

\* A generated probe has its ledger record and its outcome before the session
\* turns to another risk (cli.py:309-340).
THEOREM EachProbeAccounted == Spec => []ProbesAccounted
  <1>1. HuntInv => ProbesAccounted
    BY EventsAccounted DEF HuntInv
  <1> QED BY <1>1, HuntInvariant, PTL

\* The budget overshoots by what one probe took beyond its reservation, and
\* then neither a provider is asked nor a probe generated (cli.py:291-308).
THEOREM BudgetBounded == Spec => []BudgetHolds
  <1>1. HuntInv => BudgetHolds
    BY DEF HuntInv
  <1> QED BY <1>1, HuntInvariant, PTL

\* A hunt that ends by itself has answered every selected risk, or says that
\* its budget is exhausted (cli.py:283-340).
THEOREM NoRiskPassedOver == Spec => []EveryRiskAnswered
  <1>1. HuntInv => EveryRiskAnswered
    BY DEF HuntInv
  <1> QED BY <1>1, HuntInvariant, PTL

\* Where no two probes share a path, a test of that risk and mode ran behind every
\* verdict pytest gave on a Python probe, and whole it found what the verdict says
\* or could not read the source; it was damaged only if another session hunted the
\* same risk, however many do and whatever the owner edits and removes.  Verdicts
\* with a return code other than 0 and 1 are not of the test (verifier.py:44-54,
\* probe_generator.py:30-41, 117, 233).
THEOREM EarnedVerdicts == Spec => []VerdictsAreEarned
  <1>1. HuntInv => VerdictsAreEarned
    BY DEF HuntInv
  <1> QED BY <1>1, HuntInvariant, PTL

\* A report made while any number of hunts go on adds up: what it counts as
\* generated has its outcome and its ledger record in what it counts, or was
\* unanswered when the report began (memory.py:43, reporter.py:122-149).
THEOREM ReportsAddUp == ReportSpec => []ReportAddsUp
  <1>1. ReportInv => ReportAddsUp
    BY DEF ReportInv, Reports, ReportAddsUp, MemoryFiles
  <1> QED BY <1>1, ReportInvariant, PTL

\* A hunt cannot go on for ever, whatever its owner and other hunts do: of n
\* files, each with a risk of every kind, it takes 24 n + 3 steps at most, and it
\* has none left just when it has ended.  That it takes them, HuntEnds checks
\* (cli.py:227-349).
THEOREM HuntRunsOut ==
    Spec => /\ [](\A s \in Session : /\ Left(s) \in 0..(24 * Cardinality(Target) + 3)
                                     /\ Left(s) = 0 <=> pc[s] \in {"done", "dead"})
            /\ [][RunsOut]_vars
  <1>1. HuntInv /\ Bounded =>
            \A s \in Session : /\ Left(s) \in 0..(24 * Cardinality(Target) + 3)
                               /\ Left(s) = 0 <=> pc[s] \in {"done", "dead"}
    BY LeftTypeHolds, KindsCount DEF LeftTyped, Bounded
  <1>2. HuntInv /\ HuntInv' /\ [Next]_vars => [RunsOut]_vars
    BY LeftStep
  <1> QED BY <1>1, <1>2, HuntInvariant, LeftBounded, PTL DEF Spec

\* A scan selects as many different risks as --limit allows, of the files asked
\* for, the highest scores first, and hunts them in that order: what --limit cuts
\* off has a lower score than all it keeps, or the same and comes later by path
\* and kind (risk_mapper.py:11-28, cli.py:258-261).
THEOREM BestRisksFirst == Spec => [][BestFirst]_vars
  <1>1. HuntInv /\ [Next]_vars => [BestFirst]_vars
    BY ScanSelects DEF HuntInv
  <1> QED BY <1>1, HuntInvariant, PTL DEF Spec

\* A scan selects in one way only: however the scores fall, and with three risks
\* in a file, the sort by score, path and turn leaves no two orders, and none
\* is no order (risk_mapper.py:18-28, cli.py:258-261).
THEOREM SelectionUnique ==
    ASSUME NEW src, NEW score \in Scorings, NEW o \in Options
    PROVE  \E chosen : Selections(RisksOf(src, score), o) = {chosen}
  <1> DEFINE cut(seq) == SubSeq(seq, 1, IF o.limit < Len(seq) THEN o.limit ELSE Len(seq))
  <1>1. PICK seq : seq \in Ranked(Wanted(src, score, o))
    BY RankingExists
  <1>2. Ranked(Wanted(src, score, o)) = {seq}
    BY <1>1, RankingUnique
  <1>3. Selections(RisksOf(src, score), o) = {cut(seq)}
    BY <1>2 DEF Selections, Wanted
  <1> QED BY <1>3
===============================================================================
