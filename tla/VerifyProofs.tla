---------------------------- MODULE VerifyProofs ----------------------------
(***************************************************************************)
(* What TLAPS proves of `myco verify`, for every repository, command line, *)
(* policy and number of changes from outside.                              *)
(***************************************************************************)
EXTENDS Verify, FiniteSetTheorems, WellFoundedInduction, TLAPS

Working == {"select", "verify", "run", "testing", "cost"}

\* A command at work has a profile in hand, one at its exit has none.
InHand ==
    /\ pc \in Working => todo # <<>>
    /\ pc = "exit" => todo = <<>>

\* How far the events of the profile in hand have come.
Counted ==
    /\ pc \in {"select", "exit"} => Len(log) % 3 = 0
    /\ pc \in {"verify", "run", "testing"} => Len(log) % 3 = 1 /\ log[Len(log)].profile = Current.id
    /\ pc = "cost" => Len(log) % 3 = 2 /\ log[Len(log)].profile = Current.id

\* A command has its permission from where it says, and runs only with it.
Permitted ==
    /\ pc # "idle" /\ allowed => opt.allow \/ was = "allow"
    /\ pc \in {"run", "testing"} => opt.run /\ allowed
    /\ pc = "testing" => \E t \in started : t.profile = Current.id

VerifyInv ==
    /\ TypeOK /\ InHand
    /\ Counted /\ ProfilesAccounted
    /\ ExitTellsTruth
    /\ Permitted /\ TestsWereAllowed

(***************************************************************************)
(* The selection.                                                          *)
(***************************************************************************)
\* A set of numbers that is not empty has a least one.
LEMMA LeastNumber ==
    ASSUME NEW T \in SUBSET Nat, T # {}
    PROVE  Min(T) \in T
  <1> DEFINE Less == {ss \in Nat \X Nat : ss[1] < ss[2]}
  <1>1. IsWellFoundedOn(Less, Nat)
    BY NatLessThanWellFounded DEF OpToRel
  <1> HIDE DEF Less
  <1>2. PICK x \in T : \A y \in T : <<y, x>> \notin Less
    BY <1>1, WFMin
  <1>3. ASSUME NEW y \in T PROVE x <= y
    <2>1. <<y, x>> \notin Less
      BY <1>2
    <2>2. ~(y < x)
      BY <2>1 DEF Less
    <2> QED BY <2>2
  <1> QED BY <1>3 DEF Min

\* A finite set of numbers can be put in order.
LEMMA Sorting ==
    ASSUME NEW T \in SUBSET Nat, IsFiniteSet(T)
    PROVE  \E seq \in [1..Cardinality(T) -> T] :
               \A i, j \in 1..Cardinality(T) : i < j => seq[i] < seq[j]
  <1> DEFINE n == Cardinality(T)
             below(x) == {y \in T : y < x}
             rank == [x \in T |-> Cardinality(below(x)) + 1]
             seq == [i \in 1..n |-> CHOOSE x \in T : rank[x] = i]
  <1>0. n \in Nat
    BY FS_CardinalityType
  <1>1. ASSUME NEW x \in T
        PROVE  IsFiniteSet(below(x)) /\ Cardinality(below(x)) \in Nat /\ Cardinality(below(x)) < n
    <2>1. below(x) \subseteq T /\ x \notin below(x)
      OBVIOUS
    <2> HIDE DEF below
    <2>2. IsFiniteSet(below(x)) /\ Cardinality(below(x)) <= n /\ Cardinality(below(x)) # n
      BY <2>1, FS_Subset
    <2>3. Cardinality(below(x)) \in Nat
      BY <2>2, FS_CardinalityType
    <2> QED BY <1>0, <2>2, <2>3
  <1>2. ASSUME NEW x \in T, NEW y \in T, x < y
        PROVE  Cardinality(below(x)) < Cardinality(below(y))
    <2>1. below(x) \subseteq below(y)
      <3>1. \A z \in T : z < x => z < y
        BY <1>2
      <3> QED BY <3>1
    <2>2. x \in below(y) /\ x \notin below(x)
      BY <1>2
    <2>3. IsFiniteSet(below(y)) /\ Cardinality(below(x)) \in Nat /\ Cardinality(below(y)) \in Nat
      BY <1>1
    <2> HIDE DEF below
    <2>4. Cardinality(below(x)) <= Cardinality(below(y)) /\ Cardinality(below(x)) # Cardinality(below(y))
      BY <2>1, <2>2, <2>3, FS_Subset
    <2> QED BY <2>3, <2>4
  <1>3. /\ \A x \in T : rank[x] = Cardinality(below(x)) + 1 /\ rank[x] \in 1..n
        /\ rank \in [T -> 1..n]
    <2>1. \A x \in T : Cardinality(below(x)) + 1 \in 1..n
      BY <1>0, <1>1
    <2> HIDE DEF below
    <2> QED BY <2>1
  <1>4. \A x, y \in T : x < y => rank[x] < rank[y]
    <2>1. \A x \in T : Cardinality(below(x)) \in Nat
      BY <1>1
    <2> HIDE DEF below, rank
    <2> QED BY <1>2, <1>3, <2>1
  <1> HIDE DEF below, rank
  <1>5. rank \in Injection(T, 1..n)
    <2>1. \A x, y \in T : rank[x] = rank[y] => x = y
      <3>1. \A x, y \in T : x < y => rank[x] # rank[y]
        BY <1>0, <1>3, <1>4
      <3>2. \A x, y \in T : x = y \/ x < y \/ y < x
        OBVIOUS
      <3> QED BY <3>1, <3>2, Zenon
    <2> QED BY <1>3, <2>1 DEF Injection, IsInjective
  <1>6. rank \in Surjection(T, 1..n)
    <2>1. IsFiniteSet(1..n) /\ Cardinality(1..n) = n
      BY <1>0, FS_Interval
    <2> QED BY <1>5, <2>1, FS_Injection
  <1>7. \A i \in 1..n : seq[i] \in T /\ rank[seq[i]] = i
    <2>1. \A i \in 1..n : \E x \in T : rank[x] = i
      BY <1>6 DEF Surjection
    <2> QED BY <2>1
  <1> HIDE DEF seq
  <1>8. ASSUME NEW i \in 1..n, NEW j \in 1..n, i < j PROVE seq[i] < seq[j]
    <2>1. seq[i] \in T /\ seq[j] \in T /\ rank[seq[i]] < rank[seq[j]]
      BY <1>7, <1>8
    <2>2. /\ seq[i] \in Nat /\ seq[j] \in Nat
          /\ rank[seq[i]] \in Nat /\ rank[seq[j]] \in Nat
      <3>1. \A x \in T : x \in Nat /\ rank[x] \in Nat
        BY <1>0, <1>3
      <3> QED BY <2>1, <3>1
    <2>3. seq[i] # seq[j] /\ ~(seq[j] < seq[i])
      <3>1. seq[j] < seq[i] => rank[seq[j]] < rank[seq[i]]
        BY <1>4, <2>1
      <3> QED BY <2>1, <2>2, <3>1
    <2> QED BY <2>2, <2>3
  <1>9. seq \in [1..n -> T]
    BY <1>7 DEF seq
  <1> QED BY <1>8, <1>9

LEMMA WorkdirType ==
    ASSUME NEW p, NEW found
    PROVE  Workdir(p, found) \in Dir
  <1> DEFINE at == {i \in DOMAIN DirOrder : \E f \in found : f.dir = DirOrder[i] /\ f.name \in p.beside}
  <1>1. DOMAIN DirOrder \subseteq Nat /\ 1 \in DOMAIN DirOrder
    BY EcosystemsAssumption
  <1>2. CASE at = {}
    BY <1>1, <1>2 DEF Workdir, Root, Dir
  <1>3. CASE at # {}
    <2>1. Min(at) \in at
      BY <1>1, <1>3, LeastNumber
    <2> QED BY <1>3, <2>1 DEF Workdir, Dir
  <1> QED BY <1>2, <1>3

LEMMA ProfilesFinite == IsFiniteSet(DOMAIN Profiles) /\ DOMAIN Profiles \subseteq Nat
  <1> DEFINE S == UNION {{x[i] : i \in DOMAIN x} : x \in {DotNet, Go, JavaKotlin, JsTs, Php, Python, Ruby, Rust}}
  <1>1. /\ DotNet \in Seq(S) /\ Go \in Seq(S) /\ JavaKotlin \in Seq(S) /\ JsTs \in Seq(S)
        /\ Php \in Seq(S) /\ Python \in Seq(S) /\ Ruby \in Seq(S) /\ Rust \in Seq(S)
    BY DEF DotNet, Go, JavaKotlin, JsTs, Php, Python, Ruby, Rust
  <1> HIDE DEF S
  <1>2. Profiles \in Seq(S)
    BY <1>1 DEF Profiles
  <1>3. DOMAIN Profiles = 1..Len(Profiles) /\ Len(Profiles) \in Nat
    BY <1>2
  <1> QED BY <1>3, FS_Interval

LEMMA SelectionType ==
    ASSUME NEW found, NEW want, NEW plan \in Selections(found, want)
    PROVE  plan \in Seq(Planned)
  <1> DEFINE I == Offered(found, want)
  <1>1. I \subseteq DOMAIN Profiles /\ Cardinality(I) \in Nat
    BY ProfilesFinite, FS_Subset, FS_CardinalityType DEF Offered
  <1>2. PICK seq \in [1..Cardinality(I) -> I] : plan = [n \in DOMAIN seq |-> Plan(seq[n], found)]
    BY DEF Selections
  <1>3. ASSUME NEW i \in I PROVE Plan(i, found) \in Planned
    BY <1>1, WorkdirType DEF Plan, Planned
  <1> HIDE DEF I
  <1>4. plan \in [1..Cardinality(I) -> Planned]
    BY <1>2, <1>3
  <1> QED BY <1>1, <1>4

LEMMA PlannedType ==
    ASSUME NEW p \in Planned
    PROVE  p.id \in ProfileId /\ p.dir \in Dir
  BY DEF Planned, ProfileId

(***************************************************************************)
(* Events.                                                                 *)
(***************************************************************************)
LEMMA Appended ==
    ASSUME NEW S, NEW l \in Seq(S), NEW e \in S
    PROVE  /\ Append(l, e) \in Seq(S)
           /\ Len(l) \in Nat /\ Len(Append(l, e)) = Len(l) + 1
           /\ DOMAIN l = 1..Len(l) /\ DOMAIN Append(l, e) = 1..(Len(l) + 1)
           /\ \A i \in 1..Len(l) : Append(l, e)[i] = l[i]
           /\ Append(l, e)[Len(l) + 1] = e
  OBVIOUS

\* The profile in hand.
LEMMA CurrentType ==
    ASSUME TypeOK, InHand, pc \in Working
    PROVE  /\ Current \in Planned /\ Current.id \in ProfileId /\ Current.dir \in Dir
           /\ Tail(todo) \in Seq(Planned)
  <1>1. todo \in Seq(Planned) /\ todo # <<>>
    BY DEF TypeOK, InHand
  <1>2. Head(todo) \in Planned /\ Tail(todo) \in Seq(Planned)
    BY <1>1
  <1> QED BY <1>2, PlannedType DEF Current

\* One event more, of the profile in hand.
Noted(type) ==
    \E rc \in Nat : log' = Append(log, [type |-> type, profile |-> Current.id, rc |-> rc])

LEMMA LogStep ==
    ASSUME TypeOK, InHand, pc \in Working,
           NEW type \in Outcomes \cup {"selected", "cost_recorded"}, Noted(type)
    PROVE  /\ log' \in Seq(Event)
           /\ Len(log) \in Nat /\ Len(log') = Len(log) + 1
           /\ DOMAIN log = 1..Len(log) /\ DOMAIN log' = 1..(Len(log) + 1)
           /\ \A i \in 1..Len(log) : log'[i] = log[i]
           /\ log'[Len(log) + 1].type = type /\ log'[Len(log) + 1].profile = Current.id
  <1>1. PICK rc \in Nat : log' = Append(log, [type |-> type, profile |-> Current.id, rc |-> rc])
    BY DEF Noted
  <1> DEFINE e == [type |-> type, profile |-> Current.id, rc |-> rc]
  <1>2. e \in Event /\ e.type = type /\ e.profile = Current.id
    BY CurrentType DEF Event
  <1>3. log \in Seq(Event)
    BY DEF TypeOK
  <1> HIDE DEF e
  <1>4. log' = Append(log, e)
    BY <1>1 DEF e
  <1> QED BY <1>2, <1>3, <1>4, Appended

\* What each step does to the events and to the place in the command.
Begins == log' = <<>> /\ started' = {} /\ pc' \in {"idle", "select"}
Selects == pc = "select" /\ pc' = "verify" /\ Noted("selected") /\ UNCHANGED <<todo, started, exit>>
Concludes(status) ==
    /\ pc \in {"verify", "run", "testing"} /\ pc' = "cost"
    /\ Noted(status) /\ UNCHANGED <<todo, started, exit>>
Costs ==
    /\ pc = "cost" /\ Noted("cost_recorded")
    /\ todo' = Tail(todo) /\ pc' = (IF Tail(todo) = <<>> THEN "exit" ELSE "select")
    /\ UNCHANGED <<started, exit>>
Advances ==
    /\ \/ pc = "verify" /\ pc' = "run" /\ started' = started
       \/ pc = "run" /\ pc' = "testing" /\ started \subseteq started'
    /\ UNCHANGED <<log, todo, exit>>
Ends == pc # "idle" /\ pc' = "idle" /\ UNCHANGED <<log, todo, started>>

LEMMA Unrefused ==
    ASSUME TypeOK
    PROVE  /\ WithoutRun \subseteq {"blocked", "dry_run", "skipped"}
           /\ WithoutRun = {} => opt.run /\ allowed
  BY DEF WithoutRun, TypeOK

LEMMA StepTable ==
    ASSUME TypeOK, [Next]_vars
    PROVE  \/ Begins /\ Start
           \/ Selects
           \/ \E status \in {"blocked", "dry_run", "skipped", "failed"} : Concludes(status)
           \/ Concludes("passed") /\ pc = "testing"
           \/ Costs
           \/ Advances
           \/ Ends /\ (NotText \/ Exit \/ Die)
           \/ UNCHANGED <<pc, log, todo, started, exit>>
  <1>1. CASE Start
    BY <1>1, Zenon DEF Start, Begins
  <1>2. CASE Select
    BY <1>2 DEF Select, Selects, Note, Noted
  <1>3. CASE Refuse
    <2>1. PICK status \in WithoutRun : Note(status, 0)
      BY <1>3 DEF Refuse
    <2>2. Noted(status) /\ status \in {"blocked", "dry_run", "skipped", "failed"}
      BY <2>1, Unrefused DEF Note, Noted
    <2>3. Concludes(status)
      BY <1>3, <2>2 DEF Refuse, Concludes
    <2> QED BY <2>2, <2>3
  <1>4. CASE Run \/ StartTests
    BY <1>4 DEF Run, StartTests, Advances
  <1>5. CASE NotStarted
    <2>1. Concludes("failed")
      BY <1>5 DEF NotStarted, Concludes, Note, Noted
    <2> QED BY <2>1
  <1>6. CASE TestsEnd
    <2>1. PICK rc \in {0, 1, 124} : Note(IF rc = 0 THEN "passed" ELSE "failed", rc)
      BY <1>6 DEF TestsEnd
    <2>2. Noted("passed") \/ Noted("failed")
      BY <2>1 DEF Note, Noted
    <2> QED BY <1>6, <2>2 DEF TestsEnd, Concludes
  <1>7. CASE NotText \/ Exit \/ Die
    BY <1>7 DEF NotText, Exit, Die, Ends
  <1>8. CASE Cost
    BY <1>8 DEF Cost, Costs, Note, Noted
  <1>9. CASE Edit \/ UNCHANGED vars
    BY <1>9 DEF Edit, vars
  <1> QED BY <1>1, <1>2, <1>3, <1>4, <1>5, <1>6, <1>7, <1>8, <1>9 DEF Next, Step

(***************************************************************************)
(* The invariant.                                                          *)
(***************************************************************************)
LEMMA InitHolds == Init => VerifyInv
  <1> SUFFICES ASSUME Init PROVE VerifyInv
    OBVIOUS
  <1>1. TypeOK
    <2>1. 0 \in 0..MaxEdits /\ 0 \in 0..MaxRuns /\ files \subseteq File
      BY VerifyAssumption DEF Init
    <2>2. <<>> \in Seq(Planned) /\ <<>> \in Seq(Event)
      OBVIOUS
    <2> QED BY <2>1, <2>2 DEF Init, TypeOK
  <1>2. log = <<>> /\ started = {} /\ pc = "idle"
    BY DEF Init
  <1> QED BY <1>1, <1>2 DEF VerifyInv, InHand, Counted, ProfilesAccounted, ExitTellsTruth, Permitted,
             TestsWereAllowed, Working

LEMMA TypeStep ==
    ASSUME TypeOK, InHand, [Next]_vars
    PROVE  TypeOK'
  <1>1. CASE Start
    <2>0. runs' \in 0..MaxRuns /\ <<>> \in Seq(Event) /\ UNCHANGED worldVars
      BY <1>1, VerifyAssumption DEF Start, TypeOK
    <2>1. CASE config = "invalid"
      <3>1. UNCHANGED <<allowed, todo>> /\ log' = <<>> /\ started' = {} /\ pc' = "idle" /\ exit' = 1
            /\ opt' \in Options /\ was' = config
        BY <1>1, <2>1 DEF Start
      <3> QED BY <2>0, <3>1 DEF TypeOK, worldVars
    <2>2. CASE config # "invalid"
      <3>1. todo' \in Selections(files, opt'.want) /\ allowed' = (opt'.allow \/ config = "allow")
        BY <1>1, <2>2 DEF Start
      <3>2. todo' \in Seq(Planned)
        BY <3>1, SelectionType
      <3>3. allowed' \in BOOLEAN
        BY <3>1
      <3>4. log' = <<>> /\ started' = {} /\ pc' \in {"idle", "select"} /\ exit' = 0 /\ opt' \in Options
            /\ was' = config
        BY <1>1, <2>2, Zenon DEF Start
      <3> QED BY <2>0, <3>2, <3>3, <3>4 DEF TypeOK, worldVars
    <2> QED BY <2>1, <2>2
  <1>2. CASE Edit
    <2>1. UNCHANGED <<runs, pc, opt, allowed, was, todo, log, started, exit>> /\ edits' \in 0..MaxEdits
      BY <1>2, VerifyAssumption DEF Edit, TypeOK
    <2>2. files' \subseteq File /\ gone' \subseteq Dir /\ tools' \subseteq ProfileId
          /\ config' \in {"allow", "deny", "invalid"}
      BY <1>2 DEF Edit, TypeOK
    <2> QED BY <2>1, <2>2 DEF TypeOK
  <1>3. ASSUME pc \in Working, NEW type \in Outcomes \cup {"selected", "cost_recorded"}, Noted(type),
               UNCHANGED <<worldVars, runs, opt, allowed, was, started, exit>>,
               todo' \in {todo, Tail(todo)}, pc' \in Working \cup {"exit"}
        PROVE  TypeOK'
    <2>1. log' \in Seq(Event)
      BY <1>3, LogStep
    <2>2. todo' \in Seq(Planned)
      BY <1>3, CurrentType DEF TypeOK
    <2> QED BY <1>3, <2>1, <2>2 DEF TypeOK, worldVars, Working
  <1>4. CASE Select \/ NotStarted
    BY <1>3, <1>4 DEF Select, NotStarted, Note, Noted, Outcomes, Working, worldVars
  <1>5. CASE Refuse
    <2>1. PICK status \in WithoutRun : Note(status, 0)
      BY <1>5 DEF Refuse
    <2>2. Noted(status) /\ status \in Outcomes
      BY <2>1, Unrefused DEF Note, Noted, Outcomes
    <2> QED BY <1>3, <1>5, <2>2 DEF Refuse, Working, worldVars
  <1>6. CASE TestsEnd
    <2>1. PICK rc \in {0, 1, 124} : Note(IF rc = 0 THEN "passed" ELSE "failed", rc)
      BY <1>6 DEF TestsEnd
    <2>2. Noted("passed") \/ Noted("failed")
      BY <2>1 DEF Note, Noted
    <2> QED BY <1>3, <1>6, <2>2 DEF TestsEnd, Outcomes, Working, worldVars
  <1>7. CASE Cost
    BY <1>3, <1>7 DEF Cost, Note, Noted, Working, worldVars
  <1>8. CASE StartTests
    <2>1. [profile |-> Current.id, dir |-> Current.dir] \in [profile : ProfileId, dir : Dir]
      BY <1>8, CurrentType DEF StartTests, Working
    <2> QED BY <1>8, <2>1 DEF StartTests, TypeOK, worldVars
  <1>9. CASE Run \/ NotText \/ Exit \/ Die \/ UNCHANGED vars
    BY <1>9 DEF Run, NotText, Exit, Die, vars, TypeOK, worldVars
  <1> QED BY <1>1, <1>2, <1>4, <1>5, <1>6, <1>7, <1>8, <1>9 DEF Next, Step

LEMMA InHandStep ==
    ASSUME TypeOK, InHand, [Next]_vars
    PROVE  InHand'
  <1>1. CASE Start
    <2>1. CASE config = "invalid"
      BY <1>1, <2>1 DEF Start, InHand, Working
    <2>2. CASE config # "invalid"
      <3>1. pc' = IF todo' = <<>> THEN "idle" ELSE "select"
        BY <1>1, <2>2, Zenon DEF Start
      <3> QED BY <3>1 DEF InHand, Working
    <2> QED BY <2>1, <2>2
  <1>2. CASE Selects \/ Advances \/ \E status : Concludes(status)
    BY <1>2 DEF Selects, Advances, Concludes, InHand, Working
  <1>3. CASE Costs \/ Ends \/ UNCHANGED <<pc, todo>>
    BY <1>3 DEF Costs, Ends, InHand, Working
  <1> QED BY <1>1, <1>2, <1>3, StepTable

\* Events in threes remain so with one more that fits.
LEMMA AccountedLonger ==
    ASSUME ProfilesAccounted, Len(log) \in Nat,
           DOMAIN log = 1..Len(log), DOMAIN log' = 1..(Len(log) + 1),
           \A i \in 1..Len(log) : log'[i] = log[i],
           NEW n, n = Len(log) + 1, n # 1 \/ n % 3 = 1,
           n % 3 = 1 => log'[n].type = "selected",
           n % 3 = 0 => log'[n].type = "cost_recorded" /\ log'[n].profile = log[Len(log)].profile,
           n % 3 = 2 => log'[n].type \in Outcomes /\ log'[n].profile = log[Len(log)].profile
    PROVE  ProfilesAccounted'
  <1> DEFINE Fits(l, i) ==
                 /\ l[i].type = CASE i % 3 = 1 -> "selected" [] i % 3 = 0 -> "cost_recorded" [] OTHER -> l[i].type
                 /\ i % 3 = 2 => l[i].type \in Outcomes /\ l[i].profile = l[i - 1].profile
                 /\ i % 3 = 0 => l[i].profile = l[i - 1].profile
  <1>1. ASSUME NEW i \in 1..Len(log) PROVE Fits(log', i)
    <2>1. Fits(log, i) /\ log'[i] = log[i]
      BY DEF ProfilesAccounted
    <2>2. CASE i % 3 = 1
      BY <2>1, <2>2
    <2>3. CASE i % 3 # 1
      <3>1. i - 1 \in 1..Len(log)
        BY <2>3
      <3>2. log'[i - 1] = log[i - 1]
        BY <3>1
      <3> QED BY <2>1, <3>2
    <2> QED BY <2>2, <2>3
  <1>2. Fits(log', n)
    <2>1. CASE n % 3 = 1
      BY <2>1
    <2>2. CASE n % 3 # 1
      <3>1. n - 1 = Len(log) /\ Len(log) \in 1..Len(log)
        BY <2>2
      <3>2. log'[n - 1] = log[Len(log)]
        BY <3>1
      <3> QED BY <3>2
    <2> QED BY <2>1, <2>2
  <1> HIDE DEF Fits
  <1>3. \A i \in DOMAIN log' : Fits(log', i)
    BY <1>1, <1>2
  <1> QED BY <1>3 DEF Fits, ProfilesAccounted

LEMMA CountedStep ==
    ASSUME TypeOK, InHand, Counted, ProfilesAccounted, [Next]_vars
    PROVE  Counted' /\ ProfilesAccounted'
  <1>1. CASE Begins
    BY <1>1 DEF Begins, Counted, ProfilesAccounted
  <1>2. CASE Selects
    <2>1. pc \in Working /\ Noted("selected") /\ Len(log) % 3 = 0 /\ pc' = "verify" /\ todo' = todo
      BY <1>2 DEF Selects, Working, Counted
    <2>2. /\ Len(log) \in Nat /\ Len(log') = Len(log) + 1
          /\ DOMAIN log = 1..Len(log) /\ DOMAIN log' = 1..(Len(log) + 1)
          /\ \A i \in 1..Len(log) : log'[i] = log[i]
          /\ log'[Len(log) + 1].type = "selected" /\ log'[Len(log) + 1].profile = Current.id
      BY <2>1, LogStep
    <2>3. Len(log') % 3 = 1
      BY <2>1, <2>2
    <2>4. Counted'
      BY <2>1, <2>2, <2>3 DEF Counted, Current
    <2>5. ProfilesAccounted'
      BY <2>1, <2>2, <2>3, AccountedLonger
    <2> QED BY <2>4, <2>5
  <1>3. ASSUME NEW status \in {"blocked", "dry_run", "skipped", "failed", "passed"}, Concludes(status)
        PROVE  Counted' /\ ProfilesAccounted'
    <2>1. /\ pc \in Working /\ Noted(status) /\ pc' = "cost" /\ todo' = todo
          /\ Len(log) % 3 = 1 /\ log[Len(log)].profile = Current.id
      BY <1>3 DEF Concludes, Working, Counted
    <2>2. /\ Len(log) \in Nat /\ Len(log') = Len(log) + 1
          /\ DOMAIN log = 1..Len(log) /\ DOMAIN log' = 1..(Len(log) + 1)
          /\ \A i \in 1..Len(log) : log'[i] = log[i]
          /\ log'[Len(log) + 1].type = status /\ log'[Len(log) + 1].profile = Current.id
      BY <2>1, LogStep DEF Outcomes
    <2>3. Len(log') % 3 = 2 /\ Len(log) # 0
      BY <2>1, <2>2
    <2>4. Counted'
      BY <2>1, <2>2, <2>3 DEF Counted, Current
    <2>5. ProfilesAccounted'
      BY <2>1, <2>2, <2>3, AccountedLonger DEF Outcomes
    <2> QED BY <2>4, <2>5
  <1>4. CASE Costs
    <2>1. /\ pc \in Working /\ Noted("cost_recorded") /\ pc' \in {"select", "exit"}
          /\ Len(log) % 3 = 2 /\ log[Len(log)].profile = Current.id
      BY <1>4 DEF Costs, Working, Counted
    <2>2. /\ Len(log) \in Nat /\ Len(log') = Len(log) + 1
          /\ DOMAIN log = 1..Len(log) /\ DOMAIN log' = 1..(Len(log) + 1)
          /\ \A i \in 1..Len(log) : log'[i] = log[i]
          /\ log'[Len(log) + 1].type = "cost_recorded" /\ log'[Len(log) + 1].profile = Current.id
      BY <2>1, LogStep
    <2>3. Len(log') % 3 = 0 /\ Len(log) # 0
      BY <2>1, <2>2
    <2>4. Counted'
      BY <2>1, <2>2, <2>3 DEF Counted
    <2>5. ProfilesAccounted'
      BY <2>1, <2>2, <2>3, AccountedLonger
    <2> QED BY <2>4, <2>5
  <1>5. CASE Advances \/ Ends \/ UNCHANGED <<pc, log, todo>>
    BY <1>5 DEF Advances, Ends, Counted, ProfilesAccounted, Current
  <1> QED BY <1>1, <1>2, <1>3, <1>4, <1>5, StepTable

\* A command says what it did: an idle one comes from Start, from a break-off
\* with a profile in hand, from its exit, or was there before.
LEMMA ExitStep ==
    ASSUME TypeOK, InHand, ExitTellsTruth, [Next]_vars
    PROVE  ExitTellsTruth'
  <1>1. CASE Begins
    BY <1>1 DEF Begins, ExitTellsTruth
  <1>2. CASE pc' # "idle"
    BY <1>2 DEF ExitTellsTruth
  <1>3. CASE NotText \/ Die
    BY <1>3 DEF NotText, Die, InHand, Working, ExitTellsTruth
  <1>4. CASE Exit
    <2>1. todo' = <<>> /\ log' = log
          /\ exit' = IF \E i \in DOMAIN log : log[i].type \in {"failed", "blocked"} THEN 1 ELSE 0
      BY <1>4 DEF Exit, InHand
    <2>2. \A i \in DOMAIN log : log[i].type \in {"failed", "blocked"} => log[i].type \in Outcomes
      BY DEF Outcomes
    <2> QED BY <2>1, <2>2 DEF ExitTellsTruth
  <1>5. CASE UNCHANGED <<pc, log, todo, started, exit>>
    BY <1>5 DEF ExitTellsTruth
  <1> QED BY <1>1, <1>2, <1>3, <1>4, <1>5, StepTable DEF Selects, Concludes, Costs, Advances

LEMMA PermittedStep ==
    ASSUME TypeOK, InHand, Permitted, [Next]_vars
    PROVE  Permitted'
  <1>1. CASE Start
    <2>1. CASE config = "invalid"
      BY <1>1, <2>1 DEF Start, Permitted
    <2>2. CASE config # "invalid"
      <3>1. was' = config /\ allowed' = (opt'.allow \/ config = "allow") /\ pc' \in {"idle", "select"}
        BY <1>1, <2>2 DEF Start
      <3> QED BY <3>1 DEF Permitted
    <2> QED BY <2>1, <2>2
  <1>2. CASE Run
    <2>1. opt.run /\ allowed
      BY <1>2, Unrefused DEF Run
    <2> QED BY <1>2, <2>1 DEF Run, Permitted
  <1>3. CASE StartTests
    <2>1. [profile |-> Current.id, dir |-> Current.dir] \in started' /\ Current' = Current
      BY <1>3 DEF StartTests, Current
    <2> QED BY <1>3, <2>1 DEF StartTests, Permitted
  <1>4. CASE UNCHANGED <<opt, allowed, was>> /\ pc # "idle" /\ pc' \notin {"run", "testing"}
    BY <1>4 DEF Permitted
  <1>5. CASE UNCHANGED <<opt, allowed, was, pc, todo, started>>
    BY <1>5 DEF Permitted, Current
  <1> QED BY <1>1, <1>2, <1>3, <1>4, <1>5
      DEF Next, Step, Select, Refuse, NotStarted, TestsEnd, NotText, Cost, Exit, Die, Edit, vars

LEMMA AllowedStep ==
    ASSUME TypeOK, InHand, Permitted, TestsWereAllowed, [Next]_vars
    PROVE  TestsWereAllowed'
  <1>1. CASE Begins
    BY <1>1 DEF Begins, TestsWereAllowed
  <1>2. CASE ~Begins
    <2>1. UNCHANGED <<opt, allowed, was>>
      BY <1>2, StepTable DEF Next, Step, Select, Refuse, Run, NotStarted, StartTests, TestsEnd, NotText, Cost,
         Exit, Die, Edit, vars, Begins, Start
    <2>2. started' # {} => opt.run /\ (opt.allow \/ was = "allow")
      <3>1. CASE started' = started
        BY <3>1 DEF TestsWereAllowed
      <3>2. CASE pc \in {"run", "testing"}
        BY <3>2 DEF Permitted
      <3> QED BY <1>2, <3>1, <3>2, StepTable DEF Selects, Concludes, Costs, Advances, Ends
    <2>3. started \subseteq started'
      BY <1>2, StepTable DEF Selects, Concludes, Costs, Advances, Ends
    <2>4. ASSUME NEW i \in DOMAIN log', log'[i].type = "passed"
          PROVE  \E t \in started' : t.profile = log'[i].profile
      <3>1. CASE log' = log
        BY <2>3, <2>4, <3>1 DEF TestsWereAllowed
      <3>2. ASSUME pc \in Working, NEW type \in Outcomes \cup {"selected", "cost_recorded"}, Noted(type),
                   type = "passed" => pc = "testing"
            PROVE  \E t \in started' : t.profile = log'[i].profile
        <4>1. CASE i \in DOMAIN log
          BY <2>3, <2>4, <3>2, <4>1, LogStep DEF TestsWereAllowed
        <4>2. CASE i \notin DOMAIN log
          <5>1. log'[i].type = type /\ log'[i].profile = Current.id
            BY <3>2, <4>2, LogStep
          <5>2. pc = "testing"
            BY <2>4, <3>2, <5>1
          <5> QED BY <2>3, <5>1, <5>2 DEF Permitted
        <4> QED BY <4>1, <4>2
      <3>3. CASE \E status \in {"blocked", "dry_run", "skipped", "failed"} : Concludes(status)
        BY <3>2, <3>3 DEF Concludes, Working, Outcomes
      <3>4. CASE Selects \/ Costs \/ (Concludes("passed") /\ pc = "testing")
        BY <3>2, <3>4 DEF Selects, Costs, Concludes, Working, Outcomes
      <3>5. CASE Advances \/ Ends
        BY <3>1, <3>5 DEF Advances, Ends
      <3> QED BY <1>2, <3>1, <3>3, <3>4, <3>5, StepTable
    <2> QED BY <2>1, <2>2, <2>4 DEF TestsWereAllowed
  <1> QED BY <1>1, <1>2

LEMMA VerifyStep == VerifyInv /\ [Next]_vars => VerifyInv'
  BY TypeStep, InHandStep, CountedStep, ExitStep, PermittedStep, AllowedStep DEF VerifyInv

LEMMA VerifyInvariant == Spec => []VerifyInv
  BY InitHolds, VerifyStep, PTL DEF Spec

(***************************************************************************)
(* The command policy.                                                     *)
(***************************************************************************)
\* What the proofs need to know of the lists.
Openers == {"rm", "chmod", "mkfs", ":(){:|:&};:", "powershell", "env", "cat", "docker"}

LEMMA Fragments ==
    ASSUME NEW f \in DENIED_FRAGMENTS
    PROVE  f[1] \in Openers /\ \A p \in DOMAIN f : SubSeq(f, 1, p)[1] = f[1]
  <1>0. ASSUME NEW V, f \in Seq(V), NEW p \in DOMAIN f
        PROVE  SubSeq(f, 1, p)[1] = f[1]
    <2>1. p \in 1..Len(f) /\ Len(f) \in Nat
      BY <1>0
    <2> QED BY <1>0, <2>1
  <1>1. ASSUME NEW x, f = <<x>> PROVE f \in Seq({x}) /\ f[1] = x
    BY <1>1
  <1>2. ASSUME NEW x, NEW y, f = <<x, y>> PROVE f \in Seq({x, y}) /\ f[1] = x
    BY <1>2
  <1>3. ASSUME NEW x, NEW y, NEW z, f = <<x, y, z>> PROVE f \in Seq({x, y, z}) /\ f[1] = x
    BY <1>3
  <1>4. \/ \E x \in {"mkfs", ":(){:|:&};:"} : f = <<x>>
        \/ \E x \in {"rm", "chmod", "powershell", "cat"}, y \in {"-rf", "777", "invoke-webrequest", ".env"} : f = <<x, y>>
        \/ \E x \in {"env", "docker"}, y \in {"|", "run"}, z \in {"grep", "--privileged"} : f = <<x, y, z>>
    BY Zenon DEF DENIED_FRAGMENTS
  <1>5. CASE \E x \in {"mkfs", ":(){:|:&};:"} : f = <<x>>
    BY <1>0, <1>1, <1>5 DEF Openers
  <1>6. CASE \E x \in {"rm", "chmod", "powershell", "cat"} : \E y : f = <<x, y>>
    BY <1>0, <1>2, <1>6 DEF Openers
  <1>7. CASE \E x \in {"env", "docker"} : \E y, z : f = <<x, y, z>>
    BY <1>0, <1>3, <1>7 DEF Openers
  <1> QED BY <1>4, <1>5, <1>6, <1>7

LEMMA KnownWords ==
    /\ {"node", "--test", "pytest", "python", "python3", "git", "status", "diff"} \subseteq Known
    /\ \A shape \in AllowedShapes : \A i \in DOMAIN shape : shape[i] \in Known
  BY DEF Known, Range

LEMMA KnownLower ==
    ASSUME NEW w \in Known
    PROVE  Lower(w) = w
  BY PolicyAssumption DEF Lower

\* Words by number.
LEMMA Spelled ==
    ASSUME NEW W, NEW c \in Seq(W), NEW x, NEW y, NEW z
    PROVE  /\ c = <<x>> <=> Len(c) = 1 /\ c[1] = x
           /\ c = <<x, y>> <=> Len(c) = 2 /\ c[1] = x /\ c[2] = y
           /\ c = <<x, y, z>> <=> Len(c) = 3 /\ c[1] = x /\ c[2] = y /\ c[3] = z
  OBVIOUS

LEMMA SpelledLower ==
    ASSUME NEW W, NEW c \in Seq(W)
    PROVE  /\ Normalized(c) \in Seq({Lower(w) : w \in W}) /\ Len(Normalized(c)) = Len(c)
           /\ \A i \in 1..Len(c) : Normalized(c)[i] = Lower(c[i])
           /\ Named(c) \in Seq(W \cup {Lower(w) : w \in W}) /\ Len(Named(c)) = Len(c)
           /\ c # <<>> => Named(c)[1] = Lower(c[1])
           /\ \A i \in 2..Len(c) : Named(c)[i] = c[i]
  BY DEF Normalized, Named

LEMMA Prefixed ==
    ASSUME NEW V, NEW p \in Seq(V), NEW W, NEW c \in Seq(W)
    PROVE  IsPrefix(p, c) <=> Len(p) <= Len(c) /\ \A i \in 1..Len(p) : p[i] = c[i]
  <1>1. Len(p) \in Nat /\ Len(c) \in Nat /\ SubSeq(p, 1, Len(p)) = [i \in 1..Len(p) |-> p[i]]
    OBVIOUS
  <1>2. ASSUME Len(p) <= Len(c) PROVE SubSeq(c, 1, Len(p)) = [i \in 1..Len(p) |-> c[i]]
    BY <1>1, <1>2
  <1>3. [i \in 1..Len(p) |-> p[i]] = [i \in 1..Len(p) |-> c[i]] <=> \A i \in 1..Len(p) : p[i] = c[i]
    OBVIOUS
  <1> QED BY <1>1, <1>2, <1>3 DEF IsPrefix

LEMMA PrefixedShort ==
    ASSUME NEW W, NEW c \in Seq(W), NEW x, NEW y
    PROVE  IsPrefix(<<x, y>>, c) <=> Len(c) >= 2 /\ c[1] = x /\ c[2] = y
  <1> DEFINE p == <<x, y>>
  <1>1. p \in Seq({x, y})
    OBVIOUS
  <1>2. Len(p) = 2 /\ p[1] = x /\ p[2] = y
    OBVIOUS
  <1> HIDE DEF p
  <1>3. IsPrefix(p, c) <=> Len(p) <= Len(c) /\ \A i \in 1..Len(p) : p[i] = c[i]
    BY <1>1, Prefixed
  <1>4. IsPrefix(p, c) <=> Len(c) >= 2 /\ c[1] = x /\ c[2] = y
    <2>1. Len(c) \in Nat /\ \A i \in 1..2 : i = 1 \/ i = 2
      OBVIOUS
    <2> QED BY <1>2, <1>3, <2>1
  <1> QED BY <1>4 DEF p

LEMMA PrefixedLong ==
    ASSUME NEW W, NEW c \in Seq(W), NEW x, NEW y, NEW z, NEW w, IsPrefix(<<x, y, z, w>>, c)
    PROVE  Len(c) >= 4 /\ c[1] = x
  <1> DEFINE p == <<x, y, z, w>>
  <1>1. p \in Seq({x, y, z, w}) /\ Len(p) = 4 /\ p[1] = x /\ Len(c) \in Nat
    OBVIOUS
  <1> HIDE DEF p
  <1>2. 4 <= Len(c) /\ \A i \in 1..4 : p[i] = c[i]
    <2>1. IsPrefix(p, c)
      BY DEF p
    <2> QED BY <1>1, <2>1, Prefixed
  <1> QED BY <1>1, <1>2

Managers == {"go", "cargo", "bundle", "mvn", "dotnet"}

\* What is blocked by its first words is no command of the policy.
LEMMA BlockedBy ==
    ASSUME NEW W, NEW c \in Seq(W), Blocked(c)
    PROVE  \/ Len(c) >= 4 /\ Lower(c[1]) \in {"python", "python3"}
           \/ /\ Len(c) >= 2 /\ Lower(c[1]) \in Managers
              /\ Lower(c[2]) \in {"get", "install", "fetch", "update", "restore", "add", "nuget"}
           \/ /\ Len(c) >= 2
              /\ \E g \in BlockedGoals : Lower(c[1]) = g[1] /\ StartsWith(c[2], Tail(g))
  <1> DEFINE n == Normalized(c)
  <1>1. /\ n \in Seq({Lower(w) : w \in W}) /\ Len(n) = Len(c) /\ Len(c) \in Nat
        /\ \A i \in 1..Len(c) : n[i] = Lower(c[i])
    <2>1. Len(c) \in Nat
      OBVIOUS
    <2> QED BY <2>1, SpelledLower, Zenon
  <1> HIDE DEF n
  <1>2. ASSUME NEW p \in BlockedPrefixes
        PROVE  \/ \E x \in {"python", "python3"} : p = <<x, "-m", "pip", "install">>
               \/ \E x \in Managers, y \in {"get", "install", "fetch", "update", "restore", "add", "nuget"} :
                      p = <<x, y>>
    BY Zenon DEF BlockedPrefixes, Managers
  <1>3. ASSUME NEW x, IsPrefix(<<x, "-m", "pip", "install">>, n)
        PROVE  Len(c) >= 4 /\ Lower(c[1]) = x
    BY <1>1, <1>3, PrefixedLong
  <1>4. ASSUME NEW x, NEW y, IsPrefix(<<x, y>>, n)
        PROVE  Len(c) >= 2 /\ Lower(c[1]) = x /\ Lower(c[2]) = y
    BY <1>1, <1>4, PrefixedShort
  <1>5. CASE \E p \in BlockedPrefixes : IsPrefix(p, n)
    BY <1>2, <1>3, <1>4, <1>5
  <1> QED BY <1>5 DEF Blocked, n

LEMMA Shapes ==
    ASSUME NEW W, NEW c \in Seq(W), Normalized(c) \in AllowedShapes
    PROVE  /\ Lower(c[1]) \in {"go", "cargo", "mvn", "gradle", "dotnet", "bundle", "vendor/bin/phpunit"}
           /\ Len(c) > 1 => Lower(c[2]) \in {"test", "exec"}
           /\ Len(c) \in {1, 3}
  <1> DEFINE n == Normalized(c)
  <1>1. /\ n \in Seq({Lower(w) : w \in W}) /\ Len(n) = Len(c) /\ Len(c) \in Nat
        /\ \A i \in 1..Len(c) : n[i] = Lower(c[i])
    <2>1. Len(c) \in Nat
      OBVIOUS
    <2> QED BY <2>1, SpelledLower, Zenon
  <1> HIDE DEF n
  <1>2. \/ n = <<"vendor/bin/phpunit">>
        \/ \E x \in {"go", "cargo", "mvn", "gradle", "dotnet", "bundle"}, y \in {"test", "exec"} : \E z : n = <<x, y, z>>
    BY Zenon DEF AllowedShapes, n
  <1>3. ASSUME NEW x, NEW y, NEW z, n = <<x, y, z>>
        PROVE  Len(c) = 3 /\ Lower(c[1]) = x /\ Lower(c[2]) = y
    <2>1. Len(n) = 3 /\ n[1] = x /\ n[2] = y
      BY <1>3
    <2> QED BY <1>1, <2>1
  <1>4. ASSUME n = <<"vendor/bin/phpunit">>
        PROVE  Len(c) = 1 /\ Lower(c[1]) = "vendor/bin/phpunit"
    BY <1>1, <1>4
  <1> QED BY <1>2, <1>3, <1>4

LEMMA ShapesUnblocked ==
    ASSUME NEW W, NEW c \in Seq(W), Normalized(c) \in AllowedShapes
    PROVE  ~Blocked(c) /\ Lower(c[1]) \notin DENIED_EXECUTABLES
  <1>1. "test" \in Known /\ "exec" \in Known
    <2>1. \A x, y, z : \A i \in {1, 2, 3} : i \in DOMAIN (<<x, y, z>>)
      OBVIOUS
    <2>2. <<"go", "test", "./...">>[2] = "test" /\ <<"bundle", "exec", "rspec">>[2] = "exec"
      OBVIOUS
    <2>3. <<"go", "test", "./...">> \in AllowedShapes /\ <<"bundle", "exec", "rspec">> \in AllowedShapes
      BY DEF AllowedShapes
    <2> QED BY <2>1, <2>2, <2>3, KnownWords
  <1>2. ASSUME Len(c) > 1, NEW x \in {"dependency:", "dependencies", "build"} PROVE ~StartsWith(c[2], <<x>>)
    <2>1. Lower(c[2]) \in Known /\ Lower(c[2]) # x
      BY <1>1, <1>2, Shapes
    <2>2. <<c[2], <<x>>>> \notin Starting
      <3>1. <<c[2], <<x>>>>[1] = c[2]
        OBVIOUS
      <3> QED BY <2>1, <3>1, PolicyAssumption
    <2> QED BY <2>1, <2>2 DEF StartsWith
  <1>3. \A g \in BlockedGoals : \E x \in {"dependency:", "dependencies", "build"} : Tail(g) = <<x>>
    <2>1. ASSUME NEW m, NEW x PROVE Tail(<<m, x>>) = <<x>>
      OBVIOUS
    <2>2. ASSUME NEW g \in BlockedGoals
          PROVE  g = <<"mvn", "dependency:">> \/ g = <<"gradle", "dependencies">> \/ g = <<"gradle", "build">>
      BY Zenon DEF BlockedGoals
    <2>3. /\ Tail(<<"mvn", "dependency:">>) = <<"dependency:">>
          /\ Tail(<<"gradle", "dependencies">>) = <<"dependencies">>
          /\ Tail(<<"gradle", "build">>) = <<"build">>
      BY <2>1
    <2> QED BY <2>2, <2>3, Zenon
  <1>4. ~Blocked(c)
    <2> SUFFICES ASSUME Blocked(c) PROVE FALSE
      OBVIOUS
    <2>1. \/ Len(c) >= 4 /\ Lower(c[1]) \in {"python", "python3"}
          \/ Len(c) >= 2 /\ Lower(c[2]) \in {"get", "install", "fetch", "update", "restore", "add", "nuget"}
          \/ Len(c) >= 2 /\ \E g \in BlockedGoals : StartsWith(c[2], Tail(g))
      BY BlockedBy
    <2>2. \A g \in BlockedGoals : Len(c) > 1 => ~StartsWith(c[2], Tail(g))
      BY <1>2, <1>3, Zenon
    <2> QED BY <2>1, <2>2, Shapes
  <1>5. Lower(c[1]) \notin DENIED_EXECUTABLES
    BY Shapes DEF DENIED_EXECUTABLES
  <1> QED BY <1>4, <1>5

\* The policy, executable by executable.
LEMMA PolicyAgrees ==
    ASSUME NEW W, NEW c \in Seq(W), NEW allow \in BOOLEAN
    PROVE  check_command(c, allow) <=> ~HasFragment(c) /\ (ProbeCommand(c) \/ (allow /\ ProjectCommand(c)))
  <1>1. CASE c = <<>>
    <2>1. ~check_command(c, allow)
      BY <1>1 DEF check_command, Refused
    <2>2. Named(c) = <<>> /\ Normalized(c) = <<>> /\ Len(c) = 0
      BY <1>1 DEF Named, Normalized
    <2>3. ~ProbeCommand(c) /\ ~ProjectCommand(c)
      BY <2>2 DEF ProbeCommand, ProjectCommand
    <2> QED BY <2>1, <2>3
  <1>2. CASE c # <<>>
    <2> DEFINE first == Lower(c[1])
    <2>1. Len(c) \in Nat \ {0}
      BY <1>2
    <2>2. Refused(c) <=> first \in DENIED_EXECUTABLES \/ HasFragment(c) \/ Blocked(c)
      BY <1>2 DEF Refused
    <2>3. ASSUME NEW x, NEW y, NEW z
          PROVE  /\ Named(c) = <<x>> <=> Len(c) = 1 /\ first = x
                 /\ Named(c) = <<x, y>> <=> Len(c) = 2 /\ first = x /\ c[2] = y
                 /\ Named(c) = <<x, y, z>> <=> Len(c) = 3 /\ first = x /\ c[2] = y /\ c[3] = z
      <3> DEFINE m == Named(c)
      <3>1. m \in Seq(W \cup {Lower(w) : w \in W}) /\ Len(m) = Len(c)
            /\ m[1] = first /\ \A i \in 2..Len(c) : m[i] = c[i]
        BY <1>2, SpelledLower, Zenon
      <3> HIDE DEF m, first
      <3>2. /\ m = <<x>> <=> Len(m) = 1 /\ m[1] = x
            /\ m = <<x, y>> <=> Len(m) = 2 /\ m[1] = x /\ m[2] = y
            /\ m = <<x, y, z>> <=> Len(m) = 3 /\ m[1] = x /\ m[2] = y /\ m[3] = z
        <4>1. PICK V : m \in Seq(V)
          BY <3>1
        <4> QED BY <4>1, Spelled
      <3>3. (Len(c) = 2 => m[2] = c[2]) /\ (Len(c) = 3 => m[2] = c[2] /\ m[3] = c[3])
        BY <3>1
      <3>4. /\ m = <<x>> <=> Len(c) = 1 /\ first = x
            /\ m = <<x, y>> <=> Len(c) = 2 /\ first = x /\ c[2] = y
            /\ m = <<x, y, z>> <=> Len(c) = 3 /\ first = x /\ c[2] = y /\ c[3] = z
        BY <3>1, <3>2, <3>3
      <3> QED BY <3>4 DEF m
    <2>4. ASSUME NEW x
          PROVE  (Tail(c) = <<x>> <=> Len(c) = 2 /\ c[2] = x) /\ (Tail(c) = <<>> <=> Len(c) = 1)
      <3>1. Tail(c) \in Seq(W) /\ Len(Tail(c)) = Len(c) - 1 /\ (Len(c) = 2 => Tail(c)[1] = c[2])
        BY <1>2
      <3>2. Tail(c) = <<x>> <=> Len(Tail(c)) = 1 /\ Tail(c)[1] = x
        BY <3>1, Spelled
      <3>3. Tail(c) = <<>> <=> Len(Tail(c)) = 0
        BY <3>1
      <3> QED BY <2>1, <3>1, <3>2, <3>3
    <2>5. c[1] = "git" => first = "git"
      BY KnownWords, KnownLower
    <2>6. first \in {"node", "pytest"} \/ first = "git" => ~Blocked(c)
      BY BlockedBy DEF BlockedGoals, Managers
    <2>7. first \in {"python", "python3"} /\ Len(c) = 2 => ~Blocked(c)
      <3>1. {"python", "python3"} \cap (Managers \cup {"mvn", "gradle"}) = {}
        BY DEF Managers
      <3>2. \A g \in BlockedGoals : g[1] \in {"mvn", "gradle"}
        BY DEF BlockedGoals
      <3> HIDE DEF first
      <3>3. Blocked(c) => Len(c) >= 4 \/ first \in Managers \cup {"mvn", "gradle"}
        BY <3>2, BlockedBy DEF first
      <3> QED BY <2>1, <3>1, <3>3
    <2>8. Normalized(c) \in AllowedShapes =>
              /\ first \in {"go", "cargo", "mvn", "gradle", "dotnet", "bundle", "vendor/bin/phpunit"}
              /\ ~Blocked(c) /\ first \notin DENIED_EXECUTABLES
      BY Shapes, ShapesUnblocked
    <2>9. first \in {"node", "pytest", "git", "python", "python3"} => first \notin DENIED_EXECUTABLES
      BY DEF DENIED_EXECUTABLES
    <2> HIDE DEF first
    <2>10. ProbeCommand(c) <=>
              \/ first = "pytest" /\ Len(c) = 2 /\ c[2] \in Generated.py
              \/ first = "node" /\ Len(c) = 3 /\ c[2] = "--test" /\ c[3] \in Generated.mjs
              \/ first \in {"python", "python3"} /\ Len(c) = 2 /\ c[2] \in {"--version", "-V"}
              \/ Len(c) >= 2 /\ c[1] = "git" /\ c[2] \in {"status", "diff"}
      <3>1. (\E p \in Generated.py : Named(c) = <<"pytest", p>>)
            <=> first = "pytest" /\ Len(c) = 2 /\ c[2] \in Generated.py
        BY <2>3
      <3>2. (\E p \in Generated.mjs : Named(c) = <<"node", "--test", p>>)
            <=> first = "node" /\ Len(c) = 3 /\ c[2] = "--test" /\ c[3] \in Generated.mjs
        BY <2>3
      <3>3. Named(c) \in {"python", "python3"} \X {"--version", "-V"}
            <=> \E x \in {"python", "python3"}, y \in {"--version", "-V"} : Named(c) = <<x, y>>
        OBVIOUS
      <3>4. Named(c) \in {"python", "python3"} \X {"--version", "-V"}
            <=> first \in {"python", "python3"} /\ Len(c) = 2 /\ c[2] \in {"--version", "-V"}
        BY <2>3, <3>3
      <3> QED BY <3>1, <3>2, <3>4 DEF ProbeCommand
    <2>11. ProjectCommand(c) <=>
              \/ first = "pytest" /\ (Len(c) = 1 \/ (Len(c) = 2 /\ c[2] \in {"tests", "."}))
              \/ first = "node" /\ Len(c) = 2 /\ c[2] = "--test"
              \/ Normalized(c) \in AllowedShapes
      BY <2>3 DEF ProjectCommand, AllowedShapes
    <2>12. /\ NodeTest(c, allow) <=>
               \/ Len(c) = 2 /\ c[2] = "--test" /\ allow
               \/ Len(c) = 3 /\ c[2] = "--test" /\ c[3] \in Generated.mjs
           /\ Pytest(c, allow) <=>
               \/ Len(c) = 2 /\ c[2] \in Generated.py
               \/ (Len(c) = 1 \/ (Len(c) = 2 /\ c[2] \in {"tests", "."})) /\ allow
      <3>1. /\ Tail(c) = <<"--test">> <=> Len(c) = 2 /\ c[2] = "--test"
            /\ Tail(c) \in {<<>>, <<"tests">>, <<".">>} <=> Len(c) = 1 \/ (Len(c) = 2 /\ c[2] \in {"tests", "."})
        <4>1. /\ Tail(c) = <<"--test">> <=> Len(c) = 2 /\ c[2] = "--test"
              /\ Tail(c) = <<"tests">> <=> Len(c) = 2 /\ c[2] = "tests"
              /\ Tail(c) = <<".">> <=> Len(c) = 2 /\ c[2] = "."
              /\ Tail(c) = <<>> <=> Len(c) = 1
          BY <2>4
        <4> QED BY <4>1, Zenon
      <3>2. NodeTest(c, allow) <=>
                \/ Len(c) = 2 /\ c[2] = "--test" /\ allow
                \/ Len(c) = 3 /\ c[2] = "--test" /\ c[3] \in Generated.mjs
        BY <3>1 DEF NodeTest
      <3>3. Pytest(c, allow) <=>
                \/ Len(c) = 2 /\ c[2] \in Generated.py
                \/ (Len(c) = 1 \/ (Len(c) = 2 /\ c[2] \in {"tests", "."})) /\ allow
        BY <3>1 DEF Pytest
      <3> QED BY <3>2, <3>3
    <2>13. Inspection(c) <=>
               \/ first \in {"python", "python3"} /\ Len(c) = 2 /\ c[2] \in {"--version", "-V"}
               \/ Len(c) >= 2 /\ c[1] = "git" /\ c[2] \in {"status", "diff"}
      <3>1. Tail(c) \in {<<"--version">>, <<"-V">>} <=> Len(c) = 2 /\ c[2] \in {"--version", "-V"}
        BY <2>4
      <3>2. \A sub : IsPrefix(<<"git", sub>>, c) <=> Len(c) >= 2 /\ c[1] = "git" /\ c[2] = sub
        BY PrefixedShort
      <3>3. Lower(c[1]) = first
        BY DEF first
      <3>4. (\E sub \in {"diff", "status"} : IsPrefix(<<"git", sub>>, c))
            <=> Len(c) >= 2 /\ c[1] = "git" /\ c[2] \in {"status", "diff"}
        BY <3>2
      <3> QED BY <3>1, <3>3, <3>4 DEF Inspection
    <2>14. check_command(c, allow) <=>
               /\ ~Refused(c)
               /\ \/ first = "node" /\ NodeTest(c, allow)
                  \/ first = "pytest" /\ Pytest(c, allow)
                  \/ first \notin {"node", "pytest"} /\ ((Normalized(c) \in AllowedShapes /\ allow) \/ Inspection(c))
      BY DEF check_command, ProjectTest, first
    <2> HIDE DEF check_command
    <2>15. CASE first = "node"
      BY <2>2, <2>5, <2>6, <2>8, <2>9, <2>10, <2>11, <2>12, <2>14, <2>15
    <2>16. CASE first = "pytest"
      BY <2>2, <2>5, <2>6, <2>8, <2>9, <2>10, <2>11, <2>12, <2>14, <2>16
    <2>17. CASE first \notin {"node", "pytest"}
      <3>1. CASE Inspection(c)
        BY <2>2, <2>5, <2>6, <2>7, <2>8, <2>9, <2>10, <2>11, <2>13, <2>14, <2>17, <3>1
      <3>2. CASE ~Inspection(c)
        BY <2>2, <2>8, <2>10, <2>11, <2>13, <2>14, <2>17, <3>2
      <3> QED BY <3>1, <3>2
    <2> QED BY <2>15, <2>16, <2>17
  <1> QED BY <1>1, <1>2

LEMMA PolicyHolds ==
    ASSUME NEW allow \in BOOLEAN
    PROVE  AsDocumented[allow]
  <1>1. ASSUME NEW c \in Commands PROVE c \in Seq(Word)
    BY DEF Commands
  <1> QED BY <1>1, PolicyAgrees DEF AsDocumented

(***************************************************************************)
(* The profiles and the policy.                                            *)
(***************************************************************************)
ProfileCommands ==
    {<<"pytest">>, <<"node", "--test">>} \cup AllowedShapes

LEMMA ProfilesCommanded ==
    ASSUME NEW i \in DOMAIN Profiles
    PROVE  Profiles[i].command \in ProfileCommands
  <1> DEFINE S == UNION {{x[k] : k \in DOMAIN x} : x \in {DotNet, Go, JavaKotlin, JsTs, Php, Python, Ruby, Rust}}
             T == {p \in S : p.command \in ProfileCommands}
  <1>1. ASSUME NEW p, NEW x, x = <<p>>, x \in {DotNet, Go, JsTs, Php, Python, Ruby, Rust},
               p.command \in ProfileCommands
        PROVE  x \in Seq(T)
    <2>1. x[1] = p /\ 1 \in DOMAIN x
      BY <1>1
    <2>2. p \in S
      BY <1>1, <2>1
    <2>3. p \in T
      BY <1>1, <2>2
    <2> HIDE DEF T
    <2> QED BY <1>1, <2>3
  <1>2. /\ \E p : DotNet = <<p>> /\ p.command = <<"dotnet", "test", "--no-restore">>
        /\ \E p : Go = <<p>> /\ p.command = <<"go", "test", "./...">>
        /\ \E p : JsTs = <<p>> /\ p.command = <<"node", "--test">>
        /\ \E p : Php = <<p>> /\ p.command = <<"vendor/bin/phpunit">>
        /\ \E p : Python = <<p>> /\ p.command = <<"pytest">>
        /\ \E p : Ruby = <<p>> /\ p.command = <<"bundle", "exec", "rspec">>
        /\ \E p : Rust = <<p>> /\ p.command = <<"cargo", "test", "--offline">>
    <2>1. ASSUME NEW x, NEW command, \E id, offer, beside : x = <<Profile(id, offer, beside, command)>>
          PROVE  \E p : x = <<p>> /\ p.command = command
      <3>1. PICK id, offer, beside : x = <<Profile(id, offer, beside, command)>>
        BY <2>1
      <3>2. Profile(id, offer, beside, command).command = command
        BY DEF Profile
      <3> QED BY <3>1, <3>2, Zenon
    <2>2. \E id, offer, beside : DotNet = <<Profile(id, offer, beside, <<"dotnet", "test", "--no-restore">>)>>
      BY Zenon DEF DotNet
    <2>3. \E id, offer, beside : Go = <<Profile(id, offer, beside, <<"go", "test", "./...">>)>>
      BY Zenon DEF Go
    <2>4. \E id, offer, beside : JsTs = <<Profile(id, offer, beside, <<"node", "--test">>)>>
      BY Zenon DEF JsTs
    <2>5. \E id, offer, beside : Php = <<Profile(id, offer, beside, <<"vendor/bin/phpunit">>)>>
      BY Zenon DEF Php
    <2>6. \E id, offer, beside : Python = <<Profile(id, offer, beside, <<"pytest">>)>>
      BY Zenon DEF Python
    <2>7. \E id, offer, beside : Ruby = <<Profile(id, offer, beside, <<"bundle", "exec", "rspec">>)>>
      BY Zenon DEF Ruby
    <2>8. \E id, offer, beside : Rust = <<Profile(id, offer, beside, <<"cargo", "test", "--offline">>)>>
      BY Zenon DEF Rust
    <2> QED BY <2>1, <2>2, <2>3, <2>4, <2>5, <2>6, <2>7, <2>8
  <1>3. /\ DotNet \in Seq(T) /\ Go \in Seq(T) /\ JsTs \in Seq(T) /\ Php \in Seq(T)
        /\ Python \in Seq(T) /\ Ruby \in Seq(T) /\ Rust \in Seq(T)
    <2>1. {<<"dotnet", "test", "--no-restore">>, <<"go", "test", "./...">>, <<"node", "--test">>,
           <<"vendor/bin/phpunit">>, <<"pytest">>, <<"bundle", "exec", "rspec">>,
           <<"cargo", "test", "--offline">>} \subseteq ProfileCommands
      BY Zenon DEF ProfileCommands, AllowedShapes
    <2> HIDE DEF T
    <2> QED BY <1>1, <1>2, <2>1
  <1>4. JavaKotlin \in Seq(T)
    <2>1. PICK p, q : /\ JavaKotlin = <<p, q>>
                      /\ p.command = <<"gradle", "test", "--offline">> /\ q.command = <<"mvn", "test", "-o">>
      <3>1. \E i1, o1, b1, i2, o2, b2 :
                JavaKotlin = <<Profile(i1, o1, b1, <<"gradle", "test", "--offline">>),
                               Profile(i2, o2, b2, <<"mvn", "test", "-o">>)>>
        BY Zenon DEF JavaKotlin
      <3>2. ASSUME NEW id, NEW offer, NEW beside, NEW command
            PROVE  Profile(id, offer, beside, command).command = command
        BY DEF Profile
      <3>3. PICK i1, o1, b1, i2, o2, b2 :
                JavaKotlin = <<Profile(i1, o1, b1, <<"gradle", "test", "--offline">>),
                               Profile(i2, o2, b2, <<"mvn", "test", "-o">>)>>
        BY <3>1, Zenon
      <3> DEFINE p == Profile(i1, o1, b1, <<"gradle", "test", "--offline">>)
                 q == Profile(i2, o2, b2, <<"mvn", "test", "-o">>)
      <3>4. JavaKotlin = <<p, q>>
        BY <3>3
      <3>5. p.command = <<"gradle", "test", "--offline">> /\ q.command = <<"mvn", "test", "-o">>
        BY <3>2
      <3> HIDE DEF p, q
      <3> QED BY <3>4, <3>5
    <2>2. JavaKotlin[1] = p /\ JavaKotlin[2] = q /\ DOMAIN JavaKotlin = {1, 2}
      BY <2>1
    <2>3. p \in S /\ q \in S
      BY <2>2
    <2>4. p.command \in ProfileCommands /\ q.command \in ProfileCommands
      BY <2>1, Zenon DEF ProfileCommands, AllowedShapes
    <2>5. p \in T /\ q \in T
      BY <2>3, <2>4
    <2> HIDE DEF T
    <2> QED BY <2>1, <2>5
  <1> HIDE DEF T
  <1>5. Profiles \in Seq(T)
    BY <1>3, <1>4 DEF Profiles
  <1>6. Profiles[i] \in T
    BY <1>5
  <1> QED BY <1>6 DEF T

LEMMA NoOpenerKnown == Openers \cap Known = {}
  <1>1. ASSUME NEW shape \in AllowedShapes, NEW k \in DOMAIN shape
        PROVE  shape[k] \notin Openers
    <2>1. \/ shape = <<"vendor/bin/phpunit">>
          \/ \E x \in {"go", "cargo", "mvn", "gradle", "dotnet", "bundle"}, y \in {"test", "exec"},
                z \in {"./...", "--offline", "-o", "--no-restore", "rspec"} : shape = <<x, y, z>>
      BY Zenon DEF AllowedShapes
    <2>2. CASE shape = <<"vendor/bin/phpunit">>
      <3>1. ASSUME NEW x, shape = <<x>> PROVE shape[k] = x
        BY <3>1
      <3>2. shape[k] = "vendor/bin/phpunit"
        BY <2>2, <3>1
      <3> QED BY <3>2 DEF Openers
    <2>3. ASSUME NEW x, NEW y, NEW z, shape = <<x, y, z>>
          PROVE  shape[k] \in {x, y, z}
      BY <2>3
    <2>4. ASSUME NEW x \in {"go", "cargo", "mvn", "gradle", "dotnet", "bundle"} PROVE x \notin Openers
      BY DEF Openers
    <2>5. ASSUME NEW y \in {"test", "exec"} PROVE y \notin Openers
      BY DEF Openers
    <2>6. ASSUME NEW z \in {"./...", "--offline", "-o", "--no-restore", "rspec"} PROVE z \notin Openers
      BY DEF Openers
    <2>7. CASE \E x \in {"go", "cargo", "mvn", "gradle", "dotnet", "bundle"}, y \in {"test", "exec"},
                 z \in {"./...", "--offline", "-o", "--no-restore", "rspec"} : shape = <<x, y, z>>
      <3>1. PICK x \in {"go", "cargo", "mvn", "gradle", "dotnet", "bundle"}, y \in {"test", "exec"},
                 z \in {"./...", "--offline", "-o", "--no-restore", "rspec"} : shape = <<x, y, z>>
        BY <2>7, Zenon
      <3>2. shape[k] = x \/ shape[k] = y \/ shape[k] = z
        BY <2>3, <3>1
      <3> QED BY <2>4, <2>5, <2>6, <3>2
    <2> QED BY <2>1, <2>2, <2>7
  <1>2. {"node", "--test", "pytest", "python", "python3", "git", "status", "diff"} \cap Openers = {}
    BY DEF Openers
  <1> QED BY <1>1, <1>2 DEF Known, Range

LEMMA ProfilePasses ==
    ASSUME NEW c \in ProfileCommands
    PROVE  check_command(c, TRUE)
  <1>1. c \in Seq(Known) /\ \A k \in DOMAIN c : c[k] \in Known
    <2>1. CASE c = <<"pytest">> \/ c = <<"node", "--test">>
      <3>1. "pytest" \in Known /\ "node" \in Known /\ "--test" \in Known
        BY KnownWords
      <3>2. ASSUME NEW x \in Known, NEW y \in Known, c = <<x>> \/ c = <<x, y>>
            PROVE  c \in Seq(Known) /\ \A k \in DOMAIN c : c[k] \in Known
        <4>1. CASE c = <<x>>
          BY <4>1
        <4>2. CASE c = <<x, y>>
          BY <4>2
        <4> QED BY <3>2, <4>1, <4>2
      <3> QED BY <2>1, <3>1, <3>2
    <2>2. CASE c \in AllowedShapes
      <3>1. \A k \in DOMAIN c : c[k] \in Known
        BY <2>2, KnownWords
      <3>2. \/ \E x : c = <<x>>
            \/ \E x, y, z : c = <<x, y, z>>
        BY <2>2, Zenon DEF AllowedShapes
      <3>3. ASSUME NEW x, c = <<x>> PROVE c \in Seq(Known)
        <4>1. x \in Known
          BY <3>1, <3>3
        <4> QED BY <3>3, <4>1
      <3>4. ASSUME NEW x, NEW y, NEW z, c = <<x, y, z>> PROVE c \in Seq(Known)
        <4>1. c[1] = x /\ c[2] = y /\ c[3] = z /\ {1, 2, 3} \subseteq DOMAIN c
          BY <3>4
        <4>2. x \in Known /\ y \in Known /\ z \in Known
          BY <3>1, <4>1
        <4> QED BY <3>4, <4>2
      <3> QED BY <3>1, <3>2, <3>3, <3>4
    <2> QED BY <2>1, <2>2 DEF ProfileCommands
  <1>2. \A k \in DOMAIN c : Lower(c[k]) = c[k]
    BY <1>1, KnownLower
  <1>3. Normalized(c) = c /\ Named(c) = c
    <2>1. c = [k \in DOMAIN c |-> c[k]]
      BY <1>1
    <2> QED BY <1>2, <2>1 DEF Normalized, Named
  <1>4. ProjectCommand(c)
    <2>1. CASE c = <<"pytest">> \/ c = <<"node", "--test">>
      BY <1>3, <2>1 DEF ProjectCommand
    <2>2. CASE c \in AllowedShapes
      BY <1>3, <2>2 DEF ProjectCommand, AllowedShapes
    <2> QED BY <2>1, <2>2 DEF ProfileCommands
  <1>5. ~HasFragment(c)
    <2>1. SUFFICES ASSUME NEW k \in DOMAIN c, NEW f \in DENIED_FRAGMENTS
                   PROVE  <<c[k], f>> \notin Hidden /\ ~StandsAt(f, c, k)
      BY DEF HasFragment
    <2>2. Lower(c[k]) \in Known /\ f[1] \notin Known
      BY <1>1, <1>2, NoOpenerKnown, Fragments
    <2>3. \A x : <<c[k], x>> \notin Hidden \cup Ending
      <3>1. \A x : <<c[k], x>>[1] = c[k]
        OBVIOUS
      <3> QED BY <2>2, <3>1, PolicyAssumption
    <2>4. f # <<Lower(c[k])>>
      BY <2>2
    <2>5. ASSUME NEW p \in DOMAIN f PROVE ~EndsIn(c[k], SubSeq(f, 1, p))
      <3>1. SubSeq(f, 1, p)[1] = f[1]
        BY Fragments, Zenon
      <3>2. SubSeq(f, 1, p) # <<Lower(c[k])>>
        <4>1. <<Lower(c[k])>>[1] = Lower(c[k])
          OBVIOUS
        <4> QED BY <2>2, <3>1, <4>1, Zenon
      <3> QED BY <2>3, <3>2 DEF EndsIn
    <2> QED BY <2>3, <2>4, <2>5 DEF StandsAt
  <1> QED BY <1>1, <1>4, <1>5, PolicyAgrees

\* Where nothing changed, every directory is there.
Undisturbed == edits = 0 => gone = {}

LEMMA Unblocked ==
    ASSUME TypeOK, InHand, Undisturbed, pc = "verify", allowed, edits = 0
    PROVE  "blocked" \notin WithoutRun
  <1>1. PICK i \in DOMAIN Profiles : Current.command = Profiles[i].command
    BY CurrentType DEF Working, Planned
  <1>2. check_command(Current.command, allowed)
    <2>1. allowed = TRUE
      BY DEF TypeOK
    <2> QED BY <1>1, <2>1, ProfilesCommanded, ProfilePasses
  <1>3. Usable(Current.dir)
    BY DEF Undisturbed, Usable
  <1> QED BY <1>2, <1>3 DEF WithoutRun

LEMMA UnblockedStep ==
    ASSUME TypeOK, InHand, Undisturbed, NoProfileBlocked, [Next]_vars
    PROVE  Undisturbed' /\ NoProfileBlocked'
  <1>1. CASE Start
    <2>1. UNCHANGED worldVars /\ log' = <<>>
      BY <1>1, Zenon DEF Start
    <2> QED BY <2>1 DEF Undisturbed, NoProfileBlocked, worldVars
  <1>2. CASE Edit
    <2>1. edits' # 0
      BY <1>2 DEF Edit, TypeOK
    <2> QED BY <2>1 DEF Undisturbed, NoProfileBlocked
  <1>3. ASSUME pc \in Working, UNCHANGED <<worldVars, allowed>>,
               NEW type \in Outcomes \cup {"selected", "cost_recorded"}, Noted(type),
               allowed /\ edits = 0 => type # "blocked"
        PROVE  Undisturbed' /\ NoProfileBlocked'
    <2>1. /\ DOMAIN log' = 1..(Len(log) + 1) /\ DOMAIN log = 1..Len(log) /\ Len(log) \in Nat
          /\ \A i \in 1..Len(log) : log'[i] = log[i]
          /\ log'[Len(log) + 1].type = type
      BY <1>3, LogStep
    <2>2. \A i \in 1..(Len(log) + 1) : i \in 1..Len(log) \/ i = Len(log) + 1
      BY <2>1
    <2> QED BY <1>3, <2>1, <2>2 DEF Undisturbed, NoProfileBlocked, worldVars
  <1>4. CASE Select \/ NotStarted \/ Cost
    BY <1>3, <1>4 DEF Select, NotStarted, Cost, Note, Noted, Outcomes, Working
  <1>5. CASE Refuse
    <2>1. PICK status \in WithoutRun : Note(status, 0)
      BY <1>5 DEF Refuse
    <2>2. Noted(status) /\ status \in Outcomes
      BY <2>1, Unrefused DEF Note, Noted, Outcomes
    <2>3. allowed /\ edits = 0 => status # "blocked"
      BY <1>5, <2>1, Unblocked DEF Refuse
    <2> QED BY <1>3, <1>5, <2>2, <2>3 DEF Refuse, Working
  <1>6. CASE TestsEnd
    <2>1. PICK rc \in {0, 1, 124} : Note(IF rc = 0 THEN "passed" ELSE "failed", rc)
      BY <1>6 DEF TestsEnd
    <2>2. Noted("passed") \/ Noted("failed")
      BY <2>1 DEF Note, Noted
    <2> QED BY <1>3, <1>6, <2>2 DEF TestsEnd, Outcomes, Working
  <1>7. CASE Run \/ StartTests \/ NotText \/ Exit \/ Die \/ UNCHANGED vars
    BY <1>7 DEF Run, StartTests, NotText, Exit, Die, vars, worldVars, Undisturbed, NoProfileBlocked
  <1> QED BY <1>1, <1>2, <1>4, <1>5, <1>6, <1>7 DEF Next, Step

(***************************************************************************)
(* The end of a command.                                                   *)
(***************************************************************************)
\* How many steps a command has left at most.
Left ==
    CASE pc = "idle" -> 0
      [] pc = "exit" -> 1
      [] pc = "select" -> 5 * Len(todo) + 1
      [] pc = "verify" -> 5 * Len(todo)
      [] pc = "run" -> 5 * Len(todo) - 1
      [] pc = "testing" -> 5 * Len(todo) - 2
      [] pc = "cost" -> 5 * Len(todo) - 3

LEMMA LeftType ==
    ASSUME TypeOK, InHand
    PROVE  Left \in Nat /\ (Left = 0 <=> pc = "idle")
  <1> DEFINE n == Len(todo)
  <1>1. n \in Nat /\ (pc \in Working => n > 0)
    BY DEF TypeOK, InHand
  <1>2. pc \in {"idle", "select", "verify", "run", "testing", "cost", "exit"}
    BY DEF TypeOK
  <1> HIDE DEF n
  <1>3. Left = CASE pc = "idle" -> 0
                 [] pc = "exit" -> 1
                 [] pc = "select" -> 5 * n + 1
                 [] pc = "verify" -> 5 * n
                 [] pc = "run" -> 5 * n - 1
                 [] pc = "testing" -> 5 * n - 2
                 [] pc = "cost" -> 5 * n - 3
    BY Zenon DEF Left, n
  <1> QED BY <1>1, <1>2, <1>3 DEF Working

\* A step of the command moves on, and it starts from work to be done.
LEMMA StepMoves == Step => pc # "idle" /\ pc' # pc
  BY DEF Step, Select, Refuse, Run, NotStarted, StartTests, TestsEnd, NotText, Cost, Exit

RunsOut == (Step => Left' < Left) /\ (Start \/ Left' <= Left)

LEMMA LeftStep ==
    ASSUME TypeOK, InHand, TypeOK', InHand', [Next]_vars
    PROVE  RunsOut
  <1> DEFINE n == Len(todo)
             m == Len(todo')
  <1>1. n \in Nat /\ m \in Nat /\ (pc \in Working => n > 0)
    BY DEF TypeOK, InHand
  <1>2. CASE Start
    BY <1>2, StepMoves DEF Start, RunsOut
  <1>3. CASE \/ Selects \/ Advances \/ \E status : Concludes(status)
    <2>1. /\ todo' = todo
          /\ \/ pc = "select" /\ pc' = "verify"
             \/ pc = "verify" /\ pc' \in {"run", "cost"}
             \/ pc = "run" /\ pc' \in {"testing", "cost"}
             \/ pc = "testing" /\ pc' = "cost"
      BY <1>3 DEF Selects, Advances, Concludes
    <2>2. Left' < Left /\ Left' <= Left
      <3>1. Len(todo) \in Nat
        BY <1>1
      <3> QED BY <2>1, <3>1 DEF Left
    <2> QED BY <2>2 DEF RunsOut
  <1>4. CASE Costs
    <2>1. todo' = Tail(todo) /\ pc = "cost" /\ pc' \in {"exit", "select"} /\ n > 0
      BY <1>1, <1>4 DEF Costs, Working
    <2>2. m = n - 1
      BY <2>1 DEF TypeOK
    <2>3. Left = 5 * n - 3
      BY <2>1, Zenon DEF Left
    <2>4. Left' = 1 \/ Left' = 5 * m + 1
      BY <2>1, Zenon DEF Left
    <2> HIDE DEF n, m
    <2> QED BY <1>1, <2>1, <2>2, <2>3, <2>4 DEF RunsOut
  <1>5. CASE Ends
    <2>1. Left' = 0 /\ Left # 0 /\ Left \in Nat
      BY <1>5, LeftType DEF Ends, Left
    <2> QED BY <2>1 DEF RunsOut
  <1>6. CASE UNCHANGED <<pc, todo>>
    <2>1. Left' = Left /\ Left \in Nat
      BY <1>6, LeftType DEF Left
    <2> QED BY <1>6, <2>1, StepMoves DEF RunsOut
  <1> QED BY <1>2, <1>3, <1>4, <1>5, <1>6, StepTable

(***************************************************************************)
(* The theorems.                                                           *)
(***************************************************************************)
\* The variables keep their types: what is planned is a profile the scanner
\* knows, in a directory it has seen (verification.py:14-26).
THEOREM TypeCorrect == Spec => []TypeOK
  <1>1. VerifyInv => TypeOK
    BY DEF VerifyInv
  <1> QED BY <1>1, VerifyInvariant, PTL

\* Events come in threes: a profile is selected, has its outcome and its ledger
\* record before the next (cli.py:193-213).
THEOREM Accounted == Spec => []ProfilesAccounted
  <1>1. VerifyInv => ProfilesAccounted
    BY DEF VerifyInv
  <1> QED BY <1>1, VerifyInvariant, PTL

\* The exit code agrees with the outcomes, whatever changes or breaks off
\* (cli.py:223-224).
THEOREM TruthfulExit == Spec => []ExitTellsTruth
  <1>1. VerifyInv => ExitTellsTruth
    BY DEF VerifyInv
  <1> QED BY <1>1, VerifyInvariant, PTL

\* Project tests run only with --run and the permission the command started
\* with, and what passed has run (cli.py:178, verification.py:39-72).
THEOREM OnlyAllowedTests == Spec => []TestsWereAllowed
  <1>1. VerifyInv => TestsWereAllowed
    BY DEF VerifyInv
  <1> QED BY <1>1, VerifyInvariant, PTL

\* Where nothing changes, no profile of an allowed command is blocked: each
\* command the scanner offers is one the policy lets pass, and its directory is
\* there (ecosystem_scanner.py:49-394 against command_policy.py:133-155).
THEOREM OfferedProfilesPass == Spec => []NoProfileBlocked
  <1>1. Init => Undisturbed /\ NoProfileBlocked
    BY DEF Init, Undisturbed, NoProfileBlocked
  <1>2. VerifyInv /\ Undisturbed /\ NoProfileBlocked /\ [Next]_vars => (Undisturbed /\ NoProfileBlocked)'
    BY UnblockedStep DEF VerifyInv
  <1> QED BY <1>1, <1>2, VerifyInvariant, PTL DEF Spec

\* The policy accepts what docs/safety.md:12-42 lists and nothing else, for
\* commands of any length over any words (command_policy.py:56-97).
THEOREM PolicyMatchesDocumentation == Spec => []PolicyAsDocumented
  <1>1. VerifyInv => PolicyAsDocumented
    BY PolicyHolds DEF VerifyInv, TypeOK, PolicyAsDocumented
  <1> QED BY <1>1, VerifyInvariant, PTL

\* Whatever the repository holds and the command line asks for, there is a
\* selection a command can make, be it empty: by ecosystem and by id
\* (verification.py:14-26, ecosystem_scanner.py:18-46).
THEOREM SelectionExists ==
    ASSUME NEW found, NEW want
    PROVE  Selections(found, want) # {}
  <1> DEFINE I == Offered(found, want)
  <1>1. I \in SUBSET Nat /\ IsFiniteSet(I) /\ Cardinality(I) \in Nat
    <2>1. DOMAIN Profiles \subseteq Nat
      BY ProfilesFinite
    <2>2. I \subseteq DOMAIN Profiles
      BY DEF Offered
    <2> QED BY <2>1, <2>2, ProfilesFinite, FS_Subset, FS_CardinalityType
  <1> HIDE DEF I
  <1>2. PICK seq \in [1..Cardinality(I) -> I] : \A i, j \in 1..Cardinality(I) : i < j => seq[i] < seq[j]
    BY <1>1, Sorting
  <1>3. [n \in DOMAIN seq |-> Plan(seq[n], found)] \in Selections(found, want)
    BY <1>2 DEF Selections, I
  <1> QED BY <1>3

\* A command cannot go on for ever, whatever the owner and the tests change: of
\* n selected profiles it takes 5 n + 1 steps at most, and it has none left just
\* when it has ended.  That it takes them, CommandEnds checks (cli.py:193-224).
THEOREM CommandRunsOut == Spec => [](Left \in Nat /\ (Left = 0 <=> pc = "idle")) /\ [][RunsOut]_vars
  <1>1. VerifyInv => Left \in Nat /\ (Left = 0 <=> pc = "idle")
    BY LeftType DEF VerifyInv
  <1>2. VerifyInv /\ VerifyInv' /\ [Next]_vars => [RunsOut]_vars
    BY LeftStep DEF VerifyInv
  <1> QED BY <1>1, <1>2, VerifyInvariant, PTL DEF Spec
=============================================================================
