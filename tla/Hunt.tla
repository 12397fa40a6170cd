-------------------------------- MODULE Hunt --------------------------------
(***************************************************************************)
(* `myco hunt` (cli.py), with the probes it writes (core/probe_generator), *)
(* the verifier that runs them (core/verifier, sandbox/runner) and the     *)
(* events it records.                                                      *)
(*                                                                         *)
(* Several sessions hunt in one repository while its owner edits sources,  *)
(* the configuration and the probe directory.  A session scans once, then  *)
(* works through the risks it selected: every step below ends at a read or *)
(* a write that others can see, and a session may die between two steps.   *)
(*                                                                         *)
(* A source file is abstracted to what the scanner and a probe make of it, *)
(* for each kind of risk:                                                  *)
(*   "gone"         it was removed                                         *)
(*   "undecodable"  it is not UTF-8: the scanner takes it for empty        *)
(*   "absent"       no risk of this kind                                   *)
(*   "bare"         a signal without a pattern a probe can look for, as an *)
(*                  import of datetime                                     *)
(*   "literal"      a risk whose source pattern stands in the text         *)
(*   "spread"       a risk the scanner sees in the syntax, while the text  *)
(*                  does not contain the literal the probe looks for, as   *)
(*                  x.replace(microsecond=0, tzinfo=utc) or `new  Date()`  *)
(***************************************************************************)
EXTENDS Integers, Sequences, FiniteSets

CONSTANTS
    Session,        \* hunt processes
    Target,         \* the files the scanner looks at
    Place,          \* Place[t]: the place of t among the paths in order
    Runner,         \* Runner[t]: "pytest" or "node-test"
    Scorings,       \* the scores a scan may give: score[t, k] for a risk of kind k in t
    PathOf(_, _, _),\* PathOf(m, t, k): where the probe of mode m for such a risk is written
    Denied,         \* probe paths the command policy refuses
    Options,        \* the command lines in use; `want` stands for the filters
    Initial,        \* the contents a source may have at first
    Edited,         \* the contents the owner may give it
    Broken,         \* return codes of a test process that are not its test's own
    RiskTokens,     \* estimate of the risk's JSON
    MaxOutput,      \* spore.budget.max_output_tokens
    AskTokens,      \* estimates of risk and provider ideas together
    ProbeTokens,    \* estimates of the probe's JSON
    MaxEdits        \* bound: how often the owner intervenes

Mode == {"safe", "aggressive"}
Kind == {"timezone_boundary", "mutable_default_argument", "broad_exception_swallow"}
Reading == {"gone", "undecodable", "absent", "bare", "literal", "spread"}
Pathname == {PathOf(m, t, k) : m \in Mode, t \in Target, k \in Kind}

\* The pattern of the other kinds of risk is the line they were found on.
Content ==
    {[k \in Kind |-> r] : r \in {"gone", "undecodable"}}
    \cup {c \in [Kind -> {"absent", "bare", "literal", "spread"}] :
              \A k \in Kind \ {"timezone_boundary"} : c[k] \in {"absent", "literal"}}

ASSUME HuntAssumption ==
    /\ IsFiniteSet(Target)
    /\ Place \in [Target -> Nat] /\ \A t, u \in Target : Place[t] = Place[u] => t = u
    /\ Runner \in [Target -> {"pytest", "node-test"}]
    /\ Scorings \subseteq [Target \X Kind -> Nat]
    /\ Options \subseteq [mode : Mode, run : BOOLEAN, dry : BOOLEAN,
                          want : SUBSET Target, limit : Nat, budget : Nat]
    /\ Initial \subseteq Content /\ Edited \subseteq Content
    /\ Broken \subseteq Int \ {0, 1}
    /\ RiskTokens \in Nat /\ MaxOutput \in Nat
    /\ AskTokens \subseteq Nat /\ \E n \in AskTokens : \A m \in AskTokens : m <= n
    /\ ProbeTokens \subseteq Nat /\ \E n \in ProbeTokens : \A m \in ProbeTokens : m <= n
    /\ MaxEdits \in Nat

VARIABLES
    source,     \* source[t]: the content of t
    probes,     \* probes[p]: the probe file at p
    config,     \* whether .myco/config.toml is valid
    edits,      \* how often the owner has intervened
    pc,         \* pc[s]: the next step of s
    opt,        \* opt[s]: its command line
    selected,   \* selected[s]: the risks it treats
    at,         \* at[s]: the one it has come to
    consumed,   \* consumed[s]: the tokens it has accounted for
    running,    \* running[s]: the probe file its test process has loaded
    log         \* log[s]: the events s recorded, of memory and ledger, in order

ownerVars == <<source, config, edits>>
vars == <<source, probes, config, edits, pc, opt, selected, at, consumed, running, log>>

(***************************************************************************)
(* Risks and probes.                                                       *)
(***************************************************************************)
Risky(r) == r \in {"bare", "literal", "spread"}

\* What a source can hold: JavaScript has risks of one kind, and none of them bare.
Possible(t, c) ==
    Runner[t] = "node-test" =>
        \A k \in Kind : Risky(c[k]) => k = "timezone_boundary" /\ c[k] # "bare"

\* _primary_pattern: a bare signal has no pattern.
PatternOf(r) == IF r = "bare" THEN "none" ELSE "marker"

Risk == [target : Target, kind : Kind, score : Nat, pattern : {"none", "marker"}]

\* map_repo_risks: a file has up to three risks, and one without a score is dropped.
RisksOf(src, score) ==
    {[target |-> x[1], kind |-> x[2], score |-> score[x], pattern |-> PatternOf(src[x[1]][x[2]])] :
        x \in {y \in Target \X Kind : Risky(src[y[1]][y[2]]) /\ score[y] > 0}}

\* It sorts by score, the highest first, then by path; the sort is stable, and the
\* risks of one file come in this order.
Turn(k) ==
    CASE k = "timezone_boundary" -> 1
      [] k = "mutable_default_argument" -> 2
      [] k = "broad_exception_swallow" -> 3
Earlier(r, q) ==
    \/ Place[r.target] < Place[q.target]
    \/ r.target = q.target /\ Turn(r.kind) < Turn(q.kind)

Before(r, q) == r.score > q.score \/ (r.score = q.score /\ Earlier(r, q))
Ranked(R) == {seq \in [1..Cardinality(R) -> R] :
                 \A i, j \in DOMAIN seq : i < j => Before(seq[i], seq[j])}

\* _filter_risks and --limit: `want` stands for --language and --file.
Selections(R, o) ==
    LET Cut(seq) == SubSeq(seq, 1, IF o.limit < Len(seq) THEN o.limit ELSE Len(seq))
    IN  {Cut(seq) : seq \in Ranked({r \in R : r.target \in o.want})}

\* A generated test.  A probe file is <<>> while it is open for writing and
\* nothing has been written yet, else it holds one test: whole, or what is left
\* of it when two writers met in the file or the disk was full.
Test == [target : Target, kind : Kind, mode : Mode, pattern : {"none", "marker"}, whole : BOOLEAN]

\* Whether a whole test passes on what it finds: it fails when the source is not
\* there, and pytest's also when it cannot be decoded.
Holds(p, r) ==
    /\ r \notin {"gone", "undecodable"}
    /\ IF p.pattern = "none" THEN p.mode = "safe" ELSE (r = "literal") <=> (p.mode = "safe")

\* The return codes of a test process that loaded this file: in a file without a
\* test pytest exits with 5, node --test with 0; what is left of a test may do
\* anything (2: it cannot be collected); node replaces the bytes it cannot decode.
\* Variant: a file without a test passes under pytest too.
VerdictsOfNothing(loaded, runner, src) ==
    {rc \in {0, 1, 2, 5} :
        IF loaded = <<>> THEN rc = 0
        ELSE LET p == loaded[1]
                 r == src[p.target][p.kind]
             IN  \/ ~p.whole
                 \/ rc \in {0, 1} /\ (rc = 0 <=> Holds(p, r))}

Verdicts(loaded, runner, src) ==
    {rc \in {0, 1, 2, 5} :
        IF loaded = <<>> THEN rc = IF runner = "pytest" THEN 5 ELSE 0
        ELSE LET p == loaded[1]
                 r == src[p.target][p.kind]
             IN  \/ ~p.whole /\ (runner = "node-test" => rc \in {0, 1})
                 \/ p.whole /\ rc \in {0, 1} /\ \/ rc = 0 <=> Holds(p, r)
                                                \/ runner = "node-test" /\ r = "undecodable"}

\* Variant of StatusOf: a timeout has a status of its own, unknown to the memory.
StatusOfTimeout(rc) ==
    IF rc = 124 THEN "probe_timeout" ELSE IF rc = 0 THEN "probe_passed" ELSE "probe_failed"

StatusOf(rc) == IF rc = 0 THEN "probe_passed" ELSE "probe_failed"

(***************************************************************************)
(* Events.  `num` is a return code, or the tokens a ledger record notes;   *)
(* `saw` is history: the test and the source behind a verdict.             *)
(***************************************************************************)
Outcomes == {"probe_passed", "probe_failed", "probe_inconclusive", "probe_skipped", "probe_blocked"}
Ran == {"probe_passed", "probe_failed"}

Record(s, type, n, saw) ==
    log' = [log EXCEPT ![s] = Append(@,
        [type |-> type, target |-> selected[s][at[s]].target, kind |-> selected[s][at[s]].kind,
         num |-> n, saw |-> saw])]

\* An event no verdict stands behind.
Note(s, type, n) == Record(s, type, n, [probe |-> <<>>, src |-> "absent"])

Goto(s, l) == pc' = [pc EXCEPT ![s] = l]
NextRisk(s) == at' = [at EXCEPT ![s] = @ + 1] /\ UNCHANGED selected

\* The risk in hand, its probe, and the path that is written to.
Current(s) == selected[s][at[s]]
Path(s) == PathOf(opt[s].mode, Current(s).target, Current(s).kind)
TestOf(s, whole) ==
    [target |-> Current(s).target, kind |-> Current(s).kind, mode |-> opt[s].mode,
     pattern |-> Current(s).pattern, whole |-> whole]
Put(p, file) == [q \in DOMAIN probes \cup {p} |-> IF q = p THEN file ELSE probes[q]]

(***************************************************************************)
(* The hunt.                                                               *)
(***************************************************************************)
Init ==
    /\ source \in {src \in [Target -> Initial] : \A t \in Target : Possible(t, src[t])}
    /\ probes = [p \in {} |-> <<>>]
    /\ config = TRUE
    /\ edits = 0
    /\ pc = [s \in Session |-> "scan"]
    /\ opt \in [Session -> Options]
    /\ selected = [s \in Session |-> <<>>]
    /\ at = [s \in Session |-> 1]
    /\ consumed = [s \in Session |-> 0]
    /\ running = [s \in Session |-> <<>>]
    /\ log = [s \in Session |-> <<>>]

\* The repository is scanned and the risks are selected.
Scan(s) ==
    /\ pc[s] = "scan"
    /\ \E score \in Scorings : LET risks == RisksOf(source, score) IN
           \E chosen \in Selections(risks, opt[s]) :
             /\ selected' = [selected EXCEPT ![s] = chosen]
             /\ Goto(s, CASE risks = {} -> "no_target"
                          [] risks # {} /\ opt[s].dry -> "done"
                          [] risks # {} /\ ~opt[s].dry /\ chosen = <<>> -> "no_match"
                          [] chosen # <<>> /\ ~opt[s].dry /\ ~config -> "done"
                          [] chosen # <<>> /\ ~opt[s].dry /\ config -> "next")
    /\ UNCHANGED <<ownerVars, probes, opt, at, consumed, running, log>>

\* Nothing to hunt: the event says so, and for an empty scan the ledger too.
Idle(s) ==
    /\ pc[s] \in {"no_target", "no_match", "no_target_cost"}
    /\ LET type == IF pc[s] = "no_target_cost" THEN "cost_recorded" ELSE "probe_inconclusive"
       IN  log' = [log EXCEPT ![s] = Append(@, [type |-> type, target |-> "none", kind |-> "none", num |-> 0,
                                                 saw |-> [probe |-> <<>>, src |-> "absent"]])]
    /\ Goto(s, IF pc[s] = "no_target" THEN "no_target_cost" ELSE "done")
    /\ UNCHANGED <<ownerVars, probes, opt, selected, at, consumed, running>>

Finish(s) ==
    /\ pc[s] = "next"
    /\ at[s] > Len(selected[s])
    /\ Goto(s, "done")
    /\ UNCHANGED <<ownerVars, probes, opt, selected, at, consumed, running, log>>

\* The tokens a probe must find left, by its spore; each kind of risk has one,
\* for the built-in spores are always loaded.
Reserved == RiskTokens + MaxOutput

\* The budget would be exceeded: the event says so and the hunt ends.
OverBudget(s) ==
    /\ pc[s] = "next"
    /\ at[s] <= Len(selected[s])
    /\ consumed[s] + Reserved > opt[s].budget
    /\ Note(s, "probe_inconclusive", 0)
    /\ Goto(s, "done")
    /\ UNCHANGED <<ownerVars, probes, opt, selected, at, consumed, running>>

\* Variant of Ask: the budget is not looked at.
AskUnchecked(s) ==
    /\ pc[s] = "next"
    /\ at[s] <= Len(selected[s])
    /\ config /\ Note(s, "model_call_recorded", 0) /\ Goto(s, "open")
    /\ UNCHANGED <<ownerVars, probes, opt, selected, at, consumed, running>>

\* The provider is asked for ideas; it reads the configuration anew, and an
\* invalid one ends the process with ValueError.
Ask(s) ==
    /\ pc[s] = "next"
    /\ at[s] <= Len(selected[s])
    /\ consumed[s] + Reserved <= opt[s].budget
    /\ \/ config /\ Note(s, "model_call_recorded", 0) /\ Goto(s, "open")
       \/ ~config /\ Goto(s, "dead") /\ UNCHANGED log
    /\ UNCHANGED <<ownerVars, probes, opt, selected, at, consumed, running>>

\* Path.write_text empties the file first ...
OpenProbe(s) ==
    /\ pc[s] = "open"
    /\ probes' = Put(Path(s), <<>>)
    /\ Goto(s, "fill")
    /\ UNCHANGED <<ownerVars, opt, selected, at, consumed, running, log>>

\* ... and then writes it.  Of two sessions that have both emptied one file the
\* later may leave its text whole or with the tail of the other's.
FillProbe(s) ==
    /\ pc[s] = "fill"
    /\ \E whole \in {TRUE} \cup {probes[Path(s)] = <<>>} :
         probes' = Put(Path(s), <<TestOf(s, whole)>>)
    /\ Goto(s, "generated")
    /\ UNCHANGED <<ownerVars, opt, selected, at, consumed, running, log>>

\* Variant of Generated: the ledger record is left out.
GeneratedUncosted(s) ==
    /\ pc[s] = "generated"
    /\ \E ask \in AskTokens, probe \in ProbeTokens :
         consumed' = [consumed EXCEPT ![s] = @ + ask + probe]
    /\ Note(s, "probe_generated", 0)
    /\ Goto(s, IF opt[s].run THEN "verify" ELSE "no_run")
    /\ UNCHANGED <<ownerVars, probes, opt, selected, at, running>>

\* The tokens are counted and probe_generated is recorded.
Generated(s) ==
    /\ pc[s] = "generated"
    /\ \E ask \in AskTokens, probe \in ProbeTokens :
         consumed' = [consumed EXCEPT ![s] = @ + ask + probe]
    /\ Note(s, "probe_generated", 0)
    /\ Goto(s, "cost")
    /\ UNCHANGED <<ownerVars, probes, opt, selected, at, running>>

Cost(s) ==
    /\ pc[s] = "cost"
    /\ Note(s, "cost_recorded", consumed[s])
    /\ Goto(s, IF opt[s].run THEN "verify" ELSE "no_run")
    /\ UNCHANGED <<ownerVars, probes, opt, selected, at, consumed, running>>

NoRun(s) ==
    /\ pc[s] = "no_run"
    /\ Note(s, "probe_inconclusive", 0)
    /\ NextRisk(s)
    /\ Goto(s, "next")
    /\ UNCHANGED <<ownerVars, probes, opt, consumed, running>>

\* Variant of NotRunnable: nothing is recorded.
NotRunnableSilent(s) ==
    /\ pc[s] = "verify"
    /\ NextRisk(s)
    /\ Goto(s, "next")
    /\ UNCHANGED <<ownerVars, probes, opt, consumed, running, log>>

\* verify_probe without a run: no file, no runner on PATH, or the policy.
NotRunnable(s) ==
    /\ pc[s] = "verify"
    /\ \E type \in IF Path(s) \notin DOMAIN probes THEN {"probe_inconclusive"}
                   ELSE {"probe_skipped"} \cup IF Path(s) \in Denied THEN {"probe_blocked"} ELSE {} :
         Note(s, type, 0)
    /\ NextRisk(s)
    /\ Goto(s, "next")
    /\ UNCHANGED <<ownerVars, probes, opt, consumed, running>>

\* The file is there, and the command is allowed ...
Check(s) ==
    /\ pc[s] = "verify"
    /\ Path(s) \in DOMAIN probes \ Denied
    /\ Goto(s, "start")
    /\ UNCHANGED <<ownerVars, probes, opt, selected, at, consumed, running, log>>

\* ... when the test process starts; it loads the file, unless it has gone since.
Load(s) ==
    /\ pc[s] = "start"
    /\ \/ /\ Path(s) \in DOMAIN probes
          /\ running' = [running EXCEPT ![s] = probes[Path(s)]]
          /\ Goto(s, "running")
       \/ /\ Path(s) \notin DOMAIN probes
          /\ Goto(s, "lost")
          /\ UNCHANGED running
    /\ UNCHANGED <<ownerVars, probes, opt, selected, at, consumed, log>>

\* Variant of Outcome: a test that timed out is run again.
OutcomeRetried(s) ==
    /\ pc[s] \in {"running", "lost"}
    /\ running' = [running EXCEPT ![s] = <<>>]
    /\ \/ Goto(s, "verify") /\ UNCHANGED <<at, selected, log>>
       \/ NextRisk(s) /\ Goto(s, "next") /\ Note(s, "probe_failed", 1)
    /\ UNCHANGED <<ownerVars, probes, opt, consumed>>

\* The verdict is recorded.  The return code is the test's own; for a file that
\* is not there pytest exits with 4, node with 1; Broken are those with another
\* cause: a timeout (124), a command that could not be started (126), the
\* repository's own pytest configuration (2, 3, 4) or a signal (negative).
Outcome(s) ==
    /\ pc[s] \in {"running", "lost"}
    /\ LET ran == running[s]
           runner == Runner[Current(s).target]
           seen == IF ran = <<>> THEN "absent" ELSE source[ran[1].target][ran[1].kind]
           codes == IF pc[s] = "running" THEN Verdicts(ran, runner, source)
                    ELSE {IF runner = "pytest" THEN 4 ELSE 1}
       IN  \E rc \in codes \cup Broken : Record(s, StatusOf(rc), rc, [probe |-> ran, src |-> seen])
    /\ running' = [running EXCEPT ![s] = <<>>]
    /\ NextRisk(s)
    /\ Goto(s, "next")
    /\ UNCHANGED <<ownerVars, probes, opt, consumed>>

\* The process is killed, the output of the tests is not text, or a write fails,
\* of which a part may have reached the file.
Die(s) ==
    /\ pc[s] \notin {"done", "dead"}
    /\ Goto(s, "dead")
    /\ \/ UNCHANGED probes
       \/ pc[s] = "fill" /\ probes' = Put(Path(s), <<TestOf(s, FALSE)>>)
    /\ UNCHANGED <<ownerVars, opt, selected, at, consumed, running, log>>

(***************************************************************************)
(* The owner of the repository.                                            *)
(***************************************************************************)
Edit ==
    /\ edits < MaxEdits
    /\ edits' = edits + 1
    /\ \/ /\ \E t \in Target, c \in Edited :
               /\ c # source[t]
               /\ Possible(t, c)
               /\ source' = [source EXCEPT ![t] = c]
          /\ UNCHANGED <<probes, config>>
       \/ /\ config' = ~config
          /\ UNCHANGED <<source, probes>>
       \/ /\ \A s \in Session : pc[s] # "fill"
          /\ \E p \in DOMAIN probes : probes' = [q \in DOMAIN probes \ {p} |-> probes[q]]
          /\ UNCHANGED <<source, config>>
    /\ UNCHANGED <<pc, opt, selected, at, consumed, running, log>>

Step(s) ==
    \/ Scan(s) \/ Idle(s) \/ Finish(s) \/ OverBudget(s)
    \/ Ask(s) \/ OpenProbe(s) \/ FillProbe(s) \/ Generated(s) \/ Cost(s)
    \/ NoRun(s) \/ NotRunnable(s) \/ Check(s) \/ Load(s) \/ Outcome(s)

Next == (\E s \in Session : Step(s) \/ Die(s)) \/ Edit

Spec == Init /\ [][Next]_vars

\* Every step of a hunt is code that runs on: the test process is bounded by
\* max_runtime_seconds.
FairSpec == Spec /\ \A s \in Session : WF_vars(Step(s))

(***************************************************************************)
(* Properties.                                                             *)
(***************************************************************************)
Entry == [type : Outcomes \cup {"model_call_recorded", "probe_generated", "cost_recorded"},
          target : Target \cup {"none"}, kind : Kind \cup {"none"}, num : Int,
          saw : [probe : Seq(Test), src : Reading]]

TypeOK ==
    /\ source \in [Target -> Content]
    /\ DOMAIN probes \subseteq Pathname
    /\ \A p \in DOMAIN probes : probes[p] \in Seq(Test)
    /\ config \in BOOLEAN
    /\ edits \in 0..MaxEdits
    /\ pc \in [Session -> {"scan", "no_target", "no_match", "no_target_cost", "next", "open", "fill",
                           "generated", "cost", "no_run", "verify", "start", "running", "lost",
                           "done", "dead"}]
    /\ opt \in [Session -> Options]
    /\ selected \in [Session -> Seq(Risk)]
    /\ at \in [Session -> Nat]
    /\ consumed \in [Session -> Nat]
    /\ running \in [Session -> Seq(Test)]
    /\ log \in [Session -> Seq(Entry)]

\* A probe that was generated has its ledger record and its one outcome, for
\* the same risk, before the session turns to another risk; only the last one
\* of a session that died may lack them (cli.py:309-340).
SameRisk(e, f) == e.target = f.target /\ e.kind = f.kind
ProbesAccounted ==
    \A s \in Session : \A i \in DOMAIN log[s] : log[s][i].type = "probe_generated" =>
        /\ pc[s] \in {"next", "done"} => i + 2 <= Len(log[s])
        /\ i + 1 <= Len(log[s]) => /\ log[s][i + 1].type = "cost_recorded"
                                   /\ SameRisk(log[s][i + 1], log[s][i])
        /\ i + 2 <= Len(log[s]) => /\ log[s][i + 2].type \in Outcomes
                                   /\ SameRisk(log[s][i + 2], log[s][i])

\* No selected risk is passed over in silence: a hunt that ends by itself has
\* recorded one outcome for each of them, or ended on the event that says the
\* budget is exhausted (cli.py:283-340).
Answered(s) == {i \in DOMAIN log[s] : log[s][i].type \in Outcomes}
EveryRiskAnswered ==
    \A s \in Session : pc[s] = "done" /\ log[s] # <<>> /\ selected[s] # <<>> =>
        \/ Cardinality(Answered(s)) = Len(selected[s])
        \/ /\ log[s][Len(log[s])].type = "probe_inconclusive"
           /\ consumed[s] + Reserved > opt[s].budget

\* What the ledger notes stays below the budget plus what the last probe took
\* beyond its reservation (cli.py:291-308) ...
MaxOf(S) == CHOOSE n \in S : \A m \in S : m <= n
Noted(s, i) == log[s][i].type = "cost_recorded" /\ log[s][i].target # "none"
OvershootBounded ==
    \A s \in Session : \A i \in DOMAIN log[s] : Noted(s, i) =>
        log[s][i].num <= opt[s].budget - Reserved + MaxOf(AskTokens) + MaxOf(ProbeTokens)

\* ... and once the budget is passed no provider is asked, no probe generated.
OverBudgetStops ==
    \A s \in Session : \A i, j \in DOMAIN log[s] :
        Noted(s, i) /\ log[s][i].num > opt[s].budget /\ i < j =>
            log[s][j].type \notin {"model_call_recorded", "probe_generated"}

\* The budget overshoots by one probe at most: both of the above.
BudgetHolds == OvershootBounded /\ OverBudgetStops

\* A verdict on a Python probe is earned.  Behind "passed", and behind "failed"
\* with pytest's own return code 1, a test for that risk and mode ran.  If it was
\* whole, "passed" says that the source could be read and the marker was as the
\* mode wants it, "failed" that it was not or that the source could not be read;
\* if it was not, another session was hunting the same risk: a hunt alone never
\* runs a damaged probe.  This holds as long as no two probes share a path (the
\* slug of a path is not injective), whatever the owner edits or removes.  Every
\* other way a test process ends is recorded as failed too, and only its return
\* code, 2, 3, 4, 5, 124, 126 or a negative one, tells it apart (verifier.py:44-54).
DistinctPaths ==
    \A m, n \in Mode, t, u \in Target, k, l \in Kind :
        PathOf(m, t, k) = PathOf(n, u, l) => m = n /\ t = u /\ k = l
Hunted(s, m, t, k) ==
    /\ opt[s].mode = m
    /\ \E i \in DOMAIN log[s] : /\ log[s][i].type = "model_call_recorded"
                                /\ log[s][i].target = t /\ log[s][i].kind = k
Earned(s, e) ==
    LET p == e.saw.probe[1]
        read == e.saw.src \notin {"gone", "undecodable"}
        found == (e.saw.src = "literal") <=> (p.mode = "safe")
    IN  /\ e.saw.probe # <<>>
        /\ SameRisk(p, e) /\ p.mode = opt[s].mode
        /\ p.whole /\ e.type = "probe_passed" => read /\ (p.pattern = "marker" => found)
        /\ p.whole /\ e.type = "probe_failed" /\ p.pattern = "marker" => ~read \/ ~found
        /\ ~p.whole => \E q \in Session \ {s} : Hunted(q, p.mode, p.target, p.kind)
VerdictsAreEarned ==
    DistinctPaths =>
    \A s \in Session : \A i \in DOMAIN log[s] :
        LET e == log[s][i]
        IN  e.type \in Ran /\ e.num \in {0, 1} /\ Runner[e.target] = "pytest" => Earned(s, e)

\* Every hunt ends, whatever the owner does meanwhile.
HuntEnds == \A s \in Session : <>(pc[s] \in {"done", "dead"})

(* What the documentation says, and the code does not do. *)

\* "The budget is a hard estimated-token limit" (README.en.md:79).
HardBudget == \A s \in Session : consumed[s] <= opt[s].budget
=============================================================================
