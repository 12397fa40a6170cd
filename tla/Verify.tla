------------------------------- MODULE Verify -------------------------------
(***************************************************************************)
(* `myco verify` (cli.py, core/verification, sandbox/runner): the profiles *)
(* a scan detects are selected, then each is recorded, run or refused, and *)
(* its outcome recorded in the memory and in the ledger.                   *)
(*                                                                         *)
(* The configuration and the manifests are read once, at the start; the    *)
(* directories and tools may change while the command works through its    *)
(* profiles, by the owner's hand or by the tests it runs.  Nothing is      *)
(* shared between two commands but the logs, so one command is modelled,   *)
(* run several times.  Every profile asks for an explicit permission.      *)
(***************************************************************************)
EXTENDS Integers, Sequences, FiniteSets, Ecosystems, DocumentedPolicy

CONSTANTS
    Repos,          \* the repositories a command may start in
    Options,        \* the command lines in use
    MaxEdits,       \* bound: changes from outside
    MaxRuns         \* bound: commands

ProfileId == {Profiles[i].id : i \in DOMAIN Profiles}
Planned == {[id |-> Profiles[i].id, command |-> Profiles[i].command, dir |-> d] :
                i \in DOMAIN Profiles, d \in Dir}
File == [dir : Dir, name : STRING, link : BOOLEAN]

ASSUME VerifyAssumption ==
    /\ \A repo \in Repos : repo \subseteq File
    /\ \A o \in Options : o.want \subseteq ProfileId /\ o.run \in BOOLEAN /\ o.allow \in BOOLEAN
    /\ MaxEdits \in Nat /\ MaxRuns \in Nat

VARIABLES
    files,      \* the files of the repository
    gone,       \* the directories that were removed
    tools,      \* the profiles whose tool is found
    config,     \* .myco/config.toml: "allow", "deny" or "invalid"
    edits,      \* how often something changed from outside
    runs,       \* commands started
    pc,         \* the next step of the command
    opt,        \* its command line
    allowed,    \* whether it may run project tests
    was,        \* history: the configuration it started with
    todo,       \* the profiles it selected, with their working directories
    log,        \* its events, of the memory and of the ledger, in order
    started,    \* history: the tests it started
    exit        \* its exit code

worldVars == <<files, gone, tools, config, edits>>
vars == <<worldVars, runs, pc, opt, allowed, was, todo, log, started, exit>>

Current == Head(todo)
Usable(d) == d \notin gone
Outcomes == {"passed", "failed", "skipped", "blocked", "dry_run"}
Event == [type : Outcomes \cup {"selected", "cost_recorded"}, profile : ProfileId, rc : Nat]
Note(type, rc) == log' = Append(log, [type |-> type, profile |-> Current.id, rc |-> rc])

Init ==
    /\ files \in Repos
    /\ gone = {}
    /\ tools = ProfileId
    /\ config \in {"allow", "deny"}
    /\ edits = 0
    /\ runs = 0
    /\ pc = "idle"
    /\ opt \in Options
    /\ allowed = FALSE
    /\ was = config
    /\ todo = <<>>
    /\ log = <<>>
    /\ started = {}
    /\ exit = 0

\* Variant of Start: any valid configuration is a permission.
StartAllowing ==
    /\ pc = "idle"
    /\ runs < MaxRuns
    /\ runs' = runs + 1
    /\ opt' \in Options
    /\ was' = config
    /\ log' = <<>>
    /\ started' = {}
    /\ IF config = "invalid"
       THEN exit' = 1 /\ pc' = "idle" /\ UNCHANGED <<allowed, todo>>
       ELSE /\ allowed' = (opt'.allow \/ config # "invalid")
            /\ todo' \in Selections(files, opt'.want)
            /\ pc' = IF todo' = <<>> THEN "idle" ELSE "select"
            /\ exit' = 0
    /\ UNCHANGED worldVars

\* A command starts, reads the configuration and scans.
Start ==
    /\ pc = "idle"
    /\ runs < MaxRuns
    /\ runs' = runs + 1
    /\ opt' \in Options
    /\ was' = config
    /\ log' = <<>>
    /\ started' = {}
    /\ IF config = "invalid"
       THEN exit' = 1 /\ pc' = "idle" /\ UNCHANGED <<allowed, todo>>
       ELSE /\ allowed' = (opt'.allow \/ config = "allow")
            /\ todo' \in Selections(files, opt'.want)
            /\ pc' = IF todo' = <<>> THEN "idle" ELSE "select"
            /\ exit' = 0
    /\ UNCHANGED worldVars

\* verification_profile_selected
Select ==
    /\ pc = "select"
    /\ Note("selected", 0)
    /\ pc' = "verify"
    /\ UNCHANGED <<worldVars, runs, opt, allowed, was, todo, started, exit>>

\* verify_profile, up to the command, and the policy run_command asks: what it
\* returns without running the tests.
WithoutRun ==
    CASE ~Usable(Current.dir) -> {"blocked"}
      [] Usable(Current.dir) /\ ~opt.run -> {"dry_run"}
      [] Usable(Current.dir) /\ opt.run /\ ~allowed -> {"blocked"}
      [] OTHER -> IF Current.id \notin tools THEN {"skipped"}
                  ELSE IF check_command(Current.command, allowed) THEN {} ELSE {"blocked"}

\* Variant of Refuse: a profile that is not run has no ledger record.
RefuseUncosted ==
    /\ pc = "verify"
    /\ \E status \in WithoutRun : Note(status, 0)
    /\ todo' = Tail(todo)
    /\ pc' = IF Tail(todo) = <<>> THEN "exit" ELSE "select"
    /\ UNCHANGED <<worldVars, runs, opt, allowed, was, started, exit>>

Refuse ==
    /\ pc = "verify"
    /\ \E status \in WithoutRun : Note(status, 0)
    /\ pc' = "cost"
    /\ UNCHANGED <<worldVars, runs, opt, allowed, was, todo, started, exit>>

Run ==
    /\ pc = "verify"
    /\ WithoutRun = {}
    /\ pc' = "run"
    /\ UNCHANGED <<worldVars, runs, opt, allowed, was, todo, log, started, exit>>

\* The process starts, in a directory or of a tool that may have gone
\* meanwhile: 126.
NotStarted ==
    /\ pc = "run"
    /\ ~Usable(Current.dir) \/ Current.id \notin tools
    /\ Note("failed", 126)
    /\ pc' = "cost"
    /\ UNCHANGED <<worldVars, runs, opt, allowed, was, todo, started, exit>>

StartTests ==
    /\ pc = "run"
    /\ Usable(Current.dir) /\ Current.id \in tools
    /\ started' = started \cup {[profile |-> Current.id, dir |-> Current.dir]}
    /\ pc' = "testing"
    /\ UNCHANGED <<worldVars, runs, opt, allowed, was, todo, log, exit>>

\* Variants of TestsEnd: a timeout has a status of its own ...
TestsEndTimeout ==
    /\ pc = "testing"
    /\ \E rc \in {0, 1, 124} :
         Note(CASE rc = 0 -> "passed" [] rc = 1 -> "failed" [] rc = 124 -> "timeout", rc)
    /\ pc' = "cost"
    /\ UNCHANGED <<worldVars, runs, opt, allowed, was, todo, started, exit>>

\* ... or tests that timed out are run again.
TestsEndRetried ==
    /\ pc = "testing"
    /\ \/ pc' = "run" /\ UNCHANGED log
       \/ pc' = "cost" /\ Note("passed", 0)
    /\ UNCHANGED <<worldVars, runs, opt, allowed, was, todo, started, exit>>

\* The tests end by themselves or time out.
TestsEnd ==
    /\ pc = "testing"
    /\ \E rc \in {0, 1, 124} : Note(IF rc = 0 THEN "passed" ELSE "failed", rc)
    /\ pc' = "cost"
    /\ UNCHANGED <<worldVars, runs, opt, allowed, was, todo, started, exit>>

\* Their output is not UTF-8: the exception ends the command.
NotText ==
    /\ pc = "testing"
    /\ pc' = "idle"
    /\ exit' = 1
    /\ UNCHANGED <<worldVars, runs, opt, allowed, was, todo, log, started>>

Cost ==
    /\ pc = "cost"
    /\ Note("cost_recorded", 0)
    /\ todo' = Tail(todo)
    /\ pc' = IF Tail(todo) = <<>> THEN "exit" ELSE "select"
    /\ UNCHANGED <<worldVars, runs, opt, allowed, was, started, exit>>

\* Variant of Exit: blocked profiles do not count.
ExitOnFailed ==
    /\ pc = "exit"
    /\ exit' = IF \E i \in DOMAIN log : log[i].type = "failed" THEN 1 ELSE 0
    /\ pc' = "idle"
    /\ UNCHANGED <<worldVars, runs, opt, allowed, was, todo, log, started>>

Exit ==
    /\ pc = "exit"
    /\ exit' = IF \E i \in DOMAIN log : log[i].type \in {"failed", "blocked"} THEN 1 ELSE 0
    /\ pc' = "idle"
    /\ UNCHANGED <<worldVars, runs, opt, allowed, was, todo, log, started>>

\* Killed, or an event cannot be written.
Die ==
    /\ pc # "idle"
    /\ pc' = "idle"
    /\ exit' = 137
    /\ UNCHANGED <<worldVars, runs, opt, allowed, was, todo, log, started>>

\* The owner, or a running test, changes the repository or the machine.
Edit ==
    /\ edits < MaxEdits
    /\ edits' = edits + 1
    /\ \/ /\ \E d \in Dir \ {Root} :
               /\ gone' = IF d \in gone THEN gone \ {d} ELSE gone \cup {d}
               /\ files' = {f \in files : f.dir # d}
          /\ UNCHANGED <<tools, config>>
       \/ /\ \E p \in tools : tools' = tools \ {p}
          /\ UNCHANGED <<files, gone, config>>
       \/ /\ config' \in {"allow", "deny", "invalid"} \ {config}
          /\ UNCHANGED <<files, gone, tools>>
    /\ UNCHANGED <<runs, pc, opt, allowed, was, todo, log, started, exit>>

Step ==
    \/ Select \/ Refuse \/ Run \/ NotStarted \/ StartTests
    \/ TestsEnd \/ NotText \/ Cost \/ Exit

Next == Start \/ Step \/ Die \/ Edit

Spec == Init /\ [][Next]_vars

\* Commands run on; default_timeout_seconds bounds the tests.
FairSpec == Spec /\ WF_vars(Step)

(***************************************************************************)
(* Properties.                                                             *)
(***************************************************************************)
TypeOK ==
    /\ files \subseteq File
    /\ gone \subseteq Dir
    /\ tools \subseteq ProfileId
    /\ config \in {"allow", "deny", "invalid"}
    /\ edits \in 0..MaxEdits
    /\ runs \in 0..MaxRuns
    /\ pc \in {"idle", "select", "verify", "run", "testing", "cost", "exit"}
    /\ opt \in Options
    /\ allowed \in BOOLEAN
    /\ was \in {"allow", "deny", "invalid"}
    /\ todo \in Seq(Planned)
    /\ log \in Seq(Event)
    /\ started \subseteq [profile : ProfileId, dir : Dir]
    /\ exit \in {0, 1, 137}

\* Each selected profile has one outcome and then one ledger record before the
\* next is selected; only the last one of a command that broke off lacks them
\* (cli.py:193-213).
ProfilesAccounted ==
    \A i \in DOMAIN log :
        /\ log[i].type = CASE i % 3 = 1 -> "selected" [] i % 3 = 0 -> "cost_recorded" [] OTHER -> log[i].type
        /\ i % 3 = 2 => log[i].type \in Outcomes /\ log[i].profile = log[i - 1].profile
        /\ i % 3 = 0 => log[i].profile = log[i - 1].profile

\* A command that says it succeeded has an outcome for every profile it
\* selected, none of which failed or was blocked; one that came to its end and
\* says it failed has one that did (cli.py:223-224).  Directories, tools and
\* the configuration may have changed at any time.
ExitTellsTruth ==
    pc = "idle" /\ log # <<>> =>
        LET results == {log[i].type : i \in {j \in DOMAIN log : log[j].type \in Outcomes}} IN
        /\ exit = 0 => todo = <<>> /\ results \cap {"failed", "blocked"} = {}
        /\ exit = 1 /\ todo = <<>> => results \cap {"failed", "blocked"} # {}

\* Project tests run only under --run and with the permission of the command
\* line or of the configuration the command started with (docs/safety.md:19),
\* whatever the configuration has come to say since; and what is recorded as
\* passed did run.
TestsWereAllowed ==
    /\ started # {} => opt.run /\ (opt.allow \/ was = "allow")
    /\ \A i \in DOMAIN log : log[i].type = "passed" =>
        \E t \in started : t.profile = log[i].profile

\* What the scanner offers the policy lets pass: where nothing changes, no
\* profile of an allowed command is blocked, by its working directory or by its
\* words (ecosystem_scanner.py:49-394 against command_policy.py:133-155).
NoProfileBlocked ==
    allowed /\ edits = 0 => \A i \in DOMAIN log : log[i].type # "blocked"

\* The policy a command works under, with its permission or without, is the one
\* the documentation describes: the chain of checks accepts what is listed there
\* and nothing else, in whatever order its parts return, and the permission
\* opens the project test profiles only (command_policy.py:56-97).
PolicyAsDocumented == AsDocumented[allowed]

\* Every command comes to its end.
CommandEnds == pc # "idle" ~> pc = "idle"
=============================================================================
