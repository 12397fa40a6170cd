---------------------------- MODULE PatchDrafts ----------------------------
(***************************************************************************)
(* `myco patch --draft-diffs`: the recommendations drawn from recorded     *)
(* failures (core/patch_recommender) and the guarded diffs drafted for the *)
(* eligible ones (core/patch_drafter).                                     *)
(*                                                                         *)
(* Hunts record failures, the owner edits sources and several patch        *)
(* sessions may run, one after another or at the same time; each may die   *)
(* between two writes.  A source file is abstracted to what the drafter    *)
(* makes of it:                                                            *)
(*   "gone"   missing, a symlink, or outside the repository                *)
(*   "other"  too large, not UTF-8, without an executable datetime.utcnow()*)
(*            or with imports the edit does not handle                     *)
(*   "v1" "v2"  two versions that can be transformed                       *)
(***************************************************************************)
EXTENDS Integers, Sequences, FiniteSets

CONSTANTS
    Session,        \* patch processes
    Target,         \* files probes were generated for
    Python,         \* those that end in .py
    SlugOf,         \* SlugOf[t]: the name the artifacts of t are written under
    Kinds,          \* the failures hunts record
    Initial,        \* the contents a source may have at first
    MaxFailures,    \* bound: failures recorded
    MaxEdits,       \* bound: edits of the owner
    MaxRuns         \* bound: runs of each session

Content == {"gone", "other", "v1", "v2"}
Slug == {SlugOf[t] : t \in Target}
Failure == [target : Target, risk : {"timezone_boundary", "other"}, mode : {"safe", "aggressive"}]

ASSUME PatchAssumption ==
    /\ Python \subseteq Target
    /\ SlugOf \in [Target -> Slug]
    /\ Kinds \subseteq Failure
    /\ Initial \subseteq Content
    /\ MaxFailures \in Nat /\ MaxEdits \in Nat /\ MaxRuns \in Nat

VARIABLES
    failures,   \* the probe_failed events, by time
    source,     \* source[t]: the content of t
    config,     \* whether .myco/config.toml is valid
    edits,      \* how often the owner has intervened
    patches,    \* patches[p]: the diff under slug p, and the text it is of
    rollbacks,  \* rollbacks[p]: the rollback instructions and their hash
    drafted,    \* the patch_draft_created events
    pc,         \* pc[s]: the next step of s
    runs,       \* runs[s]: how often s was started
    read,       \* read[s]: how many failures it has read
    at,         \* at[s]: the one it has come to
    calls,      \* calls[s]: provider calls this run has recorded
    count,      \* count[s]: recommendations of this run
    seen,       \* seen[s]: the keys it has met
    done,       \* done[s]: the keys it drafted or rejected
    held,       \* held[s]: the source text it has read
    alone       \* history: whether no other session was at work since s started

envVars == <<failures, source, config, edits>>
diskVars == <<patches, rollbacks, drafted>>
runVars == <<pc, runs, read, at, calls, count, seen, done, held, alone>>
vars == <<envVars, diskVars, runVars>>

(***************************************************************************)
(* Drafting.                                                               *)
(***************************************************************************)
\* What _draft_failure accepts: mode, risk, then the file.
Eligible(f, c) ==
    /\ f.mode = "aggressive"
    /\ f.risk = "timezone_boundary"
    /\ f.target \in Python
    /\ c \in {"v1", "v2"}

Key(f) == <<f.target, f.risk>>
Goto(s, l) == pc' = [pc EXCEPT ![s] = l]
TurnTo(s, i) == at' = [at EXCEPT ![s] = i]
More(s) == at[s] <= read[s]
Current(s) == failures[at[s]]
Put(disk, p, t, text) ==
    [q \in DOMAIN disk \cup {p} |-> IF q = p THEN [target |-> t, of |-> text] ELSE disk[q]]

\* Path.write_text empties the file and then writes it: two sessions that have
\* both emptied it may leave a mixture of their texts.
Emptied(disk, f) == Put(disk, SlugOf[f.target], f.target, "empty")
Filled(disk, f, text) ==
    LET was == disk[SlugOf[f.target]]
        mixed == was.of # "empty" /\ was # [target |-> f.target, of |-> text]
    IN  {Put(disk, SlugOf[f.target], f.target, t) : t \in {text} \cup IF mixed THEN {"mixed"} ELSE {}}

Init ==
    /\ failures = <<>>
    /\ source \in [Target -> Initial]
    /\ config = TRUE
    /\ edits = 0
    /\ patches = [p \in {} |-> {}]
    /\ rollbacks = [p \in {} |-> {}]
    /\ drafted = {}
    /\ pc = [s \in Session |-> "idle"]
    /\ runs = [s \in Session |-> 0]
    /\ read = [s \in Session |-> 0]
    /\ at = [s \in Session |-> 1]
    /\ calls = [s \in Session |-> 0]
    /\ count = [s \in Session |-> 0]
    /\ seen = [s \in Session |-> {}]
    /\ done = [s \in Session |-> {}]
    /\ held = [s \in Session |-> "gone"]
    /\ alone = [s \in Session |-> TRUE]

\* create_patch_recommendations reads the failures; a bad configuration ends
\* the command before.
Start(s) ==
    /\ pc[s] = "idle"
    /\ runs[s] < MaxRuns
    /\ runs' = [runs EXCEPT ![s] = @ + 1]
    /\ Goto(s, IF config THEN "recommend" ELSE "idle")
    /\ read' = [read EXCEPT ![s] = Len(failures)]
    /\ TurnTo(s, 1)
    /\ calls' = [calls EXCEPT ![s] = 0]
    /\ count' = [count EXCEPT ![s] = 0]
    /\ seen' = [seen EXCEPT ![s] = {}]
    /\ done' = [done EXCEPT ![s] = {}]
    /\ alone' = [t \in Session |->
         IF t = s THEN \A u \in Session \ {s} : pc[u] = "idle" ELSE pc[t] = "idle"]
    /\ UNCHANGED <<envVars, diskVars, held>>

\* The summary and the draft text of a failure: two calls of the provider, each
\* reading the configuration anew and recorded in the ledger.
Summarise(s) ==
    /\ pc[s] = "recommend"
    /\ More(s)
    /\ config
    /\ calls' = [calls EXCEPT ![s] = @ + 1]
    /\ Goto(s, "draft_text")
    /\ UNCHANGED <<envVars, diskVars, runs, read, at, count, seen, done, held, alone>>

\* Variant of DraftText: the second call is not recorded.
DraftTextUnrecorded(s) ==
    /\ pc[s] = "draft_text"
    /\ config
    /\ count' = [count EXCEPT ![s] = @ + 1]
    /\ TurnTo(s, at[s] + 1)
    /\ Goto(s, "recommend")
    /\ UNCHANGED <<envVars, diskVars, runs, read, calls, seen, done, held, alone>>

DraftText(s) ==
    /\ pc[s] = "draft_text"
    /\ config
    /\ calls' = [calls EXCEPT ![s] = @ + 1]
    /\ count' = [count EXCEPT ![s] = @ + 1]
    /\ TurnTo(s, at[s] + 1)
    /\ Goto(s, "recommend")
    /\ UNCHANGED <<envVars, diskVars, runs, read, seen, done, held, alone>>

\* An invalid configuration ends the process with ValueError.
BadConfig(s) ==
    /\ \/ pc[s] = "recommend" /\ More(s)
       \/ pc[s] = "draft_text"
    /\ ~config
    /\ Goto(s, "idle")
    /\ UNCHANGED <<envVars, diskVars, runs, read, at, calls, count, seen, done, held, alone>>

\* The report and its event are written, and the failures read once more.
Recommended(s) ==
    /\ pc[s] = "recommend"
    /\ ~More(s)
    /\ read' = [read EXCEPT ![s] = Len(failures)]
    /\ TurnTo(s, 1)
    /\ Goto(s, "draft")
    /\ UNCHANGED <<envVars, diskVars, runs, calls, count, seen, done, held, alone>>

\* A later failure of the same file and risk is passed over.
Skip(s) ==
    /\ pc[s] = "draft"
    /\ More(s)
    /\ Key(Current(s)) \in seen[s]
    /\ TurnTo(s, at[s] + 1)
    /\ UNCHANGED <<envVars, diskVars, pc, runs, read, calls, count, seen, done, held, alone>>

\* Variants of Consider: a rejected failure is not remembered as seen ...
ConsiderUnseen(s) ==
    /\ pc[s] = "draft"
    /\ More(s)
    /\ Key(Current(s)) \notin seen[s]
    /\ ~Eligible(Current(s), source[Current(s).target])
    /\ done' = [done EXCEPT ![s] = @ \cup {Key(Current(s))}]
    /\ TurnTo(s, at[s] + 1)
    /\ UNCHANGED <<envVars, diskVars, pc, runs, read, calls, count, seen, held, alone>>

\* ... or it is dropped without a reason.
ConsiderSilent(s) ==
    /\ pc[s] = "draft"
    /\ More(s)
    /\ Key(Current(s)) \notin seen[s]
    /\ ~Eligible(Current(s), source[Current(s).target])
    /\ seen' = [seen EXCEPT ![s] = @ \cup {Key(Current(s))}]
    /\ TurnTo(s, at[s] + 1)
    /\ UNCHANGED <<envVars, diskVars, pc, runs, read, calls, count, done, held, alone>>

\* The source is read: a draft follows, or the failure is rejected.
Consider(s) ==
    /\ pc[s] = "draft"
    /\ More(s)
    /\ Key(Current(s)) \notin seen[s]
    /\ seen' = [seen EXCEPT ![s] = @ \cup {Key(Current(s))}]
    /\ LET c == source[Current(s).target] IN
       \/ /\ Eligible(Current(s), c)
          /\ held' = [held EXCEPT ![s] = c]
          /\ Goto(s, "open_patch")
          /\ UNCHANGED <<at, done>>
       \/ /\ ~Eligible(Current(s), c)
          /\ done' = [done EXCEPT ![s] = @ \cup {Key(Current(s))}]
          /\ TurnTo(s, at[s] + 1)
          /\ UNCHANGED <<pc, held>>
    /\ UNCHANGED <<envVars, diskVars, runs, read, calls, count, alone>>

OpenPatch(s) ==
    /\ pc[s] = "open_patch"
    /\ patches' = Emptied(patches, Current(s))
    /\ Goto(s, "patch")
    /\ UNCHANGED <<envVars, rollbacks, drafted, runs, read, at, calls, count, seen, done, held, alone>>

\* Variant of WritePatch: the draft is recorded before its rollback is written.
WritePatchAndRecord(s) ==
    /\ pc[s] = "patch"
    /\ patches' \in Filled(patches, Current(s), held[s])
    /\ Goto(s, "event")
    /\ UNCHANGED <<envVars, rollbacks, drafted, runs, read, at, calls, count, seen, done, held, alone>>

WritePatch(s) ==
    /\ pc[s] = "patch"
    /\ patches' \in Filled(patches, Current(s), held[s])
    /\ Goto(s, "open_rollback")
    /\ UNCHANGED <<envVars, rollbacks, drafted, runs, read, at, calls, count, seen, done, held, alone>>

OpenRollback(s) ==
    /\ pc[s] = "open_rollback"
    /\ rollbacks' = Emptied(rollbacks, Current(s))
    /\ Goto(s, "rollback")
    /\ UNCHANGED <<envVars, patches, drafted, runs, read, at, calls, count, seen, done, held, alone>>

\* Variant of WriteRollback: the source is read again for its hash.
WriteRollbackReread(s) ==
    /\ pc[s] = "rollback"
    /\ rollbacks' \in Filled(rollbacks, Current(s), source[Current(s).target])
    /\ Goto(s, "event")
    /\ UNCHANGED <<envVars, patches, drafted, runs, read, at, calls, count, seen, done, held, alone>>

WriteRollback(s) ==
    /\ pc[s] = "rollback"
    /\ rollbacks' \in Filled(rollbacks, Current(s), held[s])
    /\ Goto(s, "event")
    /\ UNCHANGED <<envVars, patches, drafted, runs, read, at, calls, count, seen, done, held, alone>>

\* patch_draft_created is recorded.
Drafted(s) ==
    /\ pc[s] = "event"
    /\ drafted' = drafted \cup {[failure |-> Current(s), sha256 |-> held[s]]}
    /\ done' = [done EXCEPT ![s] = @ \cup {Key(Current(s))}]
    /\ TurnTo(s, at[s] + 1)
    /\ Goto(s, "draft")
    /\ UNCHANGED <<envVars, patches, rollbacks, runs, read, calls, count, seen, held, alone>>

\* The rejections and the report are written; the command ends.
Finish(s) ==
    /\ pc[s] = "draft"
    /\ ~More(s)
    /\ Goto(s, "idle")
    /\ UNCHANGED <<envVars, diskVars, runs, read, at, calls, count, seen, done, held, alone>>

Die(s) ==
    /\ pc[s] # "idle"
    /\ Goto(s, "idle")
    /\ UNCHANGED <<envVars, diskVars, runs, read, at, calls, count, seen, done, held, alone>>

\* A hunt records a failed probe.
HuntFails ==
    /\ Len(failures) < MaxFailures
    /\ \E f \in Kinds : failures' = Append(failures, f)
    /\ UNCHANGED <<source, config, edits, diskVars, runVars>>

Edit ==
    /\ edits < MaxEdits
    /\ edits' = edits + 1
    /\ \/ \E t \in Target : \E c \in Content \ {source[t]} :
            source' = [source EXCEPT ![t] = c] /\ UNCHANGED config
       \/ config' = ~config /\ UNCHANGED source
    /\ UNCHANGED <<failures, diskVars, runVars>>

Step(s) ==
    \/ Summarise(s) \/ DraftText(s) \/ BadConfig(s) \/ Recommended(s)
    \/ Skip(s) \/ Consider(s)
    \/ OpenPatch(s) \/ WritePatch(s) \/ OpenRollback(s) \/ WriteRollback(s)
    \/ Drafted(s) \/ Finish(s)

Next == (\E s \in Session : Start(s) \/ Step(s) \/ Die(s)) \/ HuntFails \/ Edit

Spec == Init /\ [][Next]_vars

(***************************************************************************)
(* Properties.                                                             *)
(***************************************************************************)
Artifact == [target : Target, of : {"v1", "v2", "empty", "mixed"}]

TypeOK ==
    /\ failures \in Seq(Kinds)
    /\ source \in [Target -> Content]
    /\ config \in BOOLEAN
    /\ edits \in 0..MaxEdits
    /\ DOMAIN patches \subseteq Slug
    /\ \A p \in DOMAIN patches : patches[p] \in Artifact
    /\ DOMAIN rollbacks \subseteq Slug
    /\ \A p \in DOMAIN rollbacks : rollbacks[p] \in Artifact
    /\ drafted \subseteq [failure : Failure, sha256 : {"v1", "v2"}]
    /\ pc \in [Session -> {"idle", "recommend", "draft_text", "draft", "open_patch", "patch",
                           "open_rollback", "rollback", "event"}]
    /\ runs \in [Session -> 0..MaxRuns]
    /\ read \in [Session -> 0..MaxFailures]
    /\ at \in [Session -> 1..(MaxFailures + 1)]
    /\ calls \in [Session -> Nat]
    /\ count \in [Session -> Nat]
    /\ seen \in [Session -> SUBSET {Key(f) : f \in Failure}]
    /\ done \in [Session -> SUBSET {Key(f) : f \in Failure}]
    /\ \A s \in Session : done[s] \subseteq seen[s]
    /\ held \in [Session -> Content]
    /\ alone \in [Session -> BOOLEAN]

\* Every recorded draft has both its artifacts on disk, for its own file unless
\* the slug of another file is the same, whichever session wrote them last and
\* whenever another one died (patch_drafter.py:97-101, 49).
DistinctSlugs == \A t, u \in Target : SlugOf[t] = SlugOf[u] => t = u
DraftsAreBacked ==
    \A d \in drafted :
        LET t == d.failure.target IN
        /\ SlugOf[t] \in DOMAIN patches \cap DOMAIN rollbacks
        /\ DistinctSlugs => /\ patches[SlugOf[t]].target = t
                            /\ rollbacks[SlugOf[t]].target = t

\* No failure is dropped: a run that comes to its end has drafted or rejected
\* the file and risk of every failure it read (patch_drafter.py:29-48).
EveryKeyDecided ==
    \A s \in Session : pc[s] = "draft" =>
        {Key(failures[i]) : i \in 1..(at[s] - 1)} = done[s]

\* Each recommendation in the report has its two records in the ledger, and no
\* record is without its recommendation but those of a run that broke off
\* (patch_recommender.py:30-55).
LedgerCoversRecommendations ==
    \A s \in Session : pc[s] \notin {"idle", "draft_text"} => calls[s] = 2 * count[s]

\* When a session that was alone at work records a draft, the diff and the
\* rollback instructions on disk were made from the text it read, also after a
\* session that died between the two and though the owner edits the source
\* meanwhile (patch_drafter.py:83-101).
SealedTogether ==
    \A s \in Session : pc[s] = "event" /\ alone[s] =>
        LET p == SlugOf[Current(s).target] IN
        /\ patches[p] = [target |-> Current(s).target, of |-> held[s]]
        /\ rollbacks[p] = patches[p]

(* What the documentation says, and the code does not do. *)

\* "Writes eligible unified diff and rollback artifacts" (README.en.md:89): a
\* run at whose end a failure it read is eligible has drafted that file.
EligibleGetsDraft ==
    \A s \in Session : pc[s] = "draft" /\ ~More(s) /\ edits = 0 =>
        \A i \in 1..read[s] : Eligible(failures[i], source[failures[i].target]) =>
            \E d \in drafted : d.failure.target = failures[i].target
=============================================================================
