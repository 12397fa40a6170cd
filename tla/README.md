# MycoPatch in TLA+

MycoPatch (`src/mycopatch`) is a local command line tool. It scans a repository for risky
date handling and two Python bug patterns, writes a probe test for each risk, runs the
probes, remembers what came out in append-only JSONL files, and drafts patches and reports
from that memory. Nothing coordinates two `myco` processes: they meet in the files below
`.myco/`, which the owner of the repository edits as well, and each can be killed between
any two system calls. That is where a unit test hardly reaches and where these modules look.

## 1. Inventory

| Component | State it keeps | Operations | Meets the others through |
|---|---|---|---|
| Event memory, cost ledger (`core/memory`, `core/cost`, `core/jsonl`) | one JSONL file per kind of event, the ledger | append, read all, audit | every command appends; reports, patches and `doctor` read |
| Hunt (`cli.hunt`, `core/probe_generator`, `core/verifier`) | probe files, tokens consumed | scan, select, ask for ideas, generate, run, record | memory, ledger, provider, sandbox |
| Recommendations and drafts (`core/patch_recommender`, `core/patch_drafter`) | diffs and rollback notes in `.myco/reports/patches/` | recommend, draft, record | reads probe failures, asks the provider, appends drafts |
| Model providers (`providers/`) | none of their own; the configuration | gate, request, fall back, charge, record | configuration file, network, ledger |
| Project verification (`cli.verify`, `core/verification`) | none of its own | select profiles, refuse, run, record | ecosystem detection, policy, sandbox, memory, ledger |
| Ecosystem detection (`core/ecosystem_scanner`) | none | walk, offer profiles, choose directories | verification, display |
| Command policy, runner (`sandbox/`) | none | accept or refuse a command, run it under a timeout | hunt and verification |
| Layout (`core/paths`, `cli.init`) | `.myco/`, its configuration, constitution, spores | create what is missing | everything lives there |
| Scanner, analyzers (`core/repo_scanner`, `core/*_analyzer`), risk scoring (`core/risk_mapper`) | none | pure functions of the sources | hunt, display; the draft is made of the same text |
| Spores, `doctor` (`core/spore_loader`, `cli.doctor`) | none | list and read the spores of the layout | reads what `init` writes; `hunt` and `spores` load them too |
| Reports (`core/reporter`) | none | read memory and ledger, add up | reads beside hunts that append |
| Explanations, other display commands, data models | report files | render | read only |

What is hard, and what makes each part correct:

* **Memory.** Short writes, kills and two writers in one file. Correct when what was
  acknowledged and can be read stays readable, when nothing is lost without a diagnosis,
  and when damage stays beside the write that caused it.
* **Hunt.** A loop with many exits, each of which must leave exactly the right events; a
  budget that is checked before and charged after; probe files that another hunt empties
  while a test process loads them; sources edited between the scan and the verdict. Correct
  when each risk has its answer, and when a verdict is that of a test of its risk, a whole one but for
  two hunts at work on one and the same.
* **Drafts.** Several writes per draft, sources edited in between, repeated runs, and three
  different counts of lines in one transformation. Correct when a recorded draft has both
  its artifacts, no failure is dropped, and a draft changes the calls and nothing else.
* **Providers.** Permission read anew by each call; several exits after a request has been
  sent. Correct when nothing leaves without consent and each answer has its record.
* **Verification.** Directories, tools and permissions change under it; the exit code must
  agree with the outcomes. The scanner's commands and the policy's list must agree.
* **Layout and doctor.** exists() and write are two steps, and a reader may come between.
  Correct when init never overwrites what was there, when success means that everything is
  there, and when nothing but a death or the owner leaves a spore that ends its readers.
* **Scanner and scores.** Sums with a floor, names bound and compared in any order. Correct
  when no code added makes a file look safer, and when what the floor drops is weak.
* **Reports.** Figures of three files read one after the other. Correct when they add up.

`PROJECT.json` lists these under "hazards", each at its line with its properties.

## 2. Modules

| Module | Models | Actions |
|---|---|---|
| `MycoLog` | the JSONL files, byte by byte as far as line structure is concerned | `Call`, `WriteLine`, `ShortWrite`, `WriteRest`, `Abort`, `StartRead`, `ReadFile` |
| `EventStore` | what callers of the memory may count on, without files | `Offer`, `Keep`, `Lose`, `Fault` |
| `Hunt` | `myco hunt` from scan to the last recorded outcome, with its probe files and test processes | `Scan` ... `Outcome`, `Die`, `Edit` |
| `Report` | `myco report` beside hunts; extends `Hunt` | those of `Hunt`, `ReadMemory`, `ReadLedger`, `Show` |
| `PatchDrafts` | `myco patch --draft-diffs` | `Start`, `Summarise`, `DraftText`, `Consider`, the four writes, `Drafted`, `Finish`, `Die`, `HuntFails`, `Edit` |
| `ModelProvider` | `invoke_model_provider` and the three providers | `Call`, `Refuse`, `Local`, `Send`, `Answered`, `Unreachable`, `Raised`, `RecordCost`, `Return`, ... |
| `Consultation` | what callers of the provider and the owner may count on, without network and process | `Decide`, `Ask`, `Request`, `Record`, `Reply`, `GiveUp` |
| `Ecosystems` | detection: which files offer which profile, where it runs, in which order | pure |
| `CommandPolicy` | every list and check of the policy | pure |
| `DocumentedPolicy` | what the documentation and the tests list, compared with `CommandPolicy` | pure |
| `Verify` | `myco verify`; extends `Ecosystems` and `CommandPolicy` | `Start`, `Select`, `Refuse`, `Run`, `StartTests`, `TestsEnd`, `NotText`, `Cost`, `Exit`, `Die`, `Edit` |
| `Layout` | `myco init` | `Start`, `MakeDirs`, `Check`, `Open`, `Fill`, `Return`, `Leave`, `Die`, `Edit` |
| `Doctor` | `myco doctor` beside the inits; extends `Layout` | those of `Layout`, `List`, `ReadSpore`, `Fail`, `End` |
| `Scan` | from the text of a file to its risks: signals, scores, confidence | pure |
| `SourceFile` | the life of one file; extends `Scan` with the drafter's transformation | `Insert`, `Draft`, `Apply` |
| `MycoLogProofs`, `EventStoreProofs`, `HuntProofs`, `PatchDraftsProofs`, `ModelProviderProofs`, `VerifyProofs`, `LayoutProofs`, `SourceFileProofs` | the theorems (section 4) | |

The modules `MC...` give the constants their values. An action ends where the code does
something others can see, or reads something others may change. `map` in `PROJECT.json` gives
the lines of each definition. An operator introduced by "Variant of" is the definition after it
with a mistake put in; it is there to show that the properties notice.

How the data is abstracted:

* **A record of the log** is a name. A file is the sequence of pieces written to it: a whole
  line, a proper prefix (`head`) and what it lacks (`tail`), or the JSON without its newline
  (`body`) and the newline (`nl`). This keeps everything the reader depends on: where lines
  begin and end, and whether a line is one whole record. `json.dumps` escapes to ASCII, so no
  cut falls inside a character. An append has at most one short write; a second one would
  leave a `head` in two pieces, which reads like one. The buffered text layer of Python writes
  the rest of a short write itself, which is `WriteRest`.
* **A source** in `Hunt` says for each kind of risk what scanner and probe make of it: nothing
  (`absent`), a signal without a pattern (`bare`), a risk whose literal a probe finds (`literal`), or
  one the syntax shows while the text lacks that literal (`spread`). A source can also be gone, or
  not be UTF-8 (`undecodable`): the scanner takes such a one for empty, and pytest's test of it
  fails with 1. A Python file has up to three risks, ordered by score, path and kind. What scores
  a scan gives is left open (`Scorings`; `Scan` computes them). A file has one line of each kind of
  risk, and is no longer than the 512,000 bytes the scanner reads of it. In `PatchDrafts` a
  source is gone, untransformable, or one of two versions.
* **A probe** holds nothing, a whole test, or what is left of tests that met in the file or were cut
  by a failed write (`whole`). What is left of one may end in any way: pass, fail, or not be
  collected. The return codes are those of the test itself, 4 or 1 for a file that went between the
  check and the start, and `Broken`, which stands for every other end of a test process (timeout,
  not started, signal, the repository's own pytest configuration); the configuration is assumed
  not to turn those into 0 or 1. The owner does not remove a probe while it is being written.
* **A text** in `Scan` and `SourceFile` is a sequence of lines, and a line is what it means to the
  tools: an import, a call, a binding, a comparison, a string that spells a call, a form feed.
  The columns of a line are left out, but not the three ways of counting lines: the tokens count
  line ends, `splitlines` counts form feeds as well (`Separators`, `LineOfPiece`). Whatever names
  `timezone` in an import from datetime counts as bringing it (`WithTimezone`): with datetime or
  alone, at the head or inside a function.
* **The ranking and the selection** of `Hunt` and `Verify` are sets of sequences, of those that are
  sorted and complete (`Ranked`, `Selections`), which can be reasoned about without the recursion
  inside `SelectSeq` and `SortSeq`. In `Hunt` there is exactly one, and it is described by where each
  risk stands in it (`SelectionUnique`); in `Verify` there is always one (`SelectionExists`).
* **A configuration** is the fields the gates read. Prompts, answers and report texts are left
  out; token counts are small numbers. The aggressive explanation (`.md`) beside a probe and
  the generated `conftest.py` are left out, nothing reads them back but pytest.
* **A command** is a sequence of words, and a word a name. What the policy looks for inside a
  word (a fragment or a part of one, the probe directory and suffix, capitals) is given by the
  constants `Hidden`, `Ending`, `Starting`, `Generated` and `Capital`. The fragments are sought in the
  words joined by blanks, and a word may hold blanks itself, so a fragment may end in the middle of
  a word and start in the middle of another.
* **A repository** in `Verify` is a set of files, each a directory, a name and whether it is a
  link. Framework hints are left out, nothing depends on them.

How the parts meet: `Verify` takes its plans from `Ecosystems` and asks `CommandPolicy` before it
runs one. `Hunt`, `PatchDrafts`, `ModelProvider` and `Verify` record events as one atomic append.
`MycoLog` says when that is right: with no short write, `WriteLine` is one step, and `EventStore`
states what holds with one. `Hunt` sees the provider as one step that records its call or ends
the process; `ModelProvider` opens that step. `PatchDrafts` takes the failures hunts record
(`HuntFails`) as input, and sees the transformation of a text as possible or not; `SourceFile` opens
that step, from the same text that `Scan` scores. `Report` and `Doctor` only read: their steps leave
the variables of the modules they extend as they are, and the others' steps go on between them.

## 3. Runs

| Run | Shows |
|---|---|
| `log` | two writers and a reader over two files and four records: `AckedStaysReadable`, `LostIsDiagnosed`, `LostBesideTear`, `ReaderMissesNothing`, and that the files implement `EventStore` (`ImplementsStore`) |
| `log_recovery` | a divergence: an acknowledged record behind a torn one is not readable |
| `hunt_pair` | two hunts of one Python file in both modes, with risks of two kinds, with and without `--run` and with a budget below the reservation, the owner intervening twice: `VerdictsAreEarned`, `ProbesAccounted`, and every hunt ends (`HuntEnds`) |
| `hunt_solo` | one hunt over a Python and a JavaScript file with up to four risks, with and without `--run`, `--dry-run`, filters and limits, and reports beside it: `EveryRiskAnswered`, `BudgetHolds`, `ReportAddsUp` |
| `hunt_budget` | a divergence: the budget is passed |
| `patch_drafts` | two sessions, two files, deaths, edits and new failures: `DraftsAreBacked`, `EveryKeyDecided`, `LedgerCoversRecommendations`, `SealedTogether` |
| `patch_shadowed` | a divergence: a safe failure hides an eligible aggressive one |
| `model_provider` | every kind of provider and a configuration edited between and during calls: `NetworkNeedsConsent`, `ResponsesLedgered`, `NetworkRecordsSent`, and that the calls implement `Consultation` (`ImplementsConsultation`), which holds each record within its limit and each call to one request |
| `model_provider_raised` | a divergence: a call that ends in an unforeseen exception has no record |
| `verify` | seven repositories, every command line, two changes from outside: `ProfilesAccounted`, `ExitTellsTruth`, `TestsWereAllowed`, `NoProfileBlocked`, and the command ends (`CommandEnds`); for every command of up to three words of a vocabulary of 34, the chain of early returns accepts what `docs/safety.md` and the tests list, no more and no less (`PolicyAsDocumented`) |
| `source_text` | every Python text of up to four lines out of fourteen, and every JavaScript text out of six, written in any order, drafted and applied at any moment: `DroppedAreWeak`, `DraftIsExact`, `SignalsOnlyAdd`, `AppliedDraftWorks` |
| `layout` | two processes that initialise twice each, dying and being edited under, and a doctor beside them: `LaidOut`, `InitRecorded`, `SafeToRunAgain`, `DoctorAnswers` |

**Bounds.** Two sessions are enough for the interference there is: each conflict is between one
writer and another, and a third only repeats it. In `log`, three records share a file so that a torn
line, its victim and a later good line coexist, and a fourth stands in the file read second.
`hunt_pair` has one file because sessions meet only on a shared probe or source; the owner takes it
away, makes it undecodable, or leaves of its risks only the swallowed exception or a bare signal.
`hunt_solo` has two files, and three risks in one of them, so that a risk can be refused, exceed the
budget and come after one that did; its two scorings put the best risk in either file, and let two
risks of one file score alike. `hunt_budget` has three files with one risk each. `MaxEdits` is 1 or
2: one edit makes a read stale, a second undoes it. `MaxRuns` is 2 in `layout`, where a second run
meets what a dead one left; one of its two files is a spore, which is what `doctor` reads. The runs
of `verify` start from manifests in the root, in a directory, in both or nowhere, a linked one, and
one in an ignored directory. The four-word prefix of `CommandPolicy` (`python -m pip install`) is
beyond three words; such a command is refused by another check as well. `source_text` has four lines
for an import, a call, what stands between them (a form feed, another import, a string that spells
the call) and one more; the fourteen Python lines are one of each way a line matters to the drafter
or to the order of bindings (datetime and timezone each imported at the head or inside a function;
both in one import is what an applied draft makes), the six of JavaScript one of each signal.
Weights that no such text shows together are covered by the theorems, which are about all lines.
Deadlock is not checked where the system comes to rest: commands end and the bounds are used up. In
`log` a reader can always start, and deadlock is checked.

**Fairness.** Only `hunt_pair` and `verify` assume any: weak fairness of the steps of a command
(`Step`), none of deaths, edits or starts. A running process goes on; a test process ends by
itself or is ended by the timeout of `subprocess.run` (`runner.py:39`), which every call passes.
The other runs check safety and assume none.

## 4. What is proved

Eight modules hold theorems; each says `Spec => ...` for every value of the constants, and each rests
on the named assumptions of its module and on nothing else. The inductive invariants have been
checked by TLC on the instances above (`SourceInv`, which quantifies over all texts, with the text
of the draft in the quantifier's place).

| Module | Theorems | Inductive invariant |
|---|---|---|
| `MycoLogProofs` | `TypeCorrect`, `AckedDurable`, `LossIsDiagnosed`, `LossBesideTear`, `ReadComplete` | `LogInv` |
| `EventStoreProofs` | `StoreImplemented`: `MycoLog` implements `EventStore` | `StoreInv` |
| `HuntProofs` | `TypeCorrect`, `EachProbeAccounted`, `BudgetBounded`, `NoRiskPassedOver`, `EarnedVerdicts`, `BestRisksFirst`, `SelectionUnique`, `HuntRunsOut`; of `Report`: `ReportsAddUp` | `HuntInv`, `ReportInv` |
| `PatchDraftsProofs` | `TypeCorrect`, `DraftsBacked`, `NoFailureDropped`, `LedgerCovers`, `Sealed` | `PatchInv` |
| `ModelProviderProofs` | `TypeCorrect`, `Consent`, `RecordsOfRequests`, `WithinLimit`, `OneRecordEach`, `ConsultationImplemented`: `ModelProvider` implements `Consultation` | `ProviderInv`, `ConsultInv` |
| `VerifyProofs` | `TypeCorrect`, `Accounted`, `TruthfulExit`, `OnlyAllowedTests`, `SelectionExists`, `OfferedProfilesPass`, `PolicyMatchesDocumentation`, `CommandRunsOut` | `VerifyInv` |
| `LayoutProofs` | `TypeCorrect`, `Installed`, `FirstInitRecorded`, `Harmless`, `DoctorUnharmed` | `LayoutInv` |
| `SourceFileProofs` | `TypeCorrect`, `OnlyWeakDropped`, `ExactDraft`, `NothingHidden`, `DraftsThatWork` | `SourceInv` |

**Memory.** That a record cannot be read says nothing of where its pieces are, and two sessions
with the same record could undo each other. `LogInv` adds what is needed: `WritersApart` (a record
in hand is begun, not acknowledged, and in one hand), `PartsWritten` (what a session left after a
short write is on disk), `AckedPlaced` (an acknowledged record has all its pieces in its file),
`AckedFinished` (none of its unfinished pieces is the last of a file) and `AllPlaced` (each piece
stands on a line that is closed somewhere). An append changes the file behind its last piece only,
so a line that was ended parses as before (`ParsesStable`), and the last line changes only if it was
unfinished, when by `AckedFinished` no acknowledged record is on it in part. Assumed: each record has
its file (`TargetAssumption`), the reading order is one of files (`ReadOrderAssumption`); the sets
may be infinite.

**Refinement.** Each step of `MycoLog` is one of `EventStore` or changes nothing there: a call is an
`Offer`, a short write a `Fault`, a return a `Keep` or a `Lose`. The hard part is that `Lose` has its
allowance: a short write costs two acknowledged records at most. `StoreInv` adds that a record is
torn once in a file (`OneTear`), that who is about to write has nothing on disk (`Unwritten`) and that
the counted sets are finite. Each loss is then charged to its own tear, or else to the one it was
appended behind, and no tear is charged twice in one of the two ways (`LossesCounted`, by
`FS_Injection`).

**Hunt.** `EventsInHand` says which of its three events a generated probe still waits for at each
step, `Spending` bounds what is consumed at each step, and `AnsweredSoFar` counts the outcomes
against the risk in hand. `ProbesNamed` says that a probe file is empty or holds a test of its own
path, whoever wrote it, and `DamageShared` that who meets a damaged one is not alone at its path: what
a session finds in a file it has emptied itself was written by another. With `DistinctPaths`
both make a verdict one of the right risk and mode, and a whole test's unless another session was
hunting the same. Assumed (`HuntAssumption`): finitely many files, at different places in the order
of paths; scores are natural numbers, whatever a scan gives; `Broken` codes are neither 0 nor 1; the
estimates are bounded, `AskTokens` and `ProbeTokens` have a largest element. Score, path and kind
order the risks of one scan totally, also where two risks of one file score alike: hence a ranking
exists and is the only one (`Sorting`: with `k` risks before it a risk stands at place `k + 1`, which
fills all places), and what `--limit` keeps comes before all it leaves. `BestRisksFirst` says so of
every scan: what is cut off scores lower than all that is kept, or the same and comes later.

**Report.** `ReportInv` bounds what has been counted so far together with what the files not yet read
hold at this moment: a probe counted as generated has its outcome in the file read after it and
its record in the ledger, or was unanswered when the report began. It is true at the first read
because an outcome stands two places behind its probe in the log and its record one, which is an
injection of the probes into either (`CountedNow`, by `FS_Injection`), and stays true because logs
only grow (`EventsGrow`). Assumed (`ReportAssumption`): finitely many sessions, as there are
finitely many processes; otherwise nothing could be counted.

**Steps that run out.** Liveness itself is model-checked, but what it needs of the code beside
fairness is proved: `Left` counts the steps a hunt, or a verification, may still take. No step of
anyone raises it but the start of a new command, each step of the command lowers it, and it is zero
exactly when the command has ended (`HuntRunsOut`, with at most 24n + 3 for n files, each of which
may have three risks; `CommandRunsOut`, with 5n + 1 for n selected profiles). So a command cannot go
round in circles, whatever the owner and other commands do meanwhile.

**Drafts.** `CallsPaired` (two ledger records per recommendation but for the one in hand),
`DecidedSoFar` (what is seen and what is decided differ by the failure in hand), `ArtifactsNamed` (a
file in `patches/` is of its slug and never removed), `AloneUndisturbed` (what a session that was
alone has written is on disk as it wrote it).

**Providers.** `ConfigAsRead` (a call works with the configuration that was there when it began),
`SentFirst` (behind a network answer is a request of that call), `RecordedOnce` and `CallersServed` (one
record per call, one caller per record but for the session that is returning or dead).

`Consultation` has no network, no fallback and no configuration file: a call carries the leave that
held when it was asked. `ConsultInv` adds `SentOnce` (a call at its gate has sent nothing), so that
a request is the first of its call; `Refuse`, `Local`, `Answered` and `Unreachable` change nothing
there, an exception or a death gives the call up. That a limit lowered during a call, a
permission withdrawn or an edit that makes the file invalid changes nothing for a call under way
is part of it.

**Verification.** `Counted` (the log modulo three tells the step), `InHand`, `Permitted` (a test
that runs has the permission its command started with). `EcosystemsAssumption` says that there is a
root. The profile in hand is one the scanner knows because `Selections` are sequences of `Planned`
ones. `OfferedProfilesPass` takes each command the scanner offers through each check of the policy;
`PolicyMatchesDocumentation` compares the chain of early returns with the documented lists for
commands of any length over any words. Both rest on `PolicyAssumption`: the words the policy knows
are written in lower case and hold none of what it looks for inside a word, which one sees by
reading them (`command_policy.py:5-22`, `:142-150`).

**Layout.** `BehindLaidOut` (behind a session each file is there or was removed meanwhile),
`AbsentMissed` (what is absent has been missed by all at work), `EventOnTheWay` (while nobody died,
one who found no directory is still to record it), `CutUnderWay` (a file is cut only under the hands
of a process, or when one died upon it).

**Texts.** A draft is what the transformation made of an accepted text (`DraftedFrom`). The lemmas are
about offsets: each piece of `splitlines` has its line (`PieceHasLine`) and above the first form feed
it is the line of the same number (`AboveFormFeed`). `NothingHidden` compares sums of weights, whose
only negative term does not depend on the text.

**Drafts that work.** `DraftsThatWork` follows a text without form feeds through the draft and a second
scan: the draft is the text with each plain call replaced and `timezone` added to one import
(`AppliedWorks`), so no line gives a signal it did not give before (`PatchedMilder`), the calls are
gone (`CallsGone`), and where all imports of datetime and timezone are the module's own and stand
above a call, one of them binds `timezone` there (`TimezoneBound`): the patched one, or the one that
brought it before. `AppliedDraftWorks` promises nothing with an import inside a function, and the code
does not keep more (section 5).

Every invariant and every action property of a passing run is the statement of a theorem. Only
model-checked are `HuntEnds` and `CommandEnds`: liveness under fairness is out of the prover's
reach, and `Left` is the part of it that is proved.

## 5. Where the code and its documentation part

Each has a run that shows it and an entry under "findings":

* A record appended behind a torn line is lost to every reader, though it was acknowledged
  (`memory.py:33`; `docs/roadmap.md:58` speaks of recovering valid memory).
* The budget is called hard (`README.en.md:79`) and can be passed, by what the last probe takes
  beyond its reservation (`cli.py:292`). `BudgetHolds` gives the bound.
* A safe failure marks its file as seen and hides the eligible aggressive one (`patch_drafter.py:36`).
* A provider exception other than `ModelProviderError` leaves no ledger record (`service.py:56`).

Seen while modelling, without a run of their own:

* Below a form feed the offsets of the drafter are short (`patch_drafter.py:209`): a string or a
  comment that spells `datetime.utcnow()` may be replaced instead of the call, which the test at
  `tests/test_patch_drafter.py:71` excludes for a text without one. `DraftIsExact` says what holds.
* The import that gets `timezone` is the last that `ast.walk` meets, of any scope
  (`patch_drafter.py:160`), and an import of `timezone` of any scope leaves the one at the head alone
  (`patch_drafter.py:157`). With an import inside a function a call elsewhere may then raise
  `NameError`; hence the condition in `AppliedDraftWorks`.
* The hash of a file with CRLF line ends is taken of its translated text and is not that of the file.
* A text that does not parse, or is cut at 512,000 characters, loses all its evidence in silence
  (`repo_scanner.py:180`); a form feed shifts the snippets shown as evidence.
* A broken spore ends `myco doctor` with a traceback, the command an invalid configuration sends
  its user to (`cli.py:595`).
* Test output that is not UTF-8 raises out of `run_command`; the profile or probe has no outcome
  (`NotText` in `Verify`, `Die` in `Hunt`).
* Timeouts (124), processes that did not start (126), and pytest's codes for a collection that
  failed, an internal error, a missing file and no tests (2, 3, 4, 5) are recorded as failures like
  any other (`Outcome`, `TestsEnd`); only their return codes tell them apart, and
  `VerdictsAreEarned` is about 0 and 1. A source that cannot be decoded fails with 1, like a missing
  marker (`probe_generator.py:117`).
* Two hunts of one risk may leave one probe with the tail of the other (`probe_generator.py:38`), and
  the verdict is then of neither (`FillProbe`).
* An aggressive Python probe of a `spread` source passes, for the literal is not in the text: that is why
  `VerdictsAreEarned` speaks of the marker and not of the risk.
* Two targets may share a slug, and then a probe or a diff (`DistinctPaths`, `DistinctSlugs`).
* A diff is written non-atomically: a session that dies upon it, or another one, leaves it torn.
* A file cut by a dying init exists, and no later init repairs it (`CutUnderWay`); the event
  `repo_initialized` is lost by a death after `mkdir` and doubled by two first inits.
* A manifest that offers a profile but says nothing of where to run it (`go.sum`, `tsconfig.json`)
  sends the tests to the root (`Workdir`).

## 6. Not modelled

Explanations and the Markdown reports render what has been read; the console report stands for
them. Review steps, reasons, snippets and the wording of anything are left out, as are framework
hints and the hints from `package.json`, on which nothing depends. The walk of the scanner over
directories is that of `Ecosystems` with other suffixes; `Hunt` takes the files it finds as given.
The data models are schemas; the fields that matter are records of the modules. The display
commands `scan`, `ecosystems`, `risks` and `memory` print what `Scan`, `Ecosystems` and `MycoLog`
hold. The operating system is modelled as far as its writes and processes are visible; `fsync` is
never called, and losses at a power failure are left out.

## 7. Plan

Done: all components of section 1 but those of section 6, abstract specifications of the memory and
of the provider with proved refinements, and theorems for every safety property the runs check.
What is left, in this order:

1. `Hunt` over `MycoLog` for one session, so that its atomic events are shown and not assumed.
2. An abstract specification of init (an idempotent installer) refined by `Layout`.
3. A run for the draft below a form feed, and the hunt's probe commands through `CommandPolicy`
   instead of the constant `Denied`.

A run is repeated with `tlc -config <cfg> <module>`, a proof with `tlapm <module>` for each of the
modules that end in `Proofs`.
