------------------------------- MODULE Report -------------------------------
(***************************************************************************)
(* `myco report` beside the hunts it reports on: build_console_report of   *)
(* core/reporter.py, which reads the memory with read_memory_events and    *)
(* then the ledger with summarize_cost.                                    *)
(*                                                                         *)
(* Nothing is locked: the report opens one file after the other while      *)
(* sessions append to them.  That a file read during an append may lack    *)
(* the line being written is the subject of MycoLog; here an event is in   *)
(* its file or not.                                                        *)
(***************************************************************************)
EXTENDS Hunt

ASSUME ReportAssumption == IsFiniteSet(Session)

VARIABLE
    report      \* the report in the making: files read, events counted, and
                \* probes unanswered when the first file was read

reportVars == <<vars, report>>

Blank == [read |-> 0, generated |-> 0, answered |-> 0, costs |-> 0, open |-> 0]

\* EVENT_FILE_MAP, for the events of a hunt.
FileOf(type) ==
    IF type \in {"cost_recorded", "model_call_recorded"} THEN "cost_ledger"
    ELSE IF type \in Outcomes \ {"probe_failed"} THEN "negative_results"
    ELSE "failure_patterns"

\* Variant of MemoryFiles: the files come in another order.
MemoryFilesReversed == <<"negative_results", "failure_patterns">>

\* The files of the memory, sorted by name.
MemoryFiles == <<"failure_patterns", "negative_results">>

\* The events of these types in a file: where they stand in the logs.
Events(file, types) ==
    UNION {{<<s, i>> : i \in {j \in DOMAIN log[s] : /\ log[s][j].type \in types
                                                  /\ FileOf(log[s][j].type) = file}} : s \in Session}

Count(file, types) == Cardinality(Events(file, types))

\* Probes that were generated and have no outcome yet.
Unanswered ==
    UNION {{<<s, i>> : i \in {j \in DOMAIN log[s] : /\ log[s][j].type = "probe_generated"
                                                  /\ j + 2 > Len(log[s])}} : s \in Session}
Open == Cardinality(Unanswered)

ReportInit == Init /\ report = Blank

\* The next file of the memory is read.
ReadMemory ==
    /\ report.read < Len(MemoryFiles)
    /\ LET file == MemoryFiles[report.read + 1]
       IN  report' = [report EXCEPT !.read = @ + 1,
                                    !.generated = @ + Count(file, {"probe_generated"}),
                                    !.answered = @ + Count(file, Outcomes),
                                    !.open = IF report.read = 0 THEN Open ELSE @]
    /\ UNCHANGED vars

\* summarize_cost reads the ledger.
ReadLedger ==
    /\ report.read = Len(MemoryFiles)
    /\ report' = [report EXCEPT !.read = @ + 1, !.costs = Count("cost_ledger", {"cost_recorded"})]
    /\ UNCHANGED vars

\* The table is printed.
Show == report.read > Len(MemoryFiles) /\ report' = Blank /\ UNCHANGED vars

ReportNext == (Next /\ UNCHANGED report) \/ ReadMemory \/ ReadLedger \/ Show

ReportSpec == ReportInit /\ [][ReportNext]_reportVars

(***************************************************************************)
(* Properties.                                                             *)
(***************************************************************************)
\* The report adds up while hunts go on: a probe it counts as generated is among
\* the passed, failed and inconclusive ones, or was still unanswered when the
\* report began, and so for its record in the ledger.  This rests on the names
\* of the files: failure_patterns.jsonl, where the generated ones are, is read
\* before negative_results.jsonl (memory.py:43, reporter.py:122-149).
ReportAddsUp ==
    /\ report.read >= Len(MemoryFiles) => report.generated <= report.answered + report.open
    /\ report.read > Len(MemoryFiles) => report.generated <= report.costs + report.open
=============================================================================
