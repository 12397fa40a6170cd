------------------------------- MODULE Layout -------------------------------
(***************************************************************************)
(* `myco init` (cli.py, core/paths): the directory .myco/, its configura-  *)
(* tion, constitution, logs and copies of the built-in spores.             *)
(*                                                                         *)
(* Several processes may initialise one repository, one after another or   *)
(* at the same time, and each may die between two steps; the owner edits,  *)
(* replaces and removes what was installed.  A file is                     *)
(*   "absent"   not there                                                  *)
(*   "cut"      emptied for writing, or written in part                    *)
(*   "default"  what init installs                                         *)
(*   "own"      what the owner made of it                                  *)
(***************************************************************************)
EXTENDS Integers, Sequences

CONSTANTS
    Session,    \* processes that initialise
    File,       \* the files of the layout that have a content
    Order,      \* the order in which init comes to them
    MaxRuns,    \* bound: runs of a session
    MaxEdits    \* bound: interventions of the owner

ASSUME LayoutAssumption ==
    /\ Order \in Seq(File)
    /\ File = {Order[i] : i \in DOMAIN Order}
    /\ MaxRuns \in Nat /\ MaxEdits \in Nat

VARIABLES
    dir,        \* whether .myco is a directory
    disk,       \* disk[f]: the file f
    events,     \* how many repo_initialized events were recorded
    pc,         \* pc[s]: the next step of s
    runs,       \* runs[s]: how often it was started
    first,      \* first[s]: it found no .myco
    at,         \* at[s]: the file it has come to
    missed,     \* history: the files that were absent at some time since s started
    removed,    \* history: those the owner has removed since
    torn,       \* history: the files a process died upon
    died,       \* history: whether a process has died
    edits       \* how often the owner has intervened

runVars == <<runs, first, at>>
history == <<missed, removed, torn, died>>
vars == <<dir, disk, events, pc, runVars, history, edits>>

Goto(s, l) == pc' = [pc EXCEPT ![s] = l]
Present == {f \in File : disk[f] # "absent"}

Init ==
    /\ dir = FALSE
    /\ disk = [f \in File |-> "absent"]
    /\ events = 0
    /\ pc = [s \in Session |-> "idle"]
    /\ runs = [s \in Session |-> 0]
    /\ first = [s \in Session |-> FALSE]
    /\ at = [s \in Session |-> 1]
    /\ missed = [s \in Session |-> {}]
    /\ removed = [s \in Session |-> {}]
    /\ torn = {}
    /\ died = FALSE
    /\ edits = 0

\* is_initialized
Start(s) ==
    /\ pc[s] = "idle"
    /\ runs[s] < MaxRuns
    /\ runs' = [runs EXCEPT ![s] = @ + 1]
    /\ first' = [first EXCEPT ![s] = ~dir]
    /\ missed' = [missed EXCEPT ![s] = File \ Present]
    /\ removed' = [removed EXCEPT ![s] = {}]
    /\ Goto(s, "mkdir")
    /\ UNCHANGED <<dir, disk, events, at, torn, died, edits>>

\* The directories are made, with their parent.
MakeDirs(s) ==
    /\ pc[s] = "mkdir"
    /\ dir' = TRUE
    /\ at' = [at EXCEPT ![s] = 1]
    /\ Goto(s, "check")
    /\ UNCHANGED <<disk, events, runs, first, history, edits>>

\* Variants of Check: the first file that is there ends the installation ...
CheckFirst(s) ==
    /\ pc[s] = "check"
    /\ at[s] <= Len(Order)
    /\ IF disk[Order[at[s]]] = "absent"
       THEN Goto(s, "open") /\ UNCHANGED at
       ELSE at' = [at EXCEPT ![s] = Len(Order) + 1] /\ UNCHANGED pc
    /\ UNCHANGED <<dir, disk, events, runs, first, history, edits>>

\* ... or a file that is there is installed anew.
CheckNothing(s) ==
    /\ pc[s] = "check"
    /\ at[s] <= Len(Order)
    /\ Goto(s, "open")
    /\ UNCHANGED <<dir, disk, events, runVars, history, edits>>

\* A file that exists is left alone.
Check(s) ==
    /\ pc[s] = "check"
    /\ at[s] <= Len(Order)
    /\ IF disk[Order[at[s]]] = "absent"
       THEN Goto(s, "open") /\ UNCHANGED at
       ELSE at' = [at EXCEPT ![s] = @ + 1] /\ UNCHANGED pc
    /\ UNCHANGED <<dir, disk, events, runs, first, history, edits>>

\* write_text and copyfile empty the file ...
Open(s) ==
    /\ pc[s] = "open"
    /\ disk' = [disk EXCEPT ![Order[at[s]]] = "cut"]
    /\ Goto(s, "fill")
    /\ UNCHANGED <<dir, events, runVars, history, edits>>

\* Variants of Fill: the next file is passed over ...
FillAndSkip(s) ==
    /\ pc[s] = "fill"
    /\ disk' = [disk EXCEPT ![Order[at[s]]] = "default"]
    /\ at' = [at EXCEPT ![s] = @ + 2]
    /\ Goto(s, "check")
    /\ UNCHANGED <<dir, events, runs, first, history, edits>>

\* ... or a write that fails is not noticed.
FillUnnoticed(s) ==
    /\ pc[s] = "fill"
    /\ at' = [at EXCEPT ![s] = @ + 1]
    /\ Goto(s, "check")
    /\ UNCHANGED <<dir, disk, events, runs, first, history, edits>>

\* ... and write it.  If the owner has removed or replaced it meanwhile, what is
\* written may go with the old file.
Fill(s) ==
    /\ pc[s] = "fill"
    /\ \E c \in CASE disk[Order[at[s]]] = "absent" -> {"absent"}
                 [] disk[Order[at[s]]] = "own" -> {"own", "default"}
                 [] OTHER -> {"default"} :
         disk' = [disk EXCEPT ![Order[at[s]]] = c]
    /\ at' = [at EXCEPT ![s] = @ + 1]
    /\ Goto(s, "check")
    /\ UNCHANGED <<dir, events, runs, first, history, edits>>

\* Variant of Return: is_initialized is asked when the layout is there.
ReturnAskingLate(s) ==
    /\ pc[s] = "check"
    /\ at[s] > Len(Order)
    /\ events' = IF ~dir THEN events + 1 ELSE events
    /\ Goto(s, "returned")
    /\ UNCHANGED <<dir, disk, runVars, history, edits>>

\* The first init records repo_initialized, and returns.
Return(s) ==
    /\ pc[s] = "check"
    /\ at[s] > Len(Order)
    /\ events' = IF first[s] THEN events + 1 ELSE events
    /\ Goto(s, "returned")
    /\ UNCHANGED <<dir, disk, runVars, history, edits>>

\* The command has reported success.
Leave(s) ==
    /\ pc[s] = "returned"
    /\ Goto(s, "idle")
    /\ UNCHANGED <<dir, disk, events, runVars, history, edits>>

Die(s) ==
    /\ pc[s] \notin {"idle", "returned"}
    /\ Goto(s, "idle")
    /\ torn' = IF pc[s] = "fill" THEN torn \cup {Order[at[s]]} ELSE torn
    /\ died' = TRUE
    /\ UNCHANGED <<dir, disk, events, runVars, missed, removed, edits>>

\* The owner writes or removes a file.
Edit ==
    /\ edits < MaxEdits
    /\ edits' = edits + 1
    /\ \E f \in Present :
        \/ disk' = [disk EXCEPT ![f] = "own"] /\ UNCHANGED <<missed, removed>>
        \/ /\ disk' = [disk EXCEPT ![f] = "absent"]
           /\ missed' = [s \in Session |-> missed[s] \cup {f}]
           /\ removed' = [s \in Session |-> removed[s] \cup {f}]
    /\ UNCHANGED <<dir, events, pc, runVars, torn, died>>

Next ==
    \/ \E s \in Session :
        \/ Start(s) \/ MakeDirs(s) \/ Check(s) \/ Open(s) \/ Fill(s)
        \/ Return(s) \/ Leave(s) \/ Die(s)
    \/ Edit

Spec == Init /\ [][Next]_vars

(***************************************************************************)
(* Properties.                                                             *)
(***************************************************************************)
TypeOK ==
    /\ dir \in BOOLEAN
    /\ disk \in [File -> {"absent", "cut", "default", "own"}]
    /\ events \in Nat
    /\ pc \in [Session -> {"idle", "mkdir", "check", "open", "fill", "returned"}]
    /\ runs \in [Session -> 0..MaxRuns]
    /\ first \in [Session -> BOOLEAN]
    /\ at \in [Session -> 1..(Len(Order) + 1)]
    /\ missed \in [Session -> SUBSET File]
    /\ removed \in [Session -> SUBSET File]
    /\ torn \subseteq File
    /\ died \in BOOLEAN
    /\ edits \in 0..MaxEdits

\* "Safe to run again" (README.en.md:57): no init changes a file that was there
\* ever since it started, an owner's or one that another init installs; only
\* one that has missed the file at some time may write it (paths.py:154-175).
SafeToRunAgain ==
    [][\A f \in File : disk'[f] # disk[f] /\ edits' = edits =>
        \E s \in Session : pc[s] \in {"open", "fill"} /\ f \in missed[s]]_vars

\* When init reports success, every file of the layout is there, but for those
\* the owner has removed while it was at work, whatever other processes that
\* initialise the repository have done or left undone (paths.py:144-164).
LaidOut ==
    \A s \in Session : pc[s] = "returned" => File \ removed[s] \subseteq Present

\* The first init leaves its event: a repository that has its directory, where
\* no process is at work and none has died, has repo_initialized recorded, of
\* however many processes found it missing at the same time (cli.py:70-77).
InitRecorded ==
    dir /\ ~died /\ (\A s \in Session : pc[s] \in {"idle", "returned"}) => events > 0
=============================================================================
