------------------------------ MODULE MycoLog ------------------------------
(***************************************************************************)
(* The append-only JSONL stores under .myco/: the memory files and the     *)
(* cost ledger (core/jsonl.py, core/memory.py, core/cost.py).              *)
(*                                                                         *)
(* Sessions are myco processes.  An append opens the file in mode "a" and  *)
(* hands one line, the JSON of the record and a newline, to the operating  *)
(* system.  The write may be short: the retry then writes the rest, fails  *)
(* (the disk is full: the command ends with OSError) or never comes (the   *)
(* process is killed).  Other sessions append in between.  A file is the   *)
(* sequence of the pieces written to it:                                   *)
(*    "whole"  the JSON and its newline        "head"  a proper prefix     *)
(*    "body"   the JSON without the newline    "tail"  what a head lacks   *)
(*    "nl"     the newline a body lacks                                    *)
(* json.dumps escapes to ASCII, so a cut is never inside a character, and  *)
(* a proper prefix of a JSON object is never itself a JSON object.  An     *)
(* append has at most one short write: its retry is all or nothing.        *)
(***************************************************************************)
EXTENDS Integers, Sequences, FiniteSets

CONSTANTS
    Session,    \* processes that append
    Event,      \* the records, each appended at most once
    File,       \* the JSONL files of a repository
    Target,     \* Target[e]: the file record e is appended to
    ReadOrder   \* the files a reader opens, in the order it opens them

ASSUME TargetAssumption == Target \in [Event -> File]
ASSUME ReadOrderAssumption == ReadOrder \in Seq(File)

VARIABLES
    file,       \* file[f]: the pieces on disk
    pc,         \* pc[s]: "idle", "write" (about to), "head" or "body" (written so far)
    cur,        \* cur[s]: the record session s appends, or appended last
    begun,      \* records whose append was called
    acked,      \* records whose append returned to its caller
    listed,     \* the files the reader found when it started
    pos,        \* how far it is in ReadOrder
    seen,       \* the records it has collected
    floor       \* history: the acknowledged records readable when it started

logVars == <<file, pc, cur, begun, acked>>
readerVars == <<listed, pos, seen, floor>>
vars == <<logVars, readerVars>>

(***************************************************************************)
(* Reading a file.                                                         *)
(***************************************************************************)
Part == {"whole", "head", "body", "tail", "nl"}
Piece == [ev : Event, part : Part]

\* A piece that ends its line.
Ends(p) == p.part \in {"whole", "tail", "nl"}

\* Piece i opens a line of q; piece i closes one (the last may lack its newline).
Opens(q, i) == i = 1 \/ Ends(q[i - 1])
Closes(q, i) == i = Len(q) \/ Ends(q[i])

\* What stands on the line that piece i closes is exactly one record.
Parses(q, i) ==
    \/ q[i].part \in {"whole", "body"} /\ Opens(q, i)
    \/ /\ i > 1
       /\ q[i - 1].ev = q[i].ev
       /\ \/ q[i - 1].part = "head" /\ q[i].part = "tail"
          \/ q[i - 1].part = "body" /\ q[i].part = "nl"
       /\ Opens(q, i - 1)

\* A line with nothing but its newline: the reader skips it.
Blank(q, i) == q[i].part = "nl" /\ Opens(q, i)

\* Variant of Records: reading ends at the first line that does not parse.
RecordsUpToIssue(q) ==
    {q[i].ev : i \in {j \in 1..Len(q) : /\ Closes(q, j) /\ Parses(q, j)
                                        /\ \A k \in 1..(j - 1) : Closes(q, k) => Parses(q, k)}}

\* Variant of Issues: the last line is not looked at.
IssuesButLast(q) == {i \in 1..(Len(q) - 1) : Closes(q, i) /\ ~Parses(q, i) /\ ~Blank(q, i)}

\* What read_jsonl_models returns: the records, and the lines it reports.
Records(q) == {q[i].ev : i \in {j \in 1..Len(q) : Closes(q, j) /\ Parses(q, j)}}
Issues(q) == {i \in 1..Len(q) : Closes(q, i) /\ ~Parses(q, i) /\ ~Blank(q, i)}

Readable(e) == e \in Records(file[Target[e]])
Exists(f) == \E e \in begun : Target[e] = f

(***************************************************************************)
(* Appending: append_memory_event and record_cost_event.                   *)
(***************************************************************************)
Init ==
    /\ file = [f \in File |-> <<>>]
    /\ pc = [s \in Session |-> "idle"]
    /\ cur \in [Session -> Event]
    /\ begun = {}
    /\ acked = {}
    /\ listed = {}
    /\ pos = Len(ReadOrder)
    /\ seen = {}
    /\ floor = {}

\* The record is built and its file opened, which creates it.
Call(s, e) ==
    /\ pc[s] = "idle"
    /\ e \notin begun
    /\ pc' = [pc EXCEPT ![s] = "write"]
    /\ cur' = [cur EXCEPT ![s] = e]
    /\ begun' = begun \cup {e}
    /\ UNCHANGED <<file, acked, readerVars>>

\* Variant of Put: the file is opened in mode "w".
PutAnew(e, k) ==
    file' = [file EXCEPT ![Target[e]] = <<[ev |-> e, part |-> k]>>]

Put(e, k) ==
    file' = [file EXCEPT ![Target[e]] = Append(@, [ev |-> e, part |-> k])]

Return(s) ==
    /\ pc' = [pc EXCEPT ![s] = "idle"]
    /\ acked' = acked \cup {cur[s]}
    /\ UNCHANGED <<cur, begun, readerVars>>

\* The whole line reaches the file in one write.
WriteLine(s) ==
    /\ pc[s] = "write"
    /\ Put(cur[s], "whole")
    /\ Return(s)

\* Variant of ShortWrite: the append returns although the write was short.
ShortWriteReturns(s, k) ==
    /\ pc[s] = "write"
    /\ Put(cur[s], k)
    /\ Return(s)

\* The write is short: some of the JSON, or all of it but the newline.
ShortWrite(s, k) ==
    /\ pc[s] = "write"
    /\ Put(cur[s], k)
    /\ pc' = [pc EXCEPT ![s] = k]
    /\ UNCHANGED <<cur, begun, acked, readerVars>>

\* The retry writes what the short write left.
WriteRest(s) ==
    /\ \/ pc[s] = "head" /\ Put(cur[s], "tail")
       \/ pc[s] = "body" /\ Put(cur[s], "nl")
    /\ Return(s)

\* The process is killed, or the write fails: the append never returns.
Abort(s) ==
    /\ pc[s] # "idle"
    /\ pc' = [pc EXCEPT ![s] = "idle"]
    /\ UNCHANGED <<file, cur, begun, acked, readerVars>>

(***************************************************************************)
(* read_memory_events: the files present are listed once, then read one    *)
(* after the other while sessions go on appending.                         *)
(***************************************************************************)
\* Variant of StartRead: the listing of the first read is kept.
StartReadListedOnce ==
    /\ pos = Len(ReadOrder)
    /\ pos' = 0
    /\ listed' = IF listed = {} THEN {f \in File : Exists(f)} ELSE listed
    /\ seen' = {}
    /\ floor' = {e \in acked : Readable(e) /\ Target[e] \in {ReadOrder[i] : i \in DOMAIN ReadOrder}}
    /\ UNCHANGED logVars

StartRead ==
    /\ pos = Len(ReadOrder)
    /\ pos' = 0
    /\ listed' = {f \in File : Exists(f)}
    /\ seen' = {}
    /\ floor' = {e \in acked : Readable(e) /\ Target[e] \in {ReadOrder[i] : i \in DOMAIN ReadOrder}}
    /\ UNCHANGED logVars

\* Variant of ReadFile: the loop turns once more at the end.
ReadFileOnceMore ==
    /\ pos <= Len(ReadOrder)
    /\ pos' = pos + 1
    /\ UNCHANGED <<logVars, listed, seen, floor>>

ReadFile ==
    /\ pos < Len(ReadOrder)
    /\ pos' = pos + 1
    /\ LET f == ReadOrder[pos + 1] IN
       seen' = seen \cup (IF f \in listed THEN Records(file[f]) ELSE {})
    /\ UNCHANGED <<logVars, listed, floor>>

Next ==
    \/ \E s \in Session :
        \/ \E e \in Event : Call(s, e)
        \/ WriteLine(s)
        \/ \E k \in {"head", "body"} : ShortWrite(s, k)
        \/ WriteRest(s)
        \/ Abort(s)
    \/ StartRead
    \/ ReadFile

Spec == Init /\ [][Next]_vars

(***************************************************************************)
(* Properties.                                                             *)
(***************************************************************************)
TypeOK ==
    /\ file \in [File -> Seq(Piece)]
    /\ pc \in [Session -> {"idle", "write", "head", "body"}]
    /\ cur \in [Session -> Event]
    /\ begun \subseteq Event
    /\ acked \subseteq Event
    /\ listed \subseteq File
    /\ pos \in 0..Len(ReadOrder)
    /\ seen \subseteq Event
    /\ floor \subseteq Event

\* A record that was acknowledged and can be read stays readable, whatever any
\* session, crash or short write does to the file afterwards (memory.py:33).
AckedStaysReadable ==
    [][\A e \in acked : Readable(e) => Readable(e)']_vars

\* Piece j stands on the line that piece i closes.
OnLine(q, j, i) ==
    /\ j <= i
    /\ Closes(q, i)
    /\ \A k \in j..(i - 1) : ~Ends(q[k])

\* No silent loss: an acknowledged record that the readers no longer return
\* stands, all or in part, on a line that audit_repo_jsonl reports
\* (docs/safety.md:57).
LostIsDiagnosed ==
    \A e \in acked : ~Readable(e) =>
        LET q == file[Target[e]] IN
        \E i \in Issues(q), j \in 1..Len(q) : q[j].ev = e /\ OnLine(q, j, i)

\* The damage of a short write stays beside it: an acknowledged record is lost
\* only when its own write was short, or when it was appended directly behind
\* the piece another short write left in the same file.
LostBesideTear ==
    \A e \in acked : ~Readable(e) =>
        LET q == file[Target[e]] IN
        \E j \in 1..Len(q) :
            /\ q[j].ev = e
            /\ ~Ends(q[j]) \/ (j > 1 /\ ~Ends(q[j - 1]) /\ q[j - 1].ev # e)

\* The store the callers see: each short write costs at most two acknowledged
\* records, each is lost when its append returns or never, and a record kept
\* once is kept for good.
Lost == {e \in acked : ~Readable(e)}
Tears == {t \in File \X Event : \E i \in DOMAIN file[t[1]] :
              file[t[1]][i].ev = t[2] /\ ~Ends(file[t[1]][i])}

Store == INSTANCE EventStore WITH
            offered <- begun,
            accepted <- acked,
            kept <- acked \ Lost,
            allowance <- 2 * Cardinality(Tears) - Cardinality(Lost)

ImplementsStore == Store!StoreSpec

\* A reader that has gone through its files returns every record that was
\* acknowledged and readable when it started, though the files are read one by
\* one and appended to meanwhile (memory.py:43-44).
ReaderMissesNothing == pos = Len(ReadOrder) => floor \subseteq seen

\* The roadmap's "recover valid memory around malformed JSONL records"
\* (docs/roadmap.md:58): an acknowledged record can be read back.
AckedReadable == \A e \in acked : Readable(e)
=============================================================================
