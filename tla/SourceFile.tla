----------------------------- MODULE SourceFile -----------------------------
(***************************************************************************)
(* The life of one source file: its owner inserts lines, `myco hunt` and   *)
(* `myco risks` score it, `myco patch` drafts the replacement of           *)
(* datetime.utcnow(), and the owner applies the draft.                     *)
(* core/patch_drafter.py: _replace_datetime_utcnow and its helpers.        *)
(*                                                                         *)
(* Three counts of lines meet here.  The syntax tree and the tokens count  *)
(* line ends; the offsets come from splitlines, which also splits at form  *)
(* feeds; read_text has turned CRLF into LF before any of them counts.     *)
(***************************************************************************)
EXTENDS Scan, SequencesExt

CONSTANTS
    File,       \* [js, stem, test, tests, crlf]: the file, and the test files beside it
    PyLine,     \* lines the owner writes in a Python file
    JsLine,     \* and in one of JavaScript
    MaxLines    \* bounds the text

ASSUME SourceFileAssumption ==
    /\ PyLine \subseteq Line /\ JsLine \subseteq Line /\ MaxLines \in Nat
    /\ \A f \in File : f.js \in BOOLEAN /\ f.test \in BOOLEAN /\ f.crlf \in BOOLEAN

VARIABLES
    file,
    text,       \* its lines
    draft       \* the draft on disk, if any: what it was made of, the text it
                \* leads to, and the text whose SHA-256 it records
vars == <<file, text, draft>>

NoDraft == [of |-> <<>>, to |-> <<>>, hash |-> [text |-> <<>>, crlf |-> FALSE]]

(***************************************************************************)
(* What the scanner says of the file.                                      *)
(***************************************************************************)
Nearby == HasNearbyTest(file.stem, file.js, file.tests)
SignalsNow == Signals(text, file.js)
RisksNow == Risks(SignalsNow, file.test, Nearby)

(***************************************************************************)
(* The transformation.                                                     *)
(***************************************************************************)
\* Variant of Calls: the text is searched, not the tokens.
CallsInText(t) == {i \in DOMAIN t : t[i].is \in {"use", "bind", "compare", "mention"} /\ t[i].of = "datetime.utcnow()"}

\* _utcnow_replacements: the lines whose tokens are datetime . utcnow ( ).  A
\* line break between the parentheses is a token of its own and hides the call.
Calls(t) == {i \in DOMAIN t : t[i].is \in {"use", "bind", "compare"} /\ t[i].of = "datetime.utcnow()"}

\* _line_offsets: line i of the text starts at piece i + Separators of
\* splitlines; a separator fills two pieces.
Separators(t, i) == Cardinality({j \in 1..(i - 1) : t[j].is = "separator"})

\* The line that piece n belongs to.
LineOfPiece(t, n) ==
    CHOOSE i \in DOMAIN t : LET first == i + Separators(t, i)
                            IN  n \in first..(first + (IF t[i].is = "separator" THEN 1 ELSE 0))

ImportsOf(t, names) == {i \in DOMAIN t : t[i].is = "import" /\ t[i].of \in names}

\* Variant of ImportsTimezone: any import of datetime is taken to bring timezone.
ImportsTimezoneLoose(t) == ImportsOf(t, WithTimezone \cup {"other"}) # {}

\* ast.walk meets imports of every scope alike, and one that names timezone is
\* enough, wherever it stands and whatever else it names.
ImportsTimezone(t) == ImportsOf(t, WithTimezone) # {}

\* The last import that ast.walk, breadth first, meets: those inside functions
\* come after those of the module.
ImportLine(t) ==
    LET all == ImportsOf(t, {"datetime", "datetime,timezone"})
        inner == {i \in all : t[i].deep}
    IN  Max(IF inner # {} THEN inner ELSE all)

\* _timezone_import_replacement finds a simple import where it looks for it.
ImportIsSimple(t) == LET i == LineOfPiece(t, ImportLine(t)) IN t[i].is = "import" /\ t[i].of = "datetime"

\* Variant of Overwritten: the edit takes the line with it.
OverwrittenBlank(line) == [line EXCEPT !.is = "blank", !.of = "-"]

\* What is left of a line over whose text a call is written.  The lines that
\* spell the call are laid out alike: the edit meets it at the same columns.
Overwritten(line) ==
    IF line.is \in {"use", "bind", "compare", "mention"} /\ line.of = "datetime.utcnow()"
    THEN [line EXCEPT !.of = "aware"]
    ELSE [line EXCEPT !.is = "broken", !.of = "-"]

\* _replace_datetime_utcnow: the text with each call, and the import if need
\* be, replaced at the offsets computed.
Patched(t) ==
    LET calls == {LineOfPiece(t, r) : r \in Calls(t)}
        import == IF ImportsTimezone(t) THEN {} ELSE {LineOfPiece(t, ImportLine(t))}
    IN  [i \in DOMAIN t |-> IF i \in calls THEN Overwritten(t[i])
                            ELSE IF i \in import THEN [t[i] EXCEPT !.of = "datetime,timezone"]
                            ELSE t[i]]

\* The early returns of _draft_failure and _replace_datetime_utcnow.
Accepted(t) ==
    /\ ~file.js
    /\ Parses(t)
    /\ Calls(t) # {}
    /\ ImportsTimezone(t) \/ (ImportsOf(t, {"datetime"}) # {} /\ ImportIsSimple(t))
    /\ Parses(Patched(t))

(***************************************************************************)
(* The specification.                                                      *)
(***************************************************************************)
Init == file \in File /\ text = <<>> /\ draft = NoDraft

\* The owner inserts a line.
Insert(i, line) ==
    /\ Len(text) < MaxLines
    /\ line \in IF file.js THEN JsLine ELSE PyLine
    /\ text' = InsertAt(text, i, line)
    /\ UNCHANGED <<file, draft>>

\* `myco patch` on an eligible failure of the file.
Draft ==
    /\ Accepted(text)
    /\ draft' = [of |-> text, to |-> Patched(text), hash |-> [text |-> text, crlf |-> FALSE]]
    /\ UNCHANGED <<file, text>>

\* The owner, who finds the recorded hash to be that of the file, applies it.
Apply ==
    /\ draft # NoDraft
    /\ draft.hash = [text |-> text, crlf |-> file.crlf]
    /\ text' = draft.to
    /\ UNCHANGED <<file, draft>>

Next == (\E i \in 1..(Len(text) + 1), line \in PyLine \cup JsLine : Insert(i, line)) \/ Draft \/ Apply

Spec == Init /\ [][Next]_vars

(***************************************************************************)
(* Properties.                                                             *)
(***************************************************************************)
\* The text is one of lines, within the bound, and the draft is of such texts.
TypeOK ==
    /\ file \in File
    /\ text \in Seq(Line) /\ Len(text) <= MaxLines
    /\ draft.of \in Seq(Line) /\ draft.to \in Seq(Line)
    /\ Len(draft.of) = Len(draft.to) /\ Len(draft.of) <= MaxLines

\* Writing more code never makes a file look safer: as long as the text can be
\* parsed, an insertion removes no risk and lowers neither its score nor its
\* confidence, in whatever order names are bound and compared (the visitor of
\* python_datetime_analyzer.py, the sums of risk_mapper.py).
SignalsOnlyAdd ==
    [][ (Len(text') > Len(text) /\ Parses(text')) =>
        LET new == RisksNow'
        IN  \A r \in RisksNow : \E n \in new :
                n.type = r.type /\ n.score >= r.score /\ n.confidence >= r.confidence ]_vars

\* What the score's floor drops is weak: a file whose code reads or compares
\* times and that is given no timezone risk is a test file beside a test of its
\* name, with a single signal worth no more than 20 and no keyword
\* (risk_mapper.py: the penalty of test files, `score > 0`).
DroppedAreWeak ==
    LET signals == SignalsNow
        time == signals \cap TimeSignal
        risks == Risks(signals, file.test, Nearby)
    IN  (time # {} /\ ~\E r \in risks : r.type = "timezone_boundary") =>
            /\ file.test /\ Nearby
            /\ Cardinality(time) = 1
            /\ signals \cap {"datetime.now()", "datetime.utcnow()", "date.today()", "comparison", "keyword"} = {}

\* A draft changes the calls and the import and nothing else: above the first
\* form feed every plain call is replaced, no string or comment is, and one
\* import at most gets its timezone, none if timezone is imported anywhere.
\* Below a form feed the offsets are short, and a line that only spells the
\* call may be changed (patch_drafter.py: _line_offsets).
DraftIsExact ==
    draft # NoDraft =>
        LET of == draft.of
            to == draft.to
            above == {i \in DOMAIN of : Separators(of, i) = 0}
            changed == {i \in above : of[i] # to[i]}
            imports == {i \in changed : of[i].is = "import"}
            plain == {i \in above : of[i].is \notin {"import", "mention", "split"} /\ of[i].of = "datetime.utcnow()"}
        IN  /\ changed \ imports = plain
            /\ \A i \in changed \ imports : to[i] = [of[i] EXCEPT !.of = "aware"]
            /\ Cardinality(imports) <= 1
            /\ \A i \in imports : of[i].of = "datetime" /\ to[i].of = "datetime,timezone"
            /\ imports # {} => ImportsOf(of, WithTimezone) = {}

\* A draft that is applied does what it was drafted for: the scanner reports
\* datetime.utcnow() no more unless a call is broken over two lines, the score
\* has not risen, another draft is refused, and timezone is bound at every call
\* replaced that stands below all imports from datetime, if these are the
\* module's own.  An import inside a function gives no such promise: one that
\* names timezone leaves the import at the head as it is (patch_drafter.py:153-158).
AppliedDraftWorks ==
    [][ (Apply /\ ~Has(text, {"separator"}, {"-"})) =>
        /\ "datetime.utcnow()" \in SignalsNow' => Has(text, {"split"}, {"datetime.utcnow()"})
        /\ \A n \in RisksNow' : \E r \in RisksNow : n.type = r.type /\ n.score <= r.score
        /\ ~Accepted(text)'
        /\ \A i \in Calls(text) :
               (\A j \in ImportsOf(text, WithTimezone \cup {"datetime"}) : ~text[j].deep /\ j < i)
                   => \E j \in ImportsOf(text', WithTimezone) : ~text'[j].deep /\ j < i ]_vars
=============================================================================
