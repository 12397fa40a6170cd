-------------------------------- MODULE Scan --------------------------------
(***************************************************************************)
(* From the text of a file to its risks: the analyzers of Python and of    *)
(* JavaScript, the findings of core/repo_scanner and the scores of         *)
(* core/risk_mapper.                                                       *)
(*                                                                         *)
(* A text is a sequence of lines.  A line is what it means to the tools,   *)
(* line.is, with the call or the import it is about, line.of, and whether  *)
(* it stands inside a function or another block:                           *)
(*   "import"     from datetime of "datetime" or of "datetime,timezone",   *)
(*                on one line in the simple form; of "timezone" alone or   *)
(*                over several lines; or of "other", as import datetime or *)
(*                an import under another name                             *)
(*   "use"        a call whose value is neither bound nor compared         *)
(*   "split"      a call with a line break between its parentheses         *)
(*   "bind"       n = call                                                 *)
(*   "compare"    call < m, or n < m of "name"                             *)
(*   "mention"    a string or a comment that spells the call               *)
(*   "except"     a broad handler that swallows     "default"  a mutable   *)
(*   default argument     "keyword"  a word as billing or deadline         *)
(*   "separator"  a form feed alone on its line                            *)
(*   "broken"     no Python, or cut by the limit of 512,000 characters     *)
(* A call of "aware" is datetime.now(timezone.utc) or the like.            *)
(***************************************************************************)
EXTENDS Integers, Sequences

\* The calls the Python analyzer reports, and those of the JavaScript one.
Naive == {"datetime.now()", "datetime.utcnow()", "date.today()", "datetime(...)", "replace(tzinfo=...)"}
DateCall == {"new_Date()", "new_Date(YYYY-MM-DD)", "Date.now()", "Date.parse(...)", "getDate()"}

\* What the analyzer of bug patterns reports of a function or a handler.
BugPattern == {"default", "except"}

\* The imports, and those of them that bring the name timezone.
WithTimezone == {"datetime,timezone", "timezone"}
Imported == {"datetime", "other"} \cup WithTimezone

Line ==
    [is : {"import"}, of : Imported, deep : BOOLEAN]
    \cup [is : {"use", "split", "bind", "mention"}, of : Naive \cup DateCall \cup {"aware"}, deep : BOOLEAN]
    \cup [is : {"compare"}, of : Naive \cup {"aware", "name"}, deep : BOOLEAN]
    \cup [is : BugPattern \cup {"keyword", "separator", "broken"}, of : {"-"}, deep : BOOLEAN]

(***************************************************************************)
(* The analyzers.                                                          *)
(***************************************************************************)
Parses(text) == \A i \in DOMAIN text : text[i].is # "broken"

Has(text, is, of) == \E i \in DOMAIN text : text[i].is \in is /\ text[i].of \in of

\* Variant of RiskyName: only the first binding of the name counts.
RiskyNameOnce(text, i) ==
    \E j \in 1..(i - 1) : /\ text[j].is = "bind" /\ text[j].of \in Naive
                          /\ \A k \in 1..(j - 1) : text[k].is # "bind"

\* The name n was bound to a naive value above line i; no later binding, nor
\* the end of the function, takes that back.
RiskyName(text, i) == \E j \in 1..(i - 1) : text[j].is = "bind" /\ text[j].of \in Naive

NaiveComparison(text, i) ==
    /\ text[i].is = "compare"
    /\ text[i].of \in Naive \/ (text[i].of = "name" /\ RiskyName(text, i))

\* What the findings of a file say of it.  A Python text that does not parse
\* has no evidence; its imports are then looked up in the text.  A JavaScript
\* text is searched line by line, comments and strings included.
Signals(text, js) ==
    LET calls == {text[i].of : i \in {j \in DOMAIN text : text[j].is \in {"use", "split", "bind", "compare"}}}
    IN  (IF Has(text, {"keyword"}, {"-"}) THEN {"keyword"} ELSE {})
        \cup IF js
             THEN LET found == {text[i].of : i \in DOMAIN text} \cap DateCall
                  IN  found \cup (IF "new_Date(YYYY-MM-DD)" \in found THEN {"new_Date()"} ELSE {})
             ELSE (IF Has(text, {"import"}, Imported) THEN {"import"} ELSE {})
                  \cup IF ~Parses(text) THEN {}
                       ELSE (calls \cap Naive)
                            \cup {s \in BugPattern : Has(text, {s}, {"-"})}
                            \cup (IF \E i \in DOMAIN text : NaiveComparison(text, i) THEN {"comparison"} ELSE {})

(***************************************************************************)
(* The risks of a file.  `test`: it is a test file; `nearby`: a test file  *)
(* bears its name.                                                         *)
(***************************************************************************)
\* _has_nearby_test: the plain candidate test_<stem> is looked for at the end
\* of every path, so a test in any directory is nearby.
HasNearbyTest(stem, js, tests) == \E t \in tests : t.stem = stem /\ t.js = js

TimeSignal == Naive \cup DateCall \cup {"import", "comparison"}

Strong == (Naive \ {"datetime.now()"})
          \cup {"comparison", "Date.parse(...)", "new_Date(YYYY-MM-DD)", "getDate()"}

\* Variant of TimezoneScore: a test file loses as much as a missing test adds twice.
TimezoneScoreHarsh(signals, test, nearby) ==
    LET w(s, n) == IF s \in signals THEN n ELSE 0
        sum == w("import", 10) + w("datetime.now()", 25) + w("datetime.utcnow()", 35)
               + w("date.today()", 30) + w("datetime(...)", 20) + w("replace(tzinfo=...)", 20)
               + w("comparison", 30) + w("new_Date()", 25) + w("Date.now()", 20)
               + w("Date.parse(...)", 25) + w("new_Date(YYYY-MM-DD)", 35) + w("getDate()", 20)
               + w("keyword", 20) + (IF test THEN -40 ELSE 10) + (IF nearby THEN 0 ELSE 20)
    IN  IF sum > 0 THEN sum ELSE 0

TimezoneScore(signals, test, nearby) ==
    LET w(s, n) == IF s \in signals THEN n ELSE 0
        sum == w("import", 10) + w("datetime.now()", 25) + w("datetime.utcnow()", 35)
               + w("date.today()", 30) + w("datetime(...)", 20) + w("replace(tzinfo=...)", 20)
               + w("comparison", 30) + w("new_Date()", 25) + w("Date.now()", 20)
               + w("Date.parse(...)", 25) + w("new_Date(YYYY-MM-DD)", 35) + w("getDate()", 20)
               + w("keyword", 20) + (IF test THEN -20 ELSE 10) + (IF nearby THEN 0 ELSE 20)
    IN  IF sum > 0 THEN sum ELSE 0

BugScore(kind, test, nearby) ==
    (IF kind = "default" THEN 55 ELSE 60) + (IF test THEN -20 ELSE 10) + (IF nearby THEN 0 ELSE 10)

\* 2 is high, 1 medium, 0 low.
Confidence(score, signals) ==
    LET strong == signals \cap Strong # {}
    IN  IF score >= 90 /\ (strong \/ "new_Date()" \in signals) THEN 2
        ELSE IF score >= 45 /\ (strong \/ signals \cap {"datetime.now()", "Date.now()", "new_Date()"} # {}) THEN 1
        ELSE 0

BugConfidence(kind, score, test) ==
    IF score >= (IF kind = "default" THEN 65 ELSE 70) /\ ~test THEN 2
    ELSE IF score >= 45 THEN 1 ELSE 0

\* map_repo_risks, for one file: a risk that scores nothing is left out.
Risks(signals, test, nearby) ==
    LET time == TimezoneScore(signals, test, nearby)
    IN  {[type |-> "timezone_boundary", score |-> time, confidence |-> Confidence(time, signals)] :
             x \in IF signals \cap TimeSignal # {} /\ time > 0 THEN {time} ELSE {}}
        \cup {LET n == BugScore(k, test, nearby)
              IN  [type |-> k, score |-> n, confidence |-> BugConfidence(k, n, test)] :
                  k \in signals \cap BugPattern}
=============================================================================
