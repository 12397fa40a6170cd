------------------------------- MODULE MCHunt -------------------------------
(* Instances of Hunt: two sessions on one file, and one session on three.   *)
EXTENDS Hunt, TLC

CONSTANTS s1, s2, a, b, c

MCPathOf(m, t, k) == <<m, t, k>>
MCDenied == {<<"aggressive", b, "timezone_boundary">>}

All(r) == [k \in Kind |-> r]
Timed(r) == [All("absent") EXCEPT !["timezone_boundary"] = r]
Swallowing(r) == [Timed(r) EXCEPT !["broad_exception_swallow"] = "literal"]

\* One file, Python.  Its timezone risk scores above the swallowed exception.
PairScorings == {[x \in Target \X Kind |-> IF x[2] = "timezone_boundary" THEN 90 ELSE 80]}
PairPlace == a :> 1
PairRunner == a :> "pytest"
PairOptions ==
    [mode : {"safe", "aggressive"}, run : {TRUE}, dry : {FALSE}, want : {{a}}, limit : {1}, budget : {20}]
    \cup {[mode |-> "safe", run |-> r, dry |-> FALSE, want |-> {a}, limit |-> 1,
            budget |-> IF r THEN 5 ELSE 20] : r \in BOOLEAN}
PairInitial == {Timed("spread"), Swallowing("literal")}
PairEdited == {All("gone"), All("undecodable"), Swallowing("absent"), Timed("bare")}

\* Three files; c is JavaScript.
SoloScorings == {[x \in Target \X Kind |-> 70]}
SoloPlace == a :> 1 @@ b :> 2 @@ c :> 3
SoloRunner == a :> "pytest" @@ b :> "pytest" @@ c :> "node-test"
SoloOptions ==
    [mode : {"safe"}, run : {TRUE}, dry : {FALSE}, want : {{a, b, c}}, limit : {3}, budget : {20}]
SoloInitial == {All("absent"), Timed("bare"), Timed("literal")}
=============================================================================
