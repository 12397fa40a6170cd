------------------------------ MODULE MCReport ------------------------------
(* One session that hunts on two files, with up to four risks, while         *)
(* reports are written.                                                      *)
EXTENDS Report, TLC

CONSTANTS s1, a, c

MCPathOf(m, t, k) == <<m, t, k>>
MCDenied == {<<"aggressive", a, "timezone_boundary">>}

\* The best risk is one of a or that of c; two of a may score alike.
MCScorings == {[x \in Target \X Kind |-> IF x[1] = a /\ x[2] = "broad_exception_swallow" THEN n ELSE 70] :
                   n \in {60, 80}}
Holding(K) == [k \in Kind |-> IF k \in K THEN "literal" ELSE "absent"]
MCInitial == {Holding({}), Holding({"timezone_boundary"}), Holding(Kind)}

\* c is JavaScript.
MCPlace == a :> 1 @@ c :> 3
MCRunner == a :> "pytest" @@ c :> "node-test"
MCOptions ==
    [mode : {"safe", "aggressive"}, run : {TRUE}, dry : {FALSE}, want : {{a, c}}, limit : {3}, budget : {20}]
    \cup [mode : {"safe"}, run : {FALSE}, dry : BOOLEAN, want : {{a, c}}, limit : {1, 3}, budget : {20}]
    \cup [mode : {"safe"}, run : {TRUE}, dry : BOOLEAN, want : {{}}, limit : {1}, budget : {20}]
=============================================================================
