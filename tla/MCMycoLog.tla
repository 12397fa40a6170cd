----------------------------- MODULE MCMycoLog -----------------------------
(* Two sessions and a reader over two files; three records go to the file   *)
(* read first and one to the file read second.                              *)
EXTENDS MycoLog, TLC

CONSTANTS s1, s2, e1, e2, e3, e4, failures, negatives

MCTarget == (e1 :> failures) @@ (e2 :> failures) @@ (e3 :> failures) @@ (e4 :> negatives)
MCReadOrder == <<failures, negatives>>

SessionSymmetry == Permutations({s1, s2}) \cup Permutations({e1, e2, e3})
=============================================================================
