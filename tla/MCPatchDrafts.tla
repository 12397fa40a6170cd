--------------------------- MODULE MCPatchDrafts ---------------------------
(* Two Python files whose paths have slugs of their own.                    *)
EXTENDS PatchDrafts, TLC

CONSTANTS s1, s2, a, b

Aggressive(t) == [target |-> t, risk |-> "timezone_boundary", mode |-> "aggressive"]
SafeMode(t) == [target |-> t, risk |-> "timezone_boundary", mode |-> "safe"]

MCKinds == {Aggressive(a), SafeMode(a), Aggressive(b)}
MCApart == a :> 1 @@ b :> 2
=============================================================================
