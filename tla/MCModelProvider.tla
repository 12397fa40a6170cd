-------------------------- MODULE MCModelProvider --------------------------
(* Six configurations; a provider may be handed in that uses the network,   *)
(* or one that names a cost, more than some limits.                         *)
EXTENDS ModelProvider, TLC

CONSTANT s1

On(kind, limit) == [kind |-> kind, allow |-> TRUE, limit |-> limit, ready |-> TRUE]
Custom == [kind |-> "custom", allow |-> FALSE, limit |-> 0, ready |-> FALSE]

MCConfig ==
    { [kind |-> "offline", allow |-> FALSE, limit |-> 0, ready |-> FALSE],
      On("local-http", 0), On("local-http", 1),
      [On("openai-compatible", 1) EXCEPT !.allow = FALSE],
      [On("openai-compatible", 1) EXCEPT !.ready = FALSE],
      On("openai-compatible", 1) }
MCHanded == {On("local-http", 0), Custom}
=============================================================================
