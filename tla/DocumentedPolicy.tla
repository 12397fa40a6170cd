-------------------------- MODULE DocumentedPolicy --------------------------
(***************************************************************************)
(* What docs/safety.md:12-42 and tests/test_command_policy.py say of the   *)
(* command policy, compared with CommandPolicy for every command of up to  *)
(* MaxWords words of a small vocabulary.                                   *)
(***************************************************************************)
EXTENDS CommandPolicy

CONSTANTS
    Word,       \* the vocabulary
    MaxWords    \* bound: the length of a command

Commands == UNION {[1..n -> Word] : n \in 0..MaxWords}

\* A command of the documentation may name its executable in capitals.
Named(c) == [i \in DOMAIN c |-> IF i = 1 THEN Lower(c[i]) ELSE c[i]]

\* "Generated probes allow only:", git in lower case
ProbeCommand(c) ==
    \/ \E p \in Generated.py : Named(c) = <<"pytest", p>>
    \/ \E p \in Generated.mjs : Named(c) = <<"node", "--test", p>>
    \/ Named(c) \in {"python", "python3"} \X {"--version", "-V"}
    \/ Len(c) >= 2 /\ c[1] = "git" /\ c[2] \in {"status", "diff"}

\* "Recognized project test profiles include:", the last ones in any case
ProjectCommand(c) ==
    \/ Named(c) \in {<<"pytest">>, <<"pytest", "tests">>, <<"pytest", ".">>, <<"node", "--test">>}
    \/ Normalized(c) \in
           {<<"go", "test", "./...">>, <<"cargo", "test", "--offline">>, <<"mvn", "test", "-o">>,
            <<"gradle", "test", "--offline">>, <<"dotnet", "test", "--no-restore">>,
            <<"bundle", "exec", "rspec">>, <<"vendor/bin/phpunit">>}

\* AsDocumented[allow]: with that permission the policy accepts what the
\* documentation lists, no more and no less, where the words hold no fragment:
\* "Dangerous fragments are blocked by default".
AsDocumented ==
    [allow \in BOOLEAN |->
        \A c \in Commands :
            check_command(c, allow) <=>
                ~HasFragment(c) /\ (ProbeCommand(c) \/ (allow /\ ProjectCommand(c)))]
=============================================================================
