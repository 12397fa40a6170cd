---------------------------- MODULE CommandPolicy ----------------------------
(***************************************************************************)
(* sandbox/command_policy: which commands run_command may start.           *)
(*                                                                         *)
(* A command is a sequence of words.  Words are names here: what else the  *)
(* policy looks at in their text is given by the constants.  The fragments *)
(* are looked for in the words joined by blanks, whose own text may hold   *)
(* blanks: one is found in the text of one word, or where a word ends in   *)
(* some of its first words, the next ones follow, and another word begins  *)
(* with the rest.                                                          *)
(***************************************************************************)
EXTENDS Naturals, Sequences, SequencesExt

CONSTANTS
    Capital,    \* Capital[w]: the lower-case form of a word with capitals
    Hidden,     \* the pairs <<w, f>> where the text of w holds the fragment f
    Ending,     \* the pairs <<w, x>> where the text of w is no single word x but
                \* ends in those of x, the first ones of a fragment ...
    Starting,   \* ... or starts with them, x being its last ones or a goal below
    Generated   \* Generated.py, Generated.mjs: the words that are a path below
                \* .myco/probes/generated_tests/ with this suffix and without ".."

Lower(w) == IF w \in DOMAIN Capital THEN Capital[w] ELSE w
Normalized(command) == [i \in DOMAIN command |-> Lower(command[i])]

DENIED_EXECUTABLES ==
    {"sudo", "curl", "wget", "ssh", "scp", "nc", "netcat", "chown", "dd", "mkfs", "printenv",
     "aws", "gcloud", "az", "kubectl", "npm", "npx", "yarn", "pnpm", "pip", "pip3", "composer"}

DENIED_FRAGMENTS ==
    {<<"rm", "-rf">>, <<"chmod", "777">>, <<"mkfs">>, <<":(){:|:&};:">>,
     <<"powershell", "invoke-webrequest">>, <<"env", "|", "grep">>, <<"cat", ".env">>,
     <<"docker", "run", "--privileged">>}

BlockedPrefixes ==
    {<<p, "-m", "pip", "install">> : p \in {"python", "python3"}}
    \cup {<<"go", "get">>, <<"go", "install">>, <<"cargo", "install">>, <<"cargo", "fetch">>,
          <<"cargo", "update">>, <<"bundle", "install">>, <<"mvn", "install">>,
          <<"dotnet", "restore">>, <<"dotnet", "add">>, <<"dotnet", "nuget">>}

\* Of these the joined text is looked at: the last word may go on.
BlockedGoals == {<<"mvn", "dependency:">>, <<"gradle", "dependencies">>, <<"gradle", "build">>}

AllowedShapes ==
    {<<"go", "test", "./...">>, <<"cargo", "test", "--offline">>, <<"mvn", "test", "-o">>,
     <<"gradle", "test", "--offline">>, <<"dotnet", "test", "--no-restore">>,
     <<"bundle", "exec", "rspec">>, <<"vendor/bin/phpunit">>}

\* The words of the commands the policy knows.
Known == {"node", "--test", "pytest", "python", "python3", "git", "status", "diff"}
         \cup UNION {Range(shape) : shape \in AllowedShapes}

\* They are written in lower case, and hold nothing the policy looks for.
ASSUME PolicyAssumption ==
    /\ Known \cap DOMAIN Capital = {}
    /\ \A pair \in Hidden \cup Ending \cup Starting : Lower(pair[1]) \notin Known

EndsIn(w, x) == x = <<Lower(w)>> \/ <<w, x>> \in Ending
StartsWith(w, x) == x = <<Lower(w)>> \/ <<w, x>> \in Starting

\* The fragment f stands at word i: it is that word, or its first p words end
\* the text of the word, those from the q-th on begin a later one, and the words
\* between are words of the command.
StandsAt(f, command, i) ==
    \/ f = <<Lower(command[i])>>
    \/ \E p, q \in DOMAIN f :
         /\ p < q /\ i + q - p <= Len(command)
         /\ EndsIn(command[i], SubSeq(f, 1, p))
         /\ \A k \in (p + 1)..(q - 1) : Lower(command[i + k - p]) = f[k]
         /\ StartsWith(command[i + q - p], SubSeq(f, q, Len(f)))

HasFragment(command) ==
    \E f \in DENIED_FRAGMENTS, i \in DOMAIN command :
        <<command[i], f>> \in Hidden \/ StandsAt(f, command, i)

Blocked(command) ==
    \/ \E p \in BlockedPrefixes : IsPrefix(p, Normalized(command))
    \/ \E g \in BlockedGoals :
         Len(command) >= 2 /\ Lower(command[1]) = g[1] /\ StartsWith(command[2], Tail(g))

\* Variant of Refused: the fragments are not looked for.
RefusedByName(command) ==
    \/ command = <<>>
    \/ Lower(command[1]) \in DENIED_EXECUTABLES
    \/ Blocked(command)

\* What is refused whatever the rest of the policy says.
Refused(command) ==
    \/ command = <<>>
    \/ Lower(command[1]) \in DENIED_EXECUTABLES
    \/ HasFragment(command)
    \/ Blocked(command)

NodeTest(command, allow) ==
    \/ Tail(command) = <<"--test">> /\ allow
    \/ Len(command) = 3 /\ command[2] = "--test" /\ command[3] \in Generated.mjs

Pytest(command, allow) ==
    \/ Len(command) = 2 /\ command[2] \in Generated.py
    \/ Tail(command) \in {<<>>, <<"tests">>, <<".">>} /\ allow

\* Variant of ProjectTest: the gradle profile is not known to the policy.
ProjectTestFew(command, allow) ==
    Normalized(command) \in AllowedShapes \ {<<"gradle", "test", "--offline">>} /\ allow

ProjectTest(command, allow) == Normalized(command) \in AllowedShapes /\ allow

\* Git's own words are compared as they stand.
Inspection(command) ==
    \/ Lower(command[1]) \in {"python", "python3"} /\ Tail(command) \in {<<"--version">>, <<"-V">>}
    \/ \E sub \in {"diff", "status"} : IsPrefix(<<"git", sub>>, command)

check_command(command, allow) ==
    /\ ~Refused(command)
    /\ CASE Lower(command[1]) = "node" -> NodeTest(command, allow)
         [] Lower(command[1]) = "pytest" -> Pytest(command, allow)
         [] OTHER -> ProjectTest(command, allow) \/ Inspection(command)
=============================================================================
