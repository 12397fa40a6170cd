----------------------------- MODULE Ecosystems -----------------------------
(***************************************************************************)
(* core/ecosystem_scanner and the selection of verification profiles: what *)
(* a walk over the repository finds, and where the tests of each ecosystem *)
(* would be run.                                                           *)
(*                                                                         *)
(* A file is the directory it stands in and its name, or its suffix where  *)
(* the scanner looks at nothing else.  Frameworks are left out: they are   *)
(* shown, and nothing depends on them.                                     *)
(***************************************************************************)
EXTENDS Naturals, Sequences, FiniteSets, FiniteSetsExt

CONSTANTS
    DirOrder,   \* the directories, the root first, then by depth and path
    Ignored     \* those the walk does not enter

ASSUME EcosystemsAssumption ==
    Len(DirOrder) \in Nat \ {0} /\ DOMAIN DirOrder = 1..Len(DirOrder)

Dir == {DirOrder[i] : i \in DOMAIN DirOrder}
Root == DirOrder[1]

\* A profile is offered where one of the files `offer` is found; its tests are
\* run beside one of the manifests `beside`.
Profile(id, offer, beside, command) ==
    [id |-> id, offer |-> offer, beside |-> beside, command |-> command]

Python ==
    LET config == {"pyproject.toml", "setup.cfg", "setup.py", "pytest.ini"}
    IN  <<Profile("python-pytest", config \cup {"requirements.txt", "tox.ini", ".py"}, config, <<"pytest">>)>>

JsTs ==
    LET sources == {".js", ".jsx", ".ts", ".tsx", ".mjs", ".cjs"}
    IN  <<Profile("js-ts-node-test", {"package.json", "tsconfig.json", "jsconfig.json"} \cup sources,
                  {"package.json"}, <<"node", "--test">>)>>

Go == <<Profile("go-test", {"go.mod", "go.sum", ".go"}, {"go.mod"}, <<"go", "test", "./...">>)>>

Rust == <<Profile("rust-cargo-test", {"Cargo.toml", "Cargo.lock", ".rs"}, {"Cargo.toml"},
                  <<"cargo", "test", "--offline">>)>>

\* Sources alone, or settings, offer nothing to run.
JavaKotlin ==
    LET gradle == {"build.gradle", "build.gradle.kts"}
    IN  <<Profile("java-gradle-test", gradle, gradle, <<"gradle", "test", "--offline">>),
          Profile("java-maven-test", {"pom.xml"}, {"pom.xml"}, <<"mvn", "test", "-o">>)>>

DotNet ==
    LET projects == {".sln", ".csproj", ".fsproj", ".vbproj"}
    IN  <<Profile("dotnet-test", projects \cup {".cs", ".fs", ".vb"}, projects,
                  <<"dotnet", "test", "--no-restore">>)>>

Ruby == <<Profile("ruby-rspec", {"Gemfile", "Gemfile.lock"}, {"Gemfile"}, <<"bundle", "exec", "rspec">>)>>

Php ==
    LET config == {"composer.json", "phpunit.xml", "phpunit.xml.dist"}
    IN  <<Profile("php-phpunit", config \cup {"composer.lock", ".php"}, config, <<"vendor/bin/phpunit">>)>>

\* By ecosystem, then by id.
Profiles == DotNet \o Go \o JavaKotlin \o JsTs \o Php \o Python \o Ruby \o Rust

\* Links are passed over, so that no file outside the repository counts.
Walk(files) == {f \in files : f.dir \notin Ignored /\ ~f.link}

Detected(p, files) == \E f \in files : f.name \in p.offer

\* _manifest_workdir: the manifest nearest to the root, the root without one.
Workdir(p, files) ==
    LET at == {i \in DOMAIN DirOrder : \E f \in files : f.dir = DirOrder[i] /\ f.name \in p.beside}
    IN  IF at = {} THEN Root ELSE DirOrder[Min(at)]

\* What detect_ecosystems finds and the command line asks for ...
Offered(files, want) ==
    {i \in DOMAIN Profiles : Profiles[i].id \in want /\ Detected(Profiles[i], Walk(files))}

\* ... where each would run ...
Plan(i, files) ==
    [id |-> Profiles[i].id, command |-> Profiles[i].command, dir |-> Workdir(Profiles[i], Walk(files))]

\* ... and in which order: by ecosystem, then by id.  There is one.
Selections(files, want) ==
    LET I == Offered(files, want)
        Sorted == {seq \in [1..Cardinality(I) -> I] : \A m, n \in DOMAIN seq : m < n => seq[m] < seq[n]}
    IN  {[n \in DOMAIN seq |-> Plan(seq[n], files)] : seq \in Sorted}
=============================================================================
