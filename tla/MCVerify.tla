------------------------------ MODULE MCVerify ------------------------------
(* A few repositories of two or three ecosystems, with manifests in the root, *)
(* in a directory, in both, or nowhere; and the words of the commands.       *)
EXTENDS Verify, TLC

CONSTANTS root, sub, modules

MCDirs == <<root, sub, modules>>
File1(d, n) == [dir |-> d, name |-> n, link |-> FALSE]
MCRepos ==
    {{File1(root, "pyproject.toml"), File1(sub, "pytest.ini"), File1(sub, "package.json"),
      File1(modules, "package.json")},
     {File1(root, "tsconfig.json"), File1(sub, "package.json"),
      [dir |-> root, name |-> "pom.xml", link |-> TRUE]},
     {File1(sub, "build.gradle"), File1(root, "settings.gradle"), File1(root, ".ruby-version")},
     {File1(root, ".go"), File1(sub, "go.mod"), File1(sub, "Cargo.lock")},
     {File1(sub, ".csproj"), File1(root, "composer.lock")},
     {File1(sub, "pom.xml"), File1(root, "Gemfile.lock"), File1(modules, "go.mod")},
     {File1(root, ".kt"), File1(modules, ".py")}}
MCOptions == [want : {ProfileId, {"js-ts-node-test", "go-test"}}, run : BOOLEAN, allow : BOOLEAN]
MCGenerated == [py |-> {"probe.py", "mkfs.py"}, mjs |-> {"probe.mjs"}]
MCHidden == {<<"mkfs.py", <<"mkfs">>>>, <<"a rm -rf b", <<"rm", "-rf">>>>}
MCEnding == {<<"alarm", <<"rm">>>>}
MCStarting == {<<"-rfv", <<"-rf">>>>}
MCCapital == [Go |-> "go", Git |-> "git", Pytest |-> "pytest", Cat |-> "cat", Test |-> "test"]
=============================================================================
