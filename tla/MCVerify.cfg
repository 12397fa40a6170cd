SPECIFICATION FairSpec
CONSTANTS
    root = root
    sub = sub
    modules = modules
    DirOrder <- MCDirs
    Ignored = {modules}
    Capital <- MCCapital
    Hidden <- MCHidden
    Ending <- MCEnding
    Starting <- MCStarting
    Generated <- MCGenerated
    Word = {"node", "pytest", "Pytest", "go", "Go", "gradle", "bundle", "vendor/bin/phpunit",
            "python", "git", "Git", "Cat", "rm", "sudo", "--test", "--version", "--offline",
            "test", "tests", "./...", "exec", "rspec", "install", "status", ".env", "-rf", "mkfs",
            "alarm", "-rfv", "Test", "probe.py", "mkfs.py", "probe.mjs", "a rm -rf b"}
    MaxWords = 3
    Repos <- MCRepos
    Options <- MCOptions
    MaxEdits = 2
    MaxRuns = 1
INVARIANTS
    TypeOK
    ProfilesAccounted
    ExitTellsTruth
    TestsWereAllowed
    NoProfileBlocked
    PolicyAsDocumented
PROPERTIES
    CommandEnds
CHECK_DEADLOCK FALSE
