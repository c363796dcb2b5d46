SPECIFICATION Spec
CONSTANTS
    Procs = {p1}
    Dirs <- BothDirs
    Parent <- BothParent
    TypedLines <- PlainLines
    MaxCommands = 4
    Crashes = FALSE
INVARIANTS
    DoneIsInRepoLog
