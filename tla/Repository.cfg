SPECIFICATION Spec
CONSTANTS
    Procs = {p1, p2}
    Dirs <- TopDir
    Parent <- TopParent
    TypedLines <- AllLines
    MaxCommands = 4
    Crashes = TRUE
INVARIANTS
    TypeOK
    HeaderFirst
    LoggedWasDone
    DoneIsLogged
    InstalledOnce
PROPERTIES
    LogOnlyGrows
