SPECIFICATION Spec
CONSTANTS
    Procs = {p1, p2}
    Dirs <- TopDir
    Parent <- TopParent
    TypedLines <- PlainLines
    MaxCommands = 4
    Crashes = FALSE
INVARIANTS
    EndedIsLogged
