SPECIFICATION Spec
CONSTANTS
    Procs = {p1}
    Dirs <- TopDir
    Parent <- TopParent
    TypedLines <- CommentLines
    MaxCommands = 4
    Crashes = FALSE
INVARIANTS
    CommentIsLogged
