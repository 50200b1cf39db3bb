CONSTANTS
    States = {"pending", "running", "failed"}
    InitialState = "pending"
    TerminalStates <- OneTerminal
    MaxOut = 3
    NoState = "none"
    Undefined = "undefined"
SPECIFICATION ConfigSpec
INVARIANTS
    SearchesAreRight
    LoopsAreFound
