SPECIFICATION Spec
CONSTANTS
    Jobs = {"j1", "j2"}
    Tasks = {"backup"}
    Companion = "wordlist"
    Seconds = {1, 2}
    Handlers = {"h1", "h2"}
    MaxOps = 3
INVARIANTS
    TypeOK
    RunsWhatIsStored
    CompanionHasScan
