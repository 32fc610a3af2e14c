SPECIFICATION Spec
CONSTANTS
    Jobs = {"j1", "j2"}
    Tasks = {"backup"}
    Companion = "wordlist"
    Seconds = {1, 2}
    Handlers = {"h1"}
    MaxOps = 2
PROPERTIES
    RestartKeepsScans
