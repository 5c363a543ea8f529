\* The prompt log: a program writes and is restarted, webui cleans up and reads.
CONSTANTS
    e1 = e1
    e3 = e3
    Program = {icap}
    Entry = {e1, e3}
    Long = {e3}
    None = None
    Torn = Torn
    Size <- MCSize
    MaxSize = 2
    MaxFiles = 1
    MaxDays = 2
    MaxTime = 3
    MaxStarts = 2
    MaxFailures = 1
SPECIFICATION Spec
PROPERTIES OldFilesGo
INVARIANTS EntriesAccountedFor
CHECK_DEADLOCK FALSE
