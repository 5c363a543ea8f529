\* The managed block of an rc file: install, uninstall, monitor and user.
CONSTANTS
    Line = {u1, u2}
    Config = {old, new}
    Start = Start
    End = End
    Blank = Blank
    None = None
    MaxCommands = 2
    MaxEdits = 2
SPECIFICATION Spec
INVARIANTS LinesStay OneBlock
PROPERTIES MonitorRestores
CHECK_DEADLOCK FALSE
