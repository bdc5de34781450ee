SPECIFICATION MCSpec

CONSTANTS
    Requests = {r1, r2}
    Old = Old
    None = None
    MaxKills = 2
    Sender = r1

PROPERTY TerminalMeansWritten

CHECK_DEADLOCK FALSE
