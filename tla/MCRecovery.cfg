SPECIFICATION MCSpec

CONSTANTS
    Requests = {r1, r2}
    Old = Old
    None = None
    MaxKills = 2
    Sender = r1

INVARIANTS
    PartialReplyKept
    

PROPERTIES
    BootEnds

CHECK_DEADLOCK FALSE
