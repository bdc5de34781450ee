SPECIFICATION Spec

CONSTANTS
    None = None
    Observers = {o1}
    ReplayEvents = 2
    MaxChunks = 2
    MaxDrops = 2

INVARIANTS
    ReplayWindow
    DoneMeansStored
    NoSilentGap

PROPERTIES
    EveryObserverSettles
    ImplementsReply

CHECK_DEADLOCK FALSE
