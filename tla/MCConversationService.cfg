SPECIFICATION Spec

CONSTANTS
    Requests = {r1, r2}
    Old = Old
    None = None

INVARIANTS
    CopyIsCurrent
    QuestionKept
    IndexFollowsTheFile

PROPERTIES
    RenameIsFinal
    DeletedStaysDeleted
    NothingStaysBusy

CHECK_DEADLOCK FALSE
