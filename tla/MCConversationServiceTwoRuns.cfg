SPECIFICATION Spec

CONSTANTS
    Requests = {r1, r2}
    Old = Old
    None = None

SYMMETRY AnyOrder

INVARIANT OneGeneration

CHECK_DEADLOCK FALSE
