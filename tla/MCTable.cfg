SPECIFICATION Spec
CONSTANTS
    Objects = {o1, o2, o3}
    Connections = {c1, c2}
    Lines = {l1, l2}
    NULL = NULL
SYMMETRY Symmetry
CHECK_DEADLOCK FALSE
INVARIANTS
    OneOwner
    LostOnlyIfDisturbed
PROPERTY
    CutOffOnlyUnasked
