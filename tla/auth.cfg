SPECIFICATION Spec
CONSTANTS
    Requests = {r1, r2}
    Tokens = {t1, t2}
    Names = {plain, opaque, unfit}
    Opaque = {opaque}
    Unfit = {unfit}
    NoToken = NoToken
    NoName = NoName
SYMMETRY Symmetry
INVARIANTS CallerIsTokenOwner NameIsThere
CHECK_DEADLOCK FALSE
