SPECIFICATION Spec
CONSTANTS
    Schemes <- MCSchemes
    Names <- MCNames
    Paths <- MCPaths
    Typed <- MCTyped
    Invalid = Invalid
    Nobody = Nobody
INVARIANTS RequestOK KindsDiffer
PROPERTIES ComesHome
CHECK_DEADLOCK FALSE
