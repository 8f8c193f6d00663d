SPECIFICATION Spec
CONSTANTS
    Trees <- MCTrees
    Texts <- MCTexts
    Word <- MCWord
    Taggings <- MCTaggings
    OriginalFormat = "core/original-format"
    MaxDepth = 3
    MaxHops = 2
    Nothing = Nothing
INVARIANTS ReadersAgree MessageSurvives BrokenIsRefused TagsTell
CHECK_DEADLOCK FALSE
