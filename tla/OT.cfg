SPECIFICATION Spec
CONSTANTS
    Docs <- MCDocs
    Texts <- MCTexts
    Char = {1, 2}
    MaxText = 4
INVARIANTS
    FollowMerges
    ComposeAgrees
    ResultsValid
    ScreenFollowsModel
    DiffReproduces
    DiffMinimal
CHECK_DEADLOCK FALSE
