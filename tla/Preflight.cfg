\* Login pages of seven kinds, and links of every kind in and out of templates.
SPECIFICATION PreflightSpec
CONSTANTS
    Vocabularies <- MCVocabularies
    Pieces <- MCPieces
    Bare = FALSE
    MaxPieces = 6
    LinkDepth = 2
CHECK_DEADLOCK FALSE
INVARIANTS
    OnePostForm
    ControlsSubmitOnce
    NoOverride
    RealmRelativeOnly
    NamespacesAgree
