\* A srcset candidate that ends in a comma hides the one after it.
SPECIFICATION Spec
CONSTANTS
    Pieces = {"assets", "realm", ",", " "}
    Bare = TRUE
    MaxPieces = 6
    MaxDepth = 1
CHECK_DEADLOCK FALSE
INVARIANTS
    RootRelativeRejected
