CONSTANTS
    Sizes <- MCSizes
    Methods = {"deflate", "store"}
SPECIFICATION Spec
INVARIANT TypeOK
INVARIANT FutureReadersNeverFull
INVARIANT LoopMatchesReference
