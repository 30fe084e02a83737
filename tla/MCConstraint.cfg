SPECIFICATION Spec
CONSTANTS
    MaxInt = 2
    Texts <- MCTexts
    Samples <- MCSamples
INVARIANTS
    GrammarIsUnderstood
    AcceptsAnInterval
    OrderIsTotal
PROPERTIES
    UsesUpText
