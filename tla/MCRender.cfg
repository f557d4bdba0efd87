SPECIFICATION RenderSpec
CONSTANTS
    Kinds <- MCKinds
    Plain = "plain"
    LineLengths <- MCLengths
    TokenLists <- MCTokenLists
INVARIANTS
    TextPreserved
    ColorsAreTokens
    LosesOnlyToOverlap
