\* Reads see the store; DataPlanes and ControlPlanes may be deleted by
\* someone else while the Gateway lives.
CONSTANTS
    StaleReads = FALSE
    ChildRemovals = TRUE
    Resync = TRUE
    MaxCreates <- MCMaxCreates
    MaxDisturb <- MCMaxDisturb
    Classes <- MCServedClass
SPECIFICATION Spec
INVARIANTS
    TokensGuardChildren
    AtMostOneChild
    ProgrammedHasAddress
PROPERTIES
    TeardownRefined
    TeardownOrdered
    DeletionCompletes
