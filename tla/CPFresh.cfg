\* Reads see the store: the reconciler against a strongly consistent API.
CONSTANTS
    StaleReads = FALSE
    MaxCreates <- MCMaxCreates
    MaxEdits <- MCMaxEdits
SPECIFICATION Spec
INVARIANTS
    TypeOK
    FinalizerSafety
    RolesOutliveBindings
    AtMostOneChild
PROPERTIES
    TeardownRefined
    Converges
    DeletionCompletes
