\* Reads see the store; nobody else removes the Gateway's children; the class
\* and its GatewayConfiguration start in any state and may be edited.
CONSTANTS
    StaleReads = FALSE
    ChildRemovals = FALSE
    Resync = TRUE
    MaxCreates <- MCMaxCreates
    MaxDisturb <- MCMaxDisturb
    Classes <- MCOurClasses
SPECIFICATION Spec
INVARIANTS
    TypeOK
    TokensGuardChildren
    AtMostOneChild
    ProgrammedHasAddress
PROPERTIES
    TeardownRefined
    TeardownOrdered
    GatewayConverges
    DeletionCompletes
