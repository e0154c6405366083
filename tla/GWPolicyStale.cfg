\* Reads see the store; a replaced DataPlane or ControlPlane leaves the
\* NetworkPolicy selecting the old one.
CONSTANTS
    StaleReads = FALSE
    ChildRemovals = TRUE
    Resync = TRUE
    MaxCreates <- MCMaxCreates
    MaxDisturb <- MCMaxDisturb
    Classes <- MCServedClass
SPECIFICATION Spec
PROPERTIES
    GatewayConverges
